-------------------------------- MODULE Balancer --------------------------------
(***************************************************************************)
(* New tasks are put on the least busy core (thread/tasking/balancer.c),   *)
(* by threads that scan the loads of the groups of cores one after the     *)
(* other, without a lock, while others insert and remove tasks             *)
(* (thread/smp/topology.c).  The topology is flat: one group for each      *)
(* core, all in one ring, and no domain has a parent.  So the choice of a  *)
(* core in a group is no choice, and an update changes one count.  The     *)
(* groups include the cores that never came up; that such a core joins     *)
(* later (SmpBringup) is left out.                                         *)
(***************************************************************************)
EXTENDS Integers, FiniteSets

CONSTANTS
  CoreCount,    \* thread_smp_core_max_cpus
  BootCore,     \* logical id of the boot processor
  Allocators,   \* threads that create tasks
  MaxAllocated  \* bound on the tasks created

CoreIds == 0..(CoreCount - 1)

ASSUME BalancerAssumption ==
  /\ CoreCount \in Nat \ {0} /\ BootCore \in CoreIds
  /\ IsFiniteSet(Allocators) /\ Allocators # {}
  /\ MaxAllocated \in Nat

VARIABLES
  tasks_count,  \* core -> tasks_count of its group
  up,           \* cores that are online
  alloc,        \* thread -> its call in progress
  placed,       \* core -> tasks its scheduler was given and that have not ended
  ending,       \* core -> those of them that are about to end
  allocated,    \* number of calls
  ended         \* has any task ended? (not in the code)
balVars == <<tasks_count, up, alloc, placed, ending, allocated, ended>>

NoCall == [at |-> "none", root |-> 0, current |-> 0, result |-> 0, load |-> -1]

(* The boot code counts as a task of its core. *)
thread_smp_build_topology_flat == [c \in CoreIds |-> IF c = BootCore THEN 1 ELSE 0]

BalInit ==
  /\ tasks_count = thread_smp_build_topology_flat
  /\ up \in {s \in SUBSET CoreIds : BootCore \in s}
  /\ alloc = [t \in Allocators |-> NoCall]
  /\ placed = [c \in CoreIds |-> 0] /\ ending = [c \in CoreIds |-> 0]
  /\ allocated = 0 /\ ended = FALSE

(* The next group of the ring. *)
NextGroup(c) == IF c = CoreCount - 1 THEN 0 ELSE c + 1

(* thread_balancer_allocate_to_any, on any core: the root is its own group. *)
AllocateToAny(t) ==
  /\ alloc[t].at = "none" /\ allocated < MaxAllocated
  /\ \E c \in up : alloc' = [alloc EXCEPT ![t] =
       [at |-> "scan", root |-> c, current |-> c, result |-> 0, load |-> -1]]
  /\ allocated' = allocated + 1
  /\ UNCHANGED <<tasks_count, up, placed, ending, ended>>

(* Faulty variant: the comparison is the other way round. *)
LookForBusiest(t) ==
  LET a == alloc[t]
      better == a.load = -1 \/ a.load < tasks_count[a.current]
  IN  /\ a.at = "scan"
      /\ alloc' = [alloc EXCEPT ![t] =
           [at |-> IF NextGroup(a.current) = a.root THEN "insert" ELSE "scan",
            root |-> a.root,
            current |-> NextGroup(a.current),
            result |-> IF better THEN a.current ELSE a.result,
            load |-> IF better THEN tasks_count[a.current] ELSE a.load]]
      /\ UNCHANGED <<tasks_count, up, placed, ending, allocated, ended>>

(* One turn of the loop loads one count.  A load of -1: there is no result yet. *)
thread_balancer_least_busy_group(t) ==
  LET a == alloc[t]
      better == a.load = -1 \/ a.load > tasks_count[a.current]
  IN  /\ a.at = "scan"
      /\ alloc' = [alloc EXCEPT ![t] =
           [at |-> IF NextGroup(a.current) = a.root THEN "insert" ELSE "scan",
            root |-> a.root,
            current |-> NextGroup(a.current),
            result |-> IF better THEN a.current ELSE a.result,
            load |-> IF better THEN tasks_count[a.current] ELSE a.load]]
      /\ UNCHANGED <<tasks_count, up, placed, ending, allocated, ended>>

(* The only core of the group, the load of which does not matter. *)
thread_balancer_least_busy_core(group) == group

(* thread_localsched_associate up to the wake-up. *)
thread_smp_topology_update_on_insert(t) ==
  LET id == thread_balancer_least_busy_core(alloc[t].result)
  IN  /\ alloc[t].at = "insert"
      /\ tasks_count' = [tasks_count EXCEPT ![id] = @ + 1]
      /\ alloc' = [alloc EXCEPT ![t].at = "wake"]
      /\ UNCHANGED <<up, placed, ending, allocated, ended>>

(* thread_localsched_wake_up.  The queue and the lock of a core that is not *)
(* online were never set up: the call comes back or it does not.            *)
WakeUp(t) ==
  LET id == alloc[t].result
  IN  /\ alloc[t].at = "wake"
      /\ \/ /\ placed' = [placed EXCEPT ![id] = @ + 1]
            /\ alloc' = [alloc EXCEPT ![t] = NoCall]
         \/ /\ id \notin up
            /\ alloc' = [alloc EXCEPT ![t].at = "hung"]
            /\ UNCHANGED placed
      /\ UNCHANGED <<tasks_count, up, ending, allocated, ended>>

(* thread_localsched_terminate: the group first ... *)
thread_smp_topology_update_on_remove(c) ==
  /\ c \in up /\ ending[c] < placed[c]
  /\ tasks_count' = [tasks_count EXCEPT ![c] = @ - 1]
  /\ ending' = [ending EXCEPT ![c] = @ + 1] /\ ended' = TRUE
  /\ UNCHANGED <<up, alloc, placed, allocated>>

(* ... and then the termination handler. *)
Terminated(c) ==
  /\ ending[c] > 0
  /\ ending' = [ending EXCEPT ![c] = @ - 1] /\ placed' = [placed EXCEPT ![c] = @ - 1]
  /\ UNCHANGED <<tasks_count, up, alloc, allocated, ended>>

BalNext ==
  \/ \E t \in Allocators :
       \/ AllocateToAny(t) \/ thread_balancer_least_busy_group(t)
       \/ thread_smp_topology_update_on_insert(t) \/ WakeUp(t)
  \/ \E c \in CoreIds : thread_smp_topology_update_on_remove(c) \/ Terminated(c)

BalSpec == BalInit /\ [][BalNext]_balVars

-----------------------------------------------------------------------------
(* Threads whose task is counted and not in the queue. *)
Counted(c) == {t \in Allocators : alloc[t].at \in {"wake", "hung"} /\ alloc[t].result = c}

(***************************************************************************)
(* The load of a group is the number of its tasks: those its core has, but *)
(* for the ones about to end, and those that are counted and not yet in    *)
(* its queue; the boot core has one more.  No count goes below zero, which *)
(* would make the core the busiest for ever (update_on_insert and          *)
(* update_on_remove, by any threads at the same time).                     *)
(***************************************************************************)
LoadsExact ==
  \A c \in CoreIds :
    /\ tasks_count[c] >= 0
    /\ tasks_count[c] = (IF c = BootCore THEN 1 ELSE 0) + (placed[c] - ending[c])
                        + Cardinality(Counted(c))

(***************************************************************************)
(* Although every thread chooses from loads that change while it reads     *)
(* them, and inserts its task some time after it has chosen, as long as no *)
(* task has ended the loads of two cores differ by no more than the number *)
(* of threads that create tasks (thread_balancer_least_busy_group).        *)
(***************************************************************************)
SpreadBounded ==
  ~ended => \A c, d \in CoreIds : tasks_count[c] <= tasks_count[d] + Cardinality(Allocators)

(***************************************************************************)
(* The loads are the numbers of tasks, and choosing by them keeps the      *)
(* cores even although the choice is stale when it is used.                *)
(***************************************************************************)
LoadsBalanced == LoadsExact /\ SpreadBounded
=============================================================================
