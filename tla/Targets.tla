-------------------------------- MODULE Targets --------------------------------
(***************************************************************************)
(* The initialisation targets (lib/target.c): target_compute_plan resolves *)
(* the dependencies of a target with an explicit stack, and                *)
(* target_execute_plan runs the callbacks of the plan in order.            *)
(* kernel_init does both for userspace_available, and a profiling kernel   *)
(* for profiling_available before; what the first plan has resolved stays  *)
(* resolved.                                                               *)
(***************************************************************************)
EXTENDS Naturals, Sequences

CONSTANTS
  Targets,       \* the struct target objects
  DepLists,      \* the dependency arrays a target may have
  MaxPlans       \* 1, or 2 in a profiling kernel

ASSUME TargetsAssumption == DepLists \subseteq Seq(Targets) /\ MaxPlans \in Nat

VARIABLES
  deps,          \* target->deps
  dep_index,     \* target->dep_index: the dependencies looked at
  resolved,      \* the targets with target->resolved
  unfinished,    \* the list "stack", through next_to_be_visited
  plan,          \* the lists that the plans return, one after the other
  ran,           \* how many callbacks of the plan have run
  plans,         \* how many plans were begun
  tphase         \* "idle", "resolve", "execute" or "panic"

targetVars == <<deps, dep_index, resolved, unfinished, plan, ran, plans, tphase>>

TargetsInit ==
  /\ deps \in [Targets -> DepLists]
  /\ dep_index = [t \in Targets |-> 0]
  /\ resolved = {} /\ unfinished = <<>> /\ plan = <<>>
  /\ ran = 0 /\ plans = 0
  /\ tphase = "idle"

(* kernel_init asks for a target that no earlier plan has reached. *)
target_compute_plan(t) ==
  /\ tphase = "idle" /\ plans < MaxPlans /\ t \notin resolved
  /\ plans' = plans + 1
  /\ unfinished' = <<t>>
  /\ tphase' = "resolve"
  /\ UNCHANGED <<deps, dep_index, resolved, plan, ran>>

(* All dependencies of the target on top were looked at: it joins the plan. *)
Resolve ==
  /\ tphase = "resolve" /\ unfinished # <<>>
  /\ LET tos == Head(unfinished) IN
     /\ dep_index[tos] = Len(deps[tos])
     /\ resolved' = resolved \cup {tos}
     /\ plan' = Append(plan, tos)
  /\ unfinished' = Tail(unfinished)
  /\ UNCHANGED <<deps, dep_index, ran, plans, tphase>>

(* Faulty variant: a dependency that was looked at counts as resolved. *)
VisitTrusting ==
  /\ tphase = "resolve" /\ unfinished # <<>>
  /\ LET tos == Head(unfinished)
         n   == dep_index[tos] + 1
         dependency == deps[tos][n] IN
     /\ n <= Len(deps[tos])
     /\ dep_index' = [dep_index EXCEPT ![tos] = n]
     /\ unfinished' = IF dependency \in resolved \/ dep_index[dependency] # 0
                      THEN unfinished ELSE <<dependency>> \o unfinished
  /\ UNCHANGED <<deps, resolved, plan, ran, plans, tphase>>

(***************************************************************************)
(* The next dependency of the target on top: it is skipped when it is      *)
(* resolved, a circle when it was begun and is not resolved, and goes on   *)
(* top otherwise.                                                          *)
(***************************************************************************)
VisitDependency ==
  /\ tphase = "resolve" /\ unfinished # <<>>
  /\ LET tos == Head(unfinished)
         n   == dep_index[tos] + 1
         dependency == deps[tos][n] IN
     /\ n <= Len(deps[tos])
     /\ dep_index' = [dep_index EXCEPT ![tos] = n]
     /\ \/ dependency \in resolved /\ UNCHANGED <<unfinished, tphase>>
        \/ /\ dependency \notin resolved
           /\ dep_index'[dependency] # 0
           /\ tphase' = "panic"
           /\ UNCHANGED unfinished
        \/ /\ dependency \notin resolved
           /\ dep_index'[dependency] = 0
           /\ unfinished' = <<dependency>> \o unfinished
           /\ UNCHANGED tphase
  /\ UNCHANGED <<deps, resolved, plan, ran, plans>>

PlanComputed ==
  /\ tphase = "resolve" /\ unfinished = <<>>
  /\ tphase' = "execute"
  /\ UNCHANGED <<deps, dep_index, resolved, unfinished, plan, ran, plans>>

target_execute_plan ==
  /\ tphase = "execute"
  /\ ran' = IF ran < Len(plan) THEN ran + 1 ELSE ran
  /\ tphase' = IF ran < Len(plan) THEN "execute" ELSE "idle"
  /\ UNCHANGED <<deps, dep_index, resolved, unfinished, plan, plans>>

TargetsNext ==
  \/ \E t \in Targets : target_compute_plan(t)
  \/ Resolve \/ VisitDependency \/ PlanComputed \/ target_execute_plan

TargetsSpec == TargetsInit /\ [][TargetsNext]_targetVars

-----------------------------------------------------------------------------
DepsOf(t) == {deps[t][i] : i \in DOMAIN deps[t]}

(***************************************************************************)
(* Everything a target depends on comes before it in the plan, whatever    *)
(* the graph of dependencies: a callback runs after the callbacks it needs *)
(* (target_execute_plan), those of an earlier plan included.               *)
(***************************************************************************)
DepsFirst ==
  \A i \in DOMAIN plan : \A d \in DepsOf(plan[i]) :
    \E j \in DOMAIN plan : j < i /\ plan[j] = d

(***************************************************************************)
(* No callback runs twice, in one plan or in two (target_compute_plan      *)
(* appends each target once; tail->next of a repeated one would close the  *)
(* list into a ring).                                                      *)
(***************************************************************************)
PlannedOnce == \A i, j \in DOMAIN plan : plan[i] = plan[j] => i = j

(* Every target of S depends on one of S: there is a circle within S. *)
Circular(S) == S # {} /\ \A t \in S : DepsOf(t) \cap S # {}

(***************************************************************************)
(* The panic "Circular dependency" tells the truth: there is a circle of   *)
(* targets none of which is resolved.                                      *)
(***************************************************************************)
PanicIsRight ==
  tphase = "panic" => \E S \in SUBSET (Targets \ resolved) : Circular(S)

(***************************************************************************)
(* A plan is right or refused for a reason: it has every target once and   *)
(* behind its dependencies, and planning panics only for a real circle,    *)
(* for any graph and also when an earlier plan has left targets resolved   *)
(* (target_compute_plan).                                                  *)
(***************************************************************************)
PlanExact == DepsFirst /\ PlannedOnce /\ PanicIsRight
=============================================================================
