-------------------------------- MODULE RwLock --------------------------------
(***************************************************************************)
(* The read-write lock (thread/locking/rwlock.c), as it is written: the    *)
(* reader that takes a free lock is not counted, readers is an unsigned    *)
(* integer that wraps, and the writer that ends a batch of readers has     *)
(* already been taken off the queue.  A critical section of rwlock->lock   *)
(* is one step.                                                            *)
(***************************************************************************)
EXTENDS Integers, Sequences, FiniteSets

CONSTANTS
  Lockers,
  SizeModulus   \* size_t wraps here; more than the number of tasks

ASSUME RwLockAssumption ==
  IsFiniteSet(Lockers) /\ SizeModulus \in Nat /\ SizeModulus > Cardinality(Lockers) + 1

VARIABLES
  state,        \* rwlock->state: "free", "read" or "write"
  readers,      \* rwlock->readers
  rw_queue,     \* rwlock->sleep_queue: nodes [task, writing]
  rwpc          \* "out", "asleep", "reading" or "writing", per task

rwVars == <<state, readers, rw_queue, rwpc>>

RwNode(t, w) == [task |-> t, writing |-> w]
RwSleep(t, w) ==
  /\ rw_queue' = Append(rw_queue, RwNode(t, w))
  /\ rwpc' = [rwpc EXCEPT ![t] = "asleep"]

RwInit ==
  /\ state = "free" /\ readers = 0 /\ rw_queue = <<>>
  /\ rwpc = [t \in Lockers |-> "out"]

thread_rwlock_read(t) ==
  /\ rwpc[t] = "out"
  /\ \/ /\ state = "free"
        /\ state' = "read"
        /\ rwpc' = [rwpc EXCEPT ![t] = "reading"]
        /\ UNCHANGED <<readers, rw_queue>>
     \/ /\ state = "read" /\ rw_queue = <<>>
        /\ readers' = (readers + 1) % SizeModulus
        /\ rwpc' = [rwpc EXCEPT ![t] = "reading"]
        /\ UNCHANGED <<state, rw_queue>>
     \/ /\ state = "write" \/ (state = "read" /\ rw_queue # <<>>)
        /\ RwSleep(t, FALSE)
        /\ UNCHANGED <<state, readers>>

thread_rwlock_write(t) ==
  /\ rwpc[t] = "out"
  /\ \/ /\ state = "free"
        /\ state' = "write"
        /\ rwpc' = [rwpc EXCEPT ![t] = "writing"]
        /\ UNCHANGED <<readers, rw_queue>>
     \/ /\ state # "free"
        /\ RwSleep(t, TRUE)
        /\ UNCHANGED <<state, readers>>

(***************************************************************************)
(* The readers at the front of the queue are woken together; the node that *)
(* ended the batch has been dequeued and is dropped.                       *)
(***************************************************************************)
FirstWriter(q) ==
  CHOOSE i \in 1..(Len(q) + 1) :
    /\ i = Len(q) + 1 \/ q[i].writing
    /\ \A j \in 1..(i - 1) : ~q[j].writing

(* Faulty variant: the task that is woken up stays in the queue. *)
PassOnWithoutDequeue(t) ==
  \/ /\ rw_queue = <<>>
     /\ state' = "free"
     /\ rwpc' = [rwpc EXCEPT ![t] = "out"]
     /\ UNCHANGED rw_queue
  \/ /\ rw_queue # <<>>
     /\ state' = IF Head(rw_queue).writing THEN "write" ELSE "read"
     /\ rwpc' = [rwpc EXCEPT ![t] = "out", ![Head(rw_queue).task] = "writing"]
     /\ UNCHANGED rw_queue

(* thread_rwlock_unlock, once the last reader or the writer is out. *)
PassOn(t) ==
  LET left == [rwpc EXCEPT ![t] = "out"]
      i == FirstWriter(rw_queue)
      batch == {rw_queue[j].task : j \in 1..(i - 1)}
  IN
  \/ /\ rw_queue = <<>>
     /\ state' = "free"
     /\ rwpc' = left
     /\ UNCHANGED rw_queue
  \/ /\ rw_queue # <<>> /\ Head(rw_queue).writing
     /\ state' = "write"
     /\ rwpc' = [left EXCEPT ![Head(rw_queue).task] = "writing"]
     /\ rw_queue' = Tail(rw_queue)
  \/ /\ rw_queue # <<>> /\ ~Head(rw_queue).writing
     /\ state' = "read"
     /\ rwpc' = [u \in Lockers |-> IF u \in batch THEN "reading" ELSE left[u]]
     /\ rw_queue' = SubSeq(rw_queue, i + 1, Len(rw_queue))

(* What readers becomes, when it was n before the next tasks are woken. *)
ReadersAfter(n) ==
  IF rw_queue # <<>> /\ ~Head(rw_queue).writing
  THEN FirstWriter(rw_queue) - 1 ELSE n

(* readers-- on a size_t. *)
Decrement(n) == (n - 1) % SizeModulus

thread_rwlock_unlock(t) ==
  LET left == Decrement(readers) IN
  /\ rwpc[t] \in {"reading", "writing"}
  /\ \/ /\ state = "read" /\ left # 0
        /\ readers' = left
        /\ rwpc' = [rwpc EXCEPT ![t] = "out"]
        /\ UNCHANGED <<state, rw_queue>>
     \/ /\ state = "read" /\ left = 0
        /\ readers' = ReadersAfter(0)
        /\ PassOn(t)
     \/ /\ state # "read"
        /\ readers' = ReadersAfter(readers)
        /\ PassOn(t)

RwNext ==
  \E t \in Lockers :
    thread_rwlock_read(t) \/ thread_rwlock_write(t) \/ thread_rwlock_unlock(t)

RwSpec == RwInit /\ [][RwNext]_rwVars

(* A task does not keep the lock for ever. *)
RwFairSpec == RwSpec /\ \A t \in Lockers : WF_rwVars(thread_rwlock_unlock(t))

-----------------------------------------------------------------------------
RwTypeOK ==
  /\ state \in {"free", "read", "write"}
  /\ readers \in 0..(SizeModulus - 1)
  /\ rw_queue \in Seq([task : Lockers, writing : BOOLEAN])
  /\ rwpc \in [Lockers -> {"out", "asleep", "reading", "writing"}]

(***************************************************************************)
(* A node lies on the stack of a task that sleeps, and is linked once: no  *)
(* task runs, or sleeps a second time, with its node still in the queue.   *)
(***************************************************************************)
NodesOfSleepers ==
  /\ \A i \in DOMAIN rw_queue : rwpc[rw_queue[i].task] = "asleep"
  /\ \A i, j \in DOMAIN rw_queue :
       rw_queue[i].task = rw_queue[j].task => i = j

(***************************************************************************)
(* The queue of a read-write lock is sound, even though the count of       *)
(* readers is not: it wraps around like a size_t (thread_rwlock_unlock).   *)
(***************************************************************************)
RwQueueExact == RwTypeOK /\ NodesOfSleepers

(***************************************************************************)
(* The note at the head of rwlock.h: "This particular read-write lock      *)
(* implementation ensures that writers would not starve".                  *)
(***************************************************************************)
RwQueued(t) == \E i \in DOMAIN rw_queue : rw_queue[i] = RwNode(t, TRUE)
WritersDoNotStarve == \A t \in Lockers : RwQueued(t) ~> rwpc[t] = "writing"
=============================================================================
