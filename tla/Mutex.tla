-------------------------------- MODULE Mutex --------------------------------
(***************************************************************************)
(* The sleeping mutex (thread/locking/mutex.c).  A critical section of     *)
(* mutex->lock is one step.  A task that finds the mutex taken puts a node *)
(* on its own stack into sleep_queue and is suspended; the scheduler       *)
(* releases mutex->lock once the task's context has been saved, so a       *)
(* wake-up cannot come too early.  The unlocking task does not clear taken *)
(* when somebody sleeps: it hands the mutex over.                          *)
(***************************************************************************)
EXTENDS Integers, Sequences, FiniteSets

CONSTANT Tasks

ASSUME MutexAssumption == IsFiniteSet(Tasks)

VARIABLES
  taken,        \* mutex->taken
  sleep_queue,  \* mutex->sleep_queue: the tasks of its nodes
  mxpc          \* "out", "asleep", "woken" or "in", per task

mutexVars == <<taken, sleep_queue, mxpc>>

MutexInit ==
  /\ taken = FALSE
  /\ sleep_queue = <<>>
  /\ mxpc = [t \in Tasks |-> "out"]

LockFree(t) ==
  /\ mxpc[t] = "out" /\ ~taken
  /\ taken' = TRUE
  /\ mxpc' = [mxpc EXCEPT ![t] = "in"]
  /\ UNCHANGED sleep_queue

LockSleep(t) ==
  /\ mxpc[t] = "out" /\ taken
  /\ sleep_queue' = Append(sleep_queue, t)
  /\ mxpc' = [mxpc EXCEPT ![t] = "asleep"]
  /\ UNCHANGED taken

(* The woken task runs again, and returns from thread_mutex_lock. *)
LockWoken(t) ==
  /\ mxpc[t] = "woken"
  /\ mxpc' = [mxpc EXCEPT ![t] = "in"]
  /\ UNCHANGED <<taken, sleep_queue>>

(* Faulty variant: the flag is cleared although a sleeper is woken up. *)
UnlockAndClear(t) ==
  /\ mxpc[t] = "in"
  /\ taken' = FALSE
  /\ sleep_queue' = IF sleep_queue = <<>> THEN <<>> ELSE Tail(sleep_queue)
  /\ mxpc' = IF sleep_queue = <<>> THEN [mxpc EXCEPT ![t] = "out"]
           ELSE [mxpc EXCEPT ![t] = "out", ![Head(sleep_queue)] = "woken"]

(* Faulty variant: the flag is cleared and nobody is woken up. *)
UnlockWithoutWaking(t) ==
  /\ mxpc[t] = "in"
  /\ taken' = FALSE
  /\ mxpc' = [mxpc EXCEPT ![t] = "out"]
  /\ UNCHANGED sleep_queue

thread_mutex_unlock(t) ==
  /\ mxpc[t] = "in"
  /\ IF sleep_queue = <<>>
     THEN /\ taken' = FALSE
          /\ mxpc' = [mxpc EXCEPT ![t] = "out"]
          /\ UNCHANGED sleep_queue
     ELSE /\ mxpc' = [mxpc EXCEPT ![t] = "out", ![Head(sleep_queue)] = "woken"]
          /\ sleep_queue' = Tail(sleep_queue)
          /\ UNCHANGED taken

thread_mutex_lock(t) == LockFree(t) \/ LockSleep(t) \/ LockWoken(t)

MutexNext == \E t \in Tasks : thread_mutex_lock(t) \/ thread_mutex_unlock(t)

MutexSpec == MutexInit /\ [][MutexNext]_mutexVars

(***************************************************************************)
(* A woken task is eventually run, and a task does not keep the mutex for  *)
(* ever.  Nobody has to lock.                                              *)
(***************************************************************************)
MutexFairness ==
  \A t \in Tasks : WF_mutexVars(LockWoken(t)) /\ WF_mutexVars(thread_mutex_unlock(t))
MutexFairSpec == MutexSpec /\ MutexFairness

-----------------------------------------------------------------------------
MutexTypeOK ==
  /\ taken \in BOOLEAN
  /\ sleep_queue \in Seq(Tasks)
  /\ mxpc \in [Tasks -> {"out", "asleep", "woken", "in"}]

(* The task that has the mutex, or was handed it and has not run yet. *)
MutexOwner(t) == mxpc[t] \in {"in", "woken"}

(***************************************************************************)
(* At most one task is between thread_mutex_lock and thread_mutex_unlock.  *)
(***************************************************************************)
MutualExclusion == \A t, u \in Tasks : mxpc[t] = "in" /\ mxpc[u] = "in" => t = u

(***************************************************************************)
(* taken says exactly whether somebody owns the mutex, and the tasks that  *)
(* sleep are exactly those of the queue, each of them once: no sleeper is  *)
(* left behind with a free mutex and no node is linked twice.              *)
(***************************************************************************)
QueueExact ==
  /\ taken <=> \E t \in Tasks : MutexOwner(t)
  /\ sleep_queue # <<>> => taken
  /\ \A t \in Tasks : mxpc[t] = "asleep" <=> \E i \in DOMAIN sleep_queue : sleep_queue[i] = t
  /\ \A i, j \in DOMAIN sleep_queue : sleep_queue[i] = sleep_queue[j] => i = j

(***************************************************************************)
(* First come, first served: a task that sleeps is overtaken by nobody who *)
(* came later.  Only the head of the queue is ever handed the mutex, and   *)
(* the fast path is closed as long as somebody sleeps.                     *)
(***************************************************************************)
NoOvertaking ==
  [][\A t \in Tasks :
       ~MutexOwner(t) /\ MutexOwner(t)' /\ sleep_queue # <<>> => t = Head(sleep_queue)]_mutexVars

(***************************************************************************)
(* Every task that went to sleep for the mutex gets it.                    *)
(***************************************************************************)
SleeperGetsMutex == \A t \in Tasks : mxpc[t] = "asleep" ~> mxpc[t] = "in"
=============================================================================
