------------------------------ MODULE LockProofs ------------------------------
(***************************************************************************)
(* The three locks of thread/locking, for every set of tasks or cores.     *)
(* Mutex: the queue of sleepers is exact, one task at a time holds the     *)
(* mutex, and nobody overtakes a sleeper.  Spinlock: mutual exclusion for  *)
(* every ticket width that has a ticket for each core, wrap-around         *)
(* included.  Read-write lock: the queue of sleepers is sound.             *)
(***************************************************************************)
EXTENDS Mutex, Spinlock, RwLock, QueueProofs, FiniteSetTheorems, FunctionTheorems,
        WellFoundedInduction

USE SMTT(20), ZenonT(20)

(***************************************************************************)
(* Mutex                                                                   *)
(***************************************************************************)
(* At most one task owns the mutex: what makes mutual exclusion inductive, *)
(* since a task that was handed the mutex owns it before it runs.          *)
OneOwner == \A t, u \in Tasks : MutexOwner(t) /\ MutexOwner(u) => t = u

(* The inductive invariant. *)
MutexIInv == MutexTypeOK /\ QueueExact /\ OneOwner

(***************************************************************************)
(* Initially nobody owns the mutex and nobody sleeps.                      *)
(***************************************************************************)
LEMMA MutexInitIInv == MutexInit => MutexIInv
<1>. SUFFICES ASSUME MutexInit PROVE MutexIInv
  OBVIOUS
<1>1. MutexTypeOK
  BY EmptySeq, Zenon DEF MutexInit, MutexTypeOK
<1>2. QueueExact
  BY DEF MutexInit, QueueExact, MutexOwner
<1>3. OneOwner
  BY DEF MutexInit, OneOwner, MutexOwner
<1>. QED
  BY <1>1, <1>2, <1>3 DEF MutexIInv

(***************************************************************************)
(* The fast path of thread_mutex_lock.                                     *)
(***************************************************************************)
LEMMA MutexLockFree == ASSUME NEW t \in Tasks, MutexIInv, LockFree(t) PROVE MutexIInv'
<1>1. MutexTypeOK'
  BY DEF MutexIInv, MutexTypeOK, LockFree
<1>2. \A u \in Tasks : MutexOwner(u)' <=> u = t
  BY DEF MutexIInv, MutexTypeOK, QueueExact, LockFree, MutexOwner
<1>3. QueueExact'
  BY <1>2 DEF MutexIInv, MutexTypeOK, QueueExact, LockFree, MutexOwner
<1>4. OneOwner'
  BY <1>2 DEF OneOwner
<1>. QED
  BY <1>1, <1>3, <1>4 DEF MutexIInv

(***************************************************************************)
(* The slow path: the task appends itself to the queue.                    *)
(***************************************************************************)
LEMMA MutexLockSleep == ASSUME NEW t \in Tasks, MutexIInv, LockSleep(t) PROVE MutexIInv'
<1>1. MutexTypeOK'
  BY DEF MutexIInv, MutexTypeOK, LockSleep
<1>2. \A u \in Tasks : MutexOwner(u)' <=> MutexOwner(u)
  BY DEF MutexIInv, MutexTypeOK, LockSleep, MutexOwner
<1>3. /\ DOMAIN sleep_queue = 1..Len(sleep_queue) /\ Len(sleep_queue) \in Nat
      /\ DOMAIN sleep_queue' = 1..(Len(sleep_queue) + 1)
      /\ \A i \in 1..Len(sleep_queue) : sleep_queue'[i] = sleep_queue[i]
      /\ sleep_queue'[Len(sleep_queue) + 1] = t
  BY DEF MutexIInv, MutexTypeOK, LockSleep
<1>4. \A i \in DOMAIN sleep_queue : sleep_queue[i] # t
  BY DEF MutexIInv, QueueExact, LockSleep
<1>5. (taken <=> \E u \in Tasks : MutexOwner(u))' /\ (sleep_queue # <<>> => taken)'
  BY <1>2 DEF MutexIInv, QueueExact, LockSleep
<1>6. \A u \in Tasks : mxpc'[u] = "asleep" <=> \E i \in DOMAIN sleep_queue' : sleep_queue'[i] = u
  <2>. TAKE u \in Tasks
  <2>1. CASE u = t
    BY <2>1, <1>3 DEF MutexIInv, MutexTypeOK, LockSleep
  <2>2. CASE u # t
    <3>1. mxpc'[u] = "asleep" <=> \E i \in DOMAIN sleep_queue : sleep_queue[i] = u
      BY <2>2 DEF MutexIInv, MutexTypeOK, QueueExact, LockSleep
    <3>2. (\E i \in DOMAIN sleep_queue : sleep_queue[i] = u)
            <=> \E i \in DOMAIN sleep_queue' : sleep_queue'[i] = u
      BY <2>2, <1>3
    <3>. QED
      BY <3>1, <3>2
  <2>. QED
    BY <2>1, <2>2
<1>7. \A i, j \in DOMAIN sleep_queue' : sleep_queue'[i] = sleep_queue'[j] => i = j
  BY <1>3, <1>4 DEF MutexIInv, QueueExact
<1>8. OneOwner'
  BY <1>2 DEF MutexIInv, OneOwner
<1>. QED
  BY <1>1, <1>5, <1>6, <1>7, <1>8 DEF MutexIInv, QueueExact

(***************************************************************************)
(* A woken task already owns the mutex.                                    *)
(***************************************************************************)
LEMMA MutexLockWoken == ASSUME NEW t \in Tasks, MutexIInv, LockWoken(t) PROVE MutexIInv'
<1>1. MutexTypeOK'
  BY DEF MutexIInv, MutexTypeOK, LockWoken
<1>2. \A u \in Tasks : MutexOwner(u)' <=> MutexOwner(u)
  BY DEF MutexIInv, MutexTypeOK, LockWoken, MutexOwner
<1>3. QueueExact'
  BY <1>2 DEF MutexIInv, MutexTypeOK, QueueExact, LockWoken
<1>4. OneOwner'
  BY <1>2 DEF MutexIInv, OneOwner
<1>. QED
  BY <1>1, <1>3, <1>4 DEF MutexIInv

(***************************************************************************)
(* thread_mutex_unlock frees the mutex, or hands it to the first sleeper.  *)
(***************************************************************************)
LEMMA MutexUnlock == ASSUME NEW t \in Tasks, MutexIInv, thread_mutex_unlock(t) PROVE MutexIInv'
<1>1. CASE sleep_queue = <<>>
  <2>1. MutexTypeOK'
    BY <1>1, Zenon DEF MutexIInv, MutexTypeOK, thread_mutex_unlock
  <2>2. \A u \in Tasks : ~MutexOwner(u)'
    BY <1>1 DEF MutexIInv, MutexTypeOK, OneOwner, thread_mutex_unlock, MutexOwner
  <2>3. QueueExact'
    BY <1>1, <2>2 DEF MutexIInv, MutexTypeOK, QueueExact, thread_mutex_unlock
  <2>. QED
    BY <2>1, <2>2, <2>3 DEF MutexIInv, OneOwner
<1>2. CASE sleep_queue # <<>>
  <2>. DEFINE h == Head(sleep_queue)
  <2>1. /\ h \in Tasks /\ sleep_queue' = Tail(sleep_queue) /\ sleep_queue' \in Seq(Tasks)
        /\ DOMAIN sleep_queue = 1..Len(sleep_queue) /\ Len(sleep_queue) \in Nat \ {0}
        /\ DOMAIN sleep_queue' = 1..(Len(sleep_queue) - 1)
        /\ \A i \in 1..(Len(sleep_queue) - 1) : sleep_queue'[i] = sleep_queue[i + 1]
        /\ sleep_queue[1] = h
    <3>1. sleep_queue \in Seq(Tasks) /\ sleep_queue' = Tail(sleep_queue)
      BY <1>2 DEF MutexIInv, MutexTypeOK, thread_mutex_unlock
    <3>2. /\ h \in Tasks /\ h = sleep_queue[1] /\ Tail(sleep_queue) \in Seq(Tasks)
          /\ DOMAIN sleep_queue = 1..Len(sleep_queue) /\ Len(sleep_queue) \in Nat \ {0}
          /\ DOMAIN Tail(sleep_queue) = 1..(Len(sleep_queue) - 1)
          /\ \A i \in 1..(Len(sleep_queue) - 1) : Tail(sleep_queue)[i] = sleep_queue[i + 1]
      BY <1>2, <3>1, TailFacts, Zenon
    <3>. QED
      BY <3>1, <3>2, Zenon
  <2>2. mxpc[h] = "asleep" /\ h # t
    BY <2>1 DEF MutexIInv, QueueExact, thread_mutex_unlock
  <2>. HIDE DEF h
  <2>3. mxpc' = [mxpc EXCEPT ![t] = "out", ![h] = "woken"] /\ taken' = taken
    BY <1>2 DEF thread_mutex_unlock, h
  <2>4. MutexTypeOK'
    BY <2>1, <2>3 DEF MutexIInv, MutexTypeOK
  <2>5. \A u \in Tasks : MutexOwner(u)' <=> u = h
    BY <2>1, <2>2, <2>3 DEF MutexIInv, MutexTypeOK, OneOwner, MutexOwner, thread_mutex_unlock
  <2>6. taken
    BY <1>2 DEF MutexIInv, QueueExact
  <2>7. \A u \in Tasks : mxpc'[u] = "asleep" <=> \E i \in DOMAIN sleep_queue' : sleep_queue'[i] = u
    <3>. TAKE u \in Tasks
    <3>1. mxpc'[u] = "asleep" <=> mxpc[u] = "asleep" /\ u # h
      BY <2>1, <2>2, <2>3 DEF MutexIInv, MutexTypeOK, thread_mutex_unlock
    <3>2. (\E i \in DOMAIN sleep_queue' : sleep_queue'[i] = u)
            <=> \E i \in 2..Len(sleep_queue) : sleep_queue[i] = u
      <4>1. ASSUME NEW i \in DOMAIN sleep_queue', sleep_queue'[i] = u
            PROVE  \E j \in 2..Len(sleep_queue) : sleep_queue[j] = u
        BY <4>1, <2>1
      <4>2. ASSUME NEW j \in 2..Len(sleep_queue), sleep_queue[j] = u
            PROVE  \E i \in DOMAIN sleep_queue' : sleep_queue'[i] = u
        <5>1. j - 1 \in DOMAIN sleep_queue' /\ sleep_queue'[j - 1] = u
          BY <4>2, <2>1
        <5>. QED
          BY <5>1
      <4>. QED
        BY <4>1, <4>2
    <3>3. \A i \in 2..Len(sleep_queue) : sleep_queue[i] # h
      BY <2>1 DEF MutexIInv, QueueExact
    <3>4. mxpc[u] = "asleep" <=> \E i \in 1..Len(sleep_queue) : sleep_queue[i] = u
      BY <2>1 DEF MutexIInv, QueueExact
    <3>. QED
      BY <2>1, <3>1, <3>2, <3>3, <3>4
  <2>8. \A i, j \in DOMAIN sleep_queue' : sleep_queue'[i] = sleep_queue'[j] => i = j
    BY <2>1 DEF MutexIInv, QueueExact
  <2>9. QueueExact'
    BY <2>1, <2>3, <2>5, <2>6, <2>7, <2>8, Zenon DEF QueueExact
  <2>. QED
    BY <2>4, <2>5, <2>9 DEF MutexIInv, OneOwner
<1>. QED
  BY <1>1, <1>2

(***************************************************************************)
(* Every step preserves the invariant.                                     *)
(***************************************************************************)
LEMMA MutexNextIInv == MutexIInv /\ [MutexNext]_mutexVars => MutexIInv'
<1>. SUFFICES ASSUME MutexIInv, [MutexNext]_mutexVars PROVE MutexIInv'
  OBVIOUS
<1>1. CASE UNCHANGED mutexVars
  BY <1>1 DEF MutexIInv, MutexTypeOK, QueueExact, OneOwner, MutexOwner, mutexVars
<1>2. ASSUME NEW t \in Tasks, thread_mutex_lock(t) PROVE MutexIInv'
  BY <1>2, MutexLockFree, MutexLockSleep, MutexLockWoken DEF thread_mutex_lock
<1>3. ASSUME NEW t \in Tasks, thread_mutex_unlock(t) PROVE MutexIInv'
  BY <1>3, MutexUnlock
<1>. QED
  BY <1>1, <1>2, <1>3 DEF MutexNext

(***************************************************************************)
(* The invariant holds throughout.                                         *)
(***************************************************************************)
THEOREM MutexInvariant == MutexSpec => []MutexIInv
  BY MutexInitIInv, MutexNextIInv, PTL DEF MutexSpec

(***************************************************************************)
(* At most one task is between thread_mutex_lock and thread_mutex_unlock,  *)
(* however many tasks there are.                                           *)
(***************************************************************************)
THEOREM MutexExcludes == MutexSpec => []MutualExclusion
<1>1. MutexIInv => MutualExclusion
  BY DEF MutexIInv, OneOwner, MutexOwner, MutualExclusion
<1>. QED
  BY <1>1, MutexInvariant, PTL

(***************************************************************************)
(* taken and sleep_queue say exactly who owns the mutex and who sleeps.    *)
(***************************************************************************)
THEOREM MutexQueueIsExact == MutexSpec => []QueueExact
<1>1. MutexIInv => QueueExact
  BY DEF MutexIInv
<1>. QED
  BY <1>1, MutexInvariant, PTL

(***************************************************************************)
(* Nobody gets the mutex past the head of the queue of sleepers.           *)
(***************************************************************************)
THEOREM MutexIsFifo == MutexSpec => NoOvertaking
<1>. DEFINE A == \A t \in Tasks :
                   ~MutexOwner(t) /\ MutexOwner(t)' /\ sleep_queue # <<>> => t = Head(sleep_queue)
<1>1. MutexIInv /\ [MutexNext]_mutexVars => [A]_mutexVars
  <2>. SUFFICES ASSUME MutexIInv, MutexNext,
                       NEW t \in Tasks, ~MutexOwner(t), MutexOwner(t)', sleep_queue # <<>>
                PROVE  t = Head(sleep_queue)
    BY Zenon
  <2>1. taken
    BY DEF MutexIInv, QueueExact
  <2>2. ASSUME NEW u \in Tasks, LockFree(u) PROVE FALSE
    BY <2>1, <2>2 DEF LockFree
  <2>3. ASSUME NEW u \in Tasks, LockSleep(u) PROVE FALSE
    BY <2>3 DEF LockSleep, MutexOwner, MutexIInv, MutexTypeOK
  <2>4. ASSUME NEW u \in Tasks, LockWoken(u) PROVE FALSE
    BY <2>4 DEF LockWoken, MutexOwner, MutexIInv, MutexTypeOK
  <2>5. ASSUME NEW u \in Tasks, thread_mutex_unlock(u) PROVE t = Head(sleep_queue)
    BY <2>5 DEF thread_mutex_unlock, MutexOwner, MutexIInv, MutexTypeOK
  <2>. QED
    BY <2>2, <2>3, <2>4, <2>5 DEF MutexNext, thread_mutex_lock
<1>. QED
  BY <1>1, MutexInvariant, PTL DEF MutexSpec, NoOvertaking

-----------------------------------------------------------------------------
(***************************************************************************)
(* Spinlock                                                                *)
(***************************************************************************)
(* The cores that have drawn a ticket and not returned it. *)
Contenders == {c \in Cores : spc[c] \in {"spin", "in", "ungrab"}}

(* How many tickets are served before x, seen from the one served now. *)
Distance(x) == IF x >= current THEN x - current ELSE x + TicketModulus - current

(***************************************************************************)
(* The tickets that are out are the ones from current up to allocated,     *)
(* each of them held by one core.  allocated = current is ambiguous: no    *)
(* ticket is out, or all of them are.                                      *)
(***************************************************************************)
TicketsOut ==
  LET n == Cardinality(Contenders) IN
  /\ Distance(allocated) = IF n = TicketModulus THEN 0 ELSE n
  /\ \A c \in Contenders : Distance(ticket[c]) < n
  /\ \A c, d \in Contenders : ticket[c] = ticket[d] => c = d

(* The holder has the ticket that is served, and ungrab has read that one. *)
HolderServed ==
  \A c \in Cores : /\ SpinHolding(c) => ticket[c] = current
                   /\ spc[c] = "ungrab" => seen[c] = current

SpinIInv == SpinTypeOK /\ TicketsOut /\ HolderServed

-----------------------------------------------------------------------------
(***************************************************************************)
(* There are at most as many contenders as cores, hence as tickets.        *)
(***************************************************************************)
LEMMA ContendersFinite ==
  /\ IsFiniteSet(Contenders)
  /\ Cardinality(Contenders) \in Nat
  /\ Cardinality(Contenders) <= Cardinality(Cores)
<1>1. Contenders \subseteq Cores
  BY DEF Contenders
<1>2. IsFiniteSet(Contenders) /\ Cardinality(Contenders) <= Cardinality(Cores)
  BY <1>1, FS_Subset, SpinlockAssumption
<1>. QED
  BY <1>2, FS_CardinalityType

(***************************************************************************)
(* As long as one core has no ticket, a ticket is left.                    *)
(***************************************************************************)
LEMMA TicketLeft ==
  ASSUME NEW c \in Cores, c \notin Contenders
  PROVE  Cardinality(Contenders) < TicketModulus
<1>1. Contenders \cup {c} \subseteq Cores
  BY DEF Contenders
<1>2. Cardinality(Contenders \cup {c}) = Cardinality(Contenders) + 1
  BY ContendersFinite, FS_AddElement, Zenon
<1>3. Cardinality(Contenders \cup {c}) <= Cardinality(Cores)
  BY <1>1, FS_Subset, SpinlockAssumption
<1>4. Cardinality(Cores) \in Nat
  BY FS_CardinalityType, SpinlockAssumption
<1>. QED
  BY <1>2, <1>3, <1>4, ContendersFinite, SpinlockAssumption

(***************************************************************************)
(* Initially no ticket is out.                                             *)
(***************************************************************************)
LEMMA SpinInitIInv == SpinInit => SpinIInv
<1>. SUFFICES ASSUME SpinInit PROVE SpinIInv
  OBVIOUS
<1>1. SpinTypeOK
  BY SpinlockAssumption DEF SpinInit, SpinTypeOK, Tickets
<1>2. Contenders = {}
  BY DEF SpinInit, Contenders
<1>3. Cardinality(Contenders) = 0
  BY <1>2, FS_EmptySet
<1>4. TicketsOut
  BY <1>2, <1>3, SpinlockAssumption DEF SpinInit, TicketsOut, Distance
<1>5. HolderServed
  BY DEF SpinInit, HolderServed, SpinHolding
<1>. QED
  BY <1>1, <1>4, <1>5 DEF SpinIInv

(***************************************************************************)
(* A step that leaves the counters, the contenders and their tickets alone. *)
(***************************************************************************)
LEMMA SameTickets ==
  ASSUME SpinIInv, UNCHANGED <<allocated, current>>, Contenders' = Contenders,
         \A d \in Contenders : ticket'[d] = ticket[d]
  PROVE  TicketsOut'
  BY DEF SpinIInv, TicketsOut, Distance

(***************************************************************************)
(* Drawing: the new ticket is none of those that are out.                  *)
(***************************************************************************)
LEMMA DrawTickets ==
  ASSUME NEW c \in Cores, SpinIInv, GrabDraw(c)
  PROVE  TicketsOut'
<1>. DEFINE n == Cardinality(Contenders)
<1>1. c \notin Contenders
  BY DEF Contenders, GrabDraw
<1>2. n \in Nat /\ n < TicketModulus /\ TicketModulus \in Nat
  BY <1>1, TicketLeft, ContendersFinite, SpinlockAssumption
<1>3. Contenders' = Contenders \cup {c}
  BY DEF SpinIInv, SpinTypeOK, Contenders, GrabDraw
<1>4. Cardinality(Contenders') = n + 1
  BY <1>1, <1>3, ContendersFinite, FS_AddElement
<1>5. /\ Distance(allocated) = n
      /\ \A d \in Contenders : Distance(ticket[d]) < n /\ ticket[d] \in Tickets
      /\ \A d, e \in Contenders : ticket[d] = ticket[e] => d = e
  BY <1>2 DEF SpinIInv, SpinTypeOK, TicketsOut, Contenders
<1>. HIDE DEF n
<1>6. /\ current \in Tickets /\ allocated \in Tickets /\ current' = current
      /\ allocated' = Increment(allocated)
      /\ ticket'[c] = allocated
      /\ \A d \in Contenders : ticket'[d] = ticket[d]
  BY <1>1 DEF SpinIInv, SpinTypeOK, GrabDraw, Contenders
<1>7. Distance(allocated)' = IF n + 1 = TicketModulus THEN 0 ELSE n + 1
  BY <1>2, <1>5, <1>6 DEF Distance, Increment, Tickets
<1>8. \A d \in Contenders' : Distance(ticket[d])' < n + 1
  <2>. TAKE d \in Contenders'
  <2>1. CASE d = c
    BY <2>1, <1>2, <1>5, <1>6 DEF Distance
  <2>2. CASE d \in Contenders
    BY <2>2, <1>2, <1>5, <1>6 DEF Distance, Tickets
  <2>. QED
    BY <2>1, <2>2, <1>3
<1>9. \A d \in Contenders : ticket[d] # allocated
  BY <1>2, <1>5
<1>10. \A d, e \in Contenders' : ticket'[d] = ticket'[e] => d = e
  BY <1>3, <1>5, <1>6, <1>9
<1>. QED
  BY <1>4, <1>7, <1>8, <1>10 DEF TicketsOut

(***************************************************************************)
(* Ungrabbing: the holder's ticket was the served one; all others come one *)
(* closer.                                                                 *)
(***************************************************************************)
LEMMA UngrabTickets ==
  ASSUME NEW c \in Cores, SpinIInv, UngrabWrite(c)
  PROVE  TicketsOut'
<1>. DEFINE n == Cardinality(Contenders)
<1>1. c \in Contenders /\ ticket[c] = current /\ current' = Increment(current)
  BY DEF SpinIInv, HolderServed, SpinHolding, Contenders, UngrabWrite
<1>2. Contenders' = Contenders \ {c}
  BY DEF SpinIInv, SpinTypeOK, Contenders, UngrabWrite
<1>3. n \in Nat /\ n <= TicketModulus /\ TicketModulus \in Nat /\ TicketModulus > 0
  BY ContendersFinite, FS_CardinalityType, SpinlockAssumption
<1>4. Cardinality(Contenders') = n - 1
  BY <1>1, <1>2, ContendersFinite, FS_RemoveElement
<1>5. /\ Distance(allocated) = IF n = TicketModulus THEN 0 ELSE n
      /\ \A d \in Contenders : Distance(ticket[d]) < n /\ ticket[d] \in Tickets
      /\ \A d, e \in Contenders : ticket[d] = ticket[e] => d = e
  BY DEF SpinIInv, SpinTypeOK, TicketsOut, Contenders
<1>6. current \in Tickets /\ allocated \in Tickets /\ UNCHANGED <<allocated, ticket>>
  BY DEF SpinIInv, SpinTypeOK, UngrabWrite
<1>. HIDE DEF n
<1>7. n > 0
  BY <1>1, <1>3, <1>5, <1>6 DEF Distance, Tickets
<1>8. Distance(allocated)' = IF n - 1 = TicketModulus THEN 0 ELSE n - 1
  BY <1>1, <1>3, <1>5, <1>6, <1>7 DEF Distance, Increment, Tickets
<1>9. \A d \in Contenders' : Distance(ticket[d])' < n - 1
  <2>. TAKE d \in Contenders'
  <2>1. d \in Contenders /\ ticket[d] # current
    BY <1>1, <1>2, <1>5
  <2>2. ticket'[d] = ticket[d]
    BY <1>6
  <2>. QED
    BY <2>1, <2>2, <1>1, <1>3, <1>5, <1>6 DEF Distance, Increment, Tickets
<1>. QED
  BY <1>2, <1>4, <1>5, <1>6, <1>8, <1>9 DEF TicketsOut

(***************************************************************************)
(* Two holders would have the same ticket.                                 *)
(***************************************************************************)
LEMMA SpinIInvExclusion == SpinIInv => SpinExclusion
  BY DEF SpinIInv, TicketsOut, HolderServed, SpinExclusion, SpinHolding, Contenders

(***************************************************************************)
(* Every step preserves the invariant.                                     *)
(***************************************************************************)
LEMMA SpinNextIInv == SpinIInv /\ [SpinNext]_spinVars => SpinIInv'
<1>. SUFFICES ASSUME SpinIInv, [SpinNext]_spinVars PROVE SpinIInv'
  OBVIOUS
<1>1. CASE UNCHANGED spinVars
  <2>1. SpinTypeOK' /\ HolderServed' /\ Contenders' = Contenders
    BY <1>1 DEF SpinIInv, SpinTypeOK, HolderServed, SpinHolding, Contenders, spinVars
  <2>. QED
    BY <1>1, <2>1, SameTickets DEF SpinIInv, spinVars
<1>2. ASSUME NEW c \in Cores, SetInterrupts(c) \/ thread_spinlock_lock(c) \/ Recover(c)
      PROVE  SpinIInv'
  <2>1. SpinTypeOK' /\ UNCHANGED <<allocated, current>>
    <3>1. 0 \in Tickets
      BY SpinlockAssumption DEF Tickets
    <3>2. CASE SetInterrupts(c) \/ thread_spinlock_lock(c)
      BY <3>2, Zenon DEF SpinIInv, SpinTypeOK, SetInterrupts, thread_spinlock_lock
    <3>3. CASE Recover(c)
      <4>1. ints' \in [Cores -> BOOLEAN] /\ saved' \in [Cores -> BOOLEAN]
        BY <3>3 DEF SpinIInv, SpinTypeOK, Recover
      <4>2. ticket' \in [Cores -> Tickets] /\ seen' \in [Cores -> Tickets]
        BY <3>1, <3>3 DEF SpinIInv, SpinTypeOK, Recover
      <4>. QED
        BY <3>3, <4>1, <4>2 DEF SpinIInv, SpinTypeOK, Recover
    <3>. QED
      BY <1>2, <3>2, <3>3
  <2>2. Contenders' = Contenders /\ HolderServed'
    BY <1>2 DEF SpinIInv, SpinTypeOK, HolderServed, SpinHolding, Contenders,
                SetInterrupts, thread_spinlock_lock, Recover
  <2>3. \A d \in Contenders : ticket'[d] = ticket[d]
    BY <1>2 DEF SpinIInv, SpinTypeOK, Contenders, SetInterrupts, thread_spinlock_lock, Recover
  <2>. QED
    BY <2>1, <2>2, <2>3, SameTickets DEF SpinIInv
<1>3. ASSUME NEW c \in Cores, GrabEnter(c) \/ UngrabRead(c) PROVE SpinIInv'
  <2>1. SpinTypeOK' /\ UNCHANGED <<allocated, current, ticket>>
    BY <1>3 DEF SpinIInv, SpinTypeOK, GrabEnter, UngrabRead
  <2>2. Contenders' = Contenders /\ HolderServed'
    BY <1>3 DEF SpinIInv, SpinTypeOK, HolderServed, SpinHolding, Contenders, GrabEnter, UngrabRead
  <2>. QED
    BY <2>1, <2>2, SameTickets DEF SpinIInv
<1>4. ASSUME NEW c \in Cores, GrabDraw(c) PROVE SpinIInv'
  <2>1. SpinTypeOK'
    BY <1>4, SpinlockAssumption DEF SpinIInv, SpinTypeOK, GrabDraw, Increment, Tickets
  <2>2. HolderServed'
    BY <1>4 DEF SpinIInv, SpinTypeOK, HolderServed, SpinHolding, GrabDraw
  <2>. QED
    BY <1>4, <2>1, <2>2, DrawTickets DEF SpinIInv
<1>5. ASSUME NEW c \in Cores, UngrabWrite(c) PROVE SpinIInv'
  <2>1. SpinTypeOK'
    BY <1>5, SpinlockAssumption DEF SpinIInv, SpinTypeOK, UngrabWrite, Increment, Tickets
  <2>2. \A d \in Cores : SpinHolding(d) => d = c
    BY <1>5, SpinIInvExclusion DEF SpinExclusion, SpinHolding, UngrabWrite
  <2>3. \A d \in Cores : ~SpinHolding(d)'
    BY <1>5, <2>2 DEF SpinIInv, SpinTypeOK, SpinHolding, UngrabWrite
  <2>4. HolderServed'
    BY <2>3 DEF HolderServed, SpinHolding
  <2>. QED
    BY <1>5, <2>1, <2>4, UngrabTickets DEF SpinIInv
<1>. QED
  BY <1>1, <1>2, <1>3, <1>4, <1>5 DEF SpinNext, SpinStep

(***************************************************************************)
(* The invariant holds throughout.                                         *)
(***************************************************************************)
THEOREM SpinInvariant == SpinSpec => []SpinIInv
  BY SpinInitIInv, SpinNextIInv, PTL DEF SpinSpec

(***************************************************************************)
(* One core at a time holds the lock: grab and ungrab exclude each other   *)
(* for any number of cores up to the number of tickets.                    *)
(***************************************************************************)
THEOREM SpinExcludes == SpinSpec => []SpinExclusion
  BY SpinInvariant, SpinIInvExclusion, PTL

(***************************************************************************)
(* Counters and tickets stay within their width, and nothing is lost of    *)
(* the interrupt states.                                                   *)
(***************************************************************************)
THEOREM SpinTypeCorrect == SpinSpec => []SpinTypeOK
<1>1. SpinIInv => SpinTypeOK
  BY DEF SpinIInv
<1>. QED
  BY <1>1, SpinInvariant, PTL

(***************************************************************************)
(* Interrupts are off on a core that waits for the lock or holds it.       *)
(***************************************************************************)
THEOREM SpinMasked == SpinSpec => []InterruptsOff
<1>1. SpinInit => InterruptsOff
  BY DEF SpinInit, InterruptsOff
<1>2. SpinTypeOK /\ InterruptsOff /\ [SpinNext]_spinVars => InterruptsOff'
  BY DEF SpinTypeOK, InterruptsOff, SpinNext, spinVars, SpinStep, SetInterrupts, thread_spinlock_lock,
         GrabDraw, GrabEnter, UngrabRead, UngrabWrite, Recover
<1>. QED
  BY <1>1, <1>2, SpinTypeCorrect, PTL DEF SpinSpec

-----------------------------------------------------------------------------
(***************************************************************************)
(* Read-write lock                                                         *)
(***************************************************************************)
RwNodes == [task : Lockers, writing : BOOLEAN]

(***************************************************************************)
(* The nodes of a sound queue belong to tasks that sleep.                  *)
(***************************************************************************)
LEMMA RwNodesFacts ==
  ASSUME RwQueueExact
  PROVE  /\ rw_queue \in Seq(RwNodes) /\ Len(rw_queue) \in Nat
         /\ DOMAIN rw_queue = 1..Len(rw_queue)
         /\ \A i \in 1..Len(rw_queue) : /\ rw_queue[i] \in RwNodes
                                        /\ rw_queue[i].task \in Lockers
                                        /\ rwpc[rw_queue[i].task] = "asleep"
         /\ \A i, j \in 1..Len(rw_queue) : rw_queue[i].task = rw_queue[j].task => i = j
<1>1. rw_queue \in Seq(RwNodes)
  BY DEF RwQueueExact, RwTypeOK, RwNodes
<1>2. Len(rw_queue) \in Nat /\ DOMAIN rw_queue = 1..Len(rw_queue)
  BY <1>1, LenProperties
<1>3. \A i \in 1..Len(rw_queue) : rw_queue[i] \in RwNodes
  BY <1>1, ElementOfSeq
<1>4. \A r \in RwNodes : r.task \in Lockers
  BY DEF RwNodes
<1>. QED
  BY <1>1, <1>2, <1>3, <1>4 DEF RwQueueExact, NodesOfSleepers

(***************************************************************************)
(* Every sleeper has one node, so the queue is no longer than the tasks    *)
(* are many, and size_t can count it.                                      *)
(***************************************************************************)
LEMMA RwQueueBounded == RwQueueExact => Len(rw_queue) < SizeModulus
<1>. SUFFICES ASSUME RwQueueExact PROVE Len(rw_queue) < SizeModulus
  OBVIOUS
<1>. DEFINE n == Len(rw_queue)
            f == [i \in 1..n |-> rw_queue[i].task]
<1>1. n \in Nat /\ DOMAIN rw_queue = 1..n /\ \A i \in 1..n : rw_queue[i] \in RwNodes
  BY RwNodesFacts
<1>2. f \in [1..n -> Lockers]
  BY <1>1 DEF RwNodes
<1>3. \A i, j \in 1..n : f[i] = f[j] => i = j
  BY <1>1 DEF RwQueueExact, NodesOfSleepers
<1>. HIDE DEF f
<1>4. f \in Injection(1..n, Lockers)
  BY <1>2, <1>3, Fun_IsInj
<1>5. Cardinality(1..n) <= Cardinality(Lockers)
  BY <1>4, FS_Injection, RwLockAssumption
<1>6. Cardinality(1..n) = n
  BY <1>1, FS_Interval
<1>7. Cardinality(Lockers) \in Nat
  BY FS_CardinalityType, RwLockAssumption
<1>. QED
  BY <1>1, <1>5, <1>6, <1>7, RwLockAssumption

(***************************************************************************)
(* A set of naturals that is not empty has a smallest element.             *)
(***************************************************************************)
LEMMA SmallestNat == ASSUME NEW T \in SUBSET Nat, T # {} PROVE \E x \in T : \A y \in T : x <= y
<1>. DEFINE R == OpToRel(<, Nat)
<1>1. PICK x \in T : \A y \in T : ~(<<y, x>> \in R)
  <2>1. IsWellFoundedOn(R, Nat)
    BY NatLessThanWellFounded, Zenon
  <2>. HIDE DEF R
  <2>. QED
    BY <2>1, WFMin, Zenon
<1>2. \A y \in T : ~(y < x)
  BY <1>1, Zenon DEF OpToRel
<1>. QED
  BY <1>2

(***************************************************************************)
(* FirstWriter ends the batch of readers: it exists and is unique.         *)
(***************************************************************************)
LEMMA FirstWriterFacts ==
  ASSUME NEW q \in Seq(RwNodes)
  PROVE  /\ FirstWriter(q) \in 1..(Len(q) + 1)
         /\ \A j \in 1..(FirstWriter(q) - 1) : ~q[j].writing
<1>. DEFINE n == Len(q)
            W == {i \in 1..(n + 1) : i = n + 1 \/ q[i].writing}
            P(i) == (i = n + 1 \/ q[i].writing) /\ \A j \in 1..(i - 1) : ~q[j].writing
<1>1. n \in Nat
  BY LenProperties
<1>2. W \in SUBSET Nat /\ n + 1 \in W
  BY <1>1
<1>3. PICK i \in W : \A j \in W : i <= j
  BY <1>2, SmallestNat, Zenon
<1>4. P(i) /\ i \in 1..(n + 1)
  BY <1>1, <1>3
<1>. QED
  BY <1>1, <1>4, Zenon DEF FirstWriter


(***************************************************************************)
(* Initially the queue is empty.                                           *)
(***************************************************************************)
LEMMA RwInitExact == RwInit => RwQueueExact
<1>. SUFFICES ASSUME RwInit PROVE RwQueueExact
  OBVIOUS
<1>1. <<>> \in Seq(RwNodes) /\ DOMAIN <<>> = {}
  BY EmptySeq, LenProperties
<1>2. 0 \in 0..(SizeModulus - 1)
  BY RwLockAssumption, FS_CardinalityType
<1>. QED
  BY <1>1, <1>2 DEF RwInit, RwQueueExact, RwTypeOK, NodesOfSleepers, RwNodes

(***************************************************************************)
(* A task goes to sleep: its node is the last of the queue, and was not in *)
(* the queue before.                                                       *)
(***************************************************************************)
LEMMA RwSleepExact ==
  ASSUME NEW t \in Lockers, NEW w \in BOOLEAN, RwQueueExact, rwpc[t] = "out",
         RwSleep(t, w), UNCHANGED <<state, readers>>
  PROVE  RwQueueExact'
<1>1. rw_queue \in Seq(RwNodes) /\ RwNode(t, w) \in RwNodes /\ RwNode(t, w).task = t
  BY DEF RwQueueExact, RwTypeOK, RwNodes, RwNode
<1>2. /\ rw_queue' \in Seq(RwNodes)
      /\ DOMAIN rw_queue = 1..Len(rw_queue) /\ Len(rw_queue) \in Nat
      /\ DOMAIN rw_queue' = 1..(Len(rw_queue) + 1)
      /\ \A i \in 1..Len(rw_queue) : rw_queue'[i] = rw_queue[i]
      /\ rw_queue'[Len(rw_queue) + 1].task = t
  BY <1>1, AppendFacts DEF RwSleep
<1>3. RwTypeOK'
  BY <1>2 DEF RwQueueExact, RwTypeOK, RwNodes, RwSleep
<1>4. \A u \in Lockers : rwpc'[u] = IF u = t THEN "asleep" ELSE rwpc[u]
  BY DEF RwQueueExact, RwTypeOK, RwSleep
<1>5. \A i \in 1..Len(rw_queue) :
        rw_queue[i].task \in Lockers /\ rwpc[rw_queue[i].task] = "asleep" /\ rw_queue[i].task # t
  BY RwNodesFacts
<1>6. \A i \in DOMAIN rw_queue' : rwpc'[rw_queue'[i].task] = "asleep"
  BY <1>2, <1>4, <1>5
<1>7. \A i, j \in DOMAIN rw_queue' : rw_queue'[i].task = rw_queue'[j].task => i = j
  BY <1>2, <1>5 DEF RwQueueExact, NodesOfSleepers
<1>. QED
  BY <1>3, <1>6, <1>7 DEF RwQueueExact, NodesOfSleepers

(***************************************************************************)
(* What is left of a sound queue when its first k nodes are taken off, and *)
(* no task but t and theirs changes its place, is sound.                   *)
(***************************************************************************)
LEMMA RwSuffixExact ==
  ASSUME RwQueueExact, RwTypeOK',
         NEW t \in Lockers, rwpc[t] # "asleep",
         NEW k \in Nat, k <= Len(rw_queue), Len(rw_queue') = Len(rw_queue) - k,
         \A i \in 1..(Len(rw_queue) - k) : rw_queue'[i] = rw_queue[i + k],
         \A u \in Lockers :
           u # t /\ (\A j \in 1..k : u # rw_queue[j].task) => rwpc'[u] = rwpc[u]
  PROVE  RwQueueExact'
<1>. DEFINE n == Len(rw_queue)
<1>1. n \in Nat /\ DOMAIN rw_queue = 1..n /\ DOMAIN rw_queue' = 1..(n - k)
  BY RwNodesFacts, LenProperties DEF RwTypeOK
<1>2. \A i \in 1..n : rw_queue[i].task \in Lockers /\ rwpc[rw_queue[i].task] = "asleep"
  BY RwNodesFacts
<1>3. \A i, j \in 1..n : rw_queue[i].task = rw_queue[j].task => i = j
  BY RwNodesFacts
<1>4. ASSUME NEW i \in 1..(n - k) PROVE rwpc'[rw_queue'[i].task] = "asleep"
  <2>1. i + k \in 1..n /\ rw_queue'[i] = rw_queue[i + k]
    BY <1>1
  <2>2. \A j \in 1..k : rw_queue[i + k].task # rw_queue[j].task
    BY <1>1, <1>3, <2>1
  <2>. QED
    BY <1>2, <2>1, <2>2
<1>5. ASSUME NEW i \in 1..(n - k), NEW j \in 1..(n - k), rw_queue'[i].task = rw_queue'[j].task
      PROVE  i = j
  <2>1. i + k \in 1..n /\ j + k \in 1..n /\ rw_queue[i + k].task = rw_queue[j + k].task
    BY <1>1, <1>5
  <2>2. i + k = j + k
    BY <1>3, <2>1
  <2>. QED
    BY <2>2
<1>. QED
  BY <1>1, <1>4, <1>5 DEF RwQueueExact, NodesOfSleepers


(***************************************************************************)
(* thread_rwlock_unlock wakes the writer at the head, or the readers up to *)
(* the first writer, whose node it takes off as well.                      *)
(***************************************************************************)
LEMMA RwPassOnExact ==
  ASSUME NEW t \in Lockers, RwQueueExact, rwpc[t] # "asleep", PassOn(t),
         readers' \in 0..(SizeModulus - 1)
  PROVE  RwQueueExact'
<1>. DEFINE n == Len(rw_queue)
            left == [rwpc EXCEPT ![t] = "out"]
<1>1. /\ rw_queue \in Seq(RwNodes) /\ n \in Nat
      /\ \A j \in 1..n : rw_queue[j] \in RwNodes /\ rw_queue[j].task \in Lockers
  BY RwNodesFacts
<1>2. /\ left \in [Lockers -> {"out", "asleep", "reading", "writing"}]
      /\ \A u \in Lockers : u # t => left[u] = rwpc[u]
  BY DEF RwQueueExact, RwTypeOK
<1>3. CASE rw_queue = <<>>
  <2>1. rw_queue' = rw_queue /\ rwpc' = left /\ state' = "free" /\ n = 0
    BY <1>3, EmptySeq DEF PassOn
  <2>2. RwTypeOK'
    BY <1>2, <2>1 DEF RwQueueExact, RwTypeOK
  <2>. QED
    BY <1>1, <1>2, <2>1, <2>2, RwSuffixExact
<1>4. CASE rw_queue # <<>> /\ Head(rw_queue).writing
  <2>1. /\ rw_queue' = Tail(rw_queue) /\ state' = "write"
        /\ rwpc' = [left EXCEPT ![Head(rw_queue).task] = "writing"]
    BY <1>4 DEF PassOn
  <2>2. /\ n \in Nat \ {0} /\ Head(rw_queue) = rw_queue[1] /\ rw_queue' \in Seq(RwNodes)
        /\ Len(rw_queue') = n - 1 /\ \A j \in 1..(n - 1) : rw_queue'[j] = rw_queue[j + 1]
    BY <1>1, <1>4, <2>1, TailFacts, LenProperties
  <2>3. RwTypeOK'
    BY <1>2, <2>1, <2>2, Zenon DEF RwTypeOK, RwNodes
  <2>4. \A u \in Lockers : u # t /\ (\A j \in 1..1 : u # rw_queue[j].task) => rwpc'[u] = rwpc[u]
    BY <1>2, <2>1, <2>2
  <2>. QED
    BY <2>2, <2>3, <2>4, RwSuffixExact
<1>5. CASE rw_queue # <<>> /\ ~Head(rw_queue).writing
  <2>1. PICK i \in 1..(n + 1) : i = FirstWriter(rw_queue)
    BY <1>1, FirstWriterFacts
  <2>. DEFINE batch == {rw_queue[j].task : j \in 1..(i - 1)}
  <2>2. /\ rw_queue' = SubSeq(rw_queue, i + 1, n) /\ state' = "read"
        /\ rwpc' = [u \in Lockers |-> IF u \in batch THEN "reading" ELSE left[u]]
    BY <1>5, <2>1 DEF PassOn
  <2>. HIDE DEF left
  <2>3. /\ rw_queue' \in Seq(RwNodes)
        /\ Len(rw_queue') = IF i + 1 <= n THEN n - (i + 1) + 1 ELSE 0
        /\ \A j \in 1..(n - (i + 1) + 1) : rw_queue'[j] = rw_queue[i + 1 + j - 1]
    <3>1. \A j \in (i + 1)..n : rw_queue[j] \in RwNodes
      BY <1>1, <2>1
    <3>. QED
      BY <1>1, <2>1, <2>2, <3>1, SubSeqProperties
  <2>4. RwTypeOK'
    BY <1>2, <2>2, <2>3 DEF RwTypeOK, RwNodes
  <2>5. PICK k \in 0..n : k = IF i <= n THEN i ELSE n
    BY <1>1, <2>1
  <2>6. k \in Nat /\ k <= n /\ Len(rw_queue') = n - k
    <3>1. n \in Nat /\ k \in Nat /\ k <= n
      BY <1>1
    <3>2. n - k = IF i + 1 <= n THEN n - (i + 1) + 1 ELSE 0
      <4>. HIDE DEF n, batch
      <4>. QED
        BY <3>1, <2>5
    <3>. QED
      BY <3>1, <3>2, <2>3
  <2>7. \A j \in 1..(n - k) : rw_queue'[j] = rw_queue[j + k]
    BY <1>1, <2>3, <2>5
  <2>8. \A u \in Lockers : u # t /\ (\A j \in 1..k : u # rw_queue[j].task) => rwpc'[u] = rwpc[u]
    BY <1>1, <1>2, <2>2, <2>5
  <2>. QED
    BY <2>4, <2>6, <2>7, <2>8, RwSuffixExact, Zenon
<1>. QED
  BY <1>3, <1>4, <1>5

(***************************************************************************)
(* Every step of a task preserves the soundness of the queue.              *)
(***************************************************************************)
LEMMA RwNextExact == RwQueueExact /\ [RwNext]_rwVars => RwQueueExact'
<1>. SUFFICES ASSUME RwQueueExact, [RwNext]_rwVars PROVE RwQueueExact'
  OBVIOUS
<1>1. CASE UNCHANGED rwVars
  BY <1>1 DEF RwQueueExact, RwTypeOK, NodesOfSleepers, rwVars
<1>2. ASSUME NEW t \in Lockers, rwpc[t] # "asleep", UNCHANGED rw_queue, RwTypeOK',
             \A u \in Lockers : u # t => rwpc'[u] = rwpc[u]
      PROVE  RwQueueExact'
  BY <1>2, RwNodesFacts DEF RwQueueExact, NodesOfSleepers
<1>3. /\ \A x \in Int : x % SizeModulus \in 0..(SizeModulus - 1)
      /\ 0 \in 0..(SizeModulus - 1)
  BY RwLockAssumption, FS_CardinalityType
<1>4. ASSUME NEW t \in Lockers, thread_rwlock_read(t) PROVE RwQueueExact'
  <2>1. CASE RwSleep(t, FALSE) /\ UNCHANGED <<state, readers>>
    BY <1>4, <2>1, RwSleepExact, Zenon DEF thread_rwlock_read
  <2>2. CASE ~(RwSleep(t, FALSE) /\ UNCHANGED <<state, readers>>)
    <3>1. UNCHANGED rw_queue /\ rwpc' = [rwpc EXCEPT ![t] = "reading"] /\ rwpc[t] # "asleep"
      BY <1>4, <2>2, Zenon DEF thread_rwlock_read
    <3>2. state' \in {"free", "read", "write"} /\ readers' \in 0..(SizeModulus - 1)
      <4>1. readers \in 0..(SizeModulus - 1) /\ readers + 1 \in Int
        BY RwLockAssumption DEF RwQueueExact, RwTypeOK
      <4>2. readers' = readers \/ readers' = (readers + 1) % SizeModulus
        BY <1>4, <2>2, Zenon DEF thread_rwlock_read
      <4>3. readers' \in 0..(SizeModulus - 1)
        BY <1>3, <4>1, <4>2
      <4>. QED
        BY <1>4, <2>2, <4>3, Zenon DEF thread_rwlock_read, RwQueueExact, RwTypeOK
    <3>3. RwTypeOK' /\ \A u \in Lockers : u # t => rwpc'[u] = rwpc[u]
      BY <3>1, <3>2 DEF RwQueueExact, RwTypeOK
    <3>. QED
      BY <1>2, <3>1, <3>3
  <2>. QED
    BY <2>1, <2>2, Zenon
<1>5. ASSUME NEW t \in Lockers, thread_rwlock_write(t) PROVE RwQueueExact'
  <2>1. CASE RwSleep(t, TRUE) /\ UNCHANGED <<state, readers>>
    BY <1>5, <2>1, RwSleepExact, Zenon DEF thread_rwlock_write
  <2>2. CASE ~(RwSleep(t, TRUE) /\ UNCHANGED <<state, readers>>)
    <3>1. /\ UNCHANGED <<rw_queue, readers>> /\ state' = "write"
          /\ rwpc' = [rwpc EXCEPT ![t] = "writing"] /\ rwpc[t] # "asleep"
      BY <1>5, <2>2, Zenon DEF thread_rwlock_write
    <3>2. RwTypeOK' /\ \A u \in Lockers : u # t => rwpc'[u] = rwpc[u]
      BY <3>1 DEF RwQueueExact, RwTypeOK
    <3>. QED
      BY <1>2, <3>1, <3>2
  <2>. QED
    BY <2>1, <2>2, Zenon
<1>6. ASSUME NEW t \in Lockers, thread_rwlock_unlock(t) PROVE RwQueueExact'
  <2>1. rwpc[t] # "asleep" /\ Decrement(readers) \in 0..(SizeModulus - 1)
    <3>1. readers - 1 \in Int
      BY RwLockAssumption DEF RwQueueExact, RwTypeOK
    <3>2. Decrement(readers) \in 0..(SizeModulus - 1)
      BY <1>3, <3>1 DEF Decrement
    <3>. QED
      BY <1>6, <3>2 DEF thread_rwlock_unlock
  <2>2. CASE PassOn(t)
    <3>1. \A m \in 0..(SizeModulus - 1) : ReadersAfter(m) \in 0..(SizeModulus - 1)
      BY RwNodesFacts, RwQueueBounded, FirstWriterFacts, RwLockAssumption DEF ReadersAfter
    <3>2. readers' = ReadersAfter(0) \/ readers' = ReadersAfter(readers) \/ readers' = Decrement(readers)
      BY <1>6 DEF thread_rwlock_unlock
    <3>3. readers' \in 0..(SizeModulus - 1)
      BY <1>3, <2>1, <3>1, <3>2, Zenon DEF RwQueueExact, RwTypeOK
    <3>. QED
      BY <2>1, <2>2, <3>3, RwPassOnExact
  <2>3. CASE ~PassOn(t)
    <3>1. /\ readers' = Decrement(readers) /\ rwpc' = [rwpc EXCEPT ![t] = "out"]
          /\ UNCHANGED <<state, rw_queue>>
      BY <1>6, <2>3 DEF thread_rwlock_unlock
    <3>2. RwTypeOK' /\ \A u \in Lockers : u # t => rwpc'[u] = rwpc[u]
      BY <2>1, <3>1 DEF RwQueueExact, RwTypeOK
    <3>. QED
      BY <1>2, <2>1, <3>1, <3>2
  <2>. QED
    BY <2>2, <2>3
<1>. QED
  BY <1>1, <1>4, <1>5, <1>6 DEF RwNext

(***************************************************************************)
(* The queue of a read-write lock is sound for every number of tasks: only *)
(* sleeping tasks have a node in it, one each, although readers may wrap   *)
(* (thread_rwlock_unlock).                                                 *)
(***************************************************************************)
THEOREM RwQueueIsExact == RwSpec => []RwQueueExact
  BY RwInitExact, RwNextExact, PTL DEF RwSpec

=============================================================================
