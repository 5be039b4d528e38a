-------------------------- MODULE NotificationsLemmas --------------------------
(***************************************************************************)
(* The two halves of the invariant of Notifications, and the lemmas about  *)
(* them that the theorems of NotificationsProofs rest on: every step keeps *)
(* the counts, and every step of a receive keeps channels and waiters      *)
(* where they belong.                                                      *)
(*                                                                         *)
(* Counted says that shutdown_rc counts the handle and the threads inside, *)
(* so that the shutdown cannot begin while a thread is inside.  Placed     *)
(* says where channels and waiters are, and needs the first half: nothing  *)
(* moves them behind the lock's back.                                      *)
(*                                                                         *)
(* The last part counts what refers to a raiser, for the third invariant,  *)
(* MemInv of NotificationsProofs.                                          *)
(***************************************************************************)
EXTENDS Notifications, QueueProofs, FiniteSetTheorems

USE SMTT(20), ZenonT(20)

InsidePC == {"create", "recv", "asleep", "taken", "leave"}

(* Types, but for the two counts that decide about memory. *)
Typed ==
  /\ mailbox \in MemState /\ handle \in BOOLEAN
  /\ shutdown_rc \in Int /\ is_shut_down \in BOOLEAN /\ is_per_cpu \in BOOLEAN
  /\ msg_queue \in [Slots -> Seq(Raisers)]
  /\ task_queue \in [Slots -> Seq(Threads)]
  /\ owner \subseteq Raisers
  /\ pending \in [Raisers -> [Slots -> Nat]]
  /\ pc \in [Threads -> PC]
  /\ channel \in [Threads -> Raisers \cup {NoRaiser}]

(* shutdown_rc is exact, and zero once the shutdown has begun. *)
Counted ==
  /\ shutdown_rc = One(handle) + Cardinality(Inside)
  /\ is_shut_down \/ ShuttingDown # {} => shutdown_rc = 0
  /\ \A t, u \in ShuttingDown : t = u
  /\ \A t \in Threads : /\ pc[t] = "shutdown" => ~is_shut_down
                        /\ pc[t] \in {"drain", "last"} => is_shut_down
  /\ mailbox = "none" => /\ ~handle /\ ~is_shut_down
                         /\ \A t \in Threads : pc[t] = "out"

-----------------------------------------------------------------------------
(***************************************************************************)
(* The threads inside are finitely many.                                   *)
(***************************************************************************)
LEMMA InsideFinite == IsFiniteSet(Inside) /\ Cardinality(Inside) \in Nat
<1>1. Inside \subseteq Threads
  BY DEF Inside
<1>2. IsFiniteSet(Inside)
  BY <1>1, FS_Subset, NotificationsAssumption
<1>. QED
  BY <1>2, FS_CardinalityType

(***************************************************************************)
(* Nobody is inside when the shutdown has begun.                           *)
(***************************************************************************)
LEMMA DownIsEmpty ==
  ASSUME Typed, Counted
  PROVE  /\ is_shut_down \/ ShuttingDown # {} => ~handle /\ Inside = {}
         /\ handle \/ Inside # {} => shutdown_rc > 0 /\ ~is_shut_down /\ ShuttingDown = {}
<1>1. IsFiniteSet(Inside) /\ Cardinality(Inside) \in Nat
  BY InsideFinite
<1>2. Cardinality(Inside) = 0 <=> Inside = {}
  BY <1>1, FS_EmptySet
<1>3. shutdown_rc = One(handle) + Cardinality(Inside) /\ handle \in BOOLEAN
  BY DEF Typed, Counted
<1>4. shutdown_rc = 0 <=> ~handle /\ Inside = {}
  BY <1>1, <1>2, <1>3 DEF One
<1>5. shutdown_rc >= 0
  BY <1>1, <1>3 DEF One
<1>. QED
  BY <1>4, <1>5 DEF Counted, Typed

(***************************************************************************)
(* A thread that stays inside changes neither set.                         *)
(***************************************************************************)
LEMMA StaysInside ==
  ASSUME NEW t \in Threads, NEW x \in InsidePC, Typed,
         pc[t] \in InsidePC, pc' = [pc EXCEPT ![t] = x]
  PROVE  Inside' = Inside /\ ShuttingDown' = ShuttingDown
BY DEF Typed, Inside, ShuttingDown, InsidePC

(***************************************************************************)
(* A thread that borrows the mailbox is one more inside.                   *)
(***************************************************************************)
LEMMA Enters ==
  ASSUME NEW t \in Threads, NEW x \in InsidePC, Typed,
         pc[t] = "out", pc' = [pc EXCEPT ![t] = x]
  PROVE  /\ Cardinality(Inside') = Cardinality(Inside) + 1
         /\ ShuttingDown' = ShuttingDown
<1>1. Inside' = Inside \cup {t} /\ t \notin Inside /\ ShuttingDown' = ShuttingDown
  BY DEF Typed, Inside, ShuttingDown, InsidePC
<1>. QED
  BY <1>1, InsideFinite, FS_AddElement

-----------------------------------------------------------------------------
(***************************************************************************)
(* What a thread does inside moves no count: the mailbox may at most be    *)
(* freed.                                                                  *)
(***************************************************************************)
LEMMA CountedInside ==
  ASSUME Typed, Counted, NEW t \in Threads, NEW x \in InsidePC,
         pc[t] \in InsidePC, pc' = [pc EXCEPT ![t] = x],
         mailbox' \in {mailbox, "freed"}, UNCHANGED <<handle, shutdown_rc, is_shut_down>>
  PROVE  Counted'
<1>1. Inside' = Inside /\ ShuttingDown' = ShuttingDown
  BY StaysInside, Zenon
<1>2. mailbox # "none"
  BY DEF Counted, InsidePC
<1>3. \A u \in Threads : pc'[u] = pc[u] \/ pc'[u] \in InsidePC
  BY DEF Typed
<1>. QED
  BY <1>1, <1>2, <1>3 DEF Counted, InsidePC

(***************************************************************************)
(* Neither does a step that moves no thread: a send, an owner's drop, the  *)
(* drain of a queue.                                                       *)
(***************************************************************************)
LEMMA CountedOutside ==
  ASSUME Typed, Counted, mailbox' \in {mailbox, "freed"},
         UNCHANGED <<handle, shutdown_rc, is_shut_down, pc>>
  PROVE  Counted'
BY DEF Counted, Inside, ShuttingDown

(***************************************************************************)
(* mem_rc_drop on shutdown_rc, by a thread that leaves or that gives up    *)
(* the handle: the shutdown begins exactly when nothing is counted any     *)
(* more.                                                                   *)
(***************************************************************************)
LEMMA CountedDrop ==
  ASSUME Typed, Counted, NEW t \in Threads, DropShutdownRef(t),
         handle \/ Inside # {},
         UNCHANGED <<mailbox, is_shut_down>>, handle' \in BOOLEAN,
         One(handle') + Cardinality(Inside') = (One(handle) + Cardinality(Inside)) - 1,
         ShuttingDown' = IF shutdown_rc = 1 THEN ShuttingDown \cup {t} ELSE ShuttingDown
  PROVE  Counted'
<1>1. shutdown_rc > 0 /\ ~is_shut_down /\ ShuttingDown = {}
  BY DownIsEmpty
<1>2. shutdown_rc' = One(handle') + Cardinality(Inside')
  <2>1. shutdown_rc' = shutdown_rc - 1
    BY DEF DropShutdownRef
  <2>2. shutdown_rc = One(handle) + Cardinality(Inside)
    BY DEF Counted
  <2>. QED
    BY <2>1, <2>2, Zenon
<1>3. is_shut_down' \/ ShuttingDown' # {} => shutdown_rc' = 0
  BY <1>1 DEF DropShutdownRef, Typed
<1>4. \A u, w \in ShuttingDown' : u = w
  BY <1>1
<1>5. \A u \in Threads : pc'[u] \in {pc[u], "out", "shutdown"}
  BY DEF Typed, DropShutdownRef
<1>6. \A u \in Threads : /\ pc'[u] = "shutdown" => ~is_shut_down'
                         /\ pc'[u] \in {"drain", "last"} => is_shut_down'
  BY <1>1, <1>5 DEF Counted
<1>7. mailbox # "none"
  <2>1. Inside # {} => \E u \in Threads : pc[u] # "out"
    BY DEF Inside
  <2>. QED
    BY <2>1 DEF Counted
<1>. QED
  BY <1>2, <1>3, <1>4, <1>6, <1>7 DEF Counted

(***************************************************************************)
(* The steps of user_shutdown_mailbox change no count either.              *)
(***************************************************************************)
LEMMA CountedShutdown ==
  ASSUME Typed, Counted, NEW t \in Threads,
         ShutdownSetFlag(t) \/ ShutdownDrained(t) \/ ShutdownLastDrop(t)
  PROVE  Counted'
<1>1. t \in ShuttingDown
  BY DEF ShuttingDown, ShutdownSetFlag, ShutdownDrained, ShutdownLastDrop
<1>2. ~handle /\ Inside = {} /\ shutdown_rc = 0
  BY <1>1, DownIsEmpty DEF Counted
<1>3. \A u \in Threads : u # t => pc[u] \in {"out"}
  <2>1. \A u \in Threads : u # t => u \notin ShuttingDown /\ u \notin Inside
    BY <1>1, <1>2 DEF Counted
  <2>. QED
    BY <2>1 DEF Inside, ShuttingDown, Typed, PC
<1>4. \E x \in {"drain", "last", "out"} : pc' = [pc EXCEPT ![t] = x]
  BY DEF ShutdownSetFlag, ShutdownDrained, ShutdownLastDrop
<1>5. Inside' = Inside
  BY <1>2, <1>3, <1>4 DEF Inside, Typed
<1>6. \A u \in ShuttingDown' : u = t
  BY <1>3, <1>4 DEF ShuttingDown, Typed
<1>7. UNCHANGED <<handle, shutdown_rc>>
  BY DEF ShutdownSetFlag, ShutdownDrained, ShutdownLastDrop, mbVars
<1>8. /\ pc'[t] # "shutdown" /\ (pc'[t] \in {"drain", "last"} => is_shut_down')
      /\ \A u \in Threads : u # t => pc'[u] = "out"
  BY <1>3 DEF Counted, Typed, ShutdownSetFlag, ShutdownDrained, ShutdownLastDrop, mbVars
<1>9. mailbox # "none" /\ mailbox' # "none"
  <2>1. pc[t] # "out"
    BY <1>1 DEF ShuttingDown
  <2>. QED
    BY <2>1 DEF Counted, ShutdownSetFlag, ShutdownDrained, ShutdownLastDrop, DropDeallocRef,
                mbVars
<1>. QED
  BY <1>2, <1>5, <1>6, <1>7, <1>8, <1>9 DEF Counted

(***************************************************************************)
(* Every step keeps the counting half of the invariant.                    *)
(***************************************************************************)
LEMMA NextCounted == Typed /\ Counted /\ [Next]_vars => Counted'
<1>. SUFFICES ASSUME Typed, Counted, [Next]_vars PROVE Counted'
  OBVIOUS
<1>1. CASE UNCHANGED vars
  BY <1>1, CountedOutside DEF vars, mbVars, threadVars
<1>2. ASSUME NEW percpu \in BOOLEAN, user_create_mailbox(percpu) PROVE Counted'
  <2>1. /\ mailbox = "none" /\ mailbox' = "live" /\ handle' = TRUE /\ shutdown_rc' = 1
        /\ is_shut_down' = is_shut_down /\ pc' = pc
    BY <1>2 DEF user_create_mailbox, threadVars
  <2>2. ~is_shut_down /\ \A t \in Threads : pc'[t] = "out"
    BY <2>1 DEF Counted
  <2>3. Inside' = {} /\ ShuttingDown' = {}
    BY <2>2 DEF Inside, ShuttingDown
  <2>4. Cardinality(Inside') = 0
    BY <2>3, FS_EmptySet
  <2>. QED
    BY <2>1, <2>2, <2>3, <2>4 DEF Counted, One
<1>3. ASSUME NEW t \in Threads, NEW goal \in {"recv", "create"}, BorrowMailbox(t, goal)
      PROVE  Counted'
  <2>1. /\ pc[t] = "out" /\ handle /\ shutdown_rc' = shutdown_rc + 1
        /\ pc' = [pc EXCEPT ![t] = goal] /\ UNCHANGED <<mailbox, handle, is_shut_down>>
    BY <1>3 DEF BorrowMailbox
  <2>2. Cardinality(Inside') = Cardinality(Inside) + 1 /\ ShuttingDown' = ShuttingDown
    BY <2>1, Enters, Zenon DEF InsidePC
  <2>3. ~is_shut_down /\ ShuttingDown = {}
    BY <2>1, DownIsEmpty
  <2>4. shutdown_rc' = One(handle') + Cardinality(Inside')
    BY <2>1, <2>2, InsideFinite DEF Counted, One
  <2>5. mailbox # "none"
    BY <2>1 DEF Counted
  <2>6. \A u \in Threads : pc'[u] \in {pc[u], "recv", "create"}
    BY <2>1 DEF Typed
  <2>. QED
    BY <2>1, <2>2, <2>3, <2>4, <2>5, <2>6, Zenon DEF Counted
<1>4. ASSUME NEW t \in Threads, DropHandle(t) PROVE Counted'
  <2>1. /\ pc[t] = "out" /\ handle /\ handle' = FALSE /\ DropShutdownRef(t)
        /\ UNCHANGED <<mailbox, is_shut_down>>
    BY <1>4 DEF DropHandle
  <2>2. /\ Inside' = Inside
        /\ ShuttingDown' = IF shutdown_rc = 1 THEN ShuttingDown \cup {t} ELSE ShuttingDown
    BY <2>1 DEF Typed, Inside, ShuttingDown, DropShutdownRef
  <2>3. One(handle') + Cardinality(Inside') = (One(handle) + Cardinality(Inside)) - 1
    BY <2>1, <2>2, InsideFinite DEF One
  <2>. QED
    BY <2>1, <2>2, <2>3, CountedDrop, Zenon
<1>5. ASSUME NEW t \in Threads, Leave(t) PROVE Counted'
  <2>1. /\ pc[t] = "leave" /\ DropShutdownRef(t) /\ UNCHANGED <<mailbox, handle, is_shut_down>>
    BY <1>5 DEF Leave
  <2>2. /\ Inside' = Inside \ {t} /\ t \in Inside
        /\ ShuttingDown' = IF shutdown_rc = 1 THEN ShuttingDown \cup {t} ELSE ShuttingDown
    BY <2>1 DEF Typed, Inside, ShuttingDown, DropShutdownRef
  <2>3. Cardinality(Inside') = Cardinality(Inside) - 1
    BY <2>2, InsideFinite, FS_RemoveElement
  <2>4. One(handle') + Cardinality(Inside') = (One(handle) + Cardinality(Inside)) - 1
    BY <2>1, <2>3, InsideFinite DEF One
  <2>5. Inside # {} /\ handle' \in BOOLEAN
    BY <2>1 DEF Inside, Typed
  <2>. QED
    BY <2>1, <2>2, <2>4, <2>5, CountedDrop
<1>6. ASSUME NEW t \in Threads,
             \/ ReceiveQueued(t) \/ ReceiveWait(t) \/ ReceiveWoken(t) \/ DropTaken(t)
             \/ CreateRaiserOutOfMemory(t) \/ \E r \in Raisers : user_create_raiser(t, r)
      PROVE  Counted'
  <2>1. /\ pc[t] \in InsidePC /\ \E x \in InsidePC : pc' = [pc EXCEPT ![t] = x]
        /\ UNCHANGED <<handle, shutdown_rc, is_shut_down>>
    BY Zenon, <1>6 DEF ReceiveQueued, ReceiveWait, ReceiveWoken, TakeNotification, DropTaken,
                CreateRaiserOutOfMemory, user_create_raiser, InsidePC, mbVars
  <2>2. mailbox' \in {mailbox, "freed"}
    BY Zenon, <1>6 DEF ReceiveQueued, ReceiveWait, ReceiveWoken, TakeNotification, DropTaken,
                DropRaiserRef, DropDeallocRef, CreateRaiserOutOfMemory, user_create_raiser, mbVars
  <2>. QED
    BY <2>1, <2>2, CountedInside, Zenon
<1>7. ASSUME NEW t \in Threads,
             ShutdownSetFlag(t) \/ ShutdownDrained(t) \/ ShutdownLastDrop(t)
      PROVE  Counted'
  BY <1>7, CountedShutdown
<1>8. ASSUME NEW t \in Threads, NEW s \in Slots, ShutdownDrain(t, s) PROVE Counted'
  BY <1>8, CountedOutside DEF ShutdownDrain, DropRaiserRef, DropDeallocRef, threadVars
<1>9. ASSUME NEW r \in Raisers,
             OwnerDropsRaiser(r) \/ \E id \in Cores : user_send_notification_to_core(r, id)
      PROVE  Counted'
  BY <1>9, CountedOutside DEF OwnerDropsRaiser, DropRaiserRef, DropDeallocRef, threadVars,
                              user_send_notification_to_core, mbVars
<1>. QED
  BY <1>1, <1>2, <1>3, <1>4, <1>5, <1>6, <1>7, <1>8, <1>9
     DEF Next, ThreadStep, BorrowToReceive, BorrowToCreate

-----------------------------------------------------------------------------
Asleep == {t \in Threads : pc[t] = "asleep"}

(* Thread t, of the sleepers A, was woken with the channel of r in slot s. *)
Carries(A, ch, t, r, s) == t \in A /\ ch[t] = r /\ SlotOf(CoreOf[t]) = s

(***************************************************************************)
(* ChannelInOnePlace for any queues mq, sleepers A, channels ch and counts *)
(* pd: inside of an operation they are not yet those of the next state.    *)
(***************************************************************************)
OnePlaceFor(mq, A, ch, pd, r, s) ==
  /\ \A t, u \in Threads : Carries(A, ch, t, r, s) /\ Carries(A, ch, u, r, s) => t = u
  /\ \A t \in Threads : Carries(A, ch, t, r, s) => r \notin Elems(mq[s])
  /\ pd[r][s] > 0 <=> r \in Elems(mq[s]) \/ \E t \in Threads : Carries(A, ch, t, r, s)

OnePlace(mq, A, ch, pd) ==
  \A s \in Slots : NoRepeats(mq[s]) /\ \A r \in Raisers : OnePlaceFor(mq, A, ch, pd, r, s)

Queues == [Slots -> Seq(Raisers)]
Channels == [Threads -> Raisers \cup {NoRaiser}]
Counts == [Raisers -> [Slots -> Nat]]

(***************************************************************************)
(* The checked property is OnePlace of the current state.                  *)
(***************************************************************************)
LEMMA OnePlaceIff ==
  ASSUME Typed
  PROVE  ChannelInOnePlace <=> (~is_shut_down => OnePlace(msg_queue, Asleep, channel, pending))
<1>1. ASSUME NEW r \in Raisers, NEW s \in Slots, NEW t
      PROVE  t \in Carriers(r, s) <=> t \in Threads /\ Carries(Asleep, channel, t, r, s)
  BY NotificationsAssumption DEF Carriers, Woken, Carries, Asleep
<1>2. ASSUME NEW r \in Raisers, NEW s \in Slots
      PROVE  OnePlaceFor(msg_queue, Asleep, channel, pending, r, s) <=>
               /\ \A t, u \in Carriers(r, s) : t = u
               /\ ~(r \in Elems(msg_queue[s]) /\ Carriers(r, s) # {})
               /\ pending[r][s] > 0 <=> r \in Elems(msg_queue[s]) \/ Carriers(r, s) # {}
  BY <1>1 DEF OnePlaceFor
<1>. QED
  BY <1>2 DEF ChannelInOnePlace, OnePlace

(***************************************************************************)
(* The head of a queue is dequeued: its channel is nowhere, and counts     *)
(* nothing.                                                                *)
(***************************************************************************)
LEMMA PlaceDequeue ==
  ASSUME NEW mq \in Queues, NEW A \in SUBSET Threads, NEW ch \in Channels, NEW pd \in Counts,
         OnePlace(mq, A, ch, pd), NEW s \in Slots, mq[s] # <<>>
  PROVE  /\ Head(mq[s]) \in Raisers /\ pd[Head(mq[s])][s] > 0
         /\ OnePlace([mq EXCEPT ![s] = Tail(@)], A, ch, [pd EXCEPT ![Head(mq[s])][s] = 0])
<1>. DEFINE r == Head(mq[s])
            mr == [mq EXCEPT ![s] = Tail(@)]
            pr == [pd EXCEPT ![r][s] = 0]
<1>1. mq[s] \in Seq(Raisers) /\ NoRepeats(mq[s])
  BY DEF Queues, OnePlace
<1>2. r \in Raisers
  BY <1>1, TailFacts, Zenon
<1>3. NoRepeats(Tail(mq[s])) /\ r \in Elems(mq[s]) /\ Elems(Tail(mq[s])) = Elems(mq[s]) \ {r}
  BY <1>1, Dequeue, Zenon
<1>. HIDE DEF r
<1>4. pd[r][s] > 0 /\ \A t \in Threads : ~Carries(A, ch, t, r, s)
  BY <1>2, <1>3 DEF OnePlace, OnePlaceFor
<1>5. mr[s] = Tail(mq[s]) /\ \A q \in Slots : q # s => mr[q] = mq[q]
  BY DEF Queues
<1>6. pr[r][s] = 0 /\ \A x \in Raisers, q \in Slots : <<x, q>> # <<r, s>> => pr[x][q] = pd[x][q]
  BY <1>2 DEF Counts
<1>. HIDE DEF mr, pr
<1>7. ASSUME NEW q \in Slots PROVE NoRepeats(mr[q])
  BY <1>3, <1>5 DEF OnePlace
<1>8. ASSUME NEW q \in Slots, NEW x \in Raisers PROVE OnePlaceFor(mr, A, ch, pr, x, q)
  <2>1. OnePlaceFor(mq, A, ch, pd, x, q)
    BY DEF OnePlace
  <2>2. CASE <<x, q>> = <<r, s>>
    BY <2>2, <1>3, <1>4, <1>5, <1>6 DEF OnePlaceFor
  <2>3. CASE <<x, q>> # <<r, s>>
    BY <2>1, <2>3, <1>3, <1>5, <1>6 DEF OnePlaceFor
  <2>. QED
    BY <2>2, <2>3
<1>. QED
  BY <1>2, <1>4, <1>7, <1>8, Zenon DEF OnePlace, mr, pr, r

(***************************************************************************)
(* A woken thread goes on: its channel is nowhere, and counts nothing.     *)
(***************************************************************************)
LEMMA PlaceGoOn ==
  ASSUME NEW mq \in Queues, NEW A \in SUBSET Threads, NEW ch \in Channels, NEW pd \in Counts,
         OnePlace(mq, A, ch, pd), NEW t \in A, ch[t] \in Raisers,
         SlotOf(CoreOf[t]) \in Slots
  PROVE  /\ pd[ch[t]][SlotOf(CoreOf[t])] > 0
         /\ OnePlace(mq, A \ {t}, ch, [pd EXCEPT ![ch[t]][SlotOf(CoreOf[t])] = 0])
<1>. DEFINE r == ch[t]
            s == SlotOf(CoreOf[t])
            pr == [pd EXCEPT ![r][s] = 0]
<1>1. Carries(A, ch, t, r, s) /\ t \in Threads
  BY DEF Carries
<1>2. r \in Raisers /\ s \in Slots
  OBVIOUS
<1>. HIDE DEF r, s
<1>3. pd[r][s] > 0 /\ r \notin Elems(mq[s]) /\ \A u \in Threads : Carries(A, ch, u, r, s) => u = t
  BY <1>1, <1>2 DEF OnePlace, OnePlaceFor
<1>4. pr[r][s] = 0 /\ \A x \in Raisers, q \in Slots : <<x, q>> # <<r, s>> => pr[x][q] = pd[x][q]
  BY <1>2 DEF Counts
<1>. HIDE DEF pr
<1>5. ASSUME NEW q \in Slots, NEW x \in Raisers PROVE OnePlaceFor(mq, A \ {t}, ch, pr, x, q)
  <2>1. OnePlaceFor(mq, A, ch, pd, x, q)
    BY DEF OnePlace
  <2>2. CASE <<x, q>> = <<r, s>>
    <3>1. \A u \in Threads : ~Carries(A \ {t}, ch, u, x, q)
      BY <1>3, <2>2 DEF Carries
    <3>2. ~(pr[x][q] > 0) /\ x \notin Elems(mq[q])
      BY <1>3, <1>4, <2>2
    <3>. QED
      BY <3>1, <3>2, Zenon DEF OnePlaceFor
  <2>3. CASE <<x, q>> # <<r, s>>
    <3>1. \A u \in Threads : Carries(A \ {t}, ch, u, x, q) <=> Carries(A, ch, u, x, q)
      BY <2>3 DEF Carries, r, s
    <3>. QED
      BY <2>1, <2>3, <3>1, <1>4, Zenon DEF OnePlaceFor
  <2>. QED
    BY <2>2, <2>3
<1>. QED
  BY <1>3, <1>5, Zenon DEF OnePlace, pr, r, s

(***************************************************************************)
(* Only the channels of sleepers are places, and of a count only whether   *)
(* it is zero matters.                                                     *)
(***************************************************************************)
LEMMA PlaceSame ==
  ASSUME NEW mq, NEW A \in SUBSET Threads, NEW ch, NEW cr, NEW pd, NEW pr,
         OnePlace(mq, A, ch, pd), \A t \in A : cr[t] = ch[t],
         \A r \in Raisers, s \in Slots : pr[r][s] > 0 <=> pd[r][s] > 0
  PROVE  OnePlace(mq, A, cr, pr)
<1>1. ASSUME NEW t \in Threads, NEW r \in Raisers, NEW s \in Slots
      PROVE  Carries(A, cr, t, r, s) <=> Carries(A, ch, t, r, s)
  BY DEF Carries
<1>. QED
  BY <1>1 DEF OnePlace, OnePlaceFor

(***************************************************************************)
(* The waiters of the slots: all asleep in their slot without a channel,   *)
(* and only where no message is queued.                                    *)
(***************************************************************************)
WaitersFor(tq, mq, A, ch) ==
  \A s \in Slots :
    /\ NoRepeats(tq[s])
    /\ \A w \in Elems(tq[s]) : w \in A /\ ch[w] = NoRaiser /\ SlotOf(CoreOf[w]) = s
    /\ tq[s] # <<>> => mq[s] = <<>>

(***************************************************************************)
(* user_raiser_enqueue_nolock with a waiter: a channel that is nowhere is  *)
(* now with one woken thread.                                              *)
(***************************************************************************)
LEMMA PlaceHandOver ==
  ASSUME NEW mq \in Queues, NEW A \in SUBSET Threads, NEW ch \in Channels, NEW pd \in Counts,
         OnePlace(mq, A, ch, pd), NEW r \in Raisers, NEW s \in Slots, pd[r][s] = 0,
         NEW w \in A, ch[w] = NoRaiser, SlotOf(CoreOf[w]) = s, NEW n \in Nat \ {0}
  PROVE  OnePlace(mq, A, [ch EXCEPT ![w] = r], [pd EXCEPT ![r][s] = n])
<1>. DEFINE cr == [ch EXCEPT ![w] = r]
            pr == [pd EXCEPT ![r][s] = n]
<1>1. pr[r][s] > 0 /\ \A x \in Raisers, q \in Slots : <<x, q>> # <<r, s>> => pr[x][q] = pd[x][q]
  BY DEF Counts
<1>2. cr[w] = r /\ \A u \in Threads : u # w => cr[u] = ch[u]
  BY DEF Channels
<1>3. r \notin Elems(mq[s]) /\ \A u \in Threads : ~Carries(A, ch, u, r, s)
  BY DEF OnePlace, OnePlaceFor
<1>. HIDE DEF cr, pr
<1>4. ASSUME NEW q \in Slots, NEW x \in Raisers PROVE OnePlaceFor(mq, A, cr, pr, x, q)
  <2>1. OnePlaceFor(mq, A, ch, pd, x, q)
    BY DEF OnePlace
  <2>2. CASE <<x, q>> = <<r, s>>
    <3>1. \A u \in Threads : Carries(A, cr, u, x, q) <=> u = w
      BY <1>2, <1>3, <2>2 DEF Carries
    <3>. QED
      BY <2>2, <3>1, <1>1, <1>3 DEF OnePlaceFor
  <2>3. CASE <<x, q>> # <<r, s>>
    <3>1. \A u \in Threads : Carries(A, cr, u, x, q) <=> Carries(A, ch, u, x, q)
      BY <1>2, <2>3, NotificationsAssumption DEF Carries
    <3>. QED
      BY <2>1, <2>3, <3>1, <1>1 DEF OnePlaceFor
  <2>. QED
    BY <2>2, <2>3
<1>. QED
  BY <1>4, Zenon DEF OnePlace, cr, pr

(***************************************************************************)
(* The same when there is no waiter: the channel is queued.                *)
(***************************************************************************)
LEMMA PlaceEnqueue ==
  ASSUME NEW mq \in Queues, NEW A \in SUBSET Threads, NEW ch \in Channels, NEW pd \in Counts,
         OnePlace(mq, A, ch, pd), NEW r \in Raisers, NEW s \in Slots, pd[r][s] = 0,
         NEW n \in Nat \ {0}
  PROVE  OnePlace([mq EXCEPT ![s] = Append(@, r)], A, ch, [pd EXCEPT ![r][s] = n])
<1>. DEFINE mr == [mq EXCEPT ![s] = Append(@, r)]
            pr == [pd EXCEPT ![r][s] = n]
<1>1. pr[r][s] > 0 /\ \A x \in Raisers, q \in Slots : <<x, q>> # <<r, s>> => pr[x][q] = pd[x][q]
  BY DEF Counts
<1>2. r \notin Elems(mq[s]) /\ \A u \in Threads : ~Carries(A, ch, u, r, s)
  BY DEF OnePlace, OnePlaceFor
<1>3. mq[s] \in Seq(Raisers) /\ NoRepeats(mq[s])
  BY DEF Queues, OnePlace
<1>4. Elems(Append(mq[s], r)) = Elems(mq[s]) \cup {r} /\ NoRepeats(Append(mq[s], r))
  BY <1>2, <1>3, Enqueue
<1>5. mr[s] = Append(mq[s], r) /\ \A q \in Slots : q # s => mr[q] = mq[q]
  BY DEF Queues
<1>. HIDE DEF mr, pr
<1>6. ASSUME NEW q \in Slots PROVE NoRepeats(mr[q])
  BY <1>4, <1>5, Zenon DEF OnePlace
<1>7. ASSUME NEW q \in Slots, NEW x \in Raisers PROVE OnePlaceFor(mr, A, ch, pr, x, q)
  <2>1. OnePlaceFor(mq, A, ch, pd, x, q)
    BY DEF OnePlace
  <2>2. CASE <<x, q>> = <<r, s>>
    BY <2>2, <1>1, <1>2, <1>4, <1>5 DEF OnePlaceFor
  <2>3. CASE <<x, q>> # <<r, s>>
    BY <2>1, <2>3, <1>1, <1>4, <1>5, Zenon DEF OnePlaceFor
  <2>. QED
    BY <2>2, <2>3
<1>. QED
  BY <1>6, <1>7, Zenon DEF OnePlace, mr, pr

(***************************************************************************)
(* user_raiser_enqueue_nolock puts a channel that is nowhere in one place, *)
(* wakes a waiter if there is one, and leaves the other waiters alone.     *)
(***************************************************************************)
LEMMA EnqueuePlaces ==
  ASSUME NEW mq \in Queues, NEW A \in SUBSET Threads, NEW ch \in Channels, NEW pd \in Counts,
         task_queue \in [Slots -> Seq(Threads)],
         OnePlace(mq, A, ch, pd), WaitersFor(task_queue, mq, A, ch),
         NEW r \in Raisers, NEW s \in Slots, pd[r][s] = 0, NEW n \in Nat \ {0},
         user_raiser_enqueue_nolock(r, s, mq, ch)
  PROVE  /\ OnePlace(msg_queue', A, channel', [pd EXCEPT ![r][s] = n])
         /\ WaitersFor(task_queue', msg_queue', A, channel')
         /\ msg_queue' \in Queues /\ channel' \in Channels
         /\ task_queue' \in [Slots -> Seq(Threads)]
         /\ \A t \in Threads : channel'[t] = ch[t] \/ (t \in A /\ channel'[t] \in Raisers)
<1>. DEFINE w == Head(task_queue[s])
<1>0. task_queue[s] \in Seq(Threads) /\ mq[s] \in Seq(Raisers) /\ NoRepeats(task_queue[s])
  BY DEF Queues, WaitersFor
<1>1. CASE task_queue[s] # <<>>
  <2>1. /\ channel' = [ch EXCEPT ![w] = r] /\ msg_queue' = mq
        /\ task_queue' = [task_queue EXCEPT ![s] = Tail(@)]
    BY <1>1 DEF user_raiser_enqueue_nolock
  <2>2. /\ NoRepeats(Tail(task_queue[s])) /\ w \in Elems(task_queue[s])
        /\ Elems(Tail(task_queue[s])) = Elems(task_queue[s]) \ {w}
    BY <1>0, <1>1, Dequeue, Zenon
  <2>3. Tail(task_queue[s]) \in Seq(Threads)
    BY <1>0, <1>1, TailFacts, Zenon
  <2>. HIDE DEF w
  <2>4. w \in A /\ ch[w] = NoRaiser /\ SlotOf(CoreOf[w]) = s
    BY <2>2 DEF WaitersFor
  <2>5. OnePlace(msg_queue', A, channel', [pd EXCEPT ![r][s] = n])
    BY <2>1, <2>4, PlaceHandOver, Zenon
  <2>6. /\ task_queue'[s] = Tail(task_queue[s])
        /\ \A q \in Slots : q # s => task_queue'[q] = task_queue[q]
    BY <2>1
  <2>7. channel' \in Channels /\ channel'[w] = r /\ \A t \in Threads : t # w => channel'[t] = ch[t]
    BY <2>1, <2>4 DEF Channels
  <2>8. task_queue' \in [Slots -> Seq(Threads)]
    BY <2>1, <2>3
  <2>9. ASSUME NEW q \in Slots
        PROVE  /\ NoRepeats(task_queue'[q])
               /\ \A u \in Elems(task_queue'[q]) :
                    u \in A /\ channel'[u] = NoRaiser /\ SlotOf(CoreOf[u]) = q
               /\ task_queue'[q] # <<>> => msg_queue'[q] = <<>>
    <3>1. CASE q = s
      BY <3>1, <2>1, <2>2, <2>6, <2>7, <1>1 DEF WaitersFor
    <3>2. CASE q # s
      BY <3>2, <2>1, <2>4, <2>6, <2>7 DEF WaitersFor
    <3>. QED
      BY <3>1, <3>2
  <2>10. WaitersFor(task_queue', msg_queue', A, channel')
    BY <2>9 DEF WaitersFor
  <2>. QED
    BY <2>1, <2>4, <2>5, <2>7, <2>8, <2>10
<1>2. CASE task_queue[s] = <<>>
  <2>1. /\ channel' = ch /\ task_queue' = task_queue
        /\ msg_queue' = [mq EXCEPT ![s] = Append(@, r)]
    BY <1>2 DEF user_raiser_enqueue_nolock
  <2>2. OnePlace(msg_queue', A, channel', [pd EXCEPT ![r][s] = n])
    BY <2>1, PlaceEnqueue, Zenon
  <2>3. Append(mq[s], r) \in Seq(Raisers)
    BY <1>0, AppendFacts
  <2>4. msg_queue' \in Queues /\ \A q \in Slots : q # s => msg_queue'[q] = mq[q]
    BY <2>1, <2>3 DEF Queues
  <2>5. WaitersFor(task_queue', msg_queue', A, channel')
    BY <1>2, <2>1, <2>4 DEF WaitersFor
  <2>. QED
    BY <2>1, <2>2, <2>4, <2>5
<1>. QED
  BY <1>1, <1>2

-----------------------------------------------------------------------------
(* A thread has a channel from its wake-up until it has dropped it. *)
Held ==
  \A t \in Threads : /\ channel[t] # NoRaiser => pc[t] \in {"asleep", "taken"}
                     /\ pc[t] = "taken" => channel[t] # NoRaiser

Placed ==
  /\ ~is_shut_down => OnePlace(msg_queue, Asleep, channel, pending)
  /\ WaitersFor(task_queue, msg_queue, Asleep, channel)
  /\ Held

(***************************************************************************)
(* A core's slot is a slot.                                                *)
(***************************************************************************)
LEMMA SlotType == \A id \in Cores : SlotOf(id) \in Slots
BY NotificationsAssumption DEF SlotOf, Slots

(***************************************************************************)
(* The kind of a mailbox does not change while it is used: what holds of   *)
(* the next state's values holds in the next state.                        *)
(***************************************************************************)
LEMMA PlacedNext ==
  ASSUME is_per_cpu' = is_per_cpu,
         ~is_shut_down' => OnePlace(msg_queue', Asleep', channel', pending'),
         WaitersFor(task_queue', msg_queue', Asleep', channel'), Held'
  PROVE  Placed'
BY DEF Placed, OnePlace, OnePlaceFor, Carries, WaitersFor, SlotOf, Slots

(***************************************************************************)
(* A step that moves no channel and no waiter keeps the placement.         *)
(***************************************************************************)
LEMMA PlacedStill ==
  ASSUME Placed, Asleep' = Asleep, UNCHANGED <<is_per_cpu, queueVars, channel>>,
         is_shut_down => is_shut_down',
         \A t \in Threads : /\ channel[t] # NoRaiser => pc'[t] = pc[t]
                            /\ pc'[t] = "taken" => pc[t] = "taken"
  PROVE  Placed'
<1>1. Held'
  BY DEF Placed, Held
<1>2. UNCHANGED <<msg_queue, task_queue, pending, channel>>
  BY DEF queueVars
<1>3. /\ ~is_shut_down' => OnePlace(msg_queue', Asleep', channel', pending')
      /\ WaitersFor(task_queue', msg_queue', Asleep', channel')
  BY <1>2 DEF Placed
<1>. QED
  BY <1>1, <1>3, PlacedNext

-----------------------------------------------------------------------------
(***************************************************************************)
(* The part of user_recieve_notification after a channel was obtained.     *)
(***************************************************************************)
LEMMA TakePlaces ==
  ASSUME Typed, Placed, NEW t \in Threads, NEW r \in Raisers, NEW s \in Slots,
         NEW mq \in Queues, pending[r][s] > 0,
         OnePlace(mq, Asleep \ {t}, channel, [pending EXCEPT ![r][s] = 0]),
         WaitersFor(task_queue, mq, Asleep \ {t}, channel),
         TakeNotification(t, r, s, mq)
  PROVE  Typed' /\ Placed'
<1>. DEFINE A == Asleep \ {t}
            ch == [channel EXCEPT ![t] = r]
            pd == [pending EXCEPT ![r][s] = 0]
            n == pending[r][s] - 1
<1>1. /\ pc' = [pc EXCEPT ![t] = "taken"] /\ UNCHANGED mbVars /\ UNCHANGED owner
      /\ pending' = [pending EXCEPT ![r][s] = @ - 1]
      /\ pending[r][s] # 1 => user_raiser_enqueue_nolock(r, s, mq, ch)
      /\ pending[r][s] = 1 => msg_queue' = mq /\ channel' = ch /\ task_queue' = task_queue
  BY DEF TakeNotification
<1>2. Asleep' = A
  BY <1>1 DEF Asleep, Typed
<1>3. /\ A \in SUBSET Threads /\ ch \in Channels /\ pd \in Counts /\ pending \in Counts
      /\ task_queue \in [Slots -> Seq(Threads)]
  BY DEF Asleep, Typed, Channels, Counts
<1>4. pd[r][s] = 0 /\ pending[r][s] \in Nat
  BY DEF Typed
<1>5. pending' \in Counts /\ pending' = [pd EXCEPT ![r][s] = n]
  <2>1. n \in Nat /\ pending' = [pending EXCEPT ![r] = [pending[r] EXCEPT ![s] = n]]
    BY <1>1, <1>4
  <2>2. pd = [pending EXCEPT ![r] = [pending[r] EXCEPT ![s] = 0]]
    OBVIOUS
  <2>3. pd[r] = [pending[r] EXCEPT ![s] = 0] /\ pending[r] \in [Slots -> Nat]
    BY <2>2, <1>3 DEF Counts
  <2>4. [pd[r] EXCEPT ![s] = n] = [pending[r] EXCEPT ![s] = n]
    BY <2>3
  <2>. HIDE DEF n
  <2>5. [pending[r] EXCEPT ![s] = n] \in [Slots -> Nat]
    BY <2>1, <2>3
  <2>6. pending' \in Counts
    BY <2>1, <2>5, <1>3 DEF Counts
  <2>7. [pd EXCEPT ![r] = [pd[r] EXCEPT ![s] = n]] = pending'
    BY <2>1, <2>2, <2>4, <1>3, Zenon DEF Counts
  <2>. QED
    BY <2>6, <2>7
<1>6. \A u \in A : ch[u] = channel[u]
  BY DEF Typed, Asleep
<1>7. OnePlace(mq, A, channel, pd)
  OBVIOUS
<1>. HIDE DEF A, ch, pd, n
<1>8. OnePlace(mq, A, ch, pd)
  BY <1>3, <1>6, <1>7, PlaceSame
<1>9. WaitersFor(task_queue, mq, A, ch)
  BY <1>6 DEF WaitersFor, A
<1>10. /\ OnePlace(msg_queue', A, channel', pending')
       /\ WaitersFor(task_queue', msg_queue', A, channel')
       /\ msg_queue' \in Queues /\ channel' \in Channels
       /\ task_queue' \in [Slots -> Seq(Threads)]
       /\ \A u \in Threads : channel'[u] = ch[u] \/ (u \in A /\ channel'[u] \in Raisers)
  <2>1. CASE pending[r][s] # 1
    <3>1. n \in Nat \ {0}
      BY <2>1, <1>4 DEF n
    <3>2. user_raiser_enqueue_nolock(r, s, mq, ch)
      BY <2>1, <1>1
    <3>. QED
      BY <3>1, <3>2, <1>3, <1>4, <1>5, <1>8, <1>9, EnqueuePlaces, Zenon
  <2>2. CASE pending[r][s] = 1
    <3>1. msg_queue' = mq /\ channel' = ch /\ task_queue' = task_queue
      BY <2>2, <1>1
    <3>2. \A x \in Raisers, q \in Slots : pending'[x][q] > 0 <=> pd[x][q] > 0
      BY <2>2, <1>1 DEF Typed, pd
    <3>3. OnePlace(mq, A, ch, pending')
      BY <3>2, <1>3, <1>8, PlaceSame
    <3>. QED
      BY <3>1, <3>3, <1>3, <1>9
  <2>. QED
    BY <2>1, <2>2
<1>11. Held'
  <2>1. ch[t] = r /\ \A u \in Threads : u # t => ch[u] = channel[u]
    BY DEF ch, Typed
  <2>2. pc'[t] = "taken" /\ \A u \in Threads : u # t => pc'[u] = pc[u]
    BY <1>1 DEF Typed
  <2>3. \A u \in A : u # t /\ pc'[u] = "asleep"
    BY <2>2 DEF A, Asleep
  <2>. QED
    BY <2>1, <2>2, <2>3, <1>10, NotificationsAssumption DEF Placed, Held
<1>12. Typed'
  <2>1. pc' \in [Threads -> PC]
    BY <1>1 DEF Typed, PC
  <2>. QED
    BY <2>1, <1>1, <1>5, <1>10, Zenon DEF Typed, mbVars, Queues, Channels, Counts
<1>13. is_per_cpu' = is_per_cpu
  BY <1>1 DEF mbVars
<1>. QED
  BY <1>2, <1>10, <1>11, <1>12, <1>13, PlacedNext

(***************************************************************************)
(* user_recieve_notification with a channel in the queue.                  *)
(***************************************************************************)
LEMMA QueuedPlaces ==
  ASSUME Typed, Counted, Placed, NEW t \in Threads, ReceiveQueued(t)
  PROVE  Typed' /\ Placed'
<1>. DEFINE s == SlotOf(CoreOf[t])
            r == Head(msg_queue[s])
            mq == [msg_queue EXCEPT ![s] = Tail(@)]
<1>1. pc[t] = "recv" /\ msg_queue[s] # <<>> /\ TakeNotification(t, r, s, mq)
  BY DEF ReceiveQueued
<1>2. s \in Slots
  BY SlotType, NotificationsAssumption, Zenon
<1>3. t \in Inside
  BY <1>1 DEF Inside
<1>4. ~is_shut_down
  BY <1>3, DownIsEmpty
<1>5. t \notin Asleep /\ Asleep \ {t} = Asleep
  BY <1>1 DEF Asleep
<1>6. /\ msg_queue \in Queues /\ Asleep \in SUBSET Threads
      /\ channel \in Channels /\ pending \in Counts
  BY DEF Typed, Queues, Asleep, Channels, Counts
<1>7. OnePlace(msg_queue, Asleep, channel, pending)
  BY <1>4 DEF Placed
<1>. HIDE DEF s
<1>8. /\ r \in Raisers /\ pending[r][s] > 0
      /\ OnePlace(mq, Asleep, channel, [pending EXCEPT ![r][s] = 0])
  BY <1>1, <1>2, <1>6, <1>7, PlaceDequeue, Zenon
<1>9. Tail(msg_queue[s]) \in Seq(Raisers)
  BY <1>1, <1>2, <1>6, TailFacts DEF Queues
<1>10. mq \in Queues /\ \A q \in Slots : q # s => mq[q] = msg_queue[q]
  BY <1>6, <1>9, Zenon DEF Queues
<1>11. WaitersFor(task_queue, msg_queue, Asleep, channel)
  BY DEF Placed
<1>12. task_queue[s] = <<>>
  BY <1>1, <1>2, <1>11 DEF WaitersFor
<1>. HIDE DEF r, mq
<1>13. WaitersFor(task_queue, mq, Asleep, channel)
  BY <1>10, <1>11, <1>12 DEF WaitersFor
<1>. QED
  BY <1>1, <1>2, <1>5, <1>8, <1>10, <1>13, TakePlaces

(***************************************************************************)
(* user_recieve_notification after the thread was woken with a channel.    *)
(***************************************************************************)
LEMMA WokenPlaces ==
  ASSUME Typed, Counted, Placed, NEW t \in Threads, ReceiveWoken(t)
  PROVE  Typed' /\ Placed'
<1>. DEFINE s == SlotOf(CoreOf[t])
<1>1. /\ pc[t] = "asleep" /\ channel[t] # NoRaiser
      /\ TakeNotification(t, channel[t], s, msg_queue)
  BY DEF ReceiveWoken
<1>2. s \in Slots
  BY SlotType, NotificationsAssumption, Zenon
<1>3. t \in Inside /\ t \in Asleep /\ channel[t] \in Raisers
  BY <1>1 DEF Inside, Asleep, Typed
<1>4. ~is_shut_down
  BY <1>3, DownIsEmpty
<1>5. /\ msg_queue \in Queues /\ Asleep \in SUBSET Threads
      /\ channel \in Channels /\ pending \in Counts
  BY DEF Typed, Queues, Asleep, Channels, Counts
<1>6. OnePlace(msg_queue, Asleep, channel, pending)
  BY <1>4 DEF Placed
<1>7. /\ pending[channel[t]][s] > 0
      /\ OnePlace(msg_queue, Asleep \ {t}, channel, [pending EXCEPT ![channel[t]][s] = 0])
  BY <1>2, <1>3, <1>5, <1>6, PlaceGoOn
<1>8. WaitersFor(task_queue, msg_queue, Asleep \ {t}, channel)
  BY <1>1 DEF Placed, WaitersFor
<1>. HIDE DEF s
<1>. QED
  BY <1>1, <1>2, <1>3, <1>5, <1>7, <1>8, TakePlaces

(***************************************************************************)
(* user_recieve_notification with nothing queued: the thread becomes the   *)
(* last waiter of its slot.                                                *)
(***************************************************************************)
LEMMA WaitPlaces ==
  ASSUME Typed, Counted, Placed, NEW t \in Threads, ReceiveWait(t)
  PROVE  Typed' /\ Placed'
<1>. DEFINE s == SlotOf(CoreOf[t])
<1>1. /\ pc[t] = "recv" /\ msg_queue[s] = <<>>
      /\ task_queue' = [task_queue EXCEPT ![s] = Append(@, t)]
      /\ pc' = [pc EXCEPT ![t] = "asleep"]
      /\ UNCHANGED <<mbVars, msg_queue, pending, owner, channel>>
  BY DEF ReceiveWait, raiserVars
<1>2. s \in Slots
  BY SlotType, NotificationsAssumption, Zenon
<1>3. channel[t] = NoRaiser
  BY <1>1 DEF Placed, Held
<1>4. Asleep' = Asleep \cup {t} /\ t \notin Asleep
  BY <1>1 DEF Asleep, Typed
<1>5. WaitersFor(task_queue, msg_queue, Asleep, channel) /\ task_queue[s] \in Seq(Threads)
  BY <1>2 DEF Placed, Typed
<1>6. t \notin Elems(task_queue[s]) /\ NoRepeats(task_queue[s])
  BY <1>2, <1>4, <1>5 DEF WaitersFor
<1>7. /\ Elems(Append(task_queue[s], t)) = Elems(task_queue[s]) \cup {t}
      /\ NoRepeats(Append(task_queue[s], t)) /\ Append(task_queue[s], t) \in Seq(Threads)
  BY <1>5, <1>6, Enqueue, AppendFacts
<1>8. /\ task_queue'[s] = Append(task_queue[s], t) /\ task_queue' \in [Slots -> Seq(Threads)]
      /\ \A q \in Slots : q # s => task_queue'[q] = task_queue[q]
  BY <1>1, <1>2, <1>7 DEF Typed
<1>9. WaitersFor(task_queue', msg_queue', Asleep', channel')
  <2>1. ASSUME NEW q \in Slots
        PROVE  /\ NoRepeats(task_queue'[q])
               /\ \A w \in Elems(task_queue'[q]) :
                    w \in Asleep' /\ channel'[w] = NoRaiser /\ SlotOf(CoreOf[w]) = q
               /\ task_queue'[q] # <<>> => msg_queue'[q] = <<>>
    <3>1. CASE q = s
      BY <3>1, <1>1, <1>3, <1>4, <1>5, <1>7, <1>8 DEF WaitersFor
    <3>2. CASE q # s
      BY <3>2, <1>1, <1>4, <1>5, <1>8 DEF WaitersFor
    <3>. QED
      BY <3>1, <3>2
  <2>. QED
    BY <2>1 DEF WaitersFor
<1>10. ~is_shut_down' => OnePlace(msg_queue', Asleep', channel', pending')
  <2>. SUFFICES ASSUME ~is_shut_down' PROVE OnePlace(msg_queue', Asleep', channel', pending')
    OBVIOUS
  <2>1. OnePlace(msg_queue, Asleep, channel, pending)
    BY <1>1, Zenon DEF Placed, mbVars
  <2>2. \A u \in Threads, r \in Raisers, q \in Slots :
          Carries(Asleep', channel', u, r, q) <=> Carries(Asleep, channel, u, r, q)
    BY <1>1, <1>3, <1>4, NotificationsAssumption DEF Carries
  <2>3. msg_queue' = msg_queue /\ pending' = pending
    BY <1>1
  <2>. QED
    BY <2>1, <2>2, <2>3 DEF OnePlace, OnePlaceFor
<1>11. Held'
  BY <1>1, <1>3 DEF Placed, Held, Typed
<1>12. Typed'
  <2>1. pc' \in [Threads -> PC]
    BY <1>1 DEF Typed, PC
  <2>. QED
    BY <2>1, <1>1, <1>8 DEF Typed, mbVars
<1>13. is_per_cpu' = is_per_cpu
  BY <1>1 DEF mbVars
<1>. QED
  BY <1>9, <1>10, <1>11, <1>12, <1>13, PlacedNext

-----------------------------------------------------------------------------
(* What refers to a raiser: its owner, the queues that link it, the threads that hold it. *)
Linking(mq, r) == {s \in Slots : r \in Elems(mq[s])}
Holding(ch, r) == {t \in Threads : ch[t] = r}
RefCount(mq, ch, own, r) ==
  One(r \in own) + Cardinality(Linking(mq, r)) + Cardinality(Holding(ch, r))
Refs(mq, ch, own) == [r \in Raisers |-> RefCount(mq, ch, own, r)]

(* One count changes. *)
Bump(f, r, d) == [f EXCEPT ![r] = @ + d]

(***************************************************************************)
(* References are counted by natural numbers, and none is left at zero.    *)
(***************************************************************************)
LEMMA RefSets ==
  ASSUME NEW mq, NEW ch, NEW r
  PROVE  /\ IsFiniteSet(Linking(mq, r)) /\ Cardinality(Linking(mq, r)) \in Nat
         /\ IsFiniteSet(Holding(ch, r)) /\ Cardinality(Holding(ch, r)) \in Nat
<1>1. Linking(mq, r) \subseteq Cores /\ Holding(ch, r) \subseteq Threads
  BY DEF Linking, Holding, Slots
<1>2. IsFiniteSet(Linking(mq, r)) /\ IsFiniteSet(Holding(ch, r))
  BY <1>1, FS_Subset, NotificationsAssumption, Zenon
<1>. QED
  BY <1>2, FS_CardinalityType, Zenon

(***************************************************************************)
(* The count of a raiser is positive iff something refers to it.           *)
(***************************************************************************)
LEMMA RefsFacts ==
  ASSUME NEW mq, NEW ch, NEW own
  PROVE  /\ Refs(mq, ch, own) \in [Raisers -> Nat]
         /\ \A r \in Raisers :
              Refs(mq, ch, own)[r] > 0 <=> r \in own \/ Linking(mq, r) # {} \/ Holding(ch, r) # {}
<1>1. ASSUME NEW r \in Raisers
      PROVE  /\ Refs(mq, ch, own)[r] \in Nat
             /\ Refs(mq, ch, own)[r] > 0 <=>
                  r \in own \/ Linking(mq, r) # {} \/ Holding(ch, r) # {}
  <2>1. /\ IsFiniteSet(Linking(mq, r)) /\ Cardinality(Linking(mq, r)) \in Nat
        /\ IsFiniteSet(Holding(ch, r)) /\ Cardinality(Holding(ch, r)) \in Nat
    BY RefSets
  <2>2. /\ Cardinality(Linking(mq, r)) = 0 <=> Linking(mq, r) = {}
        /\ Cardinality(Holding(ch, r)) = 0 <=> Holding(ch, r) = {}
    BY <2>1, FS_EmptySet, Zenon
  <2>3. Refs(mq, ch, own)[r]
          = One(r \in own) + Cardinality(Linking(mq, r)) + Cardinality(Holding(ch, r))
    BY DEF Refs, RefCount
  <2>. QED
    BY <2>1, <2>2, <2>3 DEF One
<1>2. Refs(mq, ch, own) = [r \in Raisers |-> Refs(mq, ch, own)[r]]
  BY Zenon DEF Refs
<1>. QED
  BY <1>1, <1>2, Zenon

(***************************************************************************)
(* The references of one raiser change by d, and no other's do.            *)
(***************************************************************************)
LEMMA RefsStep ==
  ASSUME NEW mq, NEW ch, NEW own, NEW mr, NEW cr, NEW ow, NEW r \in Raisers, NEW d,
         \A x \in Raisers : x # r => RefCount(mr, cr, ow, x) = RefCount(mq, ch, own, x),
         RefCount(mr, cr, ow, r) = RefCount(mq, ch, own, r) + d
  PROVE  Refs(mr, cr, ow) = Bump(Refs(mq, ch, own), r, d)
BY Zenon DEF Refs, Bump

(***************************************************************************)
(* queue_enqueue links one raiser once more.                               *)
(***************************************************************************)
LEMMA RefsEnqueue ==
  ASSUME NEW mq \in Queues, NEW ch, NEW own, NEW s \in Slots, NEW r \in Raisers,
         r \notin Elems(mq[s]), NEW mr, mr[s] = Append(mq[s], r),
         \A q \in Slots : q # s => mr[q] = mq[q]
  PROVE  Refs(mr, ch, own) = Bump(Refs(mq, ch, own), r, 1)
<1>1. mq[s] \in Seq(Raisers)
  BY DEF Queues
<1>2. Elems(Append(mq[s], r)) = Elems(mq[s]) \cup {r}
  BY <1>1, Enqueue
<1>4. /\ \A x \in Raisers : x # r => Linking(mr, x) = Linking(mq, x)
      /\ Linking(mr, r) = Linking(mq, r) \cup {s} /\ s \notin Linking(mq, r)
  BY <1>2, Zenon DEF Linking
<1>5. Cardinality(Linking(mr, r)) = Cardinality(Linking(mq, r)) + 1
  BY <1>4, RefSets, FS_AddElement, Zenon
<1>6. \A x \in Raisers : x # r => RefCount(mr, ch, own, x) = RefCount(mq, ch, own, x)
  BY <1>4, Zenon DEF RefCount
<1>7. RefCount(mr, ch, own, r) = RefCount(mq, ch, own, r) + 1
  BY <1>5, RefSets DEF RefCount, One
<1>. QED
  BY <1>6, <1>7, RefsStep, SMT

(***************************************************************************)
(* queue_dequeue unlinks the head.                                         *)
(***************************************************************************)
LEMMA RefsDequeue ==
  ASSUME NEW mq \in Queues, NEW ch, NEW own, NEW s \in Slots, mq[s] # <<>>, NoRepeats(mq[s])
  PROVE  /\ Head(mq[s]) \in Raisers /\ s \in Linking(mq, Head(mq[s]))
         /\ Refs([mq EXCEPT ![s] = Tail(@)], ch, own)
              = Bump(Refs(mq, ch, own), Head(mq[s]), -1)
<1>. DEFINE mr == [mq EXCEPT ![s] = Tail(@)]
            r == Head(mq[s])
<1>1. mq[s] \in Seq(Raisers)
  BY DEF Queues
<1>2. r \in Elems(mq[s]) /\ Elems(Tail(mq[s])) = Elems(mq[s]) \ {r} /\ r \in Raisers
  BY <1>1, Dequeue, TailFacts, Zenon
<1>3. mr[s] = Tail(mq[s]) /\ \A q \in Slots : q # s => mr[q] = mq[q]
  BY DEF Queues
<1>. HIDE DEF mr, r
<1>4. /\ \A x \in Raisers : x # r => Linking(mr, x) = Linking(mq, x)
      /\ Linking(mr, r) = Linking(mq, r) \ {s} /\ s \in Linking(mq, r)
  BY <1>2, <1>3 DEF Linking
<1>5. Cardinality(Linking(mr, r)) = Cardinality(Linking(mq, r)) - 1
  BY <1>4, RefSets, FS_RemoveElement, Zenon
<1>6. \A x \in Raisers : x # r => RefCount(mr, ch, own, x) = RefCount(mq, ch, own, x)
  BY <1>4 DEF RefCount
<1>7. RefCount(mr, ch, own, r) = RefCount(mq, ch, own, r) + -1
  BY <1>5, RefSets DEF RefCount, One
<1>8. Refs(mr, ch, own) = Bump(Refs(mq, ch, own), r, -1)
  BY <1>2, <1>6, <1>7, RefsStep, SMT
<1>. QED
  BY <1>2, <1>4, <1>8 DEF mr, r

(***************************************************************************)
(* A thread without a channel gets one.                                    *)
(***************************************************************************)
LEMMA RefsTake ==
  ASSUME NEW mq, NEW ch \in Channels, NEW own, NEW t \in Threads, NEW r \in Raisers,
         ch[t] = NoRaiser
  PROVE  Refs(mq, [ch EXCEPT ![t] = r], own) = Bump(Refs(mq, ch, own), r, 1)
<1>. DEFINE cr == [ch EXCEPT ![t] = r]
<1>1. /\ \A x \in Raisers : x # r => Holding(cr, x) = Holding(ch, x)
      /\ Holding(cr, r) = Holding(ch, r) \cup {t} /\ t \notin Holding(ch, r)
  BY NotificationsAssumption DEF Holding, Channels
<1>. HIDE DEF cr
<1>2. Cardinality(Holding(cr, r)) = Cardinality(Holding(ch, r)) + 1
  BY <1>1, RefSets, FS_AddElement, Zenon
<1>3. \A x \in Raisers : x # r => RefCount(mq, cr, own, x) = RefCount(mq, ch, own, x)
  BY <1>1 DEF RefCount
<1>4. RefCount(mq, cr, own, r) = RefCount(mq, ch, own, r) + 1
  BY <1>2, RefSets DEF RefCount, One
<1>5. Refs(mq, cr, own) = Bump(Refs(mq, ch, own), r, 1)
  BY <1>3, <1>4, RefsStep, SMT
<1>. QED
  BY <1>5, Zenon DEF cr

(***************************************************************************)
(* The thread that holds a channel lets it go.                             *)
(***************************************************************************)
LEMMA RefsLetGo ==
  ASSUME NEW mq, NEW ch \in Channels, NEW own, NEW t \in Threads, ch[t] \in Raisers
  PROVE  Refs(mq, [ch EXCEPT ![t] = NoRaiser], own) = Bump(Refs(mq, ch, own), ch[t], -1)
<1>. DEFINE cr == [ch EXCEPT ![t] = NoRaiser]
            r == ch[t]
<1>1. /\ \A x \in Raisers : x # r => Holding(cr, x) = Holding(ch, x)
      /\ Holding(cr, r) = Holding(ch, r) \ {t} /\ t \in Holding(ch, r)
  BY NotificationsAssumption DEF Holding, Channels
<1>. HIDE DEF cr, r
<1>2. Cardinality(Holding(cr, r)) = Cardinality(Holding(ch, r)) - 1
  BY <1>1, RefSets, FS_RemoveElement, Zenon
<1>3. \A x \in Raisers : x # r => RefCount(mq, cr, own, x) = RefCount(mq, ch, own, x)
  BY <1>1 DEF RefCount
<1>4. RefCount(mq, cr, own, r) = RefCount(mq, ch, own, r) + -1
  BY <1>2, RefSets DEF RefCount, One
<1>5. r \in Raisers
  BY DEF r
<1>6. Refs(mq, cr, own) = Bump(Refs(mq, ch, own), r, -1)
  BY <1>3, <1>4, <1>5, RefsStep, SMT
<1>. QED
  BY <1>6, Zenon DEF cr, r

(***************************************************************************)
(* The RPC object that owns a raiser comes and goes.                       *)
(***************************************************************************)
LEMMA RefsOwn ==
  ASSUME NEW mq, NEW ch, NEW own, NEW r \in Raisers, r \notin own
  PROVE  Refs(mq, ch, own \cup {r}) = Bump(Refs(mq, ch, own), r, 1)
<1>1. Cardinality(Linking(mq, r)) \in Nat /\ Cardinality(Holding(ch, r)) \in Nat
  BY RefSets
<1>2. \A x \in Raisers : x # r => RefCount(mq, ch, own \cup {r}, x) = RefCount(mq, ch, own, x)
  BY DEF RefCount, One
<1>3. RefCount(mq, ch, own \cup {r}, r) = RefCount(mq, ch, own, r) + 1
  BY <1>1 DEF RefCount, One
<1>. QED
  BY <1>2, <1>3, RefsStep, SMT

(***************************************************************************)
(* The RPC object lets go of its raiser.                                   *)
(***************************************************************************)
LEMMA RefsDisown ==
  ASSUME NEW mq, NEW ch, NEW own, NEW r \in Raisers, r \in own
  PROVE  Refs(mq, ch, own \ {r}) = Bump(Refs(mq, ch, own), r, -1)
<1>1. Cardinality(Linking(mq, r)) \in Nat /\ Cardinality(Holding(ch, r)) \in Nat
  BY RefSets
<1>2. \A x \in Raisers : x # r => RefCount(mq, ch, own \ {r}, x) = RefCount(mq, ch, own, x)
  BY DEF RefCount, One
<1>3. RefCount(mq, ch, own \ {r}, r) = RefCount(mq, ch, own, r) + -1
  BY <1>1 DEF RefCount, One
<1>. QED
  BY <1>2, <1>3, RefsStep, SMT

(***************************************************************************)
(* user_raiser_enqueue_nolock counts one reference more, for the queue or  *)
(* for the thread that is handed the channel.                              *)
(***************************************************************************)
LEMMA RefsHandOn ==
  ASSUME NEW mq \in Queues, NEW A \in SUBSET Threads, NEW ch \in Channels, NEW own,
         task_queue \in [Slots -> Seq(Threads)], WaitersFor(task_queue, mq, A, ch),
         NEW r \in Raisers, NEW s \in Slots, r \notin Elems(mq[s]),
         \A q \in Slots : NoRepeats(mq[q]),
         user_raiser_enqueue_nolock(r, s, mq, ch)
  PROVE  /\ rc' = Bump(rc, r, 1)
         /\ Refs(msg_queue', channel', own) = Bump(Refs(mq, ch, own), r, 1)
         /\ \A q \in Slots : NoRepeats(msg_queue'[q])
<1>0. task_queue[s] \in Seq(Threads) /\ mq[s] \in Seq(Raisers)
  BY DEF Queues
<1>1. rc' = Bump(rc, r, 1)
  BY DEF Bump, user_raiser_enqueue_nolock
<1>2. CASE task_queue[s] # <<>>
  <2>. DEFINE w == Head(task_queue[s])
  <2>1. channel' = [ch EXCEPT ![w] = r] /\ msg_queue' = mq
    BY <1>2 DEF user_raiser_enqueue_nolock
  <2>2. w \in Elems(task_queue[s])
    BY <1>0, <1>2, TailFacts DEF Elems
  <2>. HIDE DEF w
  <2>3. w \in Threads /\ ch[w] = NoRaiser
    BY <2>2 DEF WaitersFor
  <2>. QED
    BY <1>1, <2>1, <2>3, RefsTake, Zenon
<1>3. CASE task_queue[s] = <<>>
  <2>1. channel' = ch /\ msg_queue' = [mq EXCEPT ![s] = Append(@, r)]
    BY <1>3 DEF user_raiser_enqueue_nolock
  <2>2. NoRepeats(Append(mq[s], r))
    BY <1>0, Enqueue
  <2>3. \A q \in Slots : NoRepeats(msg_queue'[q])
    BY <2>1, <2>2 DEF Queues
  <2>4. msg_queue'[s] = Append(mq[s], r) /\ \A q \in Slots : q # s => msg_queue'[q] = mq[q]
    BY <2>1 DEF Queues
  <2>5. Refs(msg_queue', ch, own) = Bump(Refs(mq, ch, own), r, 1)
    BY <2>4, RefsEnqueue
  <2>. QED
    BY <1>1, <2>1, <2>3, <2>5
<1>. QED
  BY <1>2, <1>3
==============================================================================
