------------------------- MODULE NotificationsProofs -------------------------
(***************************************************************************)
(* Notifications: for every number of threads, raisers, cores and pending  *)
(* notifications, and both kinds of mailbox, the shutdown runs alone, a    *)
(* channel with something pending is in exactly one place, nobody sleeps   *)
(* while mail is queued, the mailbox implements NotificationCounter, and   *)
(* the reference and memory counts are exact.                              *)
(* The halves of the invariant are in NotificationsLemmas.                 *)
(***************************************************************************)
EXTENDS NotificationsLemmas

USE SMTT(20), ZenonT(20)

(***************************************************************************)
(* user_send_notification_to_core.                                         *)
(***************************************************************************)
LEMMA SendPlaces ==
  ASSUME Typed, Counted, Placed, NEW r \in Raisers, NEW id \in Cores,
         user_send_notification_to_core(r, id)
  PROVE  Typed' /\ Placed'
<1>. DEFINE s == SlotOf(id)
<1>1. /\ ~is_shut_down /\ UNCHANGED <<mbVars, owner, pc>>
      /\ pending' = [pending EXCEPT ![r][s] = @ + 1]
      /\ pending[r][s] = 0 => user_raiser_enqueue_nolock(r, s, msg_queue, channel)
      /\ pending[r][s] # 0 => UNCHANGED <<msg_queue, task_queue, channel>>
  BY DEF user_send_notification_to_core
<1>2. s \in Slots
  BY SlotType
<1>. HIDE DEF s
<1>3. /\ msg_queue \in Queues /\ Asleep \in SUBSET Threads /\ channel \in Channels
      /\ pending \in Counts /\ task_queue \in [Slots -> Seq(Threads)]
      /\ pending[r][s] \in Nat
  BY <1>2 DEF Typed, Queues, Asleep, Channels, Counts
<1>4. Asleep' = Asleep
  BY <1>1 DEF Asleep
<1>5. OnePlace(msg_queue, Asleep, channel, pending)
  BY <1>1 DEF Placed
<1>6. WaitersFor(task_queue, msg_queue, Asleep, channel)
  BY DEF Placed
<1>7. pending' \in Counts
  BY <1>1, <1>2, <1>3 DEF Counts
<1>8. /\ OnePlace(msg_queue', Asleep, channel', pending')
      /\ WaitersFor(task_queue', msg_queue', Asleep, channel')
      /\ msg_queue' \in Queues /\ channel' \in Channels
      /\ task_queue' \in [Slots -> Seq(Threads)]
      /\ \A u \in Threads : channel'[u] = channel[u] \/ (u \in Asleep /\ channel'[u] \in Raisers)
  <2>1. CASE pending[r][s] = 0
    <3>1. user_raiser_enqueue_nolock(r, s, msg_queue, channel)
      BY <2>1, <1>1
    <3>2. pending' = [pending EXCEPT ![r][s] = 1]
      BY <2>1, <1>1
    <3>3. 1 \in Nat \ {0}
      OBVIOUS
    <3>. QED
      BY <2>1, <3>1, <3>2, <3>3, <1>2, <1>3, <1>5, <1>6, EnqueuePlaces, Zenon
  <2>2. CASE pending[r][s] # 0
    <3>1. UNCHANGED <<msg_queue, task_queue, channel>>
      BY <2>2, <1>1
    <3>2. \A x \in Raisers, q \in Slots : pending'[x][q] > 0 <=> pending[x][q] > 0
      BY <2>2, <1>1, <1>2, <1>3 DEF Counts
    <3>3. OnePlace(msg_queue, Asleep, channel, pending')
      BY <3>2, <1>3, <1>5, PlaceSame
    <3>. QED
      BY <3>1, <3>3, <1>3, <1>6
  <2>. QED
    BY <2>1, <2>2
<1>9. Held'
  BY <1>1, <1>8, NotificationsAssumption DEF Placed, Held, Asleep
<1>10. Typed'
  BY <1>1, <1>7, <1>8, Zenon DEF Typed, mbVars, Queues, Channels, Counts
<1>11. is_per_cpu' = is_per_cpu
  BY <1>1 DEF mbVars
<1>. QED
  BY <1>4, <1>8, <1>9, <1>10, <1>11, PlacedNext

(***************************************************************************)
(* After the lock was released, the thread lets go of its channel.         *)
(***************************************************************************)
LEMMA DropPlaces ==
  ASSUME Typed, Counted, Placed, NEW t \in Threads, DropTaken(t)
  PROVE  Typed' /\ Placed'
<1>1. /\ pc[t] = "taken" /\ channel' = [channel EXCEPT ![t] = NoRaiser]
      /\ pc' = [pc EXCEPT ![t] = "leave"] /\ mailbox' \in {mailbox, "freed"}
      /\ UNCHANGED <<handle, shutdown_rc, is_shut_down, is_per_cpu,
                     msg_queue, task_queue, pending, owner>>
  BY DEF DropTaken, DropRaiserRef, DropDeallocRef, queueVars
<1>2. Asleep' = Asleep /\ Asleep \in SUBSET Threads /\ \A u \in Asleep : channel'[u] = channel[u]
  BY <1>1 DEF Asleep, Typed
<1>3. ~is_shut_down' => OnePlace(msg_queue', Asleep', channel', pending')
  BY <1>1, <1>2, PlaceSame, Zenon DEF Placed
<1>4. WaitersFor(task_queue', msg_queue', Asleep', channel')
  BY <1>1, <1>2 DEF Placed, WaitersFor
<1>5. Held'
  BY <1>1 DEF Placed, Held, Typed
<1>6. Typed'
  <2>1. pc' \in [Threads -> PC] /\ channel' \in [Threads -> Raisers \cup {NoRaiser}]
    BY <1>1 DEF Typed, PC
  <2>. QED
    BY <2>1, <1>1 DEF Typed, MemState
<1>. QED
  BY <1>1, <1>3, <1>4, <1>5, <1>6, PlacedNext

(***************************************************************************)
(* user_shutdown_mailbox drains the queues of a mailbox without waiters.   *)
(***************************************************************************)
LEMMA DrainPlaces ==
  ASSUME Typed, Counted, Placed, NEW t \in Threads, NEW s \in Slots, ShutdownDrain(t, s)
  PROVE  Typed' /\ Placed'
<1>1. /\ pc[t] = "drain" /\ msg_queue[s] # <<>> /\ mailbox' \in {mailbox, "freed"}
      /\ msg_queue' = [msg_queue EXCEPT ![s] = Tail(@)]
      /\ UNCHANGED <<handle, shutdown_rc, is_shut_down, is_per_cpu,
                     task_queue, pending, owner, pc, channel>>
  BY DEF ShutdownDrain, DropRaiserRef, DropDeallocRef, threadVars
<1>2. is_shut_down'
  BY <1>1 DEF Counted
<1>3. msg_queue[s] \in Seq(Raisers)
  BY DEF Typed
<1>4. Tail(msg_queue[s]) \in Seq(Raisers)
  BY <1>1, <1>3, TailFacts
<1>5. /\ msg_queue' \in [Slots -> Seq(Raisers)]
      /\ \A q \in Slots : q # s => msg_queue'[q] = msg_queue[q]
  BY <1>1, <1>4 DEF Typed
<1>6. Asleep' = Asleep
  BY <1>1 DEF Asleep
<1>7. WaitersFor(task_queue', msg_queue', Asleep', channel')
  BY <1>1, <1>5, <1>6 DEF Placed, WaitersFor
<1>8. Held'
  BY <1>1 DEF Placed, Held
<1>9. Typed'
  BY <1>1, <1>5 DEF Typed, MemState
<1>. QED
  BY <1>1, <1>2, <1>7, <1>8, <1>9, PlacedNext

(* Where a thread has no channel. *)
NoChannelPC == PC \ {"asleep", "taken"}

(***************************************************************************)
(* A step that touches neither queues nor channels: one thread at most     *)
(* moves, from a place where it holds no channel to another.               *)
(***************************************************************************)
LEMMA OtherPlaces ==
  ASSUME Typed, Placed, NEW t \in Threads, NEW x \in NoChannelPC,
         pc' = pc \/ (pc[t] \in NoChannelPC /\ pc' = [pc EXCEPT ![t] = x]),
         mailbox' \in MemState, handle' \in BOOLEAN, shutdown_rc' \in Int,
         is_shut_down' \in BOOLEAN, is_shut_down => is_shut_down', owner' \subseteq Raisers,
         UNCHANGED <<is_per_cpu, queueVars, channel>>
  PROVE  Typed' /\ Placed'
<1>1. pc' \in [Threads -> PC] /\ Asleep' = Asleep
  BY Zenon DEF Typed, Asleep, NoChannelPC, PC
<1>2. \A u \in Threads : /\ channel[u] # NoRaiser => pc'[u] = pc[u]
                         /\ pc'[u] = "taken" => pc[u] = "taken"
  BY DEF Typed, Placed, Held, NoChannelPC, PC
<1>3. Placed'
  BY <1>1, <1>2, PlacedStill
<1>4. Typed'
  BY <1>1 DEF Typed, queueVars
<1>. QED
  BY <1>3, <1>4

(***************************************************************************)
(* user_create_mailbox chooses the kind of mailbox, when nobody uses it.   *)
(***************************************************************************)
LEMMA CreatePlaces ==
  ASSUME Typed, Counted, Placed, NEW percpu \in BOOLEAN, user_create_mailbox(percpu)
  PROVE  Typed' /\ Placed'
<1>1. /\ mailbox = "none" /\ mailbox' = "live" /\ handle' = TRUE /\ shutdown_rc' = 1
      /\ is_per_cpu' = percpu
      /\ UNCHANGED <<is_shut_down, msg_queue, task_queue, pending, owner, pc, channel>>
  BY DEF user_create_mailbox, queueVars, raiserVars, threadVars
<1>2. Asleep = {} /\ Asleep' = {} /\ ~is_shut_down
  BY <1>1 DEF Counted, Asleep
<1>3. OnePlace(msg_queue, {}, channel, pending) /\ WaitersFor(task_queue, msg_queue, {}, channel)
  BY <1>2 DEF Placed
<1>4. OnePlace(msg_queue, Asleep, channel, pending)'
  BY <1>1, <1>2, <1>3, Zenon DEF OnePlace, OnePlaceFor, Carries, Slots
<1>5. WaitersFor(task_queue, msg_queue, Asleep, channel)'
  BY <1>1, <1>2, <1>3 DEF WaitersFor, Slots
<1>6. Held'
  BY <1>1 DEF Placed, Held
<1>7. Typed'
  BY <1>1 DEF Typed, MemState
<1>. QED
  BY <1>4, <1>5, <1>6, <1>7 DEF Placed

-----------------------------------------------------------------------------
IInv == Typed /\ Counted /\ Placed

(***************************************************************************)
(* Every step keeps the placement.                                         *)
(***************************************************************************)
LEMMA NextPlaced == IInv /\ [Next]_vars => Typed' /\ Placed'
<1>. SUFFICES ASSUME Typed, Counted, Placed, [Next]_vars PROVE Typed' /\ Placed'
  BY DEF IInv
<1>1. CASE UNCHANGED vars
  <2>1. UNCHANGED <<mbVars, queueVars, owner, pc, channel>>
    BY <1>1 DEF vars, raiserVars, threadVars
  <2>2. Typed'
    BY <2>1 DEF Typed, mbVars, queueVars
  <2>3. Placed'
    BY <2>1, PlacedStill DEF mbVars, Asleep
  <2>. QED
    BY <2>2, <2>3
<1>2. ASSUME NEW percpu \in BOOLEAN, user_create_mailbox(percpu) PROVE Typed' /\ Placed'
  BY <1>2, CreatePlaces
<1>3. ASSUME NEW t \in Threads,
             \/ BorrowToReceive(t) \/ BorrowToCreate(t) \/ DropHandle(t) \/ Leave(t)
             \/ CreateRaiserOutOfMemory(t) \/ \E r \in Raisers : user_create_raiser(t, r)
             \/ ShutdownSetFlag(t) \/ ShutdownDrained(t) \/ ShutdownLastDrop(t)
      PROVE  Typed' /\ Placed'
  <2>1. /\ pc[t] \in NoChannelPC /\ \E x \in NoChannelPC : pc' = [pc EXCEPT ![t] = x]
    BY <1>3 DEF BorrowToReceive, BorrowToCreate, BorrowMailbox, DropHandle, DropShutdownRef, Leave,
         CreateRaiserOutOfMemory, user_create_raiser, ShutdownSetFlag, ShutdownDrained,
         ShutdownLastDrop, NoChannelPC, PC
  <2>2. UNCHANGED <<is_per_cpu, queueVars, channel>>
    BY <1>3 DEF BorrowToReceive, BorrowToCreate, BorrowMailbox, DropHandle, Leave,
         CreateRaiserOutOfMemory, user_create_raiser, ShutdownSetFlag, ShutdownDrained,
         ShutdownLastDrop, mbVars
  <2>3. /\ mailbox' \in {mailbox, "freed"} /\ handle' \in {handle, FALSE}
        /\ shutdown_rc' \in {shutdown_rc, shutdown_rc + 1, shutdown_rc - 1}
        /\ is_shut_down' \in {is_shut_down, TRUE} /\ owner' \subseteq Raisers
    BY Zenon, <1>3 DEF BorrowToReceive, BorrowToCreate, BorrowMailbox, DropHandle, DropShutdownRef, Leave,
         CreateRaiserOutOfMemory, user_create_raiser, ShutdownSetFlag, ShutdownDrained,
         ShutdownLastDrop, DropDeallocRef, mbVars, raiserVars, Typed
  <2>4. /\ mailbox' \in MemState /\ handle' \in BOOLEAN /\ shutdown_rc' \in Int
        /\ is_shut_down' \in BOOLEAN /\ (is_shut_down => is_shut_down')
    <3>1. mailbox' \in MemState /\ shutdown_rc' \in Int
      BY <2>3 DEF Typed, MemState
    <3>2. handle \in BOOLEAN /\ is_shut_down \in BOOLEAN
      BY DEF Typed
    <3>3. handle' = handle \/ handle' = FALSE
      BY <2>3, Zenon
    <3>4. is_shut_down' = is_shut_down \/ is_shut_down' = TRUE
      BY <2>3, Zenon
    <3>5. handle' \in BOOLEAN
      BY <3>2, <3>3, Zenon
    <3>6. is_shut_down' \in BOOLEAN /\ (is_shut_down => is_shut_down')
      BY <3>2, <3>4, Zenon
    <3>. QED
      BY <3>1, <3>5, <3>6
  <2>. QED
    BY <2>1, <2>2, <2>3, <2>4, OtherPlaces, Zenon
<1>4. ASSUME NEW t \in Threads,
             \/ ReceiveQueued(t) \/ ReceiveWait(t) \/ ReceiveWoken(t) \/ DropTaken(t)
             \/ \E s \in Slots : ShutdownDrain(t, s)
      PROVE  Typed' /\ Placed'
  BY <1>4, QueuedPlaces, WaitPlaces, WokenPlaces, DropPlaces, DrainPlaces
<1>5. ASSUME NEW r \in Raisers, NEW id \in Cores, user_send_notification_to_core(r, id)
      PROVE  Typed' /\ Placed'
  BY <1>5, SendPlaces
<1>6. ASSUME NEW r \in Raisers, OwnerDropsRaiser(r) PROVE Typed' /\ Placed'
  <2>1. /\ mailbox' \in {mailbox, "freed"} /\ owner' \subseteq owner
        /\ UNCHANGED <<handle, shutdown_rc, is_shut_down, is_per_cpu, queueVars, pc, channel>>
    BY <1>6 DEF OwnerDropsRaiser, DropRaiserRef, DropDeallocRef, threadVars
  <2>2. Typed'
    BY <2>1 DEF Typed, MemState, queueVars
  <2>3. Placed'
    BY <2>1, PlacedStill DEF Asleep
  <2>. QED
    BY <2>2, <2>3
<1>. QED
  BY <1>1, <1>2, <1>3, <1>4, <1>5, <1>6 DEF Next, ThreadStep

(***************************************************************************)
(* The invariant holds before the mailbox is created.                      *)
(***************************************************************************)
LEMMA InitInv == Init => IInv
<1>. SUFFICES ASSUME Init PROVE IInv
  OBVIOUS
<1>1. <<>> \in Seq(Raisers) /\ <<>> \in Seq(Threads)
  OBVIOUS
<1>2. \A s \in Slots : msg_queue[s] = <<>> /\ task_queue[s] = <<>>
  BY DEF Init
<1>3. Elems(<<>>) = {} /\ NoRepeats(<<>>)
  BY EmptyQueue
<1>4. Typed
  <2>1. msg_queue \in [Slots -> Seq(Raisers)] /\ task_queue \in [Slots -> Seq(Threads)]
    BY <1>1, Zenon DEF Init
  <2>2. pending \in [Raisers -> [Slots -> Nat]]
    BY DEF Init
  <2>3. pc \in [Threads -> PC] /\ channel \in [Threads -> Raisers \cup {NoRaiser}]
    BY DEF Init, PC
  <2>4. mailbox \in MemState /\ shutdown_rc \in Int /\ owner \subseteq Raisers
    BY DEF Init, MemState
  <2>5. handle \in BOOLEAN /\ is_shut_down \in BOOLEAN /\ is_per_cpu \in BOOLEAN
    BY Zenon DEF Init
  <2>. QED
    BY <2>1, <2>2, <2>3, <2>4, <2>5, Zenon DEF Typed
<1>5. Inside = {} /\ ShuttingDown = {} /\ Asleep = {}
  BY DEF Init, Inside, ShuttingDown, Asleep
<1>6. Counted
  BY <1>5, FS_EmptySet DEF Init, Counted, One
<1>7. WaitersFor(task_queue, msg_queue, Asleep, channel)
  BY <1>2, <1>3 DEF WaitersFor
<1>8. OnePlace(msg_queue, Asleep, channel, pending)
  BY <1>2, <1>3, <1>5 DEF OnePlace, OnePlaceFor, Carries, Init
<1>9. Held
  BY DEF Held, Init
<1>. QED
  BY <1>4, <1>6, <1>7, <1>8, <1>9 DEF IInv, Placed

(***************************************************************************)
(* The inductive invariant: what shutdown_rc counts, and where channels    *)
(* and waiters are, holds in every reachable state.                        *)
(***************************************************************************)
THEOREM Invariant == Spec => []IInv
<1>1. IInv /\ [Next]_vars => IInv'
  BY NextCounted, NextPlaced DEF IInv
<1>. QED
  BY InitInv, <1>1, PTL DEF Spec

(***************************************************************************)
(* user_shutdown_mailbox runs once, when no thread is inside the mailbox   *)
(* or asleep in its queues.                                                *)
(***************************************************************************)
THEOREM ShutsDownAlone == Spec => []ShutdownAlone
<1>1. IInv => ShutdownAlone
  <2>. SUFFICES ASSUME Typed, Counted, Placed PROVE ShutdownAlone
    BY DEF IInv
  <2>1. ASSUME is_shut_down \/ ShuttingDown # {}
        PROVE  Inside = {} /\ \A s \in Slots : task_queue[s] = <<>>
    <3>1. Inside = {}
      BY <2>1, DownIsEmpty
    <3>2. Asleep = {}
      BY <3>1 DEF Inside, Asleep
    <3>3. ASSUME NEW s \in Slots PROVE task_queue[s] = <<>>
      <4>1. task_queue[s] \in Seq(Threads) /\ Elems(task_queue[s]) = {}
        BY <3>2 DEF Typed, Placed, WaitersFor
      <4>. QED
        BY <4>1, ElemsFacts
    <3>. QED
      BY <3>1, <3>3
  <2>. QED
    BY <2>1 DEF ShutdownAlone, Counted
<1>. QED
  BY Invariant, <1>1, PTL

(***************************************************************************)
(* A channel with pending notifications is in exactly one place: once in   *)
(* its message queue, or with one woken receiver.                          *)
(***************************************************************************)
THEOREM AlwaysInOnePlace == Spec => []ChannelInOnePlace
<1>1. IInv => ChannelInOnePlace
  BY OnePlaceIff DEF IInv, Placed
<1>. QED
  BY Invariant, <1>1, PTL

(***************************************************************************)
(* No lost wake-up: nobody sleeps in a slot that has a queued channel.     *)
(***************************************************************************)
THEOREM NobodySleepsOnMail == Spec => []NoSleepWithMail
<1>1. IInv => NoSleepWithMail
  BY DEF IInv, Placed, WaitersFor, NoSleepWithMail
<1>. QED
  BY Invariant, <1>1, PTL

-----------------------------------------------------------------------------
(* What the counter's users see of the mailbox. *)
Owed == [c \in Raisers \X Slots |-> pending[c[1]][c[2]]]

(***************************************************************************)
(* A change of one pending count is a change of what one channel owes.     *)
(***************************************************************************)
LEMMA OwedStep ==
  ASSUME Typed, NEW r \in Raisers, NEW s \in Slots, NEW n,
         pending' = [pending EXCEPT ![r][s] = n]
  PROVE  /\ <<r, s>> \in Raisers \X Slots /\ Owed[<<r, s>>] = pending[r][s]
         /\ Owed' = [Owed EXCEPT ![<<r, s>>] = n]
<1>1. \A x \in Raisers, q \in Slots : pending'[x][q] = IF x = r /\ q = s THEN n ELSE pending[x][q]
  BY DEF Typed
<1>2. Owed' = [c \in Raisers \X Slots |-> pending'[c[1]][c[2]]]
  BY DEF Owed, Slots
<1>3. ASSUME NEW c \in Raisers \X Slots
      PROVE  pending'[c[1]][c[2]] = IF c = <<r, s>> THEN n ELSE Owed[c]
  BY <1>1 DEF Owed
<1>4. Owed' = [c \in Raisers \X Slots |-> IF c = <<r, s>> THEN n ELSE Owed[c]]
  BY <1>2, <1>3, Zenon
<1>5. [Owed EXCEPT ![<<r, s>>] = n] =
        [c \in Raisers \X Slots |-> IF c = <<r, s>> THEN n ELSE Owed[c]]
  BY Zenon DEF Owed
<1>6. Owed[<<r, s>>] = pending[r][s]
  BY DEF Owed
<1>. QED
  BY <1>4, <1>5, <1>6

(***************************************************************************)
(* Of all steps only a send, a receive and the shutdown are visible to the *)
(* users; a receive takes from a channel that has something pending.       *)
(***************************************************************************)
LEMMA VisibleSteps ==
  ASSUME IInv, [Next]_vars
  PROVE  \/ UNCHANGED <<pending, is_shut_down>>
         \/ ~is_shut_down /\ is_shut_down' = TRUE /\ pending' = pending
         \/ /\ ~is_shut_down /\ UNCHANGED is_shut_down
            /\ \E r \in Raisers, s \in Slots :
                 \/ pending' = [pending EXCEPT ![r][s] = pending[r][s] + 1]
                 \/ pending[r][s] > 0 /\ pending' = [pending EXCEPT ![r][s] = pending[r][s] - 1]
<1>. DEFINE Visible == \/ UNCHANGED <<pending, is_shut_down>>
                       \/ ~is_shut_down /\ is_shut_down' = TRUE /\ pending' = pending
                       \/ /\ ~is_shut_down /\ UNCHANGED is_shut_down
                          /\ \E r \in Raisers, s \in Slots :
                               \/ pending' = [pending EXCEPT ![r][s] = pending[r][s] + 1]
                               \/ /\ pending[r][s] > 0
                                  /\ pending' = [pending EXCEPT ![r][s] = pending[r][s] - 1]
<1>. SUFFICES Visible
  OBVIOUS
<1>0. Typed /\ Counted /\ Placed
  BY DEF IInv
<1>1. CASE UNCHANGED vars
  BY <1>1 DEF vars, mbVars, queueVars
<1>2. ASSUME NEW percpu \in BOOLEAN, user_create_mailbox(percpu) PROVE Visible
  BY <1>2 DEF user_create_mailbox, queueVars
<1>3. ASSUME NEW t \in Threads, ShutdownSetFlag(t) PROVE Visible
  BY <1>0, <1>3, Zenon DEF ShutdownSetFlag, Counted, queueVars
<1>4. ASSUME NEW t \in Threads,
             \/ BorrowToReceive(t) \/ BorrowToCreate(t) \/ DropHandle(t) \/ Leave(t)
             \/ CreateRaiserOutOfMemory(t) \/ \E r \in Raisers : user_create_raiser(t, r)
             \/ ReceiveWait(t) \/ DropTaken(t)
             \/ ShutdownDrained(t) \/ ShutdownLastDrop(t) \/ \E s \in Slots : ShutdownDrain(t, s)
      PROVE  Visible
  <2>1. UNCHANGED <<pending, is_shut_down>>
    BY Zenon, <1>4 DEF BorrowToReceive, BorrowToCreate, BorrowMailbox, DropHandle, Leave,
         CreateRaiserOutOfMemory, user_create_raiser, ReceiveWait, DropTaken, ShutdownDrained,
         ShutdownLastDrop, ShutdownDrain, mbVars, queueVars
  <2>. QED
    BY <2>1
<1>5. ASSUME NEW r \in Raisers, OwnerDropsRaiser(r) PROVE Visible
  BY <1>5 DEF OwnerDropsRaiser, queueVars
<1>6. ASSUME NEW r \in Raisers, NEW id \in Cores, user_send_notification_to_core(r, id)
      PROVE  Visible
  <2>1. SlotOf(id) \in Slots
    BY SlotType
  <2>2. /\ ~is_shut_down /\ is_shut_down' = is_shut_down
        /\ pending' = [pending EXCEPT ![r][SlotOf(id)] = pending[r][SlotOf(id)] + 1]
    BY <1>6 DEF user_send_notification_to_core, mbVars
  <2>. QED
    BY <2>1, <2>2, Zenon
<1>7. ASSUME NEW t \in Threads, ReceiveQueued(t) PROVE Visible
  <2>. DEFINE s == SlotOf(CoreOf[t])
              r == Head(msg_queue[s])
  <2>1. /\ pc[t] = "recv" /\ msg_queue[s] # <<>> /\ is_shut_down' = is_shut_down
        /\ pending' = [pending EXCEPT ![r][s] = pending[r][s] - 1]
    BY <1>7 DEF ReceiveQueued, TakeNotification, mbVars
  <2>2. s \in Slots
    BY SlotType, NotificationsAssumption, Zenon
  <2>3. t \in Inside
    BY <2>1 DEF Inside
  <2>4. ~is_shut_down
    BY <1>0, <2>3, DownIsEmpty
  <2>5. /\ msg_queue \in Queues /\ Asleep \in SUBSET Threads /\ channel \in Channels
        /\ pending \in Counts /\ OnePlace(msg_queue, Asleep, channel, pending)
    BY <1>0, <2>4 DEF Typed, Placed, Queues, Asleep, Channels, Counts
  <2>. HIDE DEF s
  <2>6. r \in Raisers /\ pending[r][s] > 0
    BY <2>1, <2>2, <2>5, PlaceDequeue, Zenon
  <2>. HIDE DEF r
  <2>. QED
    BY <2>1, <2>2, <2>4, <2>6, Zenon
<1>8. ASSUME NEW t \in Threads, ReceiveWoken(t) PROVE Visible
  <2>. DEFINE s == SlotOf(CoreOf[t])
              r == channel[t]
  <2>1. /\ pc[t] = "asleep" /\ r # NoRaiser /\ is_shut_down' = is_shut_down
        /\ pending' = [pending EXCEPT ![r][s] = pending[r][s] - 1]
    BY <1>8 DEF ReceiveWoken, TakeNotification, mbVars
  <2>2. s \in Slots
    BY SlotType, NotificationsAssumption, Zenon
  <2>3. t \in Inside /\ t \in Asleep /\ r \in Raisers
    BY <1>0, <2>1 DEF Inside, Asleep, Typed
  <2>4. ~is_shut_down
    BY <1>0, <2>3, DownIsEmpty
  <2>5. /\ msg_queue \in Queues /\ Asleep \in SUBSET Threads /\ channel \in Channels
        /\ pending \in Counts /\ OnePlace(msg_queue, Asleep, channel, pending)
    BY <1>0, <2>4 DEF Typed, Placed, Queues, Asleep, Channels, Counts
  <2>6. pending[r][s] > 0
    BY <2>2, <2>3, <2>5, PlaceGoOn, Zenon
  <2>. HIDE DEF r, s
  <2>. QED
    BY <2>1, <2>2, <2>3, <2>4, <2>6, Zenon
<1>. HIDE DEF Visible
<1>. QED
  BY <1>1, <1>2, <1>3, <1>4, <1>5, <1>6, <1>7, <1>8 DEF Next, ThreadStep

(***************************************************************************)
(* The mailbox implements the counter its users see: a delivery finds a    *)
(* notification that was sent, and nothing moves after the shutdown.       *)
(***************************************************************************)
THEOREM Refinement == Spec => ImplementsCounter
<1>1. Init => Counter!Init
  BY DEF Init, Counter!Init
<1>2. ASSUME IInv, [Next]_vars PROVE [Counter!Next]_(Counter!vars)
  <2>0. Typed
    BY <1>2 DEF IInv
  <2>1. CASE UNCHANGED <<pending, is_shut_down>>
    BY <2>1 DEF Counter!vars, Slots
  <2>2. CASE ~is_shut_down /\ is_shut_down' = TRUE /\ pending' = pending
    BY <2>2 DEF Counter!Next, Counter!Close, Slots
  <2>3. ASSUME ~is_shut_down, UNCHANGED is_shut_down, NEW r \in Raisers, NEW s \in Slots,
               pending' = [pending EXCEPT ![r][s] = pending[r][s] + 1]
        PROVE  Counter!Next
    <3>1. <<r, s>> \in Raisers \X Slots /\ Owed' = [Owed EXCEPT ![<<r, s>>] = Owed[<<r, s>>] + 1]
      BY <2>0, <2>3, OwedStep, Zenon
    <3>2. Counter!Send(<<r, s>>)
      BY <2>3, <3>1 DEF Counter!Send, Owed
    <3>. QED
      BY <3>1, <3>2 DEF Counter!Next
  <2>4. ASSUME ~is_shut_down, UNCHANGED is_shut_down, NEW r \in Raisers, NEW s \in Slots,
               pending[r][s] > 0, pending' = [pending EXCEPT ![r][s] = pending[r][s] - 1]
        PROVE  Counter!Next
    <3>1. /\ <<r, s>> \in Raisers \X Slots /\ Owed[<<r, s>>] > 0
          /\ Owed' = [Owed EXCEPT ![<<r, s>>] = Owed[<<r, s>>] - 1]
      BY <2>0, <2>4, OwedStep, Zenon
    <3>2. Counter!Deliver(<<r, s>>)
      BY <2>4, <3>1 DEF Counter!Deliver, Owed
    <3>. QED
      BY <3>1, <3>2 DEF Counter!Next
  <2>. QED
    BY <1>2, <2>1, <2>2, <2>3, <2>4, VisibleSteps, Zenon
<1>. QED
  BY <1>1, <1>2, Invariant, PTL DEF Spec, ImplementsCounter, Counter!Spec

-----------------------------------------------------------------------------
(* The mailbox counts its handle and its callers, or is being shut down. *)
Open == shutdown_rc > 0 \/ ShuttingDown # {}
Drained == \A s \in Slots : msg_queue[s] = <<>>

(* The counts are exact, and decide what is live. *)
Referenced ==
  /\ rc = Refs(msg_queue, channel, owner)
  /\ \A s \in Slots : NoRepeats(msg_queue[s])
  /\ raiser \in [Raisers -> MemState]
  /\ \A r \in Raisers : raiser[r] = "live" <=> rc[r] > 0
  /\ dealloc_rc = Cardinality(Live) + One(Open)
  /\ mailbox = "live" <=> dealloc_rc > 0

(* The shutdown leaves nothing in the queues. *)
Released ==
  /\ \A t \in Threads : pc[t] = "last" => Drained
  /\ mailbox # "none" /\ ~Open => is_shut_down /\ Drained

(***************************************************************************)
(* The live raisers are finitely many.                                     *)
(***************************************************************************)
LEMMA LiveFinite ==
  IsFiniteSet(Live) /\ Cardinality(Live) \in Nat /\ (Cardinality(Live) = 0 <=> Live = {})
<1>1. Live \subseteq Raisers
  BY DEF Live
<1>2. IsFiniteSet(Live)
  BY <1>1, FS_Subset, NotificationsAssumption, Zenon
<1>. QED
  BY <1>2, FS_CardinalityType, FS_EmptySet, Zenon

(***************************************************************************)
(* A raiser that is referred to is live, and keeps the mailbox.            *)
(***************************************************************************)
LEMMA UsedIsLive ==
  ASSUME Referenced, NEW r \in Raisers,
         r \in owner \/ Linking(msg_queue, r) # {} \/ Holding(channel, r) # {}
  PROVE  rc[r] > 0 /\ rc[r] \in Nat /\ r \in Live /\ mailbox = "live" /\ dealloc_rc > 0
<1>1. rc[r] > 0 /\ rc[r] \in Nat
  BY RefsFacts DEF Referenced
<1>2. r \in Live
  BY <1>1 DEF Referenced, Live
<1>3. Cardinality(Live) > 0
  BY <1>2, LiveFinite
<1>4. dealloc_rc > 0
  BY <1>3, LiveFinite DEF Referenced, One
<1>. QED
  BY <1>1, <1>2, <1>4 DEF Referenced

(***************************************************************************)
(* A step that counts nothing.                                             *)
(***************************************************************************)
LEMMA ReferencedStill ==
  ASSUME Referenced, Open' <=> Open,
         UNCHANGED <<msg_queue, channel, owner, rc, raiser, dealloc_rc, mailbox>>
  PROVE  Referenced'
<1>1. Live' = Live
  BY DEF Live
<1>2. One(Open') = One(Open)
  BY Zenon DEF One
<1>. QED
  BY <1>1, <1>2 DEF Referenced

(***************************************************************************)
(* A step that takes one more reference to a raiser in use.                *)
(***************************************************************************)
LEMMA ReferencedMore ==
  ASSUME Referenced, Open' <=> Open, NEW r \in Raisers, rc[r] > 0,
         rc' = Bump(rc, r, 1),
         Refs(msg_queue', channel', owner') = Bump(Refs(msg_queue, channel, owner), r, 1),
         \A s \in Slots : NoRepeats(msg_queue'[s]),
         UNCHANGED <<raiser, dealloc_rc, mailbox>>
  PROVE  Referenced'
<1>1. Live' = Live
  BY DEF Live
<1>2. One(Open') = One(Open)
  BY Zenon DEF One
<1>3. rc = Refs(msg_queue, channel, owner) /\ rc \in [Raisers -> Nat]
  BY RefsFacts DEF Referenced
<1>4. rc' = Refs(msg_queue', channel', owner')
  BY <1>3
<1>5. \A x \in Raisers : rc'[x] > 0 <=> rc[x] > 0
  BY <1>3 DEF Bump
<1>. QED
  BY <1>1, <1>2, <1>4, <1>5 DEF Referenced

(***************************************************************************)
(* mem_rc_drop on a raiser: the last reference frees it, and the mailbox   *)
(* if that was waiting for it.                                             *)
(***************************************************************************)
LEMMA ReferencedDrop ==
  ASSUME Referenced, Open' <=> Open, NEW r \in Raisers, rc[r] > 0, DropRaiserRef(r),
         Refs(msg_queue', channel', owner') = Bump(Refs(msg_queue, channel, owner), r, -1),
         \A s \in Slots : NoRepeats(msg_queue'[s])
  PROVE  Referenced'
<1>1. One(Open') = One(Open) /\ One(Open) \in {0, 1}
  BY Zenon DEF One
<1>2. rc = Refs(msg_queue, channel, owner) /\ rc \in [Raisers -> Nat]
  BY RefsFacts DEF Referenced
<1>3. rc' = [rc EXCEPT ![r] = rc[r] - 1]
  BY DEF DropRaiserRef
<1>4. rc' = Refs(msg_queue', channel', owner')
  BY <1>2, <1>3, Zenon DEF Bump
<1>5. r \in Live /\ raiser \in [Raisers -> MemState]
  BY DEF Referenced, Live
<1>6. IsFiniteSet(Live) /\ Cardinality(Live) \in Nat /\ Cardinality(Live) > 0
  BY <1>5, LiveFinite
<1>7. dealloc_rc = Cardinality(Live) + One(Open) /\ mailbox = "live"
  BY <1>1, <1>6 DEF Referenced
<1>8. CASE rc[r] = 1
  <2>1. /\ raiser' = [raiser EXCEPT ![r] = "freed"] /\ dealloc_rc' = dealloc_rc - 1
        /\ mailbox' = IF dealloc_rc = 1 THEN "freed" ELSE mailbox
    BY <1>8 DEF DropRaiserRef, DropDeallocRef
  <2>2. Live' = Live \ {r} /\ raiser' \in [Raisers -> MemState]
    BY <2>1, <1>5 DEF Live, MemState
  <2>3. Cardinality(Live') = Cardinality(Live) - 1
    BY <2>2, <1>5, <1>6, FS_RemoveElement, Zenon
  <2>4. \A x \in Raisers : raiser'[x] = "live" <=> rc'[x] > 0
    BY <2>1, <1>2, <1>3, <1>5, <1>8 DEF Referenced
  <2>5. dealloc_rc' = Cardinality(Live') + One(Open')
    BY <2>1, <2>3, <1>1, <1>6, <1>7
  <2>6. mailbox' = "live" <=> dealloc_rc' > 0
    BY <2>1, <1>1, <1>6, <1>7
  <2>. QED
    BY <1>4, <2>2, <2>4, <2>5, <2>6 DEF Referenced
<1>9. CASE rc[r] # 1
  <2>1. UNCHANGED <<raiser, dealloc_rc, mailbox>>
    BY <1>9 DEF DropRaiserRef
  <2>2. Live' = Live
    BY <2>1 DEF Live
  <2>3. \A x \in Raisers : rc'[x] > 0 <=> rc[x] > 0
    BY <1>2, <1>3, <1>9
  <2>. QED
    BY <1>1, <1>4, <2>1, <2>2, <2>3 DEF Referenced
<1>. QED
  BY <1>8, <1>9

(***************************************************************************)
(* What is drained stays so, as nobody sends to or receives from a mailbox *)
(* that was shut down.                                                     *)
(***************************************************************************)
LEMMA ReleasedStill ==
  ASSUME Counted, Released, Open' <=> Open, is_shut_down => is_shut_down',
         is_shut_down /\ Drained => msg_queue' = msg_queue,
         mailbox = "none" => mailbox' = "none",
         \A t \in Threads : pc'[t] = "last" => pc[t] = "last" \/ (is_shut_down /\ Drained)
  PROVE  Released'
<1>1. \A t \in Threads : pc'[t] = "last" => is_shut_down /\ Drained
  BY DEF Counted, Released
<1>2. is_shut_down /\ Drained => Drained'
  BY DEF Drained
<1>. QED
  BY <1>1, <1>2 DEF Released

-----------------------------------------------------------------------------
(***************************************************************************)
(* What a thread does inside leaves the mailbox open or not.               *)
(***************************************************************************)
LEMMA OpenInside ==
  ASSUME Typed, NEW t \in Threads, NEW x \in InsidePC, pc[t] \in InsidePC,
         pc' = [pc EXCEPT ![t] = x], shutdown_rc' = shutdown_rc
  PROVE  (Open' <=> Open) /\ \A u \in Threads : pc'[u] = "last" => pc[u] = "last"
<1>1. ShuttingDown' = ShuttingDown
  BY StaysInside, Zenon
<1>2. \A u \in Threads : pc'[u] = "last" => pc[u] = "last"
  BY DEF Typed, InsidePC
<1>. QED
  BY <1>1, <1>2 DEF Open

(***************************************************************************)
(* Entering and leaving, and the shutdown before its last step: the        *)
(* mailbox is open before and after.                                       *)
(***************************************************************************)
LEMMA OpenPasses ==
  ASSUME Typed, Counted, NEW t \in Threads,
         \/ BorrowToReceive(t) \/ BorrowToCreate(t) \/ DropHandle(t) \/ Leave(t)
         \/ ShutdownSetFlag(t) \/ ShutdownDrained(t)
  PROVE  Open /\ Open'
<1>1. CASE BorrowToReceive(t) \/ BorrowToCreate(t)
  <2>1. handle /\ shutdown_rc' = shutdown_rc + 1
    BY <1>1 DEF BorrowToReceive, BorrowToCreate, BorrowMailbox
  <2>2. shutdown_rc > 0 /\ shutdown_rc \in Int
    BY <2>1, DownIsEmpty DEF Typed
  <2>. QED
    BY <2>1, <2>2 DEF Open
<1>2. CASE DropHandle(t) \/ Leave(t)
  <2>1. DropShutdownRef(t) /\ (handle \/ t \in Inside)
    BY <1>2 DEF DropHandle, Leave, Inside
  <2>2. shutdown_rc > 0 /\ shutdown_rc \in Int
    BY <2>1, DownIsEmpty DEF Typed
  <2>3. shutdown_rc = 1 => t \in ShuttingDown'
    BY <2>1 DEF DropShutdownRef, ShuttingDown, Typed
  <2>4. shutdown_rc # 1 => shutdown_rc' > 0
    BY <2>1, <2>2 DEF DropShutdownRef
  <2>. QED
    BY <2>2, <2>3, <2>4 DEF Open
<1>3. CASE ShutdownSetFlag(t) \/ ShutdownDrained(t)
  <2>1. t \in ShuttingDown /\ t \in ShuttingDown'
    BY <1>3 DEF ShutdownSetFlag, ShutdownDrained, ShuttingDown, Typed
  <2>. QED
    BY <2>1 DEF Open
<1>. QED
  BY <1>1, <1>2, <1>3

MemInv == Referenced /\ Released

(***************************************************************************)
(* user_create_mailbox: nothing was live, and now the mailbox is.          *)
(***************************************************************************)
LEMMA CreateCounts ==
  ASSUME Typed, Counted, MemInv, NEW percpu \in BOOLEAN, user_create_mailbox(percpu)
  PROVE  MemInv'
<1>1. /\ mailbox = "none" /\ mailbox' = "live" /\ shutdown_rc' = 1 /\ dealloc_rc' = 1
      /\ UNCHANGED <<msg_queue, channel, owner, rc, raiser, pc>>
  BY DEF user_create_mailbox, queueVars, raiserVars, threadVars
<1>2. Open' /\ Live' = Live
  BY <1>1 DEF Open, Live
<1>3. Live = {}
  BY <1>1, UsedIsLive, RefsFacts DEF MemInv, Referenced, Live
<1>4. dealloc_rc' = Cardinality(Live') + One(Open')
  BY <1>1, <1>2, <1>3, FS_EmptySet DEF One
<1>5. mailbox' = "live" <=> dealloc_rc' > 0
  BY <1>1
<1>6. Referenced'
  BY <1>1, <1>4, <1>5, Zenon DEF MemInv, Referenced
<1>7. Released'
  BY <1>1, <1>2 DEF Released, Counted
<1>. QED
  BY <1>6, <1>7 DEF MemInv

(***************************************************************************)
(* user_create_raiser: the raiser was not referred to, and keeps the       *)
(* mailbox from now on.                                                    *)
(***************************************************************************)
LEMMA RaiserCounts ==
  ASSUME Typed, Counted, MemInv, NEW t \in Threads, NEW r \in Raisers, user_create_raiser(t, r)
  PROVE  MemInv'
<1>1. /\ pc[t] = "create" /\ raiser[r] = "none" /\ raiser' = [raiser EXCEPT ![r] = "live"]
      /\ owner' = owner \cup {r} /\ rc' = [rc EXCEPT ![r] = 1] /\ dealloc_rc' = dealloc_rc + 1
      /\ pc' = [pc EXCEPT ![t] = "leave"]
      /\ UNCHANGED <<mailbox, shutdown_rc, is_shut_down, msg_queue, channel>>
  BY DEF user_create_raiser, queueVars
<1>2. (Open' <=> Open) /\ \A u \in Threads : pc'[u] = "last" => pc[u] = "last"
  BY <1>1, OpenInside, Zenon DEF InsidePC
<1>3. Open /\ mailbox # "none"
  <2>1. t \in Inside
    BY <1>1 DEF Inside
  <2>. QED
    BY <1>1, <2>1, DownIsEmpty DEF Open, Counted
<1>4. rc = Refs(msg_queue, channel, owner) /\ rc \in [Raisers -> Nat] /\ rc[r] = 0
  BY <1>1, RefsFacts DEF MemInv, Referenced
<1>5. r \notin owner
  BY <1>4, RefsFacts
<1>6. rc' = Refs(msg_queue', channel', owner')
  <2>1. Refs(msg_queue, channel, owner \cup {r}) = Bump(rc, r, 1)
    BY <1>4, <1>5, RefsOwn, SMT
  <2>. QED
    BY <1>1, <1>4, <2>1 DEF Bump
<1>7. Live' = Live \cup {r} /\ r \notin Live /\ raiser' \in [Raisers -> MemState]
  BY <1>1 DEF MemInv, Referenced, Live, MemState
<1>8. Cardinality(Live') = Cardinality(Live) + 1 /\ Cardinality(Live) \in Nat
  BY <1>7, LiveFinite, FS_AddElement, Zenon
<1>9. dealloc_rc = Cardinality(Live) + 1 /\ dealloc_rc' = Cardinality(Live') + One(Open')
  BY <1>1, <1>2, <1>3, <1>8 DEF MemInv, Referenced, One
<1>10. mailbox' = "live" <=> dealloc_rc' > 0
  BY <1>1, <1>8, <1>9 DEF MemInv, Referenced
<1>11. \A x \in Raisers : raiser'[x] = "live" <=> rc'[x] > 0
  BY <1>1, <1>4 DEF MemInv, Referenced
<1>12. Referenced'
  BY <1>1, <1>6, <1>7, <1>9, <1>10, <1>11, Zenon DEF MemInv, Referenced
<1>13. Released'
  BY <1>1, <1>2, ReleasedStill DEF MemInv
<1>. QED
  BY <1>12, <1>13 DEF MemInv

(***************************************************************************)
(* A reference is dropped: by the owner, by a receiver that has taken its  *)
(* notification, or from the queues of a mailbox that is shut down.        *)
(***************************************************************************)
LEMMA OwnerCounts ==
  ASSUME Typed, Counted, MemInv, NEW r \in Raisers, OwnerDropsRaiser(r)
  PROVE  MemInv'
<1>1. /\ r \in owner /\ owner' = owner \ {r} /\ DropRaiserRef(r)
      /\ UNCHANGED <<shutdown_rc, is_shut_down, msg_queue, pc, channel>>
  BY DEF OwnerDropsRaiser, queueVars, threadVars
<1>2. Open' <=> Open
  BY <1>1 DEF Open, ShuttingDown
<1>3. rc[r] > 0 /\ mailbox = "live"
  BY <1>1, UsedIsLive DEF MemInv
<1>4. Refs(msg_queue', channel', owner') = Bump(Refs(msg_queue, channel, owner), r, -1)
  BY <1>1, RefsDisown, SMT
<1>5. Referenced'
  BY <1>1, <1>2, <1>3, <1>4, ReferencedDrop DEF MemInv, Referenced
<1>6. Released'
  BY <1>1, <1>2, <1>3, ReleasedStill DEF MemInv
<1>. QED
  BY <1>5, <1>6 DEF MemInv

(***************************************************************************)
(* The thread lets go of the channel it received.                          *)
(***************************************************************************)
LEMMA DropCounts ==
  ASSUME Typed, Counted, Placed, MemInv, NEW t \in Threads, DropTaken(t)
  PROVE  MemInv'
<1>1. /\ pc[t] = "taken" /\ DropRaiserRef(channel[t])
      /\ channel' = [channel EXCEPT ![t] = NoRaiser] /\ pc' = [pc EXCEPT ![t] = "leave"]
      /\ UNCHANGED <<shutdown_rc, is_shut_down, msg_queue, owner>>
  BY DEF DropTaken, queueVars
<1>2. (Open' <=> Open) /\ \A u \in Threads : pc'[u] = "last" => pc[u] = "last"
  BY <1>1, OpenInside, Zenon DEF InsidePC
<1>3. channel \in Channels /\ channel[t] \in Raisers /\ t \in Holding(channel, channel[t])
  BY <1>1 DEF Typed, Placed, Held, Channels, Holding
<1>4. rc[channel[t]] > 0 /\ mailbox = "live"
  BY <1>3, UsedIsLive DEF MemInv
<1>5. Refs(msg_queue', channel', owner')
        = Bump(Refs(msg_queue, channel, owner), channel[t], -1)
  BY <1>1, <1>3, RefsLetGo, Zenon
<1>6. \A s \in Slots : NoRepeats(msg_queue'[s])
  BY <1>1 DEF MemInv, Referenced
<1>7. Referenced'
  BY <1>1, <1>2, <1>3, <1>4, <1>5, <1>6, ReferencedDrop, Zenon DEF MemInv
<1>8. Released'
  BY <1>1, <1>2, <1>4, ReleasedStill DEF MemInv
<1>. QED
  BY <1>7, <1>8 DEF MemInv

(***************************************************************************)
(* user_shutdown_mailbox unlinks a queued raiser and drops the reference.  *)
(***************************************************************************)
LEMMA DrainCounts ==
  ASSUME Typed, Counted, MemInv, NEW t \in Threads, NEW s \in Slots, ShutdownDrain(t, s)
  PROVE  MemInv'
<1>. DEFINE r == Head(msg_queue[s])
<1>1. /\ msg_queue[s] # <<>> /\ DropRaiserRef(r)
      /\ msg_queue' = [msg_queue EXCEPT ![s] = Tail(@)]
      /\ UNCHANGED <<shutdown_rc, is_shut_down, pc, owner, channel>>
  BY DEF ShutdownDrain, threadVars
<1>2. Open' <=> Open
  BY <1>1 DEF Open, ShuttingDown
<1>3. msg_queue \in Queues /\ msg_queue[s] \in Seq(Raisers) /\ \A q \in Slots : NoRepeats(msg_queue[q])
  BY DEF Typed, Queues, MemInv, Referenced
<1>4. /\ r \in Raisers /\ s \in Linking(msg_queue, r)
      /\ Refs(msg_queue', channel, owner) = Bump(Refs(msg_queue, channel, owner), r, -1)
  BY <1>1, <1>3, RefsDequeue, Zenon
<1>. HIDE DEF r
<1>5. NoRepeats(Tail(msg_queue[s]))
  BY <1>1, <1>3, Dequeue
<1>6. \A q \in Slots : NoRepeats(msg_queue'[q])
  BY <1>1, <1>3, <1>5 DEF Queues
<1>7. rc[r] > 0 /\ mailbox = "live"
  BY <1>4, UsedIsLive DEF MemInv
<1>8. Referenced'
  BY <1>1, <1>2, <1>4, <1>6, <1>7, ReferencedDrop, Zenon DEF MemInv
<1>9. ~Drained
  BY <1>1 DEF Drained
<1>10. Released'
  BY <1>1, <1>2, <1>7, <1>9, ReleasedStill DEF MemInv
<1>. QED
  BY <1>8, <1>10 DEF MemInv

(***************************************************************************)
(* user_send_notification_to_core.                                         *)
(***************************************************************************)
LEMMA SendCounts ==
  ASSUME Typed, Counted, Placed, MemInv, NEW r \in Raisers, NEW id \in Cores,
         user_send_notification_to_core(r, id)
  PROVE  MemInv'
<1>. DEFINE s == SlotOf(id)
<1>1. /\ r \in owner /\ ~is_shut_down
      /\ pending[r][s] = 0 => user_raiser_enqueue_nolock(r, s, msg_queue, channel)
      /\ pending[r][s] # 0 => UNCHANGED <<msg_queue, rc, channel>>
      /\ UNCHANGED <<mailbox, shutdown_rc, dealloc_rc, is_shut_down, raiser, owner, pc>>
  BY DEF user_send_notification_to_core, mbVars
<1>2. s \in Slots
  BY SlotType
<1>. HIDE DEF s
<1>3. /\ msg_queue \in Queues /\ Asleep \in SUBSET Threads /\ channel \in Channels
      /\ task_queue \in [Slots -> Seq(Threads)] /\ pending[r][s] \in Nat
      /\ WaitersFor(task_queue, msg_queue, Asleep, channel)
      /\ \A q \in Slots : NoRepeats(msg_queue[q])
  BY <1>2 DEF Typed, Queues, Asleep, Channels, Placed, MemInv, Referenced
<1>4. Open' <=> Open
  BY <1>1 DEF Open, ShuttingDown
<1>5. rc[r] > 0 /\ mailbox = "live"
  BY <1>1, UsedIsLive DEF MemInv
<1>6. Referenced'
  <2>1. CASE pending[r][s] = 0
    <3>1. r \notin Elems(msg_queue[s])
      BY <2>1, <1>1, <1>2 DEF Placed, OnePlace, OnePlaceFor
    <3>2. user_raiser_enqueue_nolock(r, s, msg_queue, channel)
      BY <2>1, <1>1
    <3>3. /\ rc' = Bump(rc, r, 1)
          /\ Refs(msg_queue', channel', owner)
               = Bump(Refs(msg_queue, channel, owner), r, 1)
          /\ \A q \in Slots : NoRepeats(msg_queue'[q])
      BY <3>1, <3>2, <1>2, <1>3, RefsHandOn, Zenon
    <3>. QED
      BY <3>3, <1>1, <1>4, <1>5, ReferencedMore DEF MemInv
  <2>2. CASE pending[r][s] # 0
    BY <2>2, <1>1, <1>4, ReferencedStill, Zenon DEF MemInv
  <2>. QED
    BY <2>1, <2>2
<1>7. Released'
  BY <1>1, <1>4, <1>5, ReleasedStill DEF MemInv
<1>. QED
  BY <1>6, <1>7 DEF MemInv

(***************************************************************************)
(* The part of user_recieve_notification after a channel was obtained: the *)
(* thread takes over the reference of the queue, or has it already.        *)
(***************************************************************************)
LEMMA TakeCounts ==
  ASSUME Typed, Counted, MemInv, NEW t \in Threads, NEW r \in Raisers, NEW s \in Slots,
         NEW mq \in Queues, r \notin Elems(mq[s]), \A q \in Slots : NoRepeats(mq[q]),
         pc[t] \in {"recv", "asleep"}, rc[r] > 0,
         WaitersFor(task_queue, mq, Asleep \ {t}, channel),
         Refs(mq, [channel EXCEPT ![t] = r], owner) = Refs(msg_queue, channel, owner),
         TakeNotification(t, r, s, mq)
  PROVE  MemInv'
<1>. DEFINE A == Asleep \ {t}
            ch == [channel EXCEPT ![t] = r]
<1>1. /\ pc' = [pc EXCEPT ![t] = "taken"]
      /\ pending[r][s] # 1 => user_raiser_enqueue_nolock(r, s, mq, ch)
      /\ pending[r][s] = 1 => msg_queue' = mq /\ channel' = ch /\ rc' = rc
      /\ UNCHANGED <<mailbox, shutdown_rc, dealloc_rc, is_shut_down, raiser, owner>>
  BY DEF TakeNotification, mbVars
<1>2. A \in SUBSET Threads /\ ch \in Channels /\ task_queue \in [Slots -> Seq(Threads)]
  BY DEF Asleep, Typed, Channels
<1>3. \A u \in A : ch[u] = channel[u]
  BY DEF Typed, Asleep
<1>4. (Open' <=> Open) /\ \A u \in Threads : pc'[u] = "last" => pc[u] = "last"
  BY <1>1, OpenInside, Zenon DEF InsidePC
<1>5. ~is_shut_down /\ mailbox # "none"
  <2>1. t \in Inside
    BY DEF Inside
  <2>. QED
    BY <2>1, DownIsEmpty DEF Counted
<1>. HIDE DEF A, ch
<1>6. WaitersFor(task_queue, mq, A, ch)
  BY <1>3 DEF WaitersFor, A
<1>7. Refs(mq, ch, owner) = Refs(msg_queue, channel, owner)
  BY DEF ch
<1>8. Referenced'
  <2>1. CASE pending[r][s] # 1
    <3>1. /\ rc' = Bump(rc, r, 1)
          /\ Refs(msg_queue', channel', owner) = Bump(Refs(mq, ch, owner), r, 1)
          /\ \A q \in Slots : NoRepeats(msg_queue'[q])
      BY <2>1, <1>1, <1>2, <1>6, RefsHandOn, Zenon
    <3>. QED
      BY <3>1, <1>1, <1>4, <1>7, ReferencedMore DEF MemInv
  <2>2. CASE pending[r][s] = 1
    <3>1. /\ rc' = rc /\ Refs(msg_queue', channel', owner') = Refs(msg_queue, channel, owner)
          /\ \A q \in Slots : NoRepeats(msg_queue'[q])
      BY <2>2, <1>1, <1>7, Zenon
    <3>2. Live' = Live /\ One(Open') = One(Open)
      BY <1>1, <1>4, Zenon DEF Live, One
    <3>. QED
      BY <3>1, <3>2, <1>1 DEF MemInv, Referenced
  <2>. QED
    BY <2>1, <2>2
<1>9. Released'
  BY <1>1, <1>4, <1>5, ReleasedStill, Zenon DEF MemInv
<1>. QED
  BY <1>8, <1>9 DEF MemInv

(***************************************************************************)
(* user_recieve_notification finds a queued channel.                       *)
(***************************************************************************)
LEMMA QueuedCounts ==
  ASSUME Typed, Counted, Placed, MemInv, NEW t \in Threads, ReceiveQueued(t)
  PROVE  MemInv'
<1>. DEFINE s == SlotOf(CoreOf[t])
            r == Head(msg_queue[s])
            mq == [msg_queue EXCEPT ![s] = Tail(@)]
            ch == [channel EXCEPT ![t] = r]
<1>1. pc[t] = "recv" /\ msg_queue[s] # <<>> /\ TakeNotification(t, r, s, mq)
  BY DEF ReceiveQueued
<1>2. s \in Slots
  BY SlotType, NotificationsAssumption, Zenon
<1>. HIDE DEF s
<1>3. /\ msg_queue \in Queues /\ msg_queue[s] \in Seq(Raisers) /\ channel \in Channels
      /\ \A q \in Slots : NoRepeats(msg_queue[q])
  BY <1>2 DEF Typed, Queues, Channels, MemInv, Referenced
<1>4. /\ NoRepeats(Tail(msg_queue[s])) /\ Elems(Tail(msg_queue[s])) = Elems(msg_queue[s]) \ {r}
      /\ Tail(msg_queue[s]) \in Seq(Raisers)
  BY <1>1, <1>2, <1>3, Dequeue, TailFacts, Zenon
<1>5. mq \in Queues /\ mq[s] = Tail(msg_queue[s]) /\ \A q \in Slots : q # s => mq[q] = msg_queue[q]
  BY <1>2, <1>3, <1>4, Zenon DEF Queues
<1>6. /\ r \in Raisers /\ s \in Linking(msg_queue, r)
      /\ Refs(mq, channel, owner) = Bump(Refs(msg_queue, channel, owner), r, -1)
  BY <1>1, <1>2, <1>3, RefsDequeue, Zenon
<1>. HIDE DEF r, mq
<1>7. r \notin Elems(mq[s]) /\ \A q \in Slots : NoRepeats(mq[q])
  BY <1>3, <1>4, <1>5, Zenon
<1>8. channel[t] = NoRaiser
  BY <1>1 DEF Placed, Held
<1>9. Refs(mq, ch, owner) = Bump(Refs(mq, channel, owner), r, 1)
  BY <1>3, <1>6, <1>8, RefsTake, Zenon
<1>10. Refs(msg_queue, channel, owner) \in [Raisers -> Nat]
  BY RefsFacts
<1>11. Refs(mq, ch, owner) = Refs(msg_queue, channel, owner)
  BY <1>6, <1>9, <1>10 DEF Bump
<1>12. rc[r] > 0
  BY <1>6, UsedIsLive DEF MemInv
<1>13. WaitersFor(task_queue, msg_queue, Asleep, channel)
  BY DEF Placed
<1>14. task_queue[s] = <<>> /\ Asleep \ {t} = Asleep
  BY <1>1, <1>2, <1>13 DEF WaitersFor, Asleep
<1>15. WaitersFor(task_queue, mq, Asleep \ {t}, channel)
  BY <1>5, <1>13, <1>14 DEF WaitersFor
<1>. QED
  BY <1>1, <1>2, <1>5, <1>6, <1>7, <1>11, <1>12, <1>15, TakeCounts, Zenon

(***************************************************************************)
(* user_recieve_notification continues with the channel it was handed.     *)
(***************************************************************************)
LEMMA WokenCounts ==
  ASSUME Typed, Counted, Placed, MemInv, NEW t \in Threads, ReceiveWoken(t)
  PROVE  MemInv'
<1>. DEFINE s == SlotOf(CoreOf[t])
            r == channel[t]
<1>1. pc[t] = "asleep" /\ r # NoRaiser /\ TakeNotification(t, r, s, msg_queue)
  BY DEF ReceiveWoken
<1>2. s \in Slots
  BY SlotType, NotificationsAssumption, Zenon
<1>3. t \in Inside /\ t \in Asleep /\ r \in Raisers
  BY <1>1 DEF Inside, Asleep, Typed
<1>4. ~is_shut_down
  BY <1>3, DownIsEmpty
<1>5. Carries(Asleep, channel, t, r, s)
  BY <1>3 DEF Carries
<1>6. r \notin Elems(msg_queue[s])
  BY <1>2, <1>3, <1>4, <1>5 DEF Placed, OnePlace, OnePlaceFor
<1>7. /\ msg_queue \in Queues /\ \A q \in Slots : NoRepeats(msg_queue[q])
      /\ [channel EXCEPT ![t] = r] = channel
  BY DEF Typed, Queues, MemInv, Referenced
<1>8. rc[r] > 0
  <2>1. t \in Holding(channel, r)
    BY DEF Holding
  <2>. QED
    BY <2>1, <1>3, UsedIsLive DEF MemInv
<1>9. WaitersFor(task_queue, msg_queue, Asleep \ {t}, channel)
  BY <1>1 DEF Placed, WaitersFor
<1>. HIDE DEF s, r
<1>. QED
  BY <1>1, <1>2, <1>3, <1>6, <1>7, <1>8, <1>9, TakeCounts

(***************************************************************************)
(* The last step of user_shutdown_mailbox gives up the reference of the    *)
(* handle that was.                                                        *)
(***************************************************************************)
LEMMA LastDropCounts ==
  ASSUME Typed, Counted, MemInv, NEW t \in Threads, ShutdownLastDrop(t)
  PROVE  MemInv'
<1>1. /\ pc[t] = "last" /\ pc' = [pc EXCEPT ![t] = "out"] /\ dealloc_rc' = dealloc_rc - 1
      /\ mailbox' = IF dealloc_rc = 1 THEN "freed" ELSE mailbox
      /\ UNCHANGED <<shutdown_rc, is_shut_down, msg_queue, channel, owner, rc, raiser>>
  BY DEF ShutdownLastDrop, DropDeallocRef, queueVars, raiserVars
<1>2. t \in ShuttingDown /\ \A u \in ShuttingDown : u = t
  BY <1>1 DEF ShuttingDown, Counted
<1>3. ShuttingDown' = {}
  BY <1>1, <1>2 DEF ShuttingDown, Typed
<1>4. Open /\ ~Open'
  BY <1>1, <1>2, <1>3 DEF Open, Counted
<1>5. Live' = Live /\ Cardinality(Live) \in Nat
  BY <1>1, LiveFinite DEF Live
<1>6. dealloc_rc = Cardinality(Live) + 1 /\ mailbox = "live"
  BY <1>4, <1>5 DEF MemInv, Referenced, One
<1>7. /\ dealloc_rc' = Cardinality(Live') + One(Open')
      /\ mailbox' = "live" <=> dealloc_rc' > 0
  BY <1>1, <1>4, <1>5, <1>6 DEF One
<1>8. Referenced'
  BY <1>1, <1>7 DEF MemInv, Referenced
<1>9. is_shut_down' /\ Drained'
  BY <1>1 DEF MemInv, Released, Drained, Counted
<1>10. Released'
  BY <1>9 DEF Released
<1>. QED
  BY <1>8, <1>10 DEF MemInv

(***************************************************************************)
(* The other steps count no reference that keeps memory.                   *)
(***************************************************************************)
LEMMA QuietCounts ==
  ASSUME Typed, Counted, MemInv, NEW t \in Threads,
         \/ BorrowToReceive(t) \/ BorrowToCreate(t) \/ DropHandle(t) \/ Leave(t)
         \/ ShutdownSetFlag(t) \/ ShutdownDrained(t)
         \/ CreateRaiserOutOfMemory(t) \/ ReceiveWait(t)
  PROVE  MemInv'
<1>1. UNCHANGED <<msg_queue, channel, owner, rc, raiser, dealloc_rc, mailbox>>
  BY Zenon DEF BorrowToReceive, BorrowToCreate, BorrowMailbox, DropHandle, Leave, ShutdownSetFlag,
       ShutdownDrained, CreateRaiserOutOfMemory, ReceiveWait, mbVars, queueVars, raiserVars
<1>2. is_shut_down => is_shut_down'
  BY Zenon DEF BorrowToReceive, BorrowToCreate, BorrowMailbox, DropHandle, Leave, ShutdownSetFlag,
       ShutdownDrained, CreateRaiserOutOfMemory, ReceiveWait, mbVars
<1>3. \A u \in Threads : pc'[u] = "last" => pc[u] = "last" \/ (is_shut_down /\ Drained)
  <2>1. CASE ShutdownDrained(t)
    BY <2>1 DEF ShutdownDrained, Drained, Counted, Typed
  <2>2. CASE ~ShutdownDrained(t)
    <3>1. \E x \in PC \ {"last"} : pc' = [pc EXCEPT ![t] = x]
      BY <2>2 DEF BorrowToReceive, BorrowToCreate, BorrowMailbox, DropHandle, DropShutdownRef, Leave,
           ShutdownSetFlag, CreateRaiserOutOfMemory, ReceiveWait, PC
    <3>. QED
      BY <3>1 DEF Typed
  <2>. QED
    BY <2>1, <2>2
<1>4. Open' <=> Open
  <2>1. CASE CreateRaiserOutOfMemory(t) \/ ReceiveWait(t)
    <3>1. /\ pc[t] \in InsidePC /\ \E x \in InsidePC : pc' = [pc EXCEPT ![t] = x]
          /\ shutdown_rc' = shutdown_rc
      BY <2>1, Zenon DEF CreateRaiserOutOfMemory, ReceiveWait, InsidePC, mbVars
    <3>. QED
      BY <3>1, OpenInside, Zenon
  <2>2. CASE ~(CreateRaiserOutOfMemory(t) \/ ReceiveWait(t))
    BY <2>2, OpenPasses
  <2>. QED
    BY <2>1, <2>2
<1>5. Referenced'
  BY <1>1, <1>4, ReferencedStill DEF MemInv
<1>6. Released'
  BY <1>1, <1>2, <1>3, <1>4, ReleasedStill DEF MemInv
<1>. QED
  BY <1>5, <1>6 DEF MemInv

(***************************************************************************)
(* Every step keeps the counts.                                            *)
(***************************************************************************)
LEMMA NextCounts == IInv /\ MemInv /\ [Next]_vars => MemInv'
<1>. SUFFICES ASSUME Typed, Counted, Placed, MemInv, [Next]_vars PROVE MemInv'
  BY DEF IInv
<1>1. CASE UNCHANGED vars
  <2>1. UNCHANGED <<mbVars, msg_queue, raiserVars, pc, channel>>
    BY <1>1 DEF vars, queueVars, threadVars
  <2>2. Open' <=> Open
    BY <2>1 DEF mbVars, Open, ShuttingDown
  <2>3. Referenced'
    BY <2>1, <2>2, ReferencedStill DEF mbVars, raiserVars, MemInv
  <2>4. Released'
    BY <2>1, <2>2, ReleasedStill DEF mbVars, MemInv
  <2>. QED
    BY <2>3, <2>4 DEF MemInv
<1>2. ASSUME NEW percpu \in BOOLEAN, user_create_mailbox(percpu) PROVE MemInv'
  BY <1>2, CreateCounts
<1>3. ASSUME NEW t \in Threads,
             \/ BorrowToReceive(t) \/ BorrowToCreate(t) \/ DropHandle(t) \/ Leave(t)
             \/ ShutdownSetFlag(t) \/ ShutdownDrained(t)
             \/ CreateRaiserOutOfMemory(t) \/ ReceiveWait(t)
      PROVE  MemInv'
  BY <1>3, QuietCounts
<1>4. ASSUME NEW t \in Threads,
             \/ ReceiveQueued(t) \/ ReceiveWoken(t) \/ DropTaken(t) \/ ShutdownLastDrop(t)
             \/ \E r \in Raisers : user_create_raiser(t, r)
             \/ \E s \in Slots : ShutdownDrain(t, s)
      PROVE  MemInv'
  BY <1>4, QueuedCounts, WokenCounts, DropCounts, LastDropCounts, RaiserCounts, DrainCounts
<1>5. ASSUME NEW r \in Raisers,
             OwnerDropsRaiser(r) \/ \E id \in Cores : user_send_notification_to_core(r, id)
      PROVE  MemInv'
  BY <1>5, OwnerCounts, SendCounts
<1>. QED
  BY <1>1, <1>2, <1>3, <1>4, <1>5 DEF Next, ThreadStep

(***************************************************************************)
(* There is nothing to count before the mailbox is created.                *)
(***************************************************************************)
LEMMA InitCounts == Init => MemInv
<1>. SUFFICES ASSUME Init PROVE MemInv
  OBVIOUS
<1>1. Elems(<<>>) = {} /\ NoRepeats(<<>>)
  BY EmptyQueue
<1>2. /\ Drained /\ owner = {} /\ ShuttingDown = {} /\ Live = {} /\ ~Open
      /\ \A s \in Slots : NoRepeats(msg_queue[s])
  BY <1>1 DEF Init, Drained, ShuttingDown, Live, Open
<1>3. \A r \in Raisers : Linking(msg_queue, r) = {} /\ Holding(channel, r) = {}
  BY <1>1, NotificationsAssumption DEF Init, Linking, Holding
<1>4. rc = Refs(msg_queue, channel, owner)
  <2>1. Refs(msg_queue, channel, owner) = [r \in Raisers |-> 0]
    BY <1>2, <1>3, FS_EmptySet DEF Refs, RefCount, One
  <2>. QED
    BY <2>1 DEF Init
<1>5. Referenced
  BY <1>2, <1>4, FS_EmptySet DEF Init, Referenced, One, MemState
<1>6. Released
  BY DEF Init, Released
<1>. QED
  BY <1>5, <1>6 DEF MemInv

(***************************************************************************)
(* Every reference to the mailbox and its raisers is counted exactly, and  *)
(* both live exactly as long as they are used, whoever lets go last        *)
(* (mem_rc_drop in user/notifications.c).                                  *)
(***************************************************************************)
THEOREM MemoryIsExact == Spec => []MemoryExact
<1>1. Spec => [](IInv /\ MemInv)
  <2>1. IInv /\ MemInv /\ [Next]_vars => MemInv'
    BY NextCounts
  <2>. QED
    BY InitCounts, <2>1, Invariant, PTL DEF Spec
<1>2. IInv /\ MemInv => MemoryExact
  <2>. SUFFICES ASSUME Typed, Counted, Placed, MemInv PROVE MemoryExact
    BY DEF IInv
  <2>1. ASSUME NEW r \in Raisers
        PROVE  QueuedIn(r) = Linking(msg_queue, r) /\ Holders(r) = Holding(channel, r)
    BY NotificationsAssumption DEF QueuedIn, Linking, Holders, Holding, Woken, Placed, Held
  <2>2. ReferencesExact
    <3>1. \A r \in Raisers :
            rc[r] = One(r \in owner) + Cardinality(QueuedIn(r)) + Cardinality(Holders(r))
      BY <2>1 DEF MemInv, Referenced, Refs, RefCount
    <3>. QED
      BY <3>1 DEF ReferencesExact, MemInv, Referenced, Counted, Open
  <2>3. NoUseAfterFree
    <3>1. ASSUME handle \/ Inside \cup ShuttingDown # {} \/ Live # {} PROVE mailbox = "live"
      <4>1. Open \/ Live # {}
        BY <3>1, DownIsEmpty DEF Open
      <4>2. dealloc_rc > 0
        BY <4>1, LiveFinite DEF MemInv, Referenced, One
      <4>. QED
        BY <4>2 DEF MemInv, Referenced
    <3>2. ASSUME NEW r \in Raisers, r \in owner \/ QueuedIn(r) # {} \/ Holders(r) # {}
          PROVE  r \in Live
      BY <2>1, <3>2, UsedIsLive DEF MemInv
    <3>. QED
      BY <3>1, <3>2 DEF NoUseAfterFree
  <2>4. AllFreedAtTheEnd
    <3>. SUFFICES ASSUME mailbox # "none", ~handle, owner = {}, \A t \in Threads : pc[t] = "out"
                  PROVE  mailbox = "freed" /\ Live = {}
      BY DEF AllFreedAtTheEnd
    <3>1. Inside = {} /\ ShuttingDown = {} /\ shutdown_rc = 0
      <4>1. Inside = {} /\ ShuttingDown = {}
        BY DEF Inside, ShuttingDown
      <4>. QED
        BY <4>1, FS_EmptySet DEF Counted, One
    <3>2. ~Open /\ Drained
      BY <3>1 DEF Open, MemInv, Released
    <3>3. \A r \in Raisers : Linking(msg_queue, r) = {} /\ Holding(channel, r) = {}
      BY <3>2, EmptyQueue, NotificationsAssumption DEF Drained, Linking, Holding, Placed, Held
    <3>4. Live = {}
      BY <3>3, RefsFacts DEF MemInv, Referenced, Live
    <3>5. dealloc_rc = 0
      BY <3>2, <3>4, FS_EmptySet DEF MemInv, Referenced, One
    <3>. QED
      BY <3>4, <3>5 DEF MemInv, Referenced, Typed, MemState
  <2>. QED
    BY <2>2, <2>3, <2>4 DEF MemoryExact
<1>. QED
  BY <1>1, <1>2, PTL
=============================================================================
