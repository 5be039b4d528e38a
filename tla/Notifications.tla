---------------------------- MODULE Notifications ----------------------------
(***************************************************************************)
(* One notification mailbox, the raisers that send to it and the threads   *)
(* that receive from it (user/notifications.c), with the reference counts  *)
(* (mem/rc.h) that decide when mailbox and raisers are shut down and freed.*)
(*                                                                         *)
(* A critical section of mailbox->lock is one step: the lock is a spinlock *)
(* taken with interrupts off.  Everything the code does outside the lock   *)
(* (dropping references, draining the queue of a mailbox that was shut     *)
(* down) is a step of its own, interleaved with everything else.           *)
(***************************************************************************)
EXTENDS Integers, FiniteSets, Queue

CONSTANTS
  Threads,      \* kernel tasks that use the mailbox
  Raisers,      \* raisers that may be created
  Cores,        \* logical core ids
  CoreOf,       \* CoreOf[t]: the core thread t runs on; tasks do not migrate
  NoRaiser,     \* node.channel not set
  MaxPending    \* bound on a channel's pending count

ASSUME NotificationsAssumption ==
  /\ IsFiniteSet(Threads)
  /\ IsFiniteSet(Raisers)
  /\ Cores \subseteq Nat /\ 0 \in Cores /\ IsFiniteSet(Cores)
  /\ CoreOf \in [Threads -> Cores]
  /\ NoRaiser \notin Raisers
  /\ MaxPending \in Nat \ {0}

VARIABLES
  mailbox,      \* "none", "live" or "freed": the mailbox's memory
  handle,       \* a universe still holds the handle to the mailbox
  shutdown_rc,  \* mailbox->shutdown_rc_base
  dealloc_rc,   \* mailbox->dealloc_rc_base
  is_shut_down, \* mailbox->is_shut_down
  is_per_cpu,   \* mailbox->is_per_cpu
  msg_queue,    \* per slot: raisers whose channel is queued
  task_queue,   \* per slot: threads that wait for a channel
  raiser,       \* "none", "live" or "freed": a raiser's memory
  owner,        \* raisers whose RPC object still holds its reference
  rc,           \* raiser->rc_base
  pending,      \* pending[r][s]: the channel's pending count
  pc,           \* where each thread is in the mailbox code
  channel       \* the raiser a thread was handed or has dequeued

mbVars == <<mailbox, handle, shutdown_rc, dealloc_rc, is_shut_down, is_per_cpu>>
queueVars == <<msg_queue, task_queue, pending>>
raiserVars == <<raiser, owner, rc>>
threadVars == <<pc, channel>>
vars == <<mbVars, queueVars, raiserVars, threadVars>>

(***************************************************************************)
(* One queue per core in per-cpu mode; one global queue otherwise, slot 0. *)
(***************************************************************************)
Slots == Cores
SlotOf(id) == IF is_per_cpu THEN id ELSE 0

MemState == {"none", "live", "freed"}
PC == {"out", "create", "recv", "asleep", "taken", "leave", "shutdown", "drain", "last"}

-----------------------------------------------------------------------------
Init ==
  /\ mailbox = "none" /\ handle = FALSE
  /\ shutdown_rc = 0 /\ dealloc_rc = 0
  /\ is_shut_down = FALSE /\ is_per_cpu = FALSE
  /\ msg_queue = [s \in Slots |-> <<>>]
  /\ task_queue = [s \in Slots |-> <<>>]
  /\ raiser = [r \in Raisers |-> "none"]
  /\ owner = {}
  /\ rc = [r \in Raisers |-> 0]
  /\ pending = [r \in Raisers |-> [s \in Slots |-> 0]]
  /\ pc = [t \in Threads |-> "out"]
  /\ channel = [t \in Threads |-> NoRaiser]

(***************************************************************************)
(* mem_rc_drop on dealloc_rc_base: the last reference frees the mailbox.   *)
(***************************************************************************)
DropDeallocRef ==
  /\ dealloc_rc' = dealloc_rc - 1
  /\ mailbox' = IF dealloc_rc = 1 THEN "freed" ELSE mailbox

(***************************************************************************)
(* mem_rc_drop on a raiser: the last reference runs user_destroy_raiser,   *)
(* which drops the raiser's reference to the mailbox.                      *)
(***************************************************************************)
DropRaiserRef(r) ==
  /\ rc' = [rc EXCEPT ![r] = @ - 1]
  /\ IF rc[r] = 1
     THEN raiser' = [raiser EXCEPT ![r] = "freed"] /\ DropDeallocRef
     ELSE UNCHANGED <<raiser, dealloc_rc, mailbox>>

user_create_mailbox(percpu) ==
  /\ mailbox = "none"
  /\ is_per_cpu' = percpu
  /\ mailbox' = "live" /\ handle' = TRUE
  /\ shutdown_rc' = 1 /\ dealloc_rc' = 1
  /\ UNCHANGED <<is_shut_down, queueVars, raiserVars, threadVars>>

(* Faulty variant: the system call does not count its reference. *)
BorrowMailboxUncounted(t, goal) ==
  /\ pc[t] = "out" /\ handle
  /\ pc' = [pc EXCEPT ![t] = goal]
  /\ UNCHANGED <<mbVars, queueVars, raiserVars, channel>>

(***************************************************************************)
(* A system call borrows the mailbox out of the universe (its shutdown     *)
(* reference) before it uses it, and drops that reference when it is done. *)
(***************************************************************************)
BorrowMailbox(t, goal) ==
  /\ pc[t] = "out" /\ handle
  /\ shutdown_rc' = shutdown_rc + 1
  /\ pc' = [pc EXCEPT ![t] = goal]
  /\ UNCHANGED <<mailbox, handle, dealloc_rc, is_shut_down, is_per_cpu, queueVars, raiserVars, channel>>

BorrowToReceive(t) == BorrowMailbox(t, "recv")
BorrowToCreate(t) == BorrowMailbox(t, "create")

DropShutdownRef(t) ==
  /\ shutdown_rc' = shutdown_rc - 1
  /\ pc' = [pc EXCEPT ![t] = IF shutdown_rc = 1 THEN "shutdown" ELSE "out"]

Leave(t) ==
  /\ pc[t] = "leave"
  /\ DropShutdownRef(t)
  /\ UNCHANGED <<mailbox, handle, dealloc_rc, is_shut_down, is_per_cpu, queueVars, raiserVars, channel>>

(***************************************************************************)
(* A thread drops the universe's handle.                                   *)
(***************************************************************************)
DropHandle(t) ==
  /\ pc[t] = "out" /\ handle
  /\ handle' = FALSE
  /\ DropShutdownRef(t)
  /\ UNCHANGED <<mailbox, dealloc_rc, is_shut_down, is_per_cpu, queueVars, raiserVars, channel>>

-----------------------------------------------------------------------------
user_create_raiser(t, r) ==
  /\ pc[t] = "create" /\ raiser[r] = "none"
  /\ raiser' = [raiser EXCEPT ![r] = "live"]
  /\ owner' = owner \cup {r}
  /\ rc' = [rc EXCEPT ![r] = 1]
  /\ dealloc_rc' = dealloc_rc + 1
  /\ pc' = [pc EXCEPT ![t] = "leave"]
  /\ UNCHANGED <<mailbox, handle, shutdown_rc, is_shut_down, is_per_cpu, queueVars, channel>>

CreateRaiserOutOfMemory(t) ==
  /\ pc[t] = "create"
  /\ pc' = [pc EXCEPT ![t] = "leave"]
  /\ UNCHANGED <<mbVars, queueVars, raiserVars, channel>>

(***************************************************************************)
(* The RPC caller or callee that owns the raiser shuts down and drops it.  *)
(***************************************************************************)
OwnerDropsRaiser(r) ==
  /\ r \in owner
  /\ owner' = owner \ {r}
  /\ DropRaiserRef(r)
  /\ UNCHANGED <<handle, shutdown_rc, is_shut_down, is_per_cpu, queueVars, threadVars>>

(* Faulty variants of the next operator: waiters are not looked at. *)
EnqueueWithoutWaking(r, s, mq, ch) ==
  /\ rc' = [rc EXCEPT ![r] = @ + 1]
  /\ msg_queue' = [mq EXCEPT ![s] = Append(@, r)]
  /\ channel' = ch
  /\ UNCHANGED task_queue

(* A stack instead of a queue. *)
EnqueueAtHead(r, s, mq, ch) ==
  /\ rc' = [rc EXCEPT ![r] = @ + 1]
  /\ IF task_queue[s] # <<>>
     THEN /\ channel' = [ch EXCEPT ![Head(task_queue[s])] = r]
          /\ task_queue' = [task_queue EXCEPT ![s] = Tail(@)]
          /\ msg_queue' = mq
     ELSE /\ msg_queue' = [mq EXCEPT ![s] = <<r>> \o @]
          /\ channel' = ch
          /\ UNCHANGED task_queue

(***************************************************************************)
(* user_raiser_enqueue_nolock: hand the channel to the first waiter of the *)
(* slot, or queue it.  mq and ch are the message queues and the threads'   *)
(* channels as the caller has left them.                                   *)
(***************************************************************************)
user_raiser_enqueue_nolock(r, s, mq, ch) ==
  /\ rc' = [rc EXCEPT ![r] = @ + 1]
  /\ IF task_queue[s] # <<>>
     THEN /\ channel' = [ch EXCEPT ![Head(task_queue[s])] = r]
          /\ task_queue' = [task_queue EXCEPT ![s] = Tail(@)]
          /\ msg_queue' = mq
     ELSE /\ msg_queue' = [mq EXCEPT ![s] = Append(@, r)]
          /\ channel' = ch
          /\ UNCHANGED task_queue

(* Faulty variant: one test for all cores, "is anything pending anywhere". *)
SendChecksAnyCore(r, id) ==
  LET s == SlotOf(id) IN
  /\ r \in owner /\ ~is_shut_down
  /\ pending[r][s] < MaxPending
  /\ pending' = [pending EXCEPT ![r][s] = @ + 1]
  /\ IF \A q \in Slots : pending[r][q] = 0
     THEN user_raiser_enqueue_nolock(r, s, msg_queue, channel)
     ELSE UNCHANGED <<msg_queue, task_queue, rc, channel>>
  /\ UNCHANGED <<mbVars, raiser, owner, pc>>

(***************************************************************************)
(* The owner sends while it holds its own lock, so its reference to the    *)
(* raiser cannot go away meanwhile.                                        *)
(***************************************************************************)
user_send_notification_to_core(r, id) ==
  LET s == SlotOf(id) IN
  /\ r \in owner
  /\ ~is_shut_down
  /\ pending[r][s] < MaxPending
  /\ pending' = [pending EXCEPT ![r][s] = @ + 1]
  /\ IF pending[r][s] = 0
     THEN user_raiser_enqueue_nolock(r, s, msg_queue, channel)
     ELSE UNCHANGED <<msg_queue, task_queue, rc, channel>>
  /\ UNCHANGED <<mbVars, raiser, owner, pc>>

(* Faulty variant: one receive swallows all that is pending. *)
TakeAll(t, r, s, mq) ==
  /\ pending' = [pending EXCEPT ![r][s] = 0]
  /\ msg_queue' = mq /\ channel' = [channel EXCEPT ![t] = r]
  /\ pc' = [pc EXCEPT ![t] = "taken"]
  /\ UNCHANGED <<mbVars, task_queue, rc, raiser, owner>>

(***************************************************************************)
(* The part of user_recieve_notification after a channel was obtained: one *)
(* notification is taken off, and a channel that has more goes back to the *)
(* end of the queue, or straight to another waiter.                        *)
(***************************************************************************)
TakeNotification(t, r, s, mq) ==
  LET ch == [channel EXCEPT ![t] = r] IN
  /\ pending' = [pending EXCEPT ![r][s] = @ - 1]
  /\ IF pending[r][s] # 1
     THEN user_raiser_enqueue_nolock(r, s, mq, ch)
     ELSE msg_queue' = mq /\ channel' = ch /\ UNCHANGED <<task_queue, rc>>
  /\ pc' = [pc EXCEPT ![t] = "taken"]
  /\ UNCHANGED <<mbVars, raiser, owner>>

ReceiveQueued(t) ==
  LET s == SlotOf(CoreOf[t]) IN
  /\ pc[t] = "recv" /\ msg_queue[s] # <<>>
  /\ TakeNotification(t, Head(msg_queue[s]), s, [msg_queue EXCEPT ![s] = Tail(@)])

(***************************************************************************)
(* Nothing queued: wait.  The mailbox lock is released by the scheduler,   *)
(* after the thread's context has been saved.                              *)
(***************************************************************************)
ReceiveWait(t) ==
  LET s == SlotOf(CoreOf[t]) IN
  /\ pc[t] = "recv" /\ msg_queue[s] = <<>>
  /\ task_queue' = [task_queue EXCEPT ![s] = Append(@, t)]
  /\ pc' = [pc EXCEPT ![t] = "asleep"]
  /\ UNCHANGED <<mbVars, msg_queue, pending, raiserVars, channel>>

ReceiveWoken(t) ==
  /\ pc[t] = "asleep" /\ channel[t] # NoRaiser
  /\ TakeNotification(t, channel[t], SlotOf(CoreOf[t]), msg_queue)

(***************************************************************************)
(* After the lock was released: drop the reference the queue had taken.    *)
(***************************************************************************)
DropTaken(t) ==
  /\ pc[t] = "taken"
  /\ DropRaiserRef(channel[t])
  /\ channel' = [channel EXCEPT ![t] = NoRaiser]
  /\ pc' = [pc EXCEPT ![t] = "leave"]
  /\ UNCHANGED <<handle, shutdown_rc, is_shut_down, is_per_cpu, queueVars, owner>>

-----------------------------------------------------------------------------
(***************************************************************************)
(* user_shutdown_mailbox: the flag is set under the lock, the queues are   *)
(* drained without it.                                                     *)
(***************************************************************************)
ShutdownSetFlag(t) ==
  /\ pc[t] = "shutdown"
  /\ is_shut_down' = TRUE
  /\ pc' = [pc EXCEPT ![t] = "drain"]
  /\ UNCHANGED <<mailbox, handle, shutdown_rc, dealloc_rc, is_per_cpu, queueVars, raiserVars, channel>>

(* Faulty variant: the drain forgets the references of the queue. *)
DrainWithoutDrop(t, s) ==
  /\ pc[t] = "drain"
  /\ msg_queue[s] # <<>>
  /\ msg_queue' = [msg_queue EXCEPT ![s] = Tail(@)]
  /\ UNCHANGED <<mbVars, raiserVars, task_queue, pending, threadVars>>

ShutdownDrain(t, s) ==
  /\ pc[t] = "drain"
  /\ msg_queue[s] # <<>>
  /\ \A q \in Slots : q < s => msg_queue[q] = <<>>
  /\ msg_queue' = [msg_queue EXCEPT ![s] = Tail(@)]
  /\ DropRaiserRef(Head(msg_queue[s]))
  /\ UNCHANGED <<handle, shutdown_rc, is_shut_down, is_per_cpu, task_queue, pending, owner, threadVars>>

ShutdownDrained(t) ==
  /\ pc[t] = "drain"
  /\ \A s \in Slots : msg_queue[s] = <<>>
  /\ pc' = [pc EXCEPT ![t] = "last"]
  /\ UNCHANGED <<mbVars, queueVars, raiserVars, channel>>

ShutdownLastDrop(t) ==
  /\ pc[t] = "last"
  /\ DropDeallocRef
  /\ pc' = [pc EXCEPT ![t] = "out"]
  /\ UNCHANGED <<handle, shutdown_rc, is_shut_down, is_per_cpu, queueVars, raiserVars, channel>>

-----------------------------------------------------------------------------
ThreadStep(t) ==
  \/ ReceiveQueued(t) \/ ReceiveWait(t) \/ ReceiveWoken(t)
  \/ DropTaken(t) \/ Leave(t)
  \/ CreateRaiserOutOfMemory(t)
  \/ \E r \in Raisers : user_create_raiser(t, r)
  \/ ShutdownSetFlag(t) \/ ShutdownDrained(t) \/ ShutdownLastDrop(t)
  \/ \E s \in Slots : ShutdownDrain(t, s)

Next ==
  \/ \E percpu \in BOOLEAN : user_create_mailbox(percpu)
  \/ \E t \in Threads :
       BorrowToReceive(t) \/ BorrowToCreate(t) \/ DropHandle(t) \/ ThreadStep(t)
  \/ \E r \in Raisers :
       \/ OwnerDropsRaiser(r)
       \/ \E id \in Cores : user_send_notification_to_core(r, id)

Spec == Init /\ [][Next]_vars

(***************************************************************************)
(* A thread that is runnable is eventually run by the scheduler, and the   *)
(* program calls user_sys_get_notification again and again, whatever else  *)
(* it does in between.  Nobody is obliged to send, to create or to close.  *)
(***************************************************************************)
Fairness ==
  \A t \in Threads : WF_vars(ThreadStep(t)) /\ SF_vars(BorrowToReceive(t))

FairSpec == Spec /\ Fairness

-----------------------------------------------------------------------------
TypeOK ==
  /\ mailbox \in MemState /\ handle \in BOOLEAN
  /\ shutdown_rc \in Nat /\ dealloc_rc \in Nat
  /\ is_shut_down \in BOOLEAN /\ is_per_cpu \in BOOLEAN
  /\ msg_queue \in [Slots -> Seq(Raisers)]
  /\ task_queue \in [Slots -> Seq(Threads)]
  /\ raiser \in [Raisers -> MemState]
  /\ owner \subseteq Raisers
  /\ rc \in [Raisers -> Nat]
  /\ pending \in [Raisers -> [Slots -> Nat]]
  /\ pc \in [Threads -> PC]
  /\ channel \in [Threads -> Raisers \cup {NoRaiser}]

Waiting(t) == pc[t] = "asleep" /\ channel[t] = NoRaiser
Woken(t) == pc[t] = "asleep" /\ channel[t] # NoRaiser

(***************************************************************************)
(* Threads that were woken with the channel of r in slot s and have not    *)
(* taken its notification yet.                                             *)
(***************************************************************************)
Carriers(r, s) ==
  {t \in Threads : Woken(t) /\ channel[t] = r /\ SlotOf(CoreOf[t]) = s}

(***************************************************************************)
(* While the mailbox is open, a channel with pending notifications is in   *)
(* exactly one place: once in its message queue, or with exactly one woken *)
(* receiver; a channel with nothing pending is nowhere.  (A node linked    *)
(* twice would corrupt the queue; a channel that is nowhere would never be *)
(* delivered again, because a send only enqueues when pending becomes 1.)  *)
(***************************************************************************)
ChannelInOnePlace ==
  ~is_shut_down =>
    \A s \in Slots :
      /\ NoRepeats(msg_queue[s])
      /\ \A r \in Raisers :
           /\ \A t, u \in Carriers(r, s) : t = u
           /\ ~(r \in Elems(msg_queue[s]) /\ Carriers(r, s) # {})
           /\ pending[r][s] > 0 <=> r \in Elems(msg_queue[s]) \/ Carriers(r, s) # {}

(***************************************************************************)
(* No lost wake-up: a thread sleeps in a slot of user_recieve_notification *)
(* only while the slot has no queued channel.                              *)
(***************************************************************************)
NoSleepWithMail ==
  \A s \in Slots : task_queue[s] # <<>> => msg_queue[s] = <<>>

Holders(r) == {t \in Threads : (Woken(t) \/ pc[t] = "taken") /\ channel[t] = r}
QueuedIn(r) == {s \in Slots : r \in Elems(msg_queue[s])}
Inside == {t \in Threads : pc[t] \in {"create", "recv", "asleep", "taken", "leave"}}
ShuttingDown == {t \in Threads : pc[t] \in {"shutdown", "drain", "last"}}
Live == {r \in Raisers : raiser[r] = "live"}
One(b) == IF b THEN 1 ELSE 0

(***************************************************************************)
(* Every count is exact: a raiser counts its owner, the queues that link   *)
(* it and the threads that hold it; dealloc_rc counts the live raisers and *)
(* the shutdown that is still to finish; shutdown_rc counts the handle and *)
(* the system calls in progress.  (mem_rc_drop frees at the step to zero,  *)
(* so a count that is off by one frees too early or never.)                *)
(***************************************************************************)
ReferencesExact ==
  /\ \A r \in Raisers :
       rc[r] = One(r \in owner) + Cardinality(QueuedIn(r)) + Cardinality(Holders(r))
  /\ shutdown_rc = One(handle) + Cardinality(Inside)
  /\ dealloc_rc = Cardinality(Live) + One(shutdown_rc > 0 \/ ShuttingDown # {})

(***************************************************************************)
(* Nothing that can still be reached is freed: not the mailbox under a     *)
(* thread that is inside it or under a live raiser, not a raiser that is   *)
(* owned, linked in a queue or held by a receiver.                         *)
(***************************************************************************)
NoUseAfterFree ==
  /\ handle \/ Inside \cup ShuttingDown # {} \/ Live # {} => mailbox = "live"
  /\ \A r \in Raisers :
       r \in owner \/ QueuedIn(r) # {} \/ Holders(r) # {} => r \in Live

(***************************************************************************)
(* user_shutdown_mailbox runs once, and alone: while it runs and ever      *)
(* after no thread is inside the mailbox or asleep in its queues (so the   *)
(* drain needs no lock and leaves nobody asleep).                          *)
(***************************************************************************)
ShutdownAlone ==
  /\ is_shut_down \/ ShuttingDown # {} =>
       Inside = {} /\ \A s \in Slots : task_queue[s] = <<>>
  /\ \A t, u \in ShuttingDown : t = u
  /\ is_shut_down => shutdown_rc = 0

(***************************************************************************)
(* No leak: once the handle is gone, the owners are gone and every thread  *)
(* has returned, mailbox and raisers have all been freed.                  *)
(***************************************************************************)
AllFreedAtTheEnd ==
  (mailbox # "none" /\ ~handle /\ owner = {} /\ \A t \in Threads : pc[t] = "out")
    => mailbox = "freed" /\ Live = {}

(***************************************************************************)
(* Mailbox and raisers live exactly as long as they are used: counts, use  *)
(* and release agree, whichever of the handle, the owners, the queues and  *)
(* the threads inside lets go last (mem_rc_drop in user/notifications.c).  *)
(***************************************************************************)
MemoryExact == ReferencesExact /\ NoUseAfterFree /\ AllFreedAtTheEnd

(***************************************************************************)
(* A notification that is pending is eventually delivered, or the mailbox  *)
(* is shut down, once senders leave the channel alone: it does not stay at *)
(* the same count for ever.                                                *)
(***************************************************************************)
PendingIsDelivered ==
  \A r \in Raisers, s \in Slots, n \in 1..MaxPending :
    pending[r][s] = n ~> pending[r][s] # n \/ is_shut_down

(***************************************************************************)
(* The mailbox implements the counter its users see: a delivery finds a    *)
(* notification that was sent, and nothing moves after the shutdown.       *)
(***************************************************************************)
Counter == INSTANCE NotificationCounter WITH
  Channels <- Raisers \X Slots,
  owed <- [c \in Raisers \X Slots |-> pending[c[1]][c[2]]],
  closed <- is_shut_down

ImplementsCounter == Counter!Spec
=============================================================================
