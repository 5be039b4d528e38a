------------------------- MODULE NotificationCounter -------------------------
(***************************************************************************)
(* What a notification mailbox promises to its users, with no queue, no    *)
(* waiter and no reference count in sight: every channel owes a number of  *)
(* deliveries.  A send adds one, a delivery takes one away, and once the   *)
(* mailbox has been closed the numbers never change again.                 *)
(***************************************************************************)
EXTENDS Naturals

CONSTANT Channels     \* what a notification can be raised on

VARIABLES
  owed,               \* notifications raised and not delivered, per channel
  closed              \* the mailbox takes and delivers nothing more

vars == <<owed, closed>>

Init ==
  /\ owed = [c \in Channels |-> 0]
  /\ closed = FALSE

Send(c) ==
  /\ ~closed
  /\ owed' = [owed EXCEPT ![c] = @ + 1]
  /\ UNCHANGED closed

Deliver(c) ==
  /\ ~closed
  /\ owed[c] > 0
  /\ owed' = [owed EXCEPT ![c] = @ - 1]
  /\ UNCHANGED closed

Close ==
  /\ ~closed
  /\ closed' = TRUE
  /\ UNCHANGED owed

Next ==
  \/ \E c \in Channels : Send(c) \/ Deliver(c)
  \/ Close

Spec == Init /\ [][Next]_vars
=============================================================================
