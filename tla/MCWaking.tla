------------------------------ MODULE MCWaking ------------------------------
(***************************************************************************)
(* Small instances of LocalSched and of Notifications with their fairness. *)
(* They share no state here: the variable part says which of them moves,   *)
(* the other one stays in an initial state.                                *)
(***************************************************************************)
EXTENDS MCLocalSched

CONSTANTS r1, r2, NoRaiser, MaxPending

VARIABLES
  part, mailbox, handle, shutdown_rc, dealloc_rc, is_shut_down, is_per_cpu,
  msg_queue, task_queue, raiser, owner, rc, pending, place, channel

mailVars == <<mailbox, handle, shutdown_rc, dealloc_rc, is_shut_down, is_per_cpu,
              msg_queue, task_queue, raiser, owner, rc, pending, place, channel>>

(* Two threads that share a core, two raisers. *)
Mail == INSTANCE Notifications WITH
  Threads <- {a, b}, Raisers <- {r1, r2}, Cores <- {0}, CoreOf <- (a :> 0) @@ (b :> 0),
  pc <- place

WakingInit ==
  /\ Init /\ Mail!Init
  /\ \/ part = "sched"
     \/ part = "mail" /\ PromptIpis

WakingNext ==
  \/ part = "sched" /\ Next /\ UNCHANGED <<part, mailVars>>
  \/ part = "mail" /\ Mail!Next /\ UNCHANGED <<part, vars>>

(* The fairness of each part, for the part that moves: Fairness of LocalSched *)
(* and of Notifications.  Only the bootstrap is enabled in an initial state.  *)
WakingSpec ==
  /\ WakingInit /\ [][WakingNext]_<<part, vars, mailVars>>
  /\ Mail!Fairness
  /\ \A c \in Cores :
       /\ WF_vars(part = "sched" /\ thread_localsched_bootstrap(c) /\ UNCHANGED platform)
       /\ WF_vars(IdleLoop(c) /\ UNCHANGED platform)
       /\ WF_vars(Interrupt(c) /\ UNCHANGED platform)
       /\ WF_vars(TimerFires(c) /\ UNCHANGED platform)
       /\ WF_vars(ic_send_ipi(c) /\ UNCHANGED platform)
       /\ WF_vars(IpiArrives(c) /\ UNCHANGED platform)
       /\ WF_vars(intlevel_recover(c) /\ UNCHANGED platform)

(***************************************************************************)
(* Notifications' PendingIsDelivered: while threads keep receiving, what   *)
(* is pending in a channel is taken, however busy the other channel is,    *)
(* unless the mailbox is shut down (user_recieve_notification).            *)
(***************************************************************************)
PendingIsDelivered == Mail!PendingIsDelivered
=============================================================================
