----------------------------- MODULE RpcSession -----------------------------
(***************************************************************************)
(* RPC and notifications together, used the way test/rpc.c uses them: a    *)
(* server waits for a notification, accepts a request, returns; a client   *)
(* calls, waits for a notification, collects the reply.                    *)
(*                                                                         *)
(* The composition is that of the code: user_rpc_initiate sends to the     *)
(* callee's raiser in the critical section that queues the request, and    *)
(* user_rpc_enqueue_reply_container sends to the caller's raiser in the    *)
(* one that queues the reply.  The mailbox is taken as what Notifications  *)
(* is shown to implement, a NotificationCounter, and may be closed.        *)
(***************************************************************************)
EXTENDS Rpc

CONSTANTS
  Clients,      \* threads that call and collect
  Servers       \* threads that accept and return

ASSUME SessionAssumption == Clients \subseteq Threads /\ Servers \subseteq Threads

VARIABLES
  owed,         \* notifications raised for a caller or a callee, not delivered
  closed,       \* the mailbox has been shut down
  noted         \* the caller or callee a thread was last notified of

sessionVars == <<vars, owed, closed, noted>>

(* user/notifications.c, seen through what it implements. *)
Note == INSTANCE NotificationCounter WITH Channels <- Callers \cup Callees

SessionInit ==
  /\ Init
  /\ Note!Init
  /\ noted = [t \in Threads |-> Nobody]

-----------------------------------------------------------------------------
(* A mailbox that was shut down ignores what is sent to it. *)
user_send_notification(x) ==
  IF closed THEN UNCHANGED <<owed, closed>> ELSE Note!Send(x)

(* Faulty variant: the other side is not told. *)
ReplySilently(t) == user_rpc_enqueue_reply_container(t) /\ UNCHANGED <<owed, closed, noted>>

(***************************************************************************)
(* The steps that raise a notification.                                    *)
(***************************************************************************)
CallAndNotify(t) ==
  /\ InitiateDeliver(t)
  /\ user_send_notification(th[t].e)
  /\ UNCHANGED noted

ReplyAndNotify(t) ==
  /\ user_rpc_enqueue_reply_container(t)
  /\ IF caller[th[t].to].is_shut_down THEN UNCHANGED <<owed, closed>>
     ELSE user_send_notification(th[t].to)
  /\ UNCHANGED noted

(***************************************************************************)
(* user_sys_get_notification delivers a notification of channel x.         *)
(***************************************************************************)
user_sys_get_notification(t, x) ==
  /\ th[t].pc = "out" /\ noted[t] = Nobody
  /\ Note!Deliver(x)
  /\ noted' = [noted EXCEPT ![t] = x]
  /\ UNCHANGED vars

(***************************************************************************)
(* What a thread does with it; when the handle has been given up meanwhile *)
(* the system call fails with USER_STATUS_INVALID_HANDLE.                  *)
(***************************************************************************)
AcceptNoted(t) ==
  /\ noted[t] \in Callees
  /\ user_sys_rpc_accept(t, noted[t])
  /\ noted' = [noted EXCEPT ![t] = Nobody]
  /\ UNCHANGED <<owed, closed>>

CollectNoted(t) ==
  /\ noted[t] \in Callers
  /\ user_sys_rpc_recv_reply(t, noted[t])
  /\ noted' = [noted EXCEPT ![t] = Nobody]
  /\ UNCHANGED <<owed, closed>>

HandleGone(t) ==
  /\ \/ noted[t] \in Callees /\ ~callee[noted[t]].handle
     \/ noted[t] \in Callers /\ ~caller[noted[t]].handle
  /\ noted' = [noted EXCEPT ![t] = Nobody]
  /\ UNCHANGED <<vars, owed, closed>>

(***************************************************************************)
(* A server returns what it has accepted, under the id it was given.       *)
(***************************************************************************)
ReturnAccepted(t, e) ==
  /\ DOMAIN awaiting_reply[e] # {}
  /\ user_sys_rpc_return(t, e)
  /\ UNCHANGED <<owed, closed, noted>>

(* Another server was faster with the same id. *)
ReturnTooLate(t) ==
  /\ ReturnRefused(t)
  /\ DOMAIN awaiting_reply[th[t].e] = {}
  /\ UNCHANGED <<owed, closed, noted>>

-----------------------------------------------------------------------------
Setup(t) ==
  \/ t \in Clients /\ \E c \in Callers :
       user_rpc_create_caller(t, c) \/ DropCallerHandle(t, c) \/ user_sys_rpc_call(t, c)
  \/ t \in Clients /\ \E e \in Callees : DropTokenHandle(t, e)
  \/ t \in Servers /\ \E e \in Callees :
       user_rpc_create_callee(t, e) \/ DropCalleeHandle(t, e)

SessionInside(t) ==
  \/ SilentStep(t) /\ UNCHANGED <<owed, closed, noted>>
  \/ CallAndNotify(t) \/ ReplyAndNotify(t)
  \/ ReturnTooLate(t)

ActOnNote(t) == AcceptNoted(t) \/ CollectNoted(t) \/ HandleGone(t)

Channel(t) == (IF t \in Clients THEN Callers ELSE {}) \cup (IF t \in Servers THEN Callees ELSE {})
GetNotification(t) == \E x \in Channel(t) : user_sys_get_notification(t, x)
Return(t) == t \in Servers /\ \E e \in Callees : ReturnAccepted(t, e)

ShutdownMailbox == Note!Close /\ UNCHANGED <<vars, noted>>

SessionNext ==
  \/ ShutdownMailbox
  \/ \E t \in Threads :
       \/ Setup(t) /\ UNCHANGED <<owed, closed, noted>>
       \/ SessionInside(t)
       \/ GetNotification(t)
       \/ ActOnNote(t)
       \/ Return(t)

SessionSpec == SessionInit /\ [][SessionNext]_sessionVars

(***************************************************************************)
(* Threads that can run do; servers and clients keep asking for            *)
(* notifications, act on those they get, and servers keep returning what   *)
(* they have accepted, whatever else they do in between.                   *)
(***************************************************************************)
SessionFairness ==
  \A t \in Threads : /\ WF_sessionVars(SessionInside(t))
                     /\ SF_sessionVars(GetNotification(t))
                     /\ SF_sessionVars(ActOnNote(t))
                     /\ SF_sessionVars(Return(t))
SessionFairSpec == SessionSpec /\ SessionFairness

-----------------------------------------------------------------------------
SessionTypeOK ==
  /\ TypeOK
  /\ owed \in [Callers \cup Callees -> Nat]
  /\ closed \in BOOLEAN
  /\ noted \in [Threads -> Callers \cup Callees \cup {Nobody}]

Noted(x) == {t \in Threads : noted[t] = x}
Accepting(e) == {t \in Threads : th[t].pc = "accept" /\ th[t].e = e}
Collecting(c) == {t \in Threads : th[t].pc = "result" /\ th[t].c = c}

(***************************************************************************)
(* While the mailbox is open and a callee (a caller) has its handle, there *)
(* is exactly one notification, waiting or delivered and not acted upon,   *)
(* for every request in incoming_rpcs (every reply in incoming_replies).   *)
(***************************************************************************)
OneNoteEach ==
  ~closed =>
  /\ \A e \in Callees : callee[e].handle =>
       Len(incoming_rpcs[e]) =
         owed[e] + Cardinality(Noted(e)) + Cardinality(Accepting(e))
  /\ \A c \in Callers : caller[c].handle =>
       Len(incoming_replies[c]) =
         owed[c] + Cardinality(Noted(c)) + Cardinality(Collecting(c))

(***************************************************************************)
(* What test/rpc.c asserts of every round: a thread that was notified and  *)
(* gets through to user_rpc_accept or user_rpc_get_result never finds the  *)
(* queue empty, even when others take, return and give up handles.         *)
(***************************************************************************)
NotifiedFindsWork ==
  \A t \in Threads :
    /\ th[t].pc = "accept" => incoming_rpcs[th[t].e] # <<>>
    /\ th[t].pc = "result" => incoming_replies[th[t].c] # <<>>

(***************************************************************************)
(* Notifications and work agree: one for each request and each reply, and  *)
(* whoever acts on one finds something to do, whatever the order in which  *)
(* servers, client and shutdowns act.                                      *)
(***************************************************************************)
NotesExact == SessionTypeOK /\ OneNoteEach /\ NotifiedFindsWork

(***************************************************************************)
(* A request that reached a callee comes back: its container is eventually *)
(* in the free list of its caller again (or freed with it), whether it was *)
(* answered by a server or by the shutdown of the callee, unless the       *)
(* client gives up its handle or the mailbox is shut down first.           *)
(***************************************************************************)
EveryCallComesBack ==
  \A k \in Containers :
    (\E e \in Callees : Unanswered(k, e)) ~>
      \/ k \in heap \/ closed
      \/ \E c \in Callers : k \in Elems(free_containers[c]) \/ ~caller[c].handle

(***************************************************************************)
(* A call is answered: by a server or by the callee's shutdown while the   *)
(* client waits, and in any case once the callee is abandoned              *)
(* (user_rpc_return, user_rpc_shutdown_callee).                            *)
(***************************************************************************)
CallsAreAnswered == EveryCallComesBack /\ AbandonedCallsAnswered
=============================================================================
