--------------------------------- MODULE Rpc ---------------------------------
(***************************************************************************)
(* Remote procedure calls (user/rpc.c and its system calls in              *)
(* user/entry.c): callers, callees, tokens, and the containers that carry  *)
(* a request from a caller to a callee and its reply back.                 *)
(*                                                                         *)
(* A critical section of caller->lock or callee->lock is one step.  What   *)
(* the code does between two critical sections of one call (references     *)
(* dropped, a container carried from one lock to the next) is visible to   *)
(* the other threads as separate steps.  The notification that goes with   *)
(* a request and with a reply is added in RpcSession.                      *)
(***************************************************************************)
EXTENDS Integers, FiniteSets, Queue

CONSTANTS
  Threads,      \* kernel tasks making system calls
  Callers,      \* RPC callers that may be created
  Callees,      \* RPC callees that may be created, each with its token
  Containers,   \* heap blocks for containers
  Opaques,      \* opaque values the clients pass
  Nobody,       \* no caller, callee or container
  MaxCalls,     \* bound on the calls that reach one callee
  MaxRefs       \* bound on the references to the memory of one caller

ASSUME RpcAssumption ==
  /\ IsFiniteSet(Threads) /\ IsFiniteSet(Callers) /\ IsFiniteSet(Callees)
  /\ IsFiniteSet(Containers)
  /\ Nobody \notin Callers \cup Callees \cup Containers
  /\ MaxCalls \in Nat \ {0} /\ MaxRefs \in Nat \ {0}

VARIABLES
  caller,           \* the callers: memory, universe handle, counts, flag
  callee,           \* the callees, their tokens and their sequence numbers
  free_containers,  \* per caller: containers to use again
  incoming_replies, \* per caller: replies not collected yet
  incoming_rpcs,    \* per callee: requests not accepted yet
  awaiting_reply,   \* per callee: accepted requests, a map from id to container
  box,              \* the containers' contents
  heap,             \* containers that are not allocated
  th                \* the threads: where each one is, and with what

vars == <<caller, callee, free_containers, incoming_replies, incoming_rpcs,
          awaiting_reply, box, heap, th>>

MemState == {"none", "live", "freed"}
Status == {"call", "reply", "noreply"}
PC == {"out", "initiate", "tocallee", "unreachable", "accept", "return", "result",
       "reply", "drop", "caller_off", "caller_free", "caller_last", "callee_off",
       "callee_drain"}
Todo == {"caller", "token", "callee", "dealloc", "drain"}

NoCaller == [mem |-> "none", handle |-> FALSE, shutdown_rc |-> 0, dealloc_rc |-> 0,
             is_shut_down |-> FALSE]
NoCallee == [mem |-> "none", handle |-> FALSE, token_handle |-> FALSE, shutdown_rc |-> 0,
             dealloc_rc |-> 0, token_rc |-> 0, is_shut_down |-> FALSE, seq |-> 0]
EmptyBox == [caller |-> Nobody, client_opaque |-> Nobody, status |-> "call"]
Outside == [pc |-> "out", c |-> Nobody, e |-> Nobody, k |-> Nobody, to |-> Nobody,
            todo |-> <<>>]

EmptyMap == [n \in {} |-> Nobody]

Init ==
  /\ caller = [c \in Callers |-> NoCaller]
  /\ callee = [e \in Callees |-> NoCallee]
  /\ free_containers = [c \in Callers |-> <<>>]
  /\ incoming_replies = [c \in Callers |-> <<>>]
  /\ incoming_rpcs = [e \in Callees |-> <<>>]
  /\ awaiting_reply = [e \in Callees |-> EmptyMap]
  /\ box = [k \in Containers |-> EmptyBox]
  /\ heap = Containers
  /\ th = [t \in Threads |-> Outside]

(***************************************************************************)
(* A thread's todo lists the references it still has to drop, in order;    *)
(* "drain" stands for going on with the shutdown of a callee.  When        *)
(* nothing is left to do the system call returns.                          *)
(***************************************************************************)
Resume(t, todo) ==
  th' = [th EXCEPT ![t] =
           CASE todo = <<>> -> Outside
             [] todo # <<>> /\ Head(todo) = "drain" ->
                  [@ EXCEPT !.pc = "callee_drain", !.k = Nobody, !.to = Nobody,
                            !.todo = Tail(todo)]
             [] OTHER -> [@ EXCEPT !.pc = "drop", !.k = Nobody, !.todo = todo]]

-----------------------------------------------------------------------------
(***************************************************************************)
(* Creation.  When the universe cannot take the handle, the system call    *)
(* drops what it has just created.                                         *)
(***************************************************************************)
user_rpc_create_caller(t, c) ==
  /\ th[t].pc = "out" /\ caller[c].mem = "none"
  /\ \E moved_in \in BOOLEAN :
       /\ caller' = [caller EXCEPT ![c] = [mem |-> "live", handle |-> moved_in,
                       shutdown_rc |-> 1, dealloc_rc |-> 1, is_shut_down |-> FALSE]]
       /\ IF moved_in THEN UNCHANGED th
          ELSE th' = [th EXCEPT ![t].pc = "drop", ![t].c = c, ![t].todo = <<"caller">>]
  /\ UNCHANGED <<callee, free_containers, incoming_replies, incoming_rpcs, awaiting_reply,
                 box, heap>>

user_rpc_create_callee(t, e) ==
  /\ th[t].pc = "out" /\ callee[e].mem = "none"
  /\ \E moved_in \in BOOLEAN :
       /\ callee' = [callee EXCEPT ![e] = [mem |-> "live", handle |-> moved_in,
                       token_handle |-> moved_in, shutdown_rc |-> 1, dealloc_rc |-> 2,
                       token_rc |-> 1, is_shut_down |-> FALSE, seq |-> 0]]
       /\ IF moved_in THEN UNCHANGED th
          ELSE th' = [th EXCEPT ![t].pc = "drop", ![t].e = e,
                                ![t].todo = <<"callee", "token">>]
  /\ UNCHANGED <<caller, free_containers, incoming_replies, incoming_rpcs, awaiting_reply,
                 box, heap>>

(***************************************************************************)
(* The universe gives up a handle: the thread drops the reference.         *)
(***************************************************************************)
DropCallerHandle(t, c) ==
  /\ th[t].pc = "out" /\ caller[c].handle
  /\ caller' = [caller EXCEPT ![c].handle = FALSE]
  /\ th' = [th EXCEPT ![t].pc = "drop", ![t].c = c, ![t].todo = <<"caller">>]
  /\ UNCHANGED <<callee, free_containers, incoming_replies, incoming_rpcs, awaiting_reply,
                 box, heap>>

DropCalleeHandle(t, e) ==
  /\ th[t].pc = "out" /\ callee[e].handle
  /\ callee' = [callee EXCEPT ![e].handle = FALSE]
  /\ th' = [th EXCEPT ![t].pc = "drop", ![t].e = e, ![t].todo = <<"callee">>]
  /\ UNCHANGED <<caller, free_containers, incoming_replies, incoming_rpcs, awaiting_reply,
                 box, heap>>

DropTokenHandle(t, e) ==
  /\ th[t].pc = "out" /\ callee[e].token_handle
  /\ callee' = [callee EXCEPT ![e].token_handle = FALSE]
  /\ th' = [th EXCEPT ![t].pc = "drop", ![t].e = e, ![t].todo = <<"token">>]
  /\ UNCHANGED <<caller, free_containers, incoming_replies, incoming_rpcs, awaiting_reply,
                 box, heap>>

-----------------------------------------------------------------------------
(***************************************************************************)
(* user_sys_rpc_call borrows the caller, then the token; when the handle   *)
(* it was given names no token it gives the caller back.                   *)
(***************************************************************************)
BorrowCaller(t, c, goal) ==
  /\ th[t].pc = "out" /\ caller[c].handle
  /\ caller' = [caller EXCEPT ![c].shutdown_rc = @ + 1]
  /\ th' = [th EXCEPT ![t].pc = goal, ![t].c = c, ![t].todo = <<"caller">>]
  /\ UNCHANGED <<callee, free_containers, incoming_replies, incoming_rpcs, awaiting_reply,
                 box, heap>>

user_sys_rpc_call(t, c) == BorrowCaller(t, c, "initiate")
user_sys_rpc_recv_reply(t, c) == BorrowCaller(t, c, "result")

BorrowToken(t, e) ==
  /\ th[t].pc = "initiate" /\ th[t].e = Nobody /\ callee[e].token_handle
  /\ callee' = [callee EXCEPT ![e].token_rc = @ + 1]
  /\ th' = [th EXCEPT ![t].e = e, ![t].todo = <<"token", "caller">>]
  /\ UNCHANGED <<caller, free_containers, incoming_replies, incoming_rpcs, awaiting_reply,
                 box, heap>>

NoTokenHandle(t) ==
  /\ th[t].pc = "initiate" /\ th[t].e = Nobody
  /\ Resume(t, th[t].todo)
  /\ UNCHANGED <<caller, callee, free_containers, incoming_replies, incoming_rpcs,
                 awaiting_reply, box, heap>>

-----------------------------------------------------------------------------
(***************************************************************************)
(* user_rpc_initiate, first critical section (caller->lock): find a        *)
(* container in the free list or on the heap, copy the message, take a     *)
(* reference to the caller's memory for the container.                     *)
(***************************************************************************)
ContainersFor(c) ==
  IF free_containers[c] # <<>> THEN {Head(free_containers[c])} ELSE heap

(* The calls under way to or past callee e. *)
CallsTo(e) ==
  callee[e].seq + Len(incoming_rpcs[e])
    + Cardinality({t \in Threads : th[t].pc = "tocallee" /\ th[t].e = e})

InitiateOutOfMemory(t) ==
  /\ th[t].pc = "initiate" /\ th[t].e # Nobody
  /\ free_containers[th[t].c] = <<>>
  /\ Resume(t, th[t].todo)
  /\ UNCHANGED <<caller, callee, free_containers, incoming_replies, incoming_rpcs,
                 awaiting_reply, box, heap>>

InitiateInvalidMessage(t) ==
  LET c == th[t].c IN
  /\ th[t].pc = "initiate" /\ th[t].e # Nobody
  /\ \E k \in ContainersFor(c) :
       /\ heap' = heap \ {k}
       /\ free_containers' = [free_containers EXCEPT ![c] =
                                Append(IF @ = <<>> THEN @ ELSE Tail(@), k)]
  /\ Resume(t, th[t].todo)
  /\ UNCHANGED <<caller, callee, incoming_replies, incoming_rpcs, awaiting_reply, box>>

(* Faulty variant: the container does not borrow the caller. *)
InitiateWithoutBorrow(t, o) ==
  LET c == th[t].c IN
  /\ th[t].pc = "initiate" /\ th[t].e # Nobody
  /\ CallsTo(th[t].e) < MaxCalls /\ caller[c].dealloc_rc < MaxRefs
  /\ \E k \in ContainersFor(c) :
       /\ heap' = heap \ {k}
       /\ box' = [box EXCEPT ![k] = [caller |-> c, client_opaque |-> o, status |-> "call"]]
       /\ th' = [th EXCEPT ![t].pc = "tocallee", ![t].k = k]
  /\ free_containers' = [free_containers EXCEPT ![c] = IF @ = <<>> THEN @ ELSE Tail(@)]
  /\ UNCHANGED <<caller, callee, incoming_replies, incoming_rpcs, awaiting_reply>>

InitiateMessage(t, o) ==
  LET c == th[t].c IN
  /\ th[t].pc = "initiate" /\ th[t].e # Nobody
  /\ CallsTo(th[t].e) < MaxCalls /\ caller[c].dealloc_rc < MaxRefs
  /\ \E k \in ContainersFor(c) :
       /\ heap' = heap \ {k}
       /\ box' = [box EXCEPT ![k] = [caller |-> c, client_opaque |-> o, status |-> "call"]]
       /\ th' = [th EXCEPT ![t].pc = "tocallee", ![t].k = k]
  /\ free_containers' = [free_containers EXCEPT ![c] = IF @ = <<>> THEN @ ELSE Tail(@)]
  /\ caller' = [caller EXCEPT ![c].dealloc_rc = @ + 1]
  /\ UNCHANGED <<callee, incoming_replies, incoming_rpcs, awaiting_reply>>

(* Faulty variant: the flag of the callee is not looked at. *)
DeliverUnchecked(t) ==
  LET e == th[t].e IN
  /\ th[t].pc = "tocallee"
  /\ incoming_rpcs' = [incoming_rpcs EXCEPT ![e] = Append(@, th[t].k)]
  /\ Resume(t, th[t].todo)
  /\ UNCHANGED <<caller, callee, free_containers, incoming_replies, awaiting_reply, box, heap>>

(***************************************************************************)
(* Second critical section (callee->lock).                                 *)
(***************************************************************************)
InitiateDeliver(t) ==
  LET e == th[t].e IN
  /\ th[t].pc = "tocallee" /\ ~callee[e].is_shut_down
  /\ incoming_rpcs' = [incoming_rpcs EXCEPT ![e] = Append(@, th[t].k)]
  /\ Resume(t, th[t].todo)
  /\ UNCHANGED <<caller, callee, free_containers, incoming_replies, awaiting_reply, box, heap>>

InitiateCalleeShutDown(t) ==
  /\ th[t].pc = "tocallee" /\ callee[th[t].e].is_shut_down
  /\ th' = [th EXCEPT ![t].pc = "unreachable"]
  /\ UNCHANGED <<caller, callee, free_containers, incoming_replies, incoming_rpcs,
                 awaiting_reply, box, heap>>

(***************************************************************************)
(* Third critical section (caller->lock): the container goes back to the   *)
(* free list.  The reference taken for it is not dropped.                  *)
(***************************************************************************)
InitiateUnreachable(t) ==
  /\ th[t].pc = "unreachable"
  /\ free_containers' = [free_containers EXCEPT ![th[t].c] = Append(@, th[t].k)]
  /\ Resume(t, th[t].todo)
  /\ UNCHANGED <<caller, callee, incoming_replies, incoming_rpcs, awaiting_reply, box, heap>>

-----------------------------------------------------------------------------
BorrowCallee(t, e, goal) ==
  /\ th[t].pc = "out" /\ callee[e].handle
  /\ callee' = [callee EXCEPT ![e].shutdown_rc = @ + 1]
  /\ th' = [th EXCEPT ![t].pc = goal, ![t].e = e, ![t].todo = <<"callee">>]
  /\ UNCHANGED <<caller, free_containers, incoming_replies, incoming_rpcs, awaiting_reply,
                 box, heap>>

user_sys_rpc_accept(t, e) == BorrowCallee(t, e, "accept")
user_sys_rpc_return(t, e) == BorrowCallee(t, e, "return")

AcceptEmpty(t) ==
  /\ th[t].pc = "accept" /\ incoming_rpcs[th[t].e] = <<>>
  /\ Resume(t, th[t].todo)
  /\ UNCHANGED <<caller, callee, free_containers, incoming_replies, incoming_rpcs,
                 awaiting_reply, box, heap>>

user_rpc_accept(t) ==
  LET e == th[t].e
      id == callee[e].seq
  IN
  /\ th[t].pc = "accept" /\ incoming_rpcs[e] # <<>>
  /\ incoming_rpcs' = [incoming_rpcs EXCEPT ![e] = Tail(@)]
  /\ callee' = [callee EXCEPT ![e].seq = id + 1]
  /\ awaiting_reply' = [awaiting_reply EXCEPT ![e] =
                          [n \in DOMAIN @ \cup {id} |->
                             IF n = id THEN Head(incoming_rpcs[e]) ELSE @[n]]]
  /\ Resume(t, th[t].todo)
  /\ UNCHANGED <<caller, free_containers, incoming_replies, box, heap>>

(***************************************************************************)
(* The id names no accepted request (USER_STATUS_INVALID_RPC_ID), or the   *)
(* reply is too long (USER_STATUS_INVALID_MSG): nothing changes.           *)
(***************************************************************************)
ReturnRefused(t) ==
  /\ th[t].pc = "return"
  /\ Resume(t, th[t].todo)
  /\ UNCHANGED <<caller, callee, free_containers, incoming_replies, incoming_rpcs,
                 awaiting_reply, box, heap>>

(* Faulty variant: the request stays in the map of accepted requests. *)
ReturnWithoutRemove(t, id) ==
  LET e == th[t].e
      k == awaiting_reply[e][id]
  IN
  /\ th[t].pc = "return" /\ id \in DOMAIN awaiting_reply[e]
  /\ box' = [box EXCEPT ![k].status = "reply"]
  /\ th' = [th EXCEPT ![t].pc = "reply", ![t].k = k, ![t].to = box[k].caller,
                      ![t].todo = <<"dealloc">> \o @]
  /\ UNCHANGED <<caller, callee, free_containers, incoming_replies, incoming_rpcs,
                 awaiting_reply, heap>>

user_rpc_return(t, id) ==
  LET e == th[t].e
      k == awaiting_reply[e][id]
  IN
  /\ th[t].pc = "return" /\ id \in DOMAIN awaiting_reply[e]
  /\ box' = [box EXCEPT ![k].status = "reply"]
  /\ awaiting_reply' = [awaiting_reply EXCEPT ![e] =
                          [n \in DOMAIN @ \ {id} |-> @[n]]]
  /\ th' = [th EXCEPT ![t].pc = "reply", ![t].k = k, ![t].to = box[k].caller,
                      ![t].todo = <<"dealloc">> \o @]
  /\ UNCHANGED <<caller, callee, free_containers, incoming_replies, incoming_rpcs, heap>>

(***************************************************************************)
(* user_rpc_enqueue_reply_container (caller->lock); the reference to the   *)
(* caller's memory is dropped after the lock.                              *)
(***************************************************************************)
user_rpc_enqueue_reply_container(t) ==
  /\ th[t].pc = "reply"
  /\ incoming_replies' = [incoming_replies EXCEPT ![th[t].to] = Append(@, th[t].k)]
  /\ Resume(t, th[t].todo)
  /\ UNCHANGED <<caller, callee, free_containers, incoming_rpcs, awaiting_reply, box, heap>>

ResultEmpty(t) ==
  /\ th[t].pc = "result" /\ incoming_replies[th[t].c] = <<>>
  /\ Resume(t, th[t].todo)
  /\ UNCHANGED <<caller, callee, free_containers, incoming_replies, incoming_rpcs,
                 awaiting_reply, box, heap>>

(* Faulty variant: the container is freed but stays in the queue. *)
ResultWithoutDequeue(t) ==
  LET c == th[t].c IN
  /\ th[t].pc = "result" /\ incoming_replies[c] # <<>>
  /\ free_containers' = [free_containers EXCEPT ![c] = Append(@, Head(incoming_replies[c]))]
  /\ Resume(t, th[t].todo)
  /\ UNCHANGED <<caller, callee, incoming_replies, incoming_rpcs, awaiting_reply, box, heap>>

user_rpc_get_result(t) ==
  LET c == th[t].c IN
  /\ th[t].pc = "result" /\ incoming_replies[c] # <<>>
  /\ incoming_replies' = [incoming_replies EXCEPT ![c] = Tail(@)]
  /\ free_containers' = [free_containers EXCEPT ![c] = Append(@, Head(incoming_replies[c]))]
  /\ Resume(t, th[t].todo)
  /\ UNCHANGED <<caller, callee, incoming_rpcs, awaiting_reply, box, heap>>

-----------------------------------------------------------------------------
(***************************************************************************)
(* Dropping references.  The last dealloc reference of a caller frees the  *)
(* replies nobody collected, and the caller.                               *)
(***************************************************************************)
DropCallerMemory(c) ==
  /\ caller' = [caller EXCEPT ![c].dealloc_rc = @ - 1,
                              ![c].mem = IF caller[c].dealloc_rc = 1 THEN "freed" ELSE @]
  /\ IF caller[c].dealloc_rc = 1
     THEN /\ heap' = heap \cup Elems(incoming_replies[c])
          /\ incoming_replies' = [incoming_replies EXCEPT ![c] = <<>>]
     ELSE UNCHANGED <<heap, incoming_replies>>

DropCallerDealloc(t) ==
  /\ th[t].pc = "drop" /\ Head(th[t].todo) = "dealloc"
  /\ DropCallerMemory(th[t].to)
  /\ Resume(t, Tail(th[t].todo))
  /\ UNCHANGED <<callee, free_containers, incoming_rpcs, awaiting_reply, box>>

DropCallerRef(t) ==
  LET c == th[t].c IN
  /\ th[t].pc = "drop" /\ Head(th[t].todo) = "caller"
  /\ caller' = [caller EXCEPT ![c].shutdown_rc = @ - 1]
  /\ IF caller[c].shutdown_rc = 1
     THEN th' = [th EXCEPT ![t].pc = "caller_off", ![t].todo = Tail(@)]
     ELSE Resume(t, Tail(th[t].todo))
  /\ UNCHANGED <<callee, free_containers, incoming_replies, incoming_rpcs, awaiting_reply,
                 box, heap>>

DropCalleeRef(t) ==
  LET e == th[t].e IN
  /\ th[t].pc = "drop" /\ Head(th[t].todo) = "callee"
  /\ callee' = [callee EXCEPT ![e].shutdown_rc = @ - 1]
  /\ IF callee[e].shutdown_rc = 1
     THEN th' = [th EXCEPT ![t].pc = "callee_off", ![t].todo = Tail(@)]
     ELSE Resume(t, Tail(th[t].todo))
  /\ UNCHANGED <<caller, free_containers, incoming_replies, incoming_rpcs, awaiting_reply,
                 box, heap>>

FreeIfLast(dealloc_rc, mem) == IF dealloc_rc = 1 THEN "freed" ELSE mem

(***************************************************************************)
(* The last reference to the token drops the token's share in the memory   *)
(* of the callee (user_rpc_notify_callee_undiscoverable).                  *)
(***************************************************************************)
DropTokenRef(t) ==
  LET e == th[t].e
      last == callee[e].token_rc = 1
  IN
  /\ th[t].pc = "drop" /\ Head(th[t].todo) = "token"
  /\ callee' = [callee EXCEPT
       ![e].token_rc = @ - 1,
       ![e].dealloc_rc = IF last THEN @ - 1 ELSE @,
       ![e].mem = IF last THEN FreeIfLast(callee[e].dealloc_rc, @) ELSE @]
  /\ Resume(t, Tail(th[t].todo))
  /\ UNCHANGED <<caller, free_containers, incoming_replies, incoming_rpcs, awaiting_reply,
                 box, heap>>

-----------------------------------------------------------------------------
(***************************************************************************)
(* user_rpc_shutdown_caller: the flag under the lock, then the free list   *)
(* and the reference to the memory without it.                             *)
(***************************************************************************)
ShutdownCallerFlag(t) ==
  /\ th[t].pc = "caller_off"
  /\ caller' = [caller EXCEPT ![th[t].c].is_shut_down = TRUE]
  /\ th' = [th EXCEPT ![t].pc = "caller_free"]
  /\ UNCHANGED <<callee, free_containers, incoming_replies, incoming_rpcs, awaiting_reply,
                 box, heap>>

ShutdownCallerFree(t) ==
  LET c == th[t].c IN
  /\ th[t].pc = "caller_free"
  /\ heap' = heap \cup Elems(free_containers[c])
  /\ free_containers' = [free_containers EXCEPT ![c] = <<>>]
  /\ th' = [th EXCEPT ![t].pc = "caller_last"]
  /\ UNCHANGED <<caller, callee, incoming_replies, incoming_rpcs, awaiting_reply, box>>

ShutdownCallerLast(t) ==
  /\ th[t].pc = "caller_last"
  /\ DropCallerMemory(th[t].c)
  /\ Resume(t, th[t].todo)
  /\ UNCHANGED <<callee, free_containers, incoming_rpcs, awaiting_reply, box>>

(***************************************************************************)
(* user_rpc_shutdown_callee: the flag under the lock; then, without it,    *)
(* the requests that wait and then those that were accepted are answered   *)
(* with USER_RPC_STATUS_NOREPLY, one after the other.  The order of the    *)
(* accepted ones is the order of the hash buckets: any.                    *)
(***************************************************************************)
ShutdownCalleeFlag(t) ==
  /\ th[t].pc = "callee_off"
  /\ callee' = [callee EXCEPT ![th[t].e].is_shut_down = TRUE]
  /\ th' = [th EXCEPT ![t].pc = "callee_drain"]
  /\ UNCHANGED <<caller, free_containers, incoming_replies, incoming_rpcs, awaiting_reply,
                 box, heap>>

NoReply(t, k) ==
  /\ box' = [box EXCEPT ![k].status = "noreply"]
  /\ th' = [th EXCEPT ![t].pc = "reply", ![t].k = k, ![t].to = box[k].caller,
                      ![t].todo = <<"dealloc", "drain">> \o @]

ShutdownCalleeIncoming(t) ==
  LET e == th[t].e IN
  /\ th[t].pc = "callee_drain" /\ incoming_rpcs[e] # <<>>
  /\ incoming_rpcs' = [incoming_rpcs EXCEPT ![e] = Tail(@)]
  /\ NoReply(t, Head(incoming_rpcs[e]))
  /\ UNCHANGED <<caller, callee, free_containers, incoming_replies, awaiting_reply, heap>>

ShutdownCalleeAwaiting(t, id) ==
  LET e == th[t].e IN
  /\ th[t].pc = "callee_drain" /\ incoming_rpcs[e] = <<>>
  /\ id \in DOMAIN awaiting_reply[e]
  /\ awaiting_reply' = [awaiting_reply EXCEPT ![e] = [n \in DOMAIN @ \ {id} |-> @[n]]]
  /\ NoReply(t, awaiting_reply[e][id])
  /\ UNCHANGED <<caller, callee, free_containers, incoming_replies, incoming_rpcs, heap>>

(* Faulty variant: accepted requests are not answered by the shutdown. *)
ShutdownIgnoresAccepted(t) ==
  LET e == th[t].e IN
  /\ th[t].pc = "callee_drain" /\ incoming_rpcs[e] = <<>>
  /\ callee' = [callee EXCEPT ![e].dealloc_rc = @ - 1,
                              ![e].mem = FreeIfLast(callee[e].dealloc_rc, @)]
  /\ Resume(t, th[t].todo)
  /\ UNCHANGED <<caller, free_containers, incoming_replies, incoming_rpcs, awaiting_reply,
                 box, heap>>

ShutdownCalleeLast(t) ==
  LET e == th[t].e IN
  /\ th[t].pc = "callee_drain" /\ incoming_rpcs[e] = <<>>
  /\ DOMAIN awaiting_reply[e] = {}
  /\ callee' = [callee EXCEPT ![e].dealloc_rc = @ - 1,
                              ![e].mem = FreeIfLast(callee[e].dealloc_rc, @)]
  /\ Resume(t, th[t].todo)
  /\ UNCHANGED <<caller, free_containers, incoming_replies, incoming_rpcs, awaiting_reply,
                 box, heap>>

-----------------------------------------------------------------------------
(* What a thread may start at any time. *)
SystemCall(t) ==
  \/ \E c \in Callers :
       \/ user_rpc_create_caller(t, c) \/ DropCallerHandle(t, c)
       \/ user_sys_rpc_call(t, c) \/ user_sys_rpc_recv_reply(t, c)
  \/ \E e \in Callees :
       \/ user_rpc_create_callee(t, e) \/ DropCalleeHandle(t, e) \/ DropTokenHandle(t, e)
       \/ user_sys_rpc_accept(t, e) \/ user_sys_rpc_return(t, e)

(***************************************************************************)
(* What a thread does inside a system call.  The two steps that come with  *)
(* a notification, and the refusal of a reply, stand apart: RpcSession     *)
(* treats them differently.                                                *)
(***************************************************************************)
SilentStep(t) ==
  \/ \E e \in Callees : BorrowToken(t, e)
  \/ NoTokenHandle(t)
  \/ InitiateOutOfMemory(t) \/ InitiateInvalidMessage(t)
  \/ \E o \in Opaques : InitiateMessage(t, o)
  \/ InitiateCalleeShutDown(t) \/ InitiateUnreachable(t)
  \/ AcceptEmpty(t) \/ user_rpc_accept(t)
  \/ \E id \in 0..MaxCalls : user_rpc_return(t, id) \/ ShutdownCalleeAwaiting(t, id)
  \/ ResultEmpty(t) \/ user_rpc_get_result(t)
  \/ DropCallerDealloc(t) \/ DropCallerRef(t) \/ DropCalleeRef(t) \/ DropTokenRef(t)
  \/ ShutdownCallerFlag(t) \/ ShutdownCallerFree(t) \/ ShutdownCallerLast(t)
  \/ ShutdownCalleeFlag(t) \/ ShutdownCalleeIncoming(t) \/ ShutdownCalleeLast(t)

Inside(t) ==
  SilentStep(t) \/ ReturnRefused(t) \/ InitiateDeliver(t) \/ user_rpc_enqueue_reply_container(t)

Next == \E t \in Threads : SystemCall(t) \/ Inside(t)

Spec == Init /\ [][Next]_vars

-----------------------------------------------------------------------------
TypeOK ==
  /\ caller \in [Callers -> [mem : MemState, handle : BOOLEAN, shutdown_rc : Nat,
                             dealloc_rc : Nat, is_shut_down : BOOLEAN]]
  /\ callee \in [Callees -> [mem : MemState, handle : BOOLEAN, token_handle : BOOLEAN,
                             shutdown_rc : Nat, dealloc_rc : Nat, token_rc : Nat,
                             is_shut_down : BOOLEAN, seq : Nat]]
  /\ free_containers \in [Callers -> Seq(Containers)]
  /\ incoming_replies \in [Callers -> Seq(Containers)]
  /\ incoming_rpcs \in [Callees -> Seq(Containers)]
  /\ \A e \in Callees :
       /\ DOMAIN awaiting_reply[e] \subseteq Nat
       /\ awaiting_reply[e] \in [DOMAIN awaiting_reply[e] -> Containers]
  /\ box \in [Containers -> [caller : Callers \cup {Nobody},
                             client_opaque : Opaques \cup {Nobody}, status : Status]]
  /\ heap \subseteq Containers
  /\ th \in [Threads -> [pc : PC, c : Callers \cup {Nobody}, e : Callees \cup {Nobody},
                         k : Containers \cup {Nobody}, to : Callers \cup {Nobody},
                         todo : Seq(Todo)]]

(* Thread t has container k in its hands, between two locks. *)
Carries(t, k) == th[t].pc \in {"tocallee", "unreachable", "reply"} /\ th[t].k = k

One(b) == IF b THEN 1 ELSE 0

(* The positions at which k occurs in a family of queues, or of maps. *)
Linked(f, k) == UNION {{<<x, i>> : i \in {j \in DOMAIN f[x] : f[x][j] = k}} : x \in DOMAIN f}

(***************************************************************************)
(* A container is in exactly one place: on the heap, in a free list, in an *)
(* incoming queue, in a map of accepted requests, in a queue of replies,   *)
(* or in the hands of one thread.  (It has one queue node: a container in  *)
(* two queues joins them, a container in none is lost.)                    *)
(***************************************************************************)
ContainerInOnePlace ==
  \A k \in Containers :
    One(k \in heap) + Cardinality(Linked(free_containers, k))
      + Cardinality(Linked(incoming_rpcs, k)) + Cardinality(Linked(awaiting_reply, k))
      + Cardinality(Linked(incoming_replies, k))
      + Cardinality({t \in Threads : Carries(t, k)}) = 1

(* Containers that carry a call from or an answer to caller c. *)
InFlight(c) ==
  {k \in Containers :
     /\ box[k].caller = c
     /\ \/ \E e \in Callees : k \in Elems(incoming_rpcs[e]) \cup
                             {awaiting_reply[e][n] : n \in DOMAIN awaiting_reply[e]}
        \/ \E t \in Threads : Carries(t, k)}

Holds(t, ref) == \E i \in DOMAIN th[t].todo : th[t].todo[i] = ref
CallerUsers(c) == {t \in Threads : th[t].c = c /\ Holds(t, "caller")}
CalleeUsers(e) == {t \in Threads : th[t].e = e /\ Holds(t, "callee")}
TokenUsers(e) == {t \in Threads : th[t].e = e /\ Holds(t, "token")}
ShutsCaller(c) ==
  {t \in Threads : th[t].c = c /\ th[t].pc \in {"caller_off", "caller_free", "caller_last"}}
ShutsCallee(e) ==
  {t \in Threads : th[t].e = e /\ (th[t].pc \in {"callee_off", "callee_drain"} \/ Holds(t, "drain"))}

(***************************************************************************)
(* The memory of a caller outlives every call in flight and every thread   *)
(* that is going to touch it; the memory of a callee outlives its users    *)
(* and the users of its token.                                             *)
(***************************************************************************)
NoUseAfterFree ==
  /\ \A c \in Callers :
       \/ caller[c].handle \/ CallerUsers(c) \cup ShutsCaller(c) # {} \/ InFlight(c) # {}
       \/ \E t \in Threads : th[t].to = c /\ Holds(t, "dealloc")
       => caller[c].mem = "live"
  /\ \A e \in Callees :
       \/ callee[e].handle \/ callee[e].token_handle
       \/ CalleeUsers(e) \cup TokenUsers(e) \cup ShutsCallee(e) # {}
       => callee[e].mem = "live"

(***************************************************************************)
(* The assertions of user/rpc.c: whoever uses a caller or a callee under   *)
(* its lock finds it not shut down, and a shutdown runs once.              *)
(***************************************************************************)
AssertionsHold ==
  \A t \in Threads :
    /\ th[t].pc \in {"initiate", "unreachable", "result", "caller_off"} =>
         ~caller[th[t].c].is_shut_down
    /\ th[t].pc \in {"accept", "return", "callee_off"} => ~callee[th[t].e].is_shut_down

(***************************************************************************)
(* A callee that has finished its shutdown has no request left, waiting or *)
(* accepted, and gets none: user_rpc_initiate tests the flag under the     *)
(* lock, the drain runs without it.                                        *)
(***************************************************************************)
ShutDownCalleeIsEmpty ==
  \A e \in Callees :
    callee[e].is_shut_down /\ ShutsCallee(e) = {} =>
      incoming_rpcs[e] = <<>> /\ DOMAIN awaiting_reply[e] = {}

(***************************************************************************)
(* A shutdown is final: nobody who got hold of a caller or callee before   *)
(* it works on it afterwards, and nothing is left in it or put into it     *)
(* (the assertions and the tests of is_shut_down in user/rpc.c).           *)
(***************************************************************************)
ShutDownIsFinal == TypeOK /\ AssertionsHold /\ ShutDownCalleeIsEmpty

(***************************************************************************)
(* A request that reached a callee whose handle has been given up is       *)
(* eventually answered: the last user of the callee answers all of them.   *)
(***************************************************************************)
Unanswered(k, e) ==
  k \in Elems(incoming_rpcs[e]) \cup {awaiting_reply[e][n] : n \in DOMAIN awaiting_reply[e]}

AbandonedCallsAnswered ==
  \A k \in Containers, e \in Callees :
    Unanswered(k, e) /\ ~callee[e].handle ~> ~Unanswered(k, e)

(***************************************************************************)
(* The RPC layer implements RpcPromise: a call counts once it is in the    *)
(* queue of a callee, and until its answer is in the queue of the caller.  *)
(***************************************************************************)
Outstanding(c, o) ==
  {k \in InFlight(c) : /\ box[k].client_opaque = o
                       /\ \A t \in Threads : Carries(t, k) => th[t].pc = "reply"}

Promise == INSTANCE RpcPromise WITH
  outstanding <- [c \in Callers |-> [o \in Opaques |-> Cardinality(Outstanding(c, o))]],
  replies <- [c \in Callers |->
                [i \in DOMAIN incoming_replies[c] |->
                   <<box[incoming_replies[c][i]].client_opaque,
                     box[incoming_replies[c][i]].status>>]]

ImplementsPromise == Promise!Spec

(***************************************************************************)
(* No leak: when every handle has been given up and every system call has  *)
(* returned, all callers, callees and containers have been freed.          *)
(***************************************************************************)
AllFreedAtTheEnd ==
  /\ \A t \in Threads : th[t].pc = "out"
  /\ \A c \in Callers : ~caller[c].handle
  /\ \A e \in Callees : ~callee[e].handle /\ ~callee[e].token_handle
  => /\ \A c \in Callers : caller[c].mem # "live"
     /\ \A e \in Callees : callee[e].mem # "live"
     /\ heap = Containers
=============================================================================
