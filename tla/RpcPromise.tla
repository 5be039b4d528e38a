------------------------------ MODULE RpcPromise ------------------------------
(***************************************************************************)
(* What the RPC layer promises to a client, without containers, queues,    *)
(* locks or callees: every call that was taken is answered exactly once,   *)
(* with the opaque value it was made with, and a client's memory goes away *)
(* only when nothing is outstanding for it.                                *)
(***************************************************************************)
EXTENDS Naturals, Sequences

CONSTANTS Callers, Opaques

VARIABLES
  outstanding,   \* outstanding[c][o]: calls of c with opaque o, not answered
  replies        \* per caller: answers not collected, as <<opaque, status>>

vars == <<outstanding, replies>>

Init ==
  /\ outstanding = [c \in Callers |-> [o \in Opaques |-> 0]]
  /\ replies = [c \in Callers |-> <<>>]

Call(c, o) ==
  /\ outstanding' = [outstanding EXCEPT ![c][o] = @ + 1]
  /\ UNCHANGED replies

Answer(c, o, status) ==
  /\ outstanding[c][o] > 0
  /\ outstanding' = [outstanding EXCEPT ![c][o] = @ - 1]
  /\ replies' = [replies EXCEPT ![c] = Append(@, <<o, status>>)]

Collect(c) ==
  /\ replies[c] # <<>>
  /\ replies' = [replies EXCEPT ![c] = Tail(@)]
  /\ UNCHANGED outstanding

Discard(c) ==
  /\ \A o \in Opaques : outstanding[c][o] = 0
  /\ replies' = [replies EXCEPT ![c] = <<>>]
  /\ UNCHANGED outstanding

Next ==
  \E c \in Callers :
    \/ \E o \in Opaques :
         Call(c, o) \/ Answer(c, o, "reply") \/ Answer(c, o, "noreply")
    \/ Collect(c)
    \/ Discard(c)

Spec == Init /\ [][Next]_vars
=============================================================================
