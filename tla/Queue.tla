-------------------------------- MODULE Queue --------------------------------
(***************************************************************************)
(* The intrusive queue (lib/queue.h) as its users see it: the sequence of  *)
(* the objects whose nodes are linked, from head to tail.  queue_enqueue   *)
(* is Append, queue_dequeue is Head and Tail.  A node has one next pointer *)
(* and can be linked once.                                                 *)
(***************************************************************************)
EXTENDS Sequences

(* The objects that are linked. *)
Elems(q) == {q[i] : i \in DOMAIN q}

(* Every object is linked once. *)
NoRepeats(q) == \A i, j \in DOMAIN q : q[i] = q[j] => i = j
=============================================================================
