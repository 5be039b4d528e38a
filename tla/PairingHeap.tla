------------------------------- MODULE PairingHeap -------------------------------
(***************************************************************************)
(* The pairing heap of lib/pairing_heap.h, as the scheduler uses it: the   *)
(* hooks are in the tasks, a key does not change while its node is in the  *)
(* heap, and the heap's lock is held.  What it promises is a priority      *)
(* queue, the set of nodes inserted and not removed.                       *)
(***************************************************************************)
EXTENDS Integers, FiniteSets

CONSTANTS
  HeapNodes,    \* nodes there are, positive numbers
  Keys          \* values of unfairness

NoNode == 0      \* NULL

VARIABLES
  hooks,        \* [next, child]: functions of nodes
  heap_root,
  keys,         \* node -> key
  queued        \* the nodes in the priority queue (not in the code)
heapVars == <<hooks, heap_root, keys, queued>>

(* pairing_heap_init. *)
HeapInit ==
  /\ hooks = [next |-> [n \in HeapNodes |-> NoNode], child |-> [n \in HeapNodes |-> NoNode]]
  /\ heap_root = NoNode /\ queued = {}
  /\ keys = [n \in HeapNodes |-> CHOOSE k \in Keys : TRUE]

thread_localsched_cmp_unfairness(left, right) == keys'[left] < keys'[right]

(* Operators on h = [root, next, child]; the result's root is what is returned. *)
_pairing_heap_meld(h, heap1, heap2) ==
  LET min == IF thread_localsched_cmp_unfairness(heap1, heap2) THEN heap1 ELSE heap2
      max == IF min = heap1 THEN heap2 ELSE heap1
  IN  IF heap1 = NoNode THEN [h EXCEPT !.root = heap2]
      ELSE IF heap2 = NoNode THEN [h EXCEPT !.root = heap1]
      ELSE [root |-> min,
            next |-> [h.next EXCEPT ![max] = h.child[min]],
            child |-> [h.child EXCEPT ![min] = max]]

(* Faulty variant: the list after the first pair is dropped. *)
TreeifyPair(h, children) ==
  LET next == h.next[children]
      cut  == [h EXCEPT !.next[children] = NoNode]
  IN  IF children = NoNode \/ next = NoNode THEN [h EXCEPT !.root = children]
      ELSE _pairing_heap_meld([cut EXCEPT !.next[next] = NoNode], children, next)

(***************************************************************************)
(* The children are melded in pairs, and each pair with the tree of those  *)
(* after it.  C leaves it open which argument of the outer meld comes      *)
(* first; they touch different nodes, so it makes no difference.           *)
(***************************************************************************)
RECURSIVE _pairing_heap_treeify(_, _)
_pairing_heap_treeify(h, children) ==
  LET next == h.next[children]
      nn   == h.next[next]
      cut  == [h EXCEPT !.next[children] = NoNode]
      pair == _pairing_heap_meld([cut EXCEPT !.next[next] = NoNode], children, next)
      rest == _pairing_heap_treeify(pair, nn)
  IN  IF children = NoNode THEN [h EXCEPT !.root = NoNode]
      ELSE IF next = NoNode THEN [cut EXCEPT !.root = children]
      ELSE _pairing_heap_meld(rest, pair.root, rest.root)

Tree == [root |-> heap_root, next |-> hooks.next, child |-> hooks.child]
Becomes(h) == heap_root' = h.root /\ hooks' = [next |-> h.next, child |-> h.child]

pairing_heap_insert(n) ==
  \E k \in Keys :
    /\ n \notin queued
    /\ keys' = [keys EXCEPT ![n] = k]
    /\ Becomes(_pairing_heap_meld([Tree EXCEPT !.next[n] = NoNode, !.child[n] = NoNode],
                                  heap_root, n))
    /\ queued' = queued \cup {n}

pairing_heap_remove_min ==
  /\ heap_root # NoNode
  /\ UNCHANGED keys
  /\ Becomes(_pairing_heap_treeify(Tree, hooks.child[heap_root]))
  /\ queued' = queued \ {heap_root}

HeapNext == pairing_heap_remove_min \/ \E n \in HeapNodes : pairing_heap_insert(n)

HeapSpec == HeapInit /\ [][HeapNext]_heapVars

-----------------------------------------------------------------------------
(* The nodes in the list that starts at n, and in the trees below them. *)
RECURSIVE Below(_, _)
Below(n, seen) ==
  IF n = NoNode \/ n \in seen THEN seen
  ELSE Below(hooks.next[n], Below(hooks.child[n], seen \cup {n}))

Links == {<<n, hooks.child[n]>> : n \in queued} \cup {<<n, hooks.next[n]>> : n \in queued \ {heap_root}}

(***************************************************************************)
(* Through any insertions and removals the hooks form one tree of exactly  *)
(* the queued nodes: none is lost and none is reached twice, although a    *)
(* removal takes the root's list of children apart and melds it again      *)
(* (_pairing_heap_treeify).                                                *)
(***************************************************************************)
HeapHoldsQueued ==
  /\ Below(heap_root, {}) = queued
  /\ heap_root # NoNode => hooks.next[heap_root] = NoNode
  /\ \A a, b \in Links : a # b /\ a[2] = b[2] => a[2] = NoNode
  /\ \A a \in Links : a[2] # heap_root \/ a[2] = NoNode

(* What get_min and remove_min return is a node of least key. *)
RootIsMin == heap_root # NoNode => \A n \in queued : keys[heap_root] <= keys[n]

(***************************************************************************)
(* The heap holds what was inserted and not removed, with a least key on   *)
(* top.                                                                    *)
(***************************************************************************)
PairingHeapExact == HeapHoldsQueued /\ RootIsMin
=============================================================================
