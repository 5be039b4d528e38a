------------------------------- MODULE Tls -------------------------------
(***************************************************************************)
(* The intrusive list (lib/list.h), the hash map built from it             *)
(* (lib/intmap.h) and the thread-local storage table, one of its users     *)
(* (user/tls.c).  A list stands for a sequence and a table for a function. *)
(***************************************************************************)
EXTENDS Integers, SequencesExt

CONSTANTS
  ListNodes,        \* nodes of lists, positive numbers
  TlsKeys, TlsValues,
  BucketsCount      \* USER_TLS_BUCKETS

NIL == 0
Buckets == 0..(BucketsCount - 1)

ASSUME TlsAssumption == BucketsCount \in Nat \ {0} /\ NIL \notin ListNodes

VARIABLES
  list,             \* bucket -> [head, tail]
  link,             \* node -> [next, prev]
  item,             \* node -> [key, value]
  used,             \* allocated nodes
  shadow,           \* the function that the table stands for (not in the code)
  lists             \* bucket -> the sequence the list stands for (not in the code)
tlsVars == <<list, link, item, used, shadow, lists>>

-----------------------------------------------------------------------------
(* Operators on m = [head, tail, link]. *)
list_append_head(m, n) ==
  IF m.head = NIL THEN [head |-> n, tail |-> n, link |-> [m.link EXCEPT ![n] = [next |-> NIL, prev |-> NIL]]]
  ELSE [m EXCEPT !.head = n,
                 !.link = [m.link EXCEPT ![m.head].prev = n, ![n] = [next |-> m.head, prev |-> NIL]]]

list_append_tail(m, n) ==
  IF m.tail = NIL THEN [head |-> n, tail |-> n, link |-> [m.link EXCEPT ![n] = [next |-> NIL, prev |-> NIL]]]
  ELSE [m EXCEPT !.tail = n,
                 !.link = [m.link EXCEPT ![m.tail].next = n, ![n] = [next |-> NIL, prev |-> m.tail]]]

list_remove_head(m) ==
  LET next == m.link[m.head].next
  IN  IF m.head = NIL THEN m
      ELSE IF next = NIL THEN [m EXCEPT !.head = NIL, !.tail = NIL]
      ELSE [m EXCEPT !.head = next, !.link = [m.link EXCEPT ![next].prev = NIL]]

list_remove_tail(m) ==
  LET prev == m.link[m.tail].prev
  IN  IF m.tail = NIL THEN m
      ELSE IF prev = NIL THEN [m EXCEPT !.head = NIL, !.tail = NIL]
      ELSE [m EXCEPT !.tail = prev, !.link = [m.link EXCEPT ![prev].next = NIL]]

(* Faulty variant: a node at an end is unlinked and the end keeps it. *)
RemoveKeepsTail(m, n) ==
  LET l == m.link[n]
  IN  IF m.head = n THEN list_remove_head(m)
      ELSE [m EXCEPT !.link = [p \in DOMAIN m.link |->
              [next |-> IF p = l.prev THEN l.next ELSE m.link[p].next,
               prev |-> IF p = l.next THEN l.prev ELSE m.link[p].prev]]]

list_remove(m, n) ==
  LET l == m.link[n]
  IN  IF m.head = n THEN list_remove_head(m)
      ELSE IF m.tail = n THEN list_remove_tail(m)
      ELSE [m EXCEPT !.link = [m.link EXCEPT ![l.prev].next = l.next, ![l.next].prev = l.prev]]

-----------------------------------------------------------------------------
At(b) == [head |-> list[b].head, tail |-> list[b].tail, link |-> link]
Put(b, m) == /\ list' = [list EXCEPT ![b] = [head |-> m.head, tail |-> m.tail]]
             /\ link' = m.link

Bucket(key) == key % BucketsCount

(* LIST_FOREACH: the nodes in the order of the next pointers. *)
Forward(b) ==
  LET walk[i \in 0..Cardinality(ListNodes)] ==
        IF i = 0 THEN <<list[b].head>> ELSE Append(walk[i - 1],
           IF Last(walk[i - 1]) = NIL THEN NIL ELSE link[Last(walk[i - 1])].next)
  IN  SelectSeq(walk[Cardinality(ListNodes)], LAMBDA n : n # NIL)

intmap_search(key) ==
  LET hits == SelectSeq(Forward(Bucket(key)), LAMBDA n : item[n].key = key)
  IN  IF hits = <<>> THEN NIL ELSE Head(hits)

intmap_insert(n, key) ==
  /\ Put(Bucket(key), list_append_head(At(Bucket(key)), n))
  /\ lists' = [lists EXCEPT ![Bucket(key)] = <<n>> \o @]

intmap_remove(n) ==
  LET b == Bucket(item[n].key)
  IN  /\ Put(b, list_remove(At(b), n))
      /\ lists' = [lists EXCEPT ![b] = SelectSeq(@, LAMBDA x : x # n)]

(* intmap_init in user_tls_table_create. *)
TlsInit ==
  /\ list = [b \in Buckets |-> [head |-> NIL, tail |-> NIL]]
  /\ link = [n \in ListNodes |-> [next |-> NIL, prev |-> NIL]]
  /\ item = [n \in ListNodes |-> [key |-> 0, value |-> 0]]
  /\ used = {} /\ shadow = [k \in TlsKeys |-> 0]
  /\ lists = [b \in Buckets |-> <<>>]

(* The node that the heap gives, if it has memory. *)
Allocated == {n \in ListNodes \ used : \A x \in ListNodes \ used : n <= x}

(* Without memory nothing changes, and the caller is told. *)
user_tls_table_set_key(key, value) ==
  LET found == intmap_search(key)
  IN  /\ IF found # NIL
         THEN item' = [item EXCEPT ![found].value = value] /\ UNCHANGED <<list, link, lists, used>>
         ELSE \E n \in Allocated :
                /\ item' = [item EXCEPT ![n] = [key |-> key, value |-> value]]
                /\ intmap_insert(n, key)
                /\ used' = used \cup {n}
      /\ shadow' = [shadow EXCEPT ![key] = value]

user_tls_table_get_key(key) ==
  IF intmap_search(key) # NIL THEN item[intmap_search(key)].value ELSE 0

(* A node leaves from the middle of its bucket, as in rpc.c and shm.c. *)
Forget(key) ==
  LET n == intmap_search(key)
  IN  /\ n # NIL /\ intmap_remove(n)
      /\ used' = used \ {n} /\ shadow' = [shadow EXCEPT ![key] = 0]
      /\ UNCHANGED item

(* The other order of use, of the free lists and queues: in at the tail, out at the ends. *)
AppendTail(n, key) ==
  /\ n \in Allocated /\ intmap_search(key) = NIL
  /\ Put(Bucket(key), list_append_tail(At(Bucket(key)), n))
  /\ lists' = [lists EXCEPT ![Bucket(key)] = Append(@, n)]
  /\ item' = [item EXCEPT ![n] = [key |-> key, value |-> 0]]
  /\ used' = used \cup {n}
  /\ UNCHANGED shadow

RemoveEnd(b, m, n) ==
  /\ n # NIL /\ Put(b, m)
  /\ lists' = [lists EXCEPT ![b] = SelectSeq(@, LAMBDA x : x # n)]
  /\ used' = used \ {n} /\ shadow' = [shadow EXCEPT ![item[n].key] = 0]
  /\ UNCHANGED item

(* One round of user_tls_table_destroy takes the head; list_remove_tail is its mirror. *)
RemoveHead(b) == RemoveEnd(b, list_remove_head(At(b)), list[b].head)
RemoveTail(b) == RemoveEnd(b, list_remove_tail(At(b)), list[b].tail)

TlsNext ==
  \/ \E k \in TlsKeys, v \in TlsValues : user_tls_table_set_key(k, v)
  \/ \E k \in TlsKeys : Forget(k)
  \/ \E n \in ListNodes, k \in TlsKeys : AppendTail(n, k)
  \/ \E b \in Buckets : RemoveHead(b) \/ RemoveTail(b)

TlsSpec == TlsInit /\ [][TlsNext]_tlsVars

-----------------------------------------------------------------------------
Backward(b) ==
  LET walk[i \in 0..Cardinality(ListNodes)] ==
        IF i = 0 THEN <<list[b].tail>> ELSE Append(walk[i - 1],
           IF Last(walk[i - 1]) = NIL THEN NIL ELSE link[Last(walk[i - 1])].prev)
  IN  SelectSeq(walk[Cardinality(ListNodes)], LAMBDA n : n # NIL)

(***************************************************************************)
(* Every list is its sequence, read from the head along next and from the  *)
(* tail along prev, whatever order nodes come and go in at the ends and in *)
(* the middle, and although a removed node keeps its pointers (list_remove *)
(* and its callers, lib/list.h).                                           *)
(***************************************************************************)
ListExact ==
  \A b \in Buckets : Forward(b) = lists[b] /\ Backward(b) = Reverse(lists[b])

(***************************************************************************)
(* The table gives for every key the value set last, or 0, whatever else   *)
(* shares the bucket, and has one node for each key                        *)
(* (user_tls_table_set_key, user_tls_table_get_key).                       *)
(***************************************************************************)
TlsExact ==
  /\ \A k \in TlsKeys : user_tls_table_get_key(k) = shadow[k]
  /\ \A m, n \in used : m # n => item[m].key # item[n].key

(***************************************************************************)
(* The table does what a function would, on lists whose pointers are right *)
(* both ways.                                                              *)
(***************************************************************************)
TlsTableExact == ListExact /\ TlsExact
=============================================================================
