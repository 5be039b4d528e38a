-------------------------------- MODULE Dynarray --------------------------------
(***************************************************************************)
(* The dynamic array of lib/dynarray.h on a heap that may have no memory.  *)
(* It stands for a sequence.  Cookies keep their groups and universes      *)
(* their cells in one.                                                     *)
(***************************************************************************)
EXTENDS Integers, Sequences

CONSTANTS
  Elems,            \* elements, positive numbers of size 1
  Delta,            \* DYNARRAY_GROWTH_DELTA
  MetaSize,         \* sizeof(struct dynarray_meta)
  MaxLength         \* bound on the length

ASSUME DynarrayAssumption == Delta \in Nat \ {0} /\ MetaSize \in Nat \ {0} /\ MaxLength \in Nat

VARIABLES
  arr,              \* [count, capacity, data]
  block,            \* the size that the heap's block was made for
  elems             \* the sequence that the array stands for (not in the code)
dynVars == <<arr, block, elems>>

(* dynarray_new. *)
DynInit ==
  /\ arr = [count |-> 0, capacity |-> 0, data |-> <<>>]
  /\ block = MetaSize /\ elems = <<>>

(* What matters of a size to the heap: blocks come in powers of two. *)
BlockOrder(size) == CHOOSE o \in 0..size : 2^o >= size /\ \A p \in 0..(o - 1) : 2^p < size
Junk == 0           \* a cell that nobody has written

(* mem_heap_realloc: a block of the same order is kept, another may not be had. *)
Realloc(newsize, ok) == BlockOrder(newsize) = BlockOrder(MetaSize + arr.capacity) \/ ok

Reshaped(data, newcap) == [i \in 1..newcap |-> IF i <= Len(data) THEN data[i] ELSE Junk]

(* Faulty variant: when a smaller block cannot be had the capacity shrinks all the same. *)
ChangeCapAnyway(newcap, ok) ==
  IF Realloc(MetaSize + newcap, ok) \/ newcap <= arr.capacity
  THEN [ok |-> TRUE, cap |-> newcap, data |-> Reshaped(arr.data, newcap),
        block |-> IF Realloc(MetaSize + newcap, ok) THEN MetaSize + newcap ELSE block]
  ELSE [ok |-> FALSE, cap |-> arr.capacity, data |-> arr.data, block |-> block]

(* A block that cannot be had is no failure if the array is to become smaller. *)
dynarray_change_cap(newcap, ok) ==
  IF Realloc(MetaSize + newcap, ok)
  THEN [ok |-> TRUE, cap |-> newcap, data |-> Reshaped(arr.data, newcap),
        block |-> MetaSize + newcap]
  ELSE [ok |-> newcap <= arr.capacity, cap |-> arr.capacity, data |-> arr.data, block |-> block]

(* Without memory dynarray_push returns NULL and the array is as it was. *)
dynarray_push(e, ok) ==
  LET grown == dynarray_change_cap(arr.capacity + Delta, ok)
      put(cap, data) == arr' = [count |-> arr.count + 1, capacity |-> cap,
                                data |-> [data EXCEPT ![arr.count + 1] = e]]
  IN  /\ arr.count < MaxLength
      /\ IF arr.count < arr.capacity THEN put(arr.capacity, arr.data) /\ UNCHANGED block
         ELSE grown.ok /\ put(grown.cap, grown.data) /\ block' = grown.block
      /\ elems' = Append(elems, e)

dynarray_resize(newsize, ok) ==
  LET newcap == ((newsize + Delta - 1) \div Delta) * Delta
      moved  == dynarray_change_cap(newcap, ok)
  IN  /\ IF newcap = arr.capacity THEN arr' = [arr EXCEPT !.count = newsize] /\ UNCHANGED block
         ELSE /\ moved.ok /\ block' = moved.block
              /\ arr' = [count |-> newsize, capacity |-> moved.cap, data |-> moved.data]
      /\ elems' = [i \in 1..newsize |-> IF i <= Len(elems) THEN elems[i] ELSE Junk]

DynNext ==
  \/ \E e \in Elems, ok \in BOOLEAN : dynarray_push(e, ok)
  \/ \E n \in 0..MaxLength, ok \in BOOLEAN : dynarray_resize(n, ok)

DynSpec == DynInit /\ [][DynNext]_dynVars

-----------------------------------------------------------------------------
(***************************************************************************)
(* The array is its sequence, through growth, shrinking and failures of    *)
(* the heap on the way (dynarray_push, dynarray_resize); a cell that a     *)
(* resize uncovers may hold anything.                                      *)
(***************************************************************************)
DynExact ==
  /\ arr.count = Len(elems) /\ arr.count <= arr.capacity
  /\ \A i \in 1..arr.count : elems[i] # Junk => arr.data[i] = elems[i]

(***************************************************************************)
(* The size that dynarray_destroy and the next realloc tell the heap, from *)
(* the capacity, names the order of the block the heap gave, also after a  *)
(* shrink that the heap refused (dynarray_change_cap).                     *)
(***************************************************************************)
DynBlock ==
  BlockOrder(MetaSize + arr.capacity) = BlockOrder(block)

(***************************************************************************)
(* The array is its sequence and knows the block it lies in, after any     *)
(* failures of the heap.                                                   *)
(***************************************************************************)
DynarrayExact == DynExact /\ DynBlock
=============================================================================
