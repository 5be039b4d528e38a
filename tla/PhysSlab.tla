-------------------------------- MODULE PhysSlab --------------------------------
(***************************************************************************)
(* The allocator of one physical memory range (mem/phys/slab.c): power of  *)
(* two blocks from free lists by order, splitting larger ones, and from    *)
(* the part of the range never used so far (brk).  An operator takes and   *)
(* returns the struct mem_phys_slab; callers hold the node's lock.         *)
(***************************************************************************)
EXTENDS Integers, Sequences, FiniteSetsExt

CONSTANTS
  Gran,         \* PHYS_SLAB_GRAN: the order of a page
  OrdersCount   \* MEM_PHYS_SLAB_ORDERS_COUNT

ASSUME PhysSlabAssumption ==
  /\ Gran \in Nat \ {0}
  /\ OrdersCount \in Nat /\ OrdersCount > Gran

PHYS_NULL == 0
PAGE_SIZE == 2^Gran

align_down(val, align) == (val \div align) * align
align_up(val, align) == align_down(val + align - 1, align)

(* The free lists are stacks of addresses; the links are in the blocks. *)
mem_phys_slab_init(base, length) ==
  [base |-> base, length |-> length, brk_bytes |-> 0,
   free_lists |-> [o \in 0..(OrdersCount - 1) |-> <<>>],
   max_freed_order |-> 0]

mem_phys_slab_enqueue(slab, order, block) ==
  [slab EXCEPT !.max_freed_order = IF @ < order THEN order ELSE @,
               !.free_lists[order] = <<block>> \o @]

(***************************************************************************)
(* What dequeue makes of max_freed_order when it empties the list of that  *)
(* order: the loop starts at two orders below and keeps the last, that is  *)
(* the smallest, order that has a block.                                   *)
(***************************************************************************)
Rescan(slab) ==
  LET nonempty == {i \in 0..(slab.max_freed_order - 2) : slab.free_lists[i] # <<>>}
  IN  IF nonempty = {} THEN 0 ELSE Min(nonempty)

mem_phys_slab_dequeue(slab, order) ==
  [slab EXCEPT !.free_lists[order] = Tail(@),
               !.max_freed_order =
                  IF Len(slab.free_lists[order]) = 1 /\ @ = order THEN Rescan(slab) ELSE @]

(* Faulty variant: the block itself is put back instead of its upper half. *)
SplitLower(slab, base, order, target) ==
  [slab EXCEPT
     !.free_lists = [o \in DOMAIN @ |-> IF o \in target..(order - 1)
                                        THEN <<base>> \o @[o] ELSE @[o]],
     !.max_freed_order = IF order > target /\ @ < order - 1 THEN order - 1 ELSE @]

(* The upper halves of the block, down to the order that is wanted. *)
mem_phys_slab_split_until_target(slab, base, order, target) ==
  [slab EXCEPT
     !.free_lists = [o \in DOMAIN @ |-> IF o \in target..(order - 1)
                                        THEN <<base + 2^o>> \o @[o] ELSE @[o]],
     !.max_freed_order = IF order > target /\ @ < order - 1 THEN order - 1 ELSE @]

mem_phys_slab_get_order(size) ==
  LET fitting == {o \in Gran..(OrdersCount - 1) : size <= 2^o}
  IN  IF fitting = {} THEN OrdersCount ELSE Min(fitting)

(* The first list from the order up to max_freed_order that has a block. *)
Candidates(slab, order) ==
  {i \in order..slab.max_freed_order : slab.free_lists[i] # <<>>}

(* The slab afterwards and the block's address, or PHYS_NULL. *)
mem_phys_slab_alloc(slab, size) ==
  LET order == mem_phys_slab_get_order(size)
      i     == Min(Candidates(slab, order))
      block == Head(slab.free_lists[i])
      new_brk_bytes == slab.brk_bytes + 2^order
  IN  IF order = OrdersCount THEN [slab |-> slab, addr |-> PHYS_NULL]
      ELSE IF Candidates(slab, order) # {}
      THEN [slab |-> mem_phys_slab_split_until_target(mem_phys_slab_dequeue(slab, i),
                                                      block, i, order),
            addr |-> block]
      ELSE IF new_brk_bytes <= slab.length
      THEN [slab |-> [slab EXCEPT !.brk_bytes = new_brk_bytes],
            addr |-> slab.brk_bytes + slab.base]
      ELSE [slab |-> slab, addr |-> PHYS_NULL]

mem_phys_slab_free(slab, addr, size) ==
  mem_phys_slab_enqueue(slab, mem_phys_slab_get_order(size), addr)
=============================================================================
