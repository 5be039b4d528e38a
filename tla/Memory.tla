--------------------------------- MODULE Memory ---------------------------------
(***************************************************************************)
(* Physical memory and the kernel heap (mem/mem.c, mem/phys/phys.c,        *)
(* mem/heap/heap.c) from boot on: NUMA nodes get their ranges, the boot    *)
(* processor allocates what booting needs, then threads on any processor   *)
(* allocate, reallocate and free at the same time.  A thread holds the     *)
(* lock of one node at a time, so one visit to a node is one step.         *)
(***************************************************************************)
EXTENDS Numa, TLC

CONSTANTS
  Callers,      \* threads that use the heap
  Firmwares,    \* machines the kernel is started on
  Sizes,        \* sizes asked for
  MaxCalls,     \* bound on the calls after boot
  MinOrder,     \* order of the smallest heap block, 4
  SlabSize,     \* MEM_HEAP_SLAB_SIZE
  HdrSize,      \* sizeof(struct mem_heap_slab_hdr)
  ChunkSize,    \* MEM_HEAP_CHUNK_SIZE
  NodeSize, RangeSize, InfoSize, CoreSize,   \* sizes of structures, scaled
  StackSize, ArchSize,                       \* processor stacks, GDT and TSS
  AddressModulus                             \* of size_t, 2^64; more than any machine has

(* MEM_HEAP_SLAB_ORDERS is 12, the order of a page. *)
HeapOrders == Gran

ASSUME MemoryAssumption ==
  /\ MinOrder \in 1..(HeapOrders - 1)
  /\ ChunkSize % SlabSize = 0 /\ 2^MinOrder >= HdrSize
  /\ \A fw \in Firmwares : fw.madt # <<>>
  /\ AddressModulus \in Nat \ {0}

VARIABLES
  fw,           \* the machine
  boot,         \* the bootstrap allocator
  numa_nodes,   \* domain -> [initialized, neighbours, ranges, slabs, free_lists]
  info,         \* mem_phys_objects_info: page -> [range, size, node_id]
  hdr,          \* slab -> [owner, order]; the order is not stored in the code
  given_out,        \* blocks the physical allocator gave out (not in the code)
  live,         \* blocks of the heap in use (not in the code)
  todo,         \* what the boot processor still has to allocate
  caller,       \* thread -> its call in progress
  calls,        \* number of calls made
  junk,         \* is the uninitialized bootstrap memory non-zero?
  mphase        \* "firmware", "acpi", "numa", "ranges", "boot", "run", "panic", "assert",
                \* "noneighbours" and "wildrange": a wild pointer is followed
memVars == <<fw, boot, numa_nodes, info, hdr, given_out, live, todo, caller, calls, junk, mphase>>

(* The boot processor allocates in the name of this pseudo thread. *)
BSP == "bsp"
Idle == [op |-> "idle"]
Threads == Callers \cup {BSP}

(* A node's neighbours are NULL, here <<>>, until they are filled in. *)
EmptyNode == [initialized |-> FALSE, neighbours |-> <<>>, ranges |-> <<>>,
              slabs |-> <<>>, free_lists |-> [o \in MinOrder..(HeapOrders - 1) |-> <<>>]]

MemInit ==
  /\ fw \in Firmwares /\ junk \in BOOLEAN
  /\ boot = mem_bootstrap_alloc_init
  /\ numa_nodes = <<>> /\ info = <<>> /\ hdr = <<>> /\ todo = <<>>
  /\ given_out = {} /\ live = {} /\ calls = 0 /\ mphase = "firmware"
  /\ caller = [t \in Threads |-> Idle]

-----------------------------------------------------------------------------
(* The tables are found; a SLIT is checked, which may stop the kernel. *)
acpi_init ==
  /\ mphase = "firmware"
  /\ mphase' = IF acpi_validate_slit(fw.slit) = "panic" THEN "panic" ELSE "acpi"
  /\ UNCHANGED <<fw, boot, numa_nodes, info, hdr, given_out, live, todo, caller, calls, junk>>

(***************************************************************************)
(* numa_init: the nodes, then the neighbour lists.  The second loop runs   *)
(* to the number of nodes, not of ids, so with gaps between the ids a node *)
(* is left without neighbours, and numa_dump_nodes reads them.             *)
(***************************************************************************)
numa_init ==
  LET size    == numa_nodes_upper_bound(fw)
      present == Range(acpi_numa_enumerate_at_boot(fw))
      count   == Cardinality(present)
      listed  == {i \in present : i < count}
      arrays  == FoldLeft(LAMBDA b, i : mem_bootstrap_alloc(fw, b, count),
                          mem_bootstrap_alloc(fw, boot, NodeSize * size),
                          SetToSeq(listed))
  IN  /\ mphase = "acpi"
      /\ boot' = arrays
      /\ numa_nodes' = [i \in 0..(size - 1) |->
                          [EmptyNode EXCEPT
                             !.initialized = i \in present,
                             !.neighbours = IF i \in listed
                                            THEN numa_init_neighbour_list(fw, i, present)
                                            ELSE <<>>]]
      /\ mphase' = IF arrays.panic \/ acpi_numa_apic2numa_id(fw, fw.bsp) = <<>> THEN "panic"
                   ELSE IF present # listed THEN "noneighbours" ELSE "numa"
      /\ UNCHANGED <<fw, info, hdr, given_out, live, todo, caller, calls, junk>>

mem_estimate_boot_ranges_upper_bound ==
  LET parts(e) == IF e.usable THEN Len(acpi_numa_get_memory_range(fw, e.base, End(e))) ELSE 0
  IN  FoldLeft(LAMBDA n, e : n + parts(e), 0, fw.memmap)

(* Faulty variant: an entry that starts below the border is taken as a whole. *)
UsableUntrimmed(e, border) ==
  IF ~e.usable \/ End(e) <= border THEN <<>>
  ELSE acpi_numa_get_memory_range(fw, e.base, End(e))

(* The ranges that one entry of the memory map gives above the border. *)
UsableRanges(e, border) ==
  IF ~e.usable \/ End(e) <= border THEN <<>>
  ELSE acpi_numa_get_memory_range(fw, Max({e.base, border}), End(e))

(***************************************************************************)
(* Every range is put at the head of its node's list; refs: see phys.c     *)
(* below.  The length is a size_t: of a piece of memory without a whole    *)
(* page in it the end would lie below the start and the length wrap, which *)
(* happens on no machine whose usable memory and domains are page aligned. *)
(***************************************************************************)
mem_add_numa_ranges ==
  LET num_entries == mem_estimate_boot_ranges_upper_bound
      b      == mem_bootstrap_alloc(fw, boot, RangeSize * num_entries)
      border == mem_bootstrap_terminate_allocator(b)
      all    == FoldLeft(LAMBDA s, e : s \o UsableRanges(e, border), <<>>, fw.memmap)
      of(n)  == SelectSeq(Reverse(all), LAMBDA r : r.node_id = n)
      range(r) == [slab |-> mem_phys_slab_init(r.start, (r.end - r.start) % AddressModulus), refs |-> 0]
  IN  /\ mphase = "numa"
      /\ boot' = b
      /\ numa_nodes' = [n \in DOMAIN numa_nodes |->
                          [numa_nodes[n] EXCEPT !.ranges = [k \in DOMAIN of(n) |-> range(of(n)[k])]]]
      /\ mphase' = IF b.panic THEN "panic"
                   ELSE IF Len(all) > num_entries THEN "assert" ELSE "ranges"
      /\ UNCHANGED <<fw, info, hdr, given_out, live, todo, caller, calls, junk>>

CpuNodes == {Head(acpi_numa_apic2numa_id(fw, a)) : a \in Range(fw.madt)}
Request(kind, size, id) == [kind |-> kind, size |-> size, id |-> id]

(***************************************************************************)
(* What mem_phys_init and then thread_smp_core_init allocate: the table of *)
(* block infos and the array of processors in the boot domain, and for     *)
(* each processor two stacks, a GDT and a TSS in its own.                  *)
(***************************************************************************)
BootRequests ==
  LET home(a) == Head(acpi_numa_apic2numa_id(fw, a))
      pages   == mem_calculate_phys_space_size(fw) \div PAGE_SIZE
      cores   == align_up(CoreSize * Len(fw.madt), PAGE_SIZE)
      cpu(a)  == <<Request("phys", StackSize, home(a)), Request("phys", StackSize, home(a)),
                   Request("heap", ArchSize, home(a)), Request("heap", ArchSize, home(a))>>
  IN  FoldLeft(LAMBDA s, a : s \o cpu(a),
               <<Request("phys", InfoSize * pages, home(fw.bsp)),
                 Request("phys", cores, home(fw.bsp))>>,
               fw.madt)

StartBoot ==
  /\ mphase = "ranges"
  /\ IF \E a \in Range(fw.madt) : acpi_numa_apic2numa_id(fw, a) = <<>>
     THEN mphase' = "panic" /\ todo' = <<>>
     ELSE mphase' = "boot" /\ todo' = BootRequests
  /\ UNCHANGED <<fw, boot, numa_nodes, info, hdr, given_out, live, caller, calls, junk>>

-----------------------------------------------------------------------------
(* mem_phys_objects_info is set once the first request has been served. *)
InfoReady == mphase = "run" \/ (mphase = "boot" /\ Len(todo) < Len(BootRequests))

(***************************************************************************)
(* The walk over the ranges of a node.  MEM_REF_BORROW counts the          *)
(* references to a range in its first word, which is next_range: with refs *)
(* references the pointer is off by as many bytes, so a walk that does not *)
(* find memory in such a range goes on to no range at all.                 *)
(***************************************************************************)
mem_phys_alloc_specific_nolock(size, n) ==
  LET ranges == numa_nodes[n].ranges
      res(k) == mem_phys_slab_alloc(ranges[k].slab, size)
      ok     == {k \in DOMAIN ranges : res(k).addr # PHYS_NULL}
      k      == IF ok = {} THEN Len(ranges) + 1 ELSE Min(ok)
  IN  [wild |-> \E j \in 1..(k - 1) : ranges[j].refs # 0,
       k |-> k,
       addr |-> IF ok = {} THEN PHYS_NULL ELSE res(k).addr,
       slab |-> IF ok = {} THEN <<>> ELSE res(k).slab]

(* mem_phys_store_info; before the table exists nothing is stored or counted. *)
mem_phys_store_info(addr, size, n, k) ==
  info' = IF ~InfoReady THEN info
          ELSE (addr \div PAGE_SIZE) :> [range |-> k, size |-> size, node_id |-> n] @@ info

(* The node after a successful walk. *)
Charged(n, w) ==
  [numa_nodes[n] EXCEPT !.ranges[w.k] =
     [slab |-> w.slab, refs |-> IF InfoReady THEN @.refs + 1 ELSE @.refs]]

Block(addr, size, n, k) ==
  [addr |-> addr, order |-> mem_phys_slab_get_order(size), node |-> n, range |-> k]

-----------------------------------------------------------------------------
mem_heap_get_size_order(size, max_order) ==
  LET fitting == {o \in MinOrder..(max_order - 1) : size <= 2^o}
  IN  IF fitting = {} THEN max_order ELSE Min(fitting)

(* The slabs of a new chunk, the last one first in the list. *)
mem_allocate_new_slabs_chunk(addr) ==
  LET begin == align_up(addr, SlabSize)
      count == (align_down(addr + ChunkSize, SlabSize) - begin) \div SlabSize
  IN  Reverse([i \in 1..count |-> begin + (i - 1) * SlabSize])

Objects(slab, order) ==
  LET start == align_up(slab + HdrSize, 2^order)
  IN  [i \in 1..((slab + SlabSize - start) \div 2^order) |-> start + (i - 1) * 2^order]

(* The node after mem_heap_add_slab with its first slab. *)
mem_heap_add_slab(node, order) ==
  [node EXCEPT !.slabs = Tail(@),
               !.free_lists[order] = Reverse(Objects(Head(node.slabs), order)) \o @]

(* What becomes of the call of thread t once the allocator answers it. *)
Answer(t, mem) ==
  LET c == caller[t] IN
  IF t = BSP
  THEN /\ mphase' = IF mem = PHYS_NULL THEN "panic" ELSE IF Len(todo) = 1 THEN "run" ELSE mphase
       /\ todo' = Tail(todo)
       /\ caller' = [caller EXCEPT ![t] = Idle]
       /\ live' = IF mem # PHYS_NULL /\ c.kind = "heap"
                  THEN live \cup {[mem |-> mem, size |-> c.size, by |-> t]} ELSE live
  ELSE /\ live' = live \cup (IF mem # PHYS_NULL THEN {[mem |-> mem, size |-> c.size, by |-> t]}
                             ELSE c.old)
       /\ caller' = [caller EXCEPT ![t] = IF mem # PHYS_NULL /\ c.old # {}
                                          THEN [op |-> "free", block |-> CHOOSE b \in c.old : TRUE]
                                          ELSE Idle]
       /\ UNCHANGED <<mphase, todo>>

(* The call goes on with the next neighbour, if there is one. *)
NextNeighbour(t) ==
  LET c == caller[t] IN
  IF c.i < Len(numa_nodes[c.id].neighbours)
  THEN caller' = [caller EXCEPT ![t].i = c.i + 1] /\ UNCHANGED <<live, todo, mphase>>
  ELSE Answer(t, PHYS_NULL)

Wild == mphase' = "wildrange" /\ UNCHANGED <<numa_nodes, info, hdr, given_out, live, todo, caller>>

(* mem_phys_alloc_on_behalf: the visit to one neighbour, under its lock. *)
PhysVisit(t) ==
  LET c == caller[t]
      n == numa_nodes[c.id].neighbours[c.i]
      w == mem_phys_alloc_specific_nolock(c.size, n)
  IN  /\ c.op = "alloc"
      /\ c.kind = "phys" \/ mem_heap_get_size_order(c.size, HeapOrders) = HeapOrders
      /\ IF w.wild THEN Wild
         ELSE IF w.addr = PHYS_NULL
         THEN NextNeighbour(t) /\ UNCHANGED <<numa_nodes, info, hdr, given_out>>
         ELSE /\ numa_nodes' = [numa_nodes EXCEPT ![n] = Charged(n, w)]
              /\ mem_phys_store_info(w.addr, c.size, n, w.k)
              /\ given_out' = given_out \cup {Block(w.addr, c.size, n, w.k)}
              /\ Answer(t, w.addr)
              /\ UNCHANGED hdr
      /\ UNCHANGED <<fw, boot, calls, junk>>

(***************************************************************************)
(* mem_heap_alloc_on_behalf for a small size: the free list of the node,   *)
(* else an object of a new slab, else of a slab of a new chunk.            *)
(***************************************************************************)
HeapVisit(t) ==
  LET c     == caller[t]
      order == mem_heap_get_size_order(c.size, HeapOrders)
      n     == numa_nodes[c.id].neighbours[c.i]
      node  == numa_nodes[n]
      w     == mem_phys_alloc_specific_nolock(ChunkSize, n)
      give(nd) == /\ numa_nodes' = [numa_nodes EXCEPT ![n] =
                       [nd EXCEPT !.free_lists[order] = Tail(@)]]
                  /\ Answer(t, Head(nd.free_lists[order]))
      carve(nd) == /\ hdr' = Head(nd.slabs) :> [owner |-> n, order |-> order] @@ hdr
                   /\ give(mem_heap_add_slab(nd, order))
  IN  /\ c.op = "alloc" /\ c.kind = "heap" /\ order < HeapOrders
      /\ IF node.free_lists[order] # <<>> THEN give(node) /\ UNCHANGED <<info, hdr, given_out>>
         ELSE IF node.slabs # <<>> THEN carve(node) /\ UNCHANGED <<info, given_out>>
         ELSE IF w.wild THEN Wild
         ELSE IF w.addr = PHYS_NULL
         THEN NextNeighbour(t) /\ UNCHANGED <<numa_nodes, info, hdr, given_out>>
         ELSE /\ mem_phys_store_info(w.addr, ChunkSize, n, w.k)
              /\ given_out' = given_out \cup {Block(w.addr, ChunkSize, n, w.k)}
              /\ carve([Charged(n, w) EXCEPT !.slabs = mem_allocate_new_slabs_chunk(w.addr)])
      /\ UNCHANGED <<fw, boot, calls, junk>>

-----------------------------------------------------------------------------
(* The requests of the boot processor, one after another. *)
BootAlloc ==
  /\ mphase = "boot" /\ caller[BSP] = Idle
  /\ caller' = [caller EXCEPT ![BSP] = [op |-> "alloc", kind |-> Head(todo).kind, i |-> 1,
                                        size |-> Head(todo).size, id |-> Head(todo).id]]
  /\ UNCHANGED <<fw, boot, numa_nodes, info, hdr, given_out, live, todo, calls, junk, mphase>>

(* The GDT and TSS of a processor are never freed. *)
Freeable == {b \in live : b.by # BSP}

(* A call of a thread that has none in progress. *)
Starts(t) == mphase = "run" /\ t \in Callers /\ caller[t] = Idle /\ calls < MaxCalls

Calling(t, c) ==
  /\ caller' = [caller EXCEPT ![t] = c] /\ calls' = calls + 1
  /\ UNCHANGED <<fw, boot, numa_nodes, info, hdr, given_out, todo, junk, mphase>>

Alloc(size, id, old) ==
  [op |-> "alloc", kind |-> "heap", size |-> size, id |-> id, i |-> 1, old |-> old]

(* mem_heap_alloc asks on behalf of the node of the processor it runs on. *)
mem_heap_alloc(t) ==
  \E size \in Sizes, id \in CpuNodes :
     Starts(t) /\ Calling(t, Alloc(size, id, {})) /\ UNCHANGED live

(* The block is no longer the caller's to use once it is being freed. *)
CallFree(t) ==
  \E b \in Freeable : /\ Starts(t) /\ Calling(t, [op |-> "free", block |-> b])
                      /\ live' = live \ {b}

(* The orders are compared with no limit in sight (64 in the code). *)
mem_heap_realloc(t) ==
  \E b \in Freeable, newsize \in Sizes, id \in CpuNodes :
     /\ Starts(t)
     /\ IF mem_heap_get_size_order(b.size, OrdersCount)
           = mem_heap_get_size_order(newsize, OrdersCount)
        THEN /\ Calling(t, Idle)
             /\ live' = (live \ {b}) \cup {[b EXCEPT !.size = newsize]}
        ELSE /\ Calling(t, Alloc(newsize, id, {b}))
             /\ live' = live \ {b}

(* Faulty variant: the object goes to the node of the processor that frees it. *)
FreeToOwn(t) ==
  LET b == caller[t].block
      order == mem_heap_get_size_order(b.size, HeapOrders)
  IN  \E id \in CpuNodes :
        /\ caller[t].op = "free" /\ order < HeapOrders
        /\ numa_nodes' = [numa_nodes EXCEPT ![id].free_lists[order] = <<b.mem>> \o @]
        /\ caller' = [caller EXCEPT ![t] = Idle]
        /\ UNCHANGED <<fw, boot, info, hdr, given_out, live, todo, calls, junk, mphase>>

(* mem_heap_free of a small block: to the node that the slab's header names. *)
mem_heap_free(t) ==
  LET b == caller[t].block
      order == mem_heap_get_size_order(b.size, HeapOrders)
      owner == hdr[align_down(b.mem, SlabSize)].owner
  IN  /\ caller[t].op = "free" /\ order < HeapOrders
      /\ numa_nodes' = [numa_nodes EXCEPT ![owner].free_lists[order] = <<b.mem>> \o @]
      /\ caller' = [caller EXCEPT ![t] = Idle]
      /\ UNCHANGED <<fw, boot, info, hdr, given_out, live, todo, calls, junk, mphase>>

(* mem_phys_free up to the unlock; what is in the table is read again below. *)
mem_phys_free(t) ==
  LET b   == caller[t].block
      obj == info[b.mem \div PAGE_SIZE]
  IN  /\ caller[t].op = "free"
      /\ mem_heap_get_size_order(b.size, HeapOrders) = HeapOrders
      /\ numa_nodes' = [numa_nodes EXCEPT ![obj.node_id].ranges[obj.range].slab =
                          mem_phys_slab_free(@, b.mem, obj.size)]
      /\ given_out' = {x \in given_out : x.addr # b.mem}
      /\ caller' = [caller EXCEPT ![t] = [op |-> "drop", page |-> b.mem \div PAGE_SIZE]]
      /\ UNCHANGED <<fw, boot, info, hdr, live, todo, calls, junk, mphase>>

(***************************************************************************)
(* MEM_REF_DROP after the unlock.  When the count, that is next_range,     *)
(* comes down to zero the word behind it is called as the destructor: it   *)
(* is rc_base of the slab, which nobody initializes.                       *)
(***************************************************************************)
MEM_REF_DROP(t) ==
  LET obj    == info[caller[t].page]
      ranges == numa_nodes[obj.node_id].ranges
  IN  /\ caller[t].op = "drop"
      /\ numa_nodes' = [numa_nodes EXCEPT ![obj.node_id].ranges[obj.range].refs = @ - 1]
      /\ caller' = [caller EXCEPT ![t] = Idle]
      /\ mphase' = IF ranges[obj.range].refs = 1 /\ obj.range = Len(ranges) /\ junk
                   THEN "wildrange" ELSE mphase
      /\ UNCHANGED <<fw, boot, info, hdr, given_out, live, todo, calls, junk>>

Running == mphase \in {"boot", "run"}

MemNext ==
  \/ acpi_init \/ numa_init \/ mem_add_numa_ranges \/ StartBoot \/ BootAlloc
  \/ Running /\ \E t \in Threads :
        \/ PhysVisit(t) \/ HeapVisit(t)
        \/ mem_heap_alloc(t) \/ mem_heap_realloc(t) \/ CallFree(t)
        \/ mem_heap_free(t) \/ mem_phys_free(t) \/ MEM_REF_DROP(t)

MemSpec == MemInit /\ [][MemNext]_memVars

-----------------------------------------------------------------------------
Bytes(base, length) == base..(base + length - 1)
SumOver(S, f(_)) == MapThenSumSet(f, S)
AllRanges == {<<n, k>> \in (DOMAIN numa_nodes) \X (1..Len(fw.memmap) * Len(fw.srat) + 1) :
                k \in DOMAIN numa_nodes[n].ranges}
RangeOf(r) == numa_nodes[r[1]].ranges[r[2]]
TakenIn(r) == {b \in given_out : b.node = r[1] /\ b.range = r[2]}
BlockBytes(b) == Bytes(b.addr, 2^b.order)

(* Blocks of the heap that somebody uses, or is about to give back. *)
Held == live \cup UNION {LET c == caller[t] IN
                         CASE c.op = "free" -> {c.block} [] c.op = "alloc" -> c.old [] OTHER -> {} :
                         t \in Callers}
Small(b) == mem_heap_get_size_order(b.size, HeapOrders) < HeapOrders

(***************************************************************************)
(* Physical blocks never overlap and none is lost: in every range the      *)
(* blocks given out and the blocks on the free lists tile exactly what brk *)
(* has passed, through any order of splits, frees and reuse                *)
(* (mem_phys_slab_alloc, mem_phys_slab_free).                              *)
(***************************************************************************)
PhysPartition ==
  \A r \in AllRanges :
    LET slab   == RangeOf(r).slab
        lists  == slab.free_lists
        free   == UNION {UNION {Bytes(a, 2^o) : a \in Range(lists[o])} : o \in DOMAIN lists}
        size(o) == Len(lists[o]) * 2^o
        tsize(b) == 2^b.order
    IN  /\ slab.brk_bytes <= slab.length
        /\ free \cup UNION {BlockBytes(b) : b \in TakenIn(r)} = Bytes(slab.base, slab.brk_bytes)
        /\ SumOver(DOMAIN lists, size) + SumOver(TakenIn(r), tsize) = slab.brk_bytes

(***************************************************************************)
(* Every object of every slab is either in use or once on the free list of *)
(* its order of the node that owns the slab, whichever thread freed it and *)
(* through any realloc, and every block in use is as large as its caller   *)
(* was told (mem_heap_free, mem_heap_realloc, mem_heap_add_slab).          *)
(***************************************************************************)
HeapExact ==
  /\ \A b \in Held :
       IF Small(b)
       THEN LET s == align_down(b.mem, SlabSize)
            IN  /\ s \in DOMAIN hdr /\ b.mem \in Range(Objects(s, hdr[s].order))
                /\ b.size <= 2^hdr[s].order
       ELSE \E x \in given_out : x.addr = b.mem /\ b.size <= 2^x.order
  /\ \A b, c \in Held : b # c => b.mem # c.mem
  /\ \A n \in DOMAIN numa_nodes, o \in MinOrder..(HeapOrders - 1) :
       LET objects == UNION {Range(Objects(s, o)) :
                               s \in {x \in DOMAIN hdr : hdr[x] = [owner |-> n, order |-> o]}}
           used    == {b.mem : b \in {x \in Held : Small(x)}}
           list    == numa_nodes[n].free_lists[o]
       IN  /\ Range(list) = objects \ used
           /\ Len(list) = Cardinality(Range(list))
  /\ \A s \in DOMAIN hdr :
       \E b \in given_out : Bytes(s, SlabSize) \subseteq BlockBytes(b) /\ b.node = hdr[s].owner

(***************************************************************************)
(* What mem_phys_free finds in the table is the truth about the block:     *)
(* inside the table, the node and range it came from and a size of its     *)
(* order.  A range counts its blocks and the drops that are still to come. *)
(***************************************************************************)
InfoExact ==
  InfoReady =>
    LET recorded == {b \in given_out : b.addr \div PAGE_SIZE \in DOMAIN info}
        dropping(r) == {t \in Callers : /\ caller[t].op = "drop"
                                        /\ info[caller[t].page].node_id = r[1]
                                        /\ info[caller[t].page].range = r[2]}
    IN  /\ Cardinality(given_out \ recorded) = 1
        /\ \A b \in recorded : LET obj == info[b.addr \div PAGE_SIZE] IN
             /\ b.addr < mem_calculate_phys_space_size(fw)
             /\ obj.node_id = b.node /\ obj.range = b.range
             /\ mem_phys_slab_get_order(obj.size) = b.order
        /\ \A r \in AllRanges :
             RangeOf(r).refs = Cardinality(TakenIn(r) \cap recorded) + Cardinality(dropping(r))

(***************************************************************************)
(* The physical allocator is exact: blocks neither overlap nor get lost,   *)
(* and the table by which they are freed says where they came from, while  *)
(* threads allocate and free on the same nodes.                            *)
(***************************************************************************)
PhysExact == PhysPartition /\ InfoExact

(***************************************************************************)
(* The allocators never give out what the bootstrap allocator gave before  *)
(* them, low memory, or memory the map does not call usable, and no byte   *)
(* belongs to two ranges (mem_add_numa_ranges trims at the border).        *)
(***************************************************************************)
BootSafe ==
  LET bytes(r) == Bytes(RangeOf(r).slab.base, RangeOf(r).slab.length)
      usable   == UNION {Bytes(e.base, e.length) : e \in {x \in Range(fw.memmap) : x.usable}}
      given    == UNION {Bytes(b.addr, b.size) : b \in boot.given}
      size(b)  == b.size
  IN  /\ \A r \in AllRanges : bytes(r) \subseteq (usable \ given) \ Bytes(0, PHYS_LOW)
      /\ \A r, s \in AllRanges : r # s => bytes(r) \cap bytes(s) = {}
      /\ given \subseteq usable /\ Cardinality(given) = SumOver(boot.given, size)

(* The assertion of mem_add_numa_ranges: the first pass counted enough entries. *)
EstimateHolds == mphase # "assert"

(***************************************************************************)
(* Once the kernel runs, every node lists every node once, nearest first   *)
(* by the firmware's distances (numa_init_neighbour_list), so a caller on  *)
(* a node without memory is served by the nearest one that has some.       *)
(***************************************************************************)
NeighboursSorted ==
  mphase \in {"boot", "run"} =>
    \A n \in DOMAIN numa_nodes :
      LET ns == numa_nodes[n].neighbours
      IN  numa_nodes[n].initialized =>
            /\ Range(ns) = {i \in DOMAIN numa_nodes : numa_nodes[i].initialized}
            /\ Len(ns) = Cardinality(Range(ns))
            /\ \A i, j \in DOMAIN ns :
                 i < j => acpi_numa_get_distance(fw, n, ns[i]) <= acpi_numa_get_distance(fw, n, ns[j])

(***************************************************************************)
(* What the boot leaves to the allocators is right on every machine:       *)
(* ranges that nobody else uses, within the space counted for them, and    *)
(* nodes in the order of their distance (mem_init, numa_init).             *)
(***************************************************************************)
BootExact == BootSafe /\ EstimateHolds /\ NeighboursSorted

(***************************************************************************)
(* "Requires mem_rc to be right at the start of the pointed object"        *)
(* (mem/rc.h): counting references to a range never makes the kernel       *)
(* follow or call a pointer that is none (mem_phys_store_info).            *)
(***************************************************************************)
RangePointersHold == mphase # "wildrange"
=============================================================================
