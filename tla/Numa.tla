---------------------------------- MODULE Numa ----------------------------------
(***************************************************************************)
(* What the kernel learns from the firmware before it has an allocator:    *)
(* NUMA domains and memory ranges from the SRAT (sys/acpi/numa.c), their   *)
(* distances from the SLIT (sys/acpi/acpi.c), the bootstrap allocator that *)
(* eats into the memory map (mem/bootstrap.c) and the neighbour lists of   *)
(* sys/numa/numa.c.  A firmware is a record                                *)
(*   memmap : sequence of [usable, base, length], ascending                *)
(*   srat   : sequence of [type, enabled, domain, apic, base, length]      *)
(*   slit   : function of pairs of domains                                 *)
(*   madt   : sequence of APIC ids                                         *)
(*   bsp    : APIC id of the boot processor                                *)
(* and a table the firmware does not have is empty.                        *)
(***************************************************************************)
EXTENDS PhysSlab, SequencesExt

CONSTANTS
  BootAlign,    \* the alignment of mem_bootstrap_alloc, 16 bytes
  PHYS_LOW      \* end of low physical memory

ASSUME NumaAssumption == BootAlign \in Nat \ {0} /\ PHYS_LOW \in Nat \ {0}

End(r) == r.base + r.length

Enabled(fw) == SelectSeq(fw.srat, LAMBDA e : e.enabled)
MemEntries(fw) == SelectSeq(Enabled(fw), LAMBDA e : e.type = "mem")

(***************************************************************************)
(* A SLIT is dropped unless it has 10 on its diagonal and more elsewhere.  *)
(* It is read row by row: 255 elsewhere, no path, stops the kernel, if     *)
(* nothing before it made it drop the table.                               *)
(***************************************************************************)
acpi_validate_slit(slit) ==
  LET faults == {p \in DOMAIN slit : IF p[1] = p[2] THEN slit[p] # 10
                                     ELSE slit[p] <= 10 \/ slit[p] = 255}
      first  == CHOOSE p \in faults :
                  \A q \in faults : p[1] < q[1] \/ (p[1] = q[1] /\ p[2] <= q[2])
  IN  IF faults = {} THEN "good"
      ELSE IF first[1] # first[2] /\ slit[first] = 255 THEN "panic" ELSE "dropped"

acpi_numa_get_distance(fw, id1, id2) ==
  IF DOMAIN fw.slit # {} /\ acpi_validate_slit(fw.slit) = "good" THEN fw.slit[id1, id2]
  ELSE IF id1 = id2 THEN 0 ELSE 1

(* The domains in the order of the table, repeated as they are there. *)
acpi_numa_enumerate_at_boot(fw) ==
  IF fw.srat = <<>> THEN <<0>>
  ELSE [i \in DOMAIN Enabled(fw) |-> Enabled(fw)[i].domain]

(* The parts of start..end that the SRAT assigns to a domain. *)
acpi_numa_get_memory_range(fw, start, end) ==
  LET hit(e) == ~(End(e) <= start \/ e.base >= end)
      hits   == SelectSeq(MemEntries(fw), hit)
      whole(s, e, d) == [start |-> align_up(s, PAGE_SIZE),
                         end |-> align_down(e, PAGE_SIZE), node_id |-> d]
  IN  IF fw.srat = <<>> THEN <<whole(start, end, 0)>>
      ELSE [i \in DOMAIN hits |->
              whole(Max({hits[i].base, start}), Min({End(hits[i]), end}), hits[i].domain)]

(* The domains of the processor's entries: the first counts, none is a panic. *)
acpi_numa_apic2numa_id(fw, apic) ==
  IF fw.srat = <<>> THEN <<0>>
  ELSE LET cpus == SelectSeq(Enabled(fw), LAMBDA e : e.type = "cpu" /\ e.apic = apic)
       IN  [i \in DOMAIN cpus |-> cpus[i].domain]

acpi_query_phys_space_size(fw) == Max({0} \cup {End(e) : e \in Range(MemEntries(fw))})

mem_calculate_phys_space_size(fw) ==
  LET srat == acpi_query_phys_space_size(fw)
  IN  align_up(IF srat # 0 THEN srat ELSE Max({0} \cup {End(e) : e \in Range(fw.memmap)}),
               PAGE_SIZE)

-----------------------------------------------------------------------------
(* The bootstrap allocator: border, entry of the memory map, what it gave. *)
mem_bootstrap_alloc_init ==
  [border |-> PHYS_LOW, index |-> 1, given |-> {}, panic |-> FALSE]

(***************************************************************************)
(* The first entry from index on that has room above the border; entries   *)
(* that are too small are left behind for good.  Without one it panics.    *)
(***************************************************************************)
mem_bootstrap_alloc(fw, b, size) ==
  LET real_size == align_up(size, BootAlign)
      from(i) == Max({b.border, align_up(fw.memmap[i].base, BootAlign)})
      fit     == {i \in b.index..Len(fw.memmap) :
                    /\ fw.memmap[i].usable /\ b.border < End(fw.memmap[i])
                    /\ from(i) + real_size <= End(fw.memmap[i])}
      i       == Min(fit)
  IN  IF fit = {} THEN [b EXCEPT !.panic = TRUE]
      ELSE [b EXCEPT !.border = from(i) + real_size, !.index = i,
                     !.given = @ \cup {[addr |-> from(i), size |-> size]}]

mem_bootstrap_terminate_allocator(b) == align_up(b.border, PAGE_SIZE)

-----------------------------------------------------------------------------
numa_nodes_upper_bound(fw) == Max(Range(acpi_numa_enumerate_at_boot(fw))) + 1

Swap(s, i, j) == [s EXCEPT ![i] = s[j], ![j] = s[i]]

(* One round of the selection sort: the first of the nearest comes to i. *)
SelectNearest(fw, id, s, i) ==
  LET d(j) == acpi_numa_get_distance(fw, id, s[j])
  IN  Swap(s, i, Min({j \in i..Len(s) : \A k \in i..Len(s) : d(j) <= d(k)}))

numa_init_neighbour_list(fw, id, initialized) ==
  LET ids == SetToSortSeq(initialized, <)
  IN  FoldLeft(LAMBDA s, i : SelectNearest(fw, id, s, i), ids, [i \in DOMAIN ids |-> i])
=============================================================================
