-------------------------------- MODULE MCKernel --------------------------------
(***************************************************************************)
(* Small instances of the parts that share no state: the variable part     *)
(* says which of them moves, the others stay in an initial state.          *)
(***************************************************************************)
EXTENDS Memory, Paging, InvTlb, Tls, Dynarray, PairingHeap, Targets, RwLock, Balancer

VARIABLE part

(* Machines.  No SRAT: one domain. *)
Use(b, l) == [usable |-> TRUE, base |-> b, length |-> l]
Reserved(b, l) == [usable |-> FALSE, base |-> b, length |-> l]
CpuAt(a, d) == [type |-> "cpu", enabled |-> TRUE, domain |-> d, apic |-> a, base |-> 0, length |-> 0]
MemAt(b, l, d) == [type |-> "mem", enabled |-> TRUE, domain |-> d, apic |-> 0, base |-> b, length |-> l]
Plain == [memmap |-> <<Use(0, 16), Reserved(16, 8), Use(24, 168)>>, srat |-> <<>>,
          slit |-> <<>>, madt |-> <<0, 1>>, bsp |-> 0]
(* Two domains share one usable entry; the SLIT is no good. *)
Shared == [memmap |-> <<Use(0, 224)>>,
           srat |-> <<CpuAt(0, 0), CpuAt(1, 1), MemAt(0, 128, 0), MemAt(128, 96, 1)>>,
           slit |-> <<0, 0>> :> 10 @@ <<0, 1>> :> 10 @@ <<1, 0>> :> 20 @@ <<1, 1>> :> 10,
           madt |-> <<0, 1>>, bsp |-> 0]
(* Domain 1 has a processor and no memory, domain 0 two ranges. *)
Memoryless == [memmap |-> <<Use(0, 16), Use(24, 40), Use(72, 120), Use(192, 64)>>,
               srat |-> <<CpuAt(0, 0), CpuAt(1, 1), MemAt(0, 192, 0), MemAt(192, 64, 2)>>,
               slit |-> [p \in (0..2) \X (0..2) |->
                           IF p[1] = p[2] THEN 10 ELSE IF 0 \in {p[1], p[2]} THEN 30 ELSE 20],
               madt |-> <<0, 1>>, bsp |-> 0]
(* Domain ids with a gap. *)
Gap == [Shared EXCEPT !.srat = <<CpuAt(0, 0), CpuAt(1, 2), MemAt(0, 128, 0), MemAt(128, 96, 2)>>,
                      !.slit = <<>>]
(* There is no path between the domains. *)
Unreachable == [Shared EXCEPT !.slit = [p \in (0..1) \X (0..1) |-> IF p[1] = p[2] THEN 10 ELSE 255]]
(* Too little memory for the kernel, and none for the bootstrap allocator. *)
Little == [Plain EXCEPT !.memmap = <<Use(0, 16), Use(24, 16)>>]
Tiny   == [Plain EXCEPT !.memmap = <<Use(0, 8), Use(24, 2)>>]
MCFirmwares == {Plain, Shared, Memoryless, Gap, Unreachable, Little, Tiny}

(* Two in one table of level 1, and one that shares only a table of level 2 with them. *)
MCVaddrs == {<<0, 0, 0>>, <<0, 0, 1>>, <<0, 1, 0>>}

(* Every list of dependencies without repetitions. *)
MCDeps == {s \in UNION {[1..n -> Targets] : n \in 0..Cardinality(Targets)} :
             \A i, j \in DOMAIN s : i # j => s[i] # s[j]}

-----------------------------------------------------------------------------
KernelInit ==
  /\ part \in {"memory", "paging", "invtlb", "tls", "dynarray", "heap", "targets", "rwlock",
              "balancer"}
  /\ PagingInit /\ TlbInit /\ TlsInit /\ DynInit /\ HeapInit /\ RwInit
  /\ BalInit /\ (part # "balancer" => up = CoreIds)
  /\ MemInit /\ (part # "memory" => fw = Plain /\ ~junk)
  /\ TargetsInit /\ (part # "targets" => \A t \in Targets : deps[t] = <<>>)

KernelNext ==
  \/ /\ part = "memory" /\ MemNext
     /\ UNCHANGED <<part, pagingVars, tlbVars, tlsVars, dynVars, heapVars, targetVars, rwVars, balVars>>
  \/ /\ part = "paging" /\ PagingNext
     /\ UNCHANGED <<part, memVars, tlbVars, tlsVars, dynVars, heapVars, targetVars, rwVars, balVars>>
  \/ /\ part = "invtlb" /\ TlbNext
     /\ UNCHANGED <<part, memVars, pagingVars, tlsVars, dynVars, heapVars, targetVars, rwVars, balVars>>
  \/ /\ part = "tls" /\ TlsNext
     /\ UNCHANGED <<part, memVars, pagingVars, tlbVars, dynVars, heapVars, targetVars, rwVars, balVars>>
  \/ /\ part = "dynarray" /\ DynNext
     /\ UNCHANGED <<part, memVars, pagingVars, tlbVars, tlsVars, heapVars, targetVars, rwVars, balVars>>
  \/ /\ part = "heap" /\ HeapNext
     /\ UNCHANGED <<part, memVars, pagingVars, tlbVars, tlsVars, dynVars, targetVars, rwVars, balVars>>
  \/ /\ part = "targets" /\ TargetsNext
     /\ UNCHANGED <<part, memVars, pagingVars, tlbVars, tlsVars, dynVars, heapVars, rwVars, balVars>>
  \/ /\ part = "rwlock" /\ RwNext
     /\ UNCHANGED <<part, memVars, pagingVars, tlbVars, tlsVars, dynVars, heapVars, targetVars, balVars>>
  \/ /\ part = "balancer" /\ BalNext
     /\ UNCHANGED <<part, memVars, pagingVars, tlbVars, tlsVars, dynVars, heapVars, targetVars, rwVars>>

KernelSpec == KernelInit /\ [][KernelNext]_<<part, memVars, pagingVars, tlbVars, tlsVars, dynVars,
                                             heapVars, targetVars, rwVars, balVars>>
=============================================================================
