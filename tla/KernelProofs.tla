------------------------------ MODULE KernelProofs ------------------------------
(***************************************************************************)
(* Dynamic arrays are the sequences they stand for and know their blocks,  *)
(* and a generation of TLB invalidations ends only when all cores that it  *)
(* counted have answered: for any sizes and cores.                         *)
(***************************************************************************)
EXTENDS Dynarray, InvTlb, FiniteSetTheorems, TLAPS

USE SMTT(20), ZenonT(20)

-----------------------------------------------------------------------------
(* Dynamic arrays: data has one cell for each unit of capacity. *)
Cell == Elems \cup {Junk}

DynTypeOK ==
  /\ arr = [count |-> arr.count, capacity |-> arr.capacity, data |-> arr.data]
  /\ arr.count \in Nat /\ arr.capacity \in Nat
  /\ arr.data \in [1..arr.capacity -> Cell]
  /\ elems \in Seq(Cell) /\ block \in Nat

DynIInv == DynTypeOK /\ DynExact /\ DynBlock

LEMMA InitDyn == DynInit => DynIInv
<1> SUFFICES ASSUME DynInit PROVE DynIInv
  OBVIOUS
<1>1. DynTypeOK
  BY DynarrayAssumption DEF DynInit, DynTypeOK, Cell
<1>2. DynExact
  BY DEF DynInit, DynExact
<1>3. DynBlock
  BY DynarrayAssumption DEF DynInit, DynBlock
<1> QED  BY <1>1, <1>2, <1>3 DEF DynIInv

LEMMA RoundsUp ==
  ASSUME NEW n \in Nat, NEW d \in Nat \ {0}
  PROVE  ((n + d - 1) \div d) * d \in Nat /\ ((n + d - 1) \div d) * d >= n
<1> DEFINE a == n + d - 1
           q == a \div d
<1>1. a \in Nat
  OBVIOUS
<1>2. q \in Int /\ a = d * q + (a % d) /\ a % d \in 0..(d - 1)
  BY <1>1
<1>3. q >= 0
  BY <1>1
<1> HIDE DEF q
<1>4. q * d = d * q
  BY <1>2
<1>5. d * q \in Nat
  BY <1>2, <1>3
<1>6. d * q >= n
  BY <1>2, <1>5
<1> QED  BY <1>4, <1>5, <1>6 DEF q

(* What a change of the capacity leaves: all cells there were that still fit. *)
LEMMA ChangeCap ==
  ASSUME DynIInv, NEW newcap \in Nat, NEW ok \in BOOLEAN,
         dynarray_change_cap(newcap, ok).ok
  PROVE  LET r == dynarray_change_cap(newcap, ok)
         IN  /\ r.cap \in Nat /\ r.cap >= newcap /\ r.block \in Nat
             /\ r.data \in [1..r.cap -> Cell]
             /\ \A i \in 1..r.cap : i <= arr.capacity => r.data[i] = arr.data[i]
             /\ BlockOrder(MetaSize + r.cap) = BlockOrder(r.block)
<1> DEFINE r == dynarray_change_cap(newcap, ok)
<1>1. CASE Realloc(MetaSize + newcap, ok)
  <2>1. r = [ok |-> TRUE, cap |-> newcap, data |-> Reshaped(arr.data, newcap),
             block |-> MetaSize + newcap]
    BY <1>1 DEF dynarray_change_cap
  <2>2. Len(arr.data) = arr.capacity
    BY DEF DynIInv, DynTypeOK
  <2>3. Reshaped(arr.data, newcap) \in [1..newcap -> Cell]
    BY <2>2 DEF Reshaped, DynIInv, DynTypeOK, Cell
  <2>4. \A i \in 1..newcap : i <= arr.capacity => Reshaped(arr.data, newcap)[i] = arr.data[i]
    BY <2>2 DEF Reshaped
  <2> HIDE DEF r
  <2>5. r.cap = newcap /\ r.data = Reshaped(arr.data, newcap) /\ r.block = MetaSize + newcap
    BY <2>1
  <2>6. r.cap >= newcap /\ r.block \in Nat
    BY <2>5, DynarrayAssumption
  <2> QED  BY <2>3, <2>4, <2>5, <2>6, Zenon DEF r
<1>2. CASE ~Realloc(MetaSize + newcap, ok)
  <2>1. r = [ok |-> newcap <= arr.capacity, cap |-> arr.capacity, data |-> arr.data,
             block |-> block]
    BY <1>2 DEF dynarray_change_cap
  <2> HIDE DEF r
  <2>2. newcap <= arr.capacity
    <3>1. r.ok
      BY DEF r
    <3> QED  BY <2>1, <3>1, Zenon
  <2> QED  BY <2>1, <2>2 DEF r, DynIInv, DynTypeOK, DynBlock
<1> QED  BY <1>1, <1>2

LEMMA PushDyn ==
  ASSUME DynIInv, NEW e \in Elems, NEW ok \in BOOLEAN, dynarray_push(e, ok)
  PROVE  DynIInv'
<1> DEFINE grown == dynarray_change_cap(arr.capacity + Delta, ok)
<1>0. /\ arr.count \in Nat /\ arr.capacity \in Nat /\ Delta \in Nat \ {0} /\ MetaSize \in Nat
      /\ elems \in Seq(Cell) /\ Len(elems) = arr.count /\ e \in Cell
      /\ arr.data \in [1..arr.capacity -> Cell] /\ block \in Nat /\ arr.count <= arr.capacity
      /\ elems' = Append(elems, e)
  BY DynarrayAssumption DEF DynIInv, DynTypeOK, DynExact, Cell, dynarray_push
<1>1. PICK cap, data :
        /\ cap \in Nat /\ cap > arr.count /\ block' \in Nat /\ data \in [1..cap -> Cell]
        /\ \A i \in 1..cap : i <= arr.capacity => data[i] = arr.data[i]
        /\ BlockOrder(MetaSize + cap) = BlockOrder(block')
        /\ arr' = [count |-> arr.count + 1, capacity |-> cap,
                   data |-> [data EXCEPT ![arr.count + 1] = e]]
  <2>1. CASE arr.count < arr.capacity
    <3>1. /\ arr' = [count |-> arr.count + 1, capacity |-> arr.capacity,
                     data |-> [arr.data EXCEPT ![arr.count + 1] = e]]
          /\ block' = block
      BY <2>1 DEF dynarray_push
    <3>2. BlockOrder(MetaSize + arr.capacity) = BlockOrder(block)
      BY DEF DynIInv, DynBlock
    <3> QED  BY <1>0, <2>1, <3>1, <3>2, Zenon
  <2>2. CASE ~(arr.count < arr.capacity)
    <3>1. /\ grown.ok /\ block' = grown.block
          /\ arr' = [count |-> arr.count + 1, capacity |-> grown.cap,
                     data |-> [grown.data EXCEPT ![arr.count + 1] = e]]
      BY <2>2 DEF dynarray_push
    <3>2. arr.capacity + Delta \in Nat
      BY <1>0
    <3>3. /\ grown.cap \in Nat /\ grown.cap >= arr.capacity + Delta /\ grown.block \in Nat
          /\ grown.data \in [1..grown.cap -> Cell]
          /\ \A i \in 1..grown.cap : i <= arr.capacity => grown.data[i] = arr.data[i]
          /\ BlockOrder(MetaSize + grown.cap) = BlockOrder(grown.block)
      BY <3>1, <3>2, ChangeCap
    <3> HIDE DEF grown
    <3>4. grown.cap > arr.count
      BY <1>0, <3>3
    <3> QED  BY <3>1, <3>3, <3>4, Zenon
  <2> QED  BY <2>1, <2>2
<1>2. DynTypeOK'
  BY <1>0, <1>1 DEF DynTypeOK
<1>3. DynExact'
  <2>1. arr'.count = arr.count + 1 /\ arr'.capacity = cap
    BY <1>1
  <2>2. Len(elems') = arr.count + 1 /\ elems'[arr.count + 1] = e
        /\ \A i \in 1..arr.count : elems'[i] = elems[i]
    BY <1>0
  <2>3. arr'.data[arr.count + 1] = e
    BY <1>0, <1>1
  <2>4. ASSUME NEW i \in 1..arr.count, elems[i] # Junk
        PROVE  arr'.data[i] = elems[i]
    <3>1. arr.data[i] = elems[i]
      BY <2>4 DEF DynIInv, DynExact
    <3>2. i \in 1..cap /\ i <= arr.capacity /\ i # arr.count + 1
      BY <1>0, <1>1
    <3> QED  BY <1>1, <3>1, <3>2
  <2> QED  BY <1>0, <1>1, <2>1, <2>2, <2>3, <2>4 DEF DynExact
<1>4. DynBlock'
  BY <1>1 DEF DynBlock, BlockOrder
<1> QED  BY <1>2, <1>3, <1>4 DEF DynIInv

LEMMA ResizeDyn ==
  ASSUME DynIInv, NEW n \in 0..MaxLength, NEW ok \in BOOLEAN, dynarray_resize(n, ok)
  PROVE  DynIInv'
<1> DEFINE newcap == ((n + Delta - 1) \div Delta) * Delta
           moved  == dynarray_change_cap(newcap, ok)
<1>0. /\ arr.count \in Nat /\ arr.capacity \in Nat /\ n \in Nat
      /\ elems \in Seq(Cell) /\ Len(elems) = arr.count
      /\ arr.data \in [1..arr.capacity -> Cell] /\ block \in Nat /\ arr.count <= arr.capacity
      /\ arr = [count |-> arr.count, capacity |-> arr.capacity, data |-> arr.data]
      /\ elems' = [i \in 1..n |-> IF i <= Len(elems) THEN elems[i] ELSE Junk]
  BY DynarrayAssumption DEF DynIInv, DynTypeOK, DynExact, dynarray_resize
<1>n. newcap \in Nat /\ newcap >= n
  BY <1>0, DynarrayAssumption, RoundsUp
<1>1. PICK cap, data :
        /\ cap \in Nat /\ cap >= n /\ block' \in Nat /\ data \in [1..cap -> Cell]
        /\ \A i \in 1..cap : i <= arr.capacity => data[i] = arr.data[i]
        /\ BlockOrder(MetaSize + cap) = BlockOrder(block')
        /\ arr' = [count |-> n, capacity |-> cap, data |-> data]
  <2>1. CASE newcap = arr.capacity
    <3>1. arr' = [arr EXCEPT !.count = n] /\ block' = block
      BY <2>1 DEF dynarray_resize
    <3> HIDE DEF newcap
    <3>2. arr' = [count |-> n, capacity |-> arr.capacity, data |-> arr.data]
      BY <1>0, <3>1
    <3>3. BlockOrder(MetaSize + arr.capacity) = BlockOrder(block) /\ arr.capacity >= n
      BY <1>n, <2>1 DEF DynIInv, DynBlock
    <3> QED  BY <1>0, <3>1, <3>2, <3>3, Zenon
  <2>2. CASE newcap # arr.capacity
    <3>1. /\ moved.ok /\ block' = moved.block
          /\ arr' = [count |-> n, capacity |-> moved.cap, data |-> moved.data]
      BY <2>2 DEF dynarray_resize
    <3> HIDE DEF newcap
    <3>2. /\ moved.cap \in Nat /\ moved.cap >= newcap /\ moved.block \in Nat
          /\ moved.data \in [1..moved.cap -> Cell]
          /\ \A i \in 1..moved.cap : i <= arr.capacity => moved.data[i] = arr.data[i]
          /\ BlockOrder(MetaSize + moved.cap) = BlockOrder(moved.block)
      BY <1>n, <3>1, ChangeCap
    <3> HIDE DEF moved
    <3>3. moved.cap >= n
      BY <1>0, <1>n, <3>2
    <3> QED  BY <3>1, <3>2, <3>3, Zenon
  <2> QED  BY <2>1, <2>2
<1> HIDE DEF newcap, moved
<1>2. Len(elems') = n /\ elems' \in Seq(Cell)
  <2>1. \A i \in 1..n : (IF i <= Len(elems) THEN elems[i] ELSE Junk) \in Cell
    BY <1>0 DEF Cell
  <2>2. elems' \in [1..n -> Cell]
    BY <1>0, <2>1, Zenon
  <2> QED  BY <1>0, <2>2
<1>3. DynTypeOK'
  BY <1>0, <1>1, <1>2 DEF DynTypeOK
<1>4. DynExact'
  <2>1. arr'.count = n /\ arr'.capacity = cap /\ arr'.data = data
    BY <1>1
  <2>2. ASSUME NEW i \in 1..n, elems'[i] # Junk
        PROVE  data[i] = elems'[i]
    <3>1. i <= arr.count /\ elems'[i] = elems[i]
      BY <1>0, <2>2
    <3>2. arr.data[i] = elems[i]
      BY <1>0, <2>2, <3>1 DEF DynIInv, DynExact
    <3> QED  BY <1>0, <1>1, <3>1, <3>2
  <2>3. n = Len(elems') /\ n <= cap
    BY <1>1, <1>2
  <2> QED  BY <2>1, <2>2, <2>3, Zenon DEF DynExact
<1>5. DynBlock'
  BY <1>1 DEF DynBlock, BlockOrder
<1> QED  BY <1>3, <1>4, <1>5 DEF DynIInv

(* The inductive invariant of lib/dynarray.h. *)
THEOREM DynarrayInvariant == DynSpec => []DynIInv
<1>1. DynIInv /\ [DynNext]_dynVars => DynIInv'
  <2> SUFFICES ASSUME DynIInv, [DynNext]_dynVars PROVE DynIInv'
    OBVIOUS
  <2>1. CASE DynNext
    BY <2>1, PushDyn, ResizeDyn DEF DynNext
  <2>2. CASE UNCHANGED dynVars
    BY <2>2 DEF dynVars, DynIInv, DynTypeOK, DynExact, DynBlock, BlockOrder, Cell
  <2> QED  BY <2>1, <2>2
<1> QED  BY <1>1, InitDyn, PTL DEF DynSpec

(***************************************************************************)
(* A dynamic array of lib/dynarray.h is its sequence and knows the order   *)
(* of the block it lies in, whatever the heap refuses on the way, for any  *)
(* elements, growth and size of the header.                                *)
(***************************************************************************)
THEOREM DynarrayIsExact == DynSpec => []DynarrayExact
<1>1. DynIInv => DynarrayExact
  BY DEF DynIInv, DynarrayExact
<1> QED  BY <1>1, DynarrayInvariant, PTL

-----------------------------------------------------------------------------
(* Invalidation of TLBs: the lock is held between the two stores of a request, and *)
(* by a core that goes idle.                                                       *)
TlbTypeOK ==
  /\ pending_state \in {0, 1} /\ states \in [TlbCores -> {0, 1, IDLE}]
  /\ idle_cores \in Int /\ pending_tlb_updates \in Int /\ ~pending
  /\ tlock \subseteq TlbCores
  /\ tpc \in [TlbCores -> {"run", "ack", "gen", "idleack", "idlegen", "idle", "request", "requested"}]
  /\ loaded \in [TlbCores -> {0, 1}]
  /\ owed \subseteq TlbCores /\ again \subseteq TlbCores

Idlers == {c \in TlbCores : states[c] = IDLE}

IdleCounted ==
  /\ \A c \in TlbCores : states[c] = IDLE <=> tpc[c] = "idle"
  /\ idle_cores = Cardinality(Idlers)

LockHeld ==
  /\ \A c \in TlbCores : tpc[c] \in {"request", "idleack", "idlegen"} <=> tlock = {c}
  /\ \A c \in TlbCores : tpc[c] \in {"idleack", "idlegen"} => states[c] # pending_state
  /\ tlock = {} \/ \E c \in TlbCores : tlock = {c}

(* The counter is right as long as nobody has answered twice. *)
Counted == again = {} => pending_tlb_updates = Cardinality(owed)

Requesting == \E c \in TlbCores : tpc[c] = "request"

(* Before the flip nobody is due; after it exactly those are who have not answered, *)
(* and a core that has read the state from before the flip is one of them.          *)
Answering ==
  /\ again = {}
  /\ Requesting => /\ owed = TlbCores \ Idlers
                   /\ \A d \in owed : /\ states[d] # pending_state
                                      /\ tpc[d] = "ack" => loaded[d] = pending_state
  /\ ~Requesting => /\ \A d \in TlbCores : d \in owed <=> states[d] = pending_state
                    /\ \A d \in TlbCores \ owed : tpc[d] = "ack" => loaded[d] = pending_state

TlbIInv == TlbTypeOK /\ IdleCounted /\ LockHeld /\ Counted /\ (clean => Answering)

(* At most one core holds the lock. *)
LEMMA Locked ==
  ASSUME LockHeld
  PROVE  /\ tlock = {} => \A c \in TlbCores : tpc[c] \notin {"request", "idleack", "idlegen"}
         /\ \A c \in TlbCores : tpc[c] \in {"request", "idleack", "idlegen"} => tlock = {c}
         /\ \A c, d \in TlbCores : tpc[c] \in {"request", "idleack", "idlegen"} /\ d # c
                                  => tpc[d] \notin {"request", "idleack", "idlegen"}
<1>1. \A c \in TlbCores : tpc[c] \in {"request", "idleack", "idlegen"} <=> tlock = {c}
  BY Zenon DEF LockHeld
<1>2. ASSUME NEW c, NEW d PROVE {c} # {} /\ ({c} = {d} => c = d)
  BY Zenon
<1> QED  BY <1>1, <1>2, Zenon

LEMMA InitTlb == TlbInit => TlbIInv
<1> SUFFICES ASSUME TlbInit PROVE TlbIInv
  OBVIOUS
<1>1. TlbTypeOK
  BY DEF TlbInit, TlbTypeOK, IDLE
<1>2. Idlers = {}
  BY DEF TlbInit, Idlers, IDLE
<1>3. IdleCounted
  <2>1. idle_cores = Cardinality(Idlers)
    BY <1>2, FS_EmptySet DEF TlbInit
  <2>2. \A c \in TlbCores : states[c] = 0 /\ tpc[c] = "run"
    BY DEF TlbInit
  <2>3. IDLE # 0
    BY DEF IDLE
  <2> QED  BY <2>1, <2>2, <2>3 DEF IdleCounted
<1>4. LockHeld
  BY DEF TlbInit, LockHeld
<1>5. Counted
  BY FS_EmptySet DEF TlbInit, Counted
<1> QED  BY <1>1, <1>3, <1>4, <1>5 DEF TlbIInv, TlbInit

(* Sets of cores, one core more and one less. *)
LEMMA CoreSets ==
  ASSUME NEW S \in SUBSET TlbCores
  PROVE  /\ IsFiniteSet(S) /\ Cardinality(S) \in Nat /\ Cardinality(S) < CounterMod
         /\ Cardinality(TlbCores \ S) = Cardinality(TlbCores) - Cardinality(S)
         /\ Cardinality(TlbCores) \in Nat
         /\ Cardinality(S) = 0 <=> S = {}
         /\ \A c \in S : Cardinality(S \ {c}) = Cardinality(S) - 1
         /\ \A c \in TlbCores \ S : Cardinality(S \cup {c}) = Cardinality(S) + 1
<1>0. IsFiniteSet(TlbCores) /\ CounterMod \in Nat /\ Cardinality(TlbCores) < CounterMod
  BY InvTlbAssumption
<1>1. IsFiniteSet(S) /\ Cardinality(S) <= Cardinality(TlbCores)
  BY <1>0, FS_Subset
<1>2. Cardinality(S) \in Nat /\ Cardinality(TlbCores) \in Nat
  BY <1>0, <1>1, FS_CardinalityType
<1>3. Cardinality(S) = 0 <=> S = {}
  BY <1>1, FS_EmptySet
<1>4. \A c \in S : Cardinality(S \ {c}) = Cardinality(S) - 1
  BY <1>1, FS_RemoveElement
<1>5. \A c \in TlbCores \ S : Cardinality(S \cup {c}) = Cardinality(S) + 1
  BY <1>1, FS_AddElement
<1>6. Cardinality(TlbCores \ S) = Cardinality(TlbCores) - Cardinality(S)
  <2>1. TlbCores \cap S = S
    OBVIOUS
  <2> QED  BY <1>0, <2>1, FS_Difference
<1>7. Cardinality(S) < CounterMod
  BY <1>0, <1>1, <1>2
<1> QED  BY <1>1, <1>2, <1>3, <1>4, <1>5, <1>6, <1>7

LEMMA CountsModulo == \A x \in Int : x % CounterMod \in Int
<1>1. CounterMod \in Nat \ {0}
  <2>1. Cardinality(TlbCores) \in Nat
    BY InvTlbAssumption, FS_CardinalityType
  <2> QED  BY <2>1, InvTlbAssumption
<1> QED  BY <1>1

(* The answer that brings the counter to zero is the last one owed. *)
LEMMA Countdown ==
  ASSUME TlbTypeOK, pending_tlb_updates = Cardinality(owed), NEW c \in owed
  PROVE  /\ (pending_tlb_updates - 1) % CounterMod = Cardinality(owed \ {c})
         /\ LastAnswer <=> owed \ {c} = {}
<1>1. owed \in SUBSET TlbCores /\ owed \ {c} \in SUBSET TlbCores
  BY DEF TlbTypeOK
<1> DEFINE k == Cardinality(owed \ {c})
<1>2. k \in Nat /\ k < CounterMod /\ pending_tlb_updates - 1 = k /\ (k = 0 <=> owed \ {c} = {})
  <2>1. Cardinality(owed \ {c}) = Cardinality(owed) - 1 /\ Cardinality(owed) \in Nat
    BY <1>1, CoreSets, Zenon
  <2>2. Cardinality(owed \ {c}) \in Nat /\ Cardinality(owed \ {c}) < CounterMod
        /\ (Cardinality(owed \ {c}) = 0 <=> owed \ {c} = {})
    BY <1>1, CoreSets, Zenon
  <2> QED  BY <2>1, <2>2
<1> HIDE DEF k
<1>3. k % CounterMod = k
  BY <1>2, InvTlbAssumption
<1> QED  BY <1>2, <1>3 DEF k, LastAnswer

LEMMA AckLoadTlb == ASSUME TlbIInv, NEW c \in TlbCores, AckLoad(c) PROVE TlbIInv'
<1>0. /\ tpc[c] \in {"run", "requested"} /\ tpc' = [tpc EXCEPT ![c] = "ack"]
      /\ loaded' = [loaded EXCEPT ![c] = pending_state]
      /\ UNCHANGED <<pending_state, states, idle_cores, pending_tlb_updates, pending,
                     tlock, requests, owed, again, clean>>
  BY DEF AckLoad, Goes
<1>1. TlbTypeOK'
  BY <1>0 DEF TlbIInv, TlbTypeOK
<1>2. IdleCounted'
  BY <1>0 DEF TlbIInv, TlbTypeOK, IdleCounted, Idlers
<1>3. LockHeld'
  BY <1>0 DEF TlbIInv, TlbTypeOK, LockHeld
<1>4. Counted'
  BY <1>0 DEF TlbIInv, Counted
<1>5. ASSUME clean PROVE Answering'
  <2>1. Requesting' <=> Requesting
    BY <1>0 DEF TlbIInv, TlbTypeOK, Requesting
  <2> QED  BY <1>0, <1>5, <2>1 DEF TlbIInv, TlbTypeOK, Answering, Idlers
<1> QED  BY <1>0, <1>1, <1>2, <1>3, <1>4, <1>5 DEF TlbIInv

(***************************************************************************)
(* What an answer does, whether the core switches tasks (it has loaded the *)
(* state before) or goes idle (it holds the lock).                         *)
(***************************************************************************)
Answerer(c, seen) ==
  /\ states[c] # IDLE /\ seen \in {0, 1}
  /\ clean /\ Due(c, seen) => c \in owed /\ ~Requesting /\ seen = pending_state

(* A core that owes an answer and has loaded the pending state is due. *)
LEMMA AckAnswers ==
  ASSUME TlbIInv, NEW c \in TlbCores, tpc[c] = "ack"
  PROVE  Answerer(c, loaded[c])
<1>1. states[c] # IDLE /\ loaded[c] \in {0, 1}
  BY DEF TlbIInv, IdleCounted, TlbTypeOK
<1>2. ASSUME clean, states[c] = loaded[c]
      PROVE  c \in owed /\ ~Requesting /\ loaded[c] = pending_state
  <2>1. ~Requesting
    BY <1>1, <1>2 DEF TlbIInv, Answering, Idlers
  <2>2. /\ \A d \in TlbCores : d \in owed <=> states[d] = pending_state
        /\ \A d \in TlbCores \ owed : tpc[d] = "ack" => loaded[d] = pending_state
    BY <1>2, <2>1 DEF TlbIInv, Answering
  <2> QED  BY <1>2, <2>1, <2>2
<1> QED  BY <1>1, <1>2 DEF Answerer, Due

(* So is one that holds the lock when its state is the pending one. *)
LEMMA IdleAnswers ==
  ASSUME TlbIInv, NEW c \in TlbCores, tpc[c] = "run", tlock = {}
  PROVE  Answerer(c, pending_state)
<1>1. states[c] # IDLE /\ pending_state \in {0, 1}
  BY DEF TlbIInv, IdleCounted, TlbTypeOK
<1>2. ~Requesting
  BY Locked DEF TlbIInv, Requesting
<1>3. ASSUME clean, states[c] = pending_state PROVE c \in owed
  BY <1>2, <1>3 DEF TlbIInv, Answering
<1> QED  BY <1>1, <1>2, <1>3 DEF Answerer, Due

LEMMA AnswerTlb ==
  ASSUME TlbIInv, NEW c \in TlbCores, NEW seen, Answerer(c, seen), GiveAnswer(c, seen),
         pending_state' = pending_state, clean' = clean
  PROVE  /\ states' = [states EXCEPT ![c] = states'[c]] /\ states'[c] \in {0, 1} /\ states'[c] # seen
         /\ Idlers' = Idlers
         /\ pending_tlb_updates' \in Int /\ owed' \subseteq TlbCores /\ again' \subseteq TlbCores
         /\ Counted'
         /\ Due(c, seen) /\ LastAnswer => owed' = {} \/ (again' # {} /\ ~clean)
         /\ clean => /\ again' = {}
                     /\ ~Requesting => \A d \in TlbCores : d \in owed' <=> states'[d] = pending_state
                     /\ Requesting => owed' = owed /\ states' = states
<1>1. states[c] # IDLE /\ seen \in {0, 1} /\ flip(seen) \in {0, 1} /\ flip(seen) # seen
      /\ IDLE \notin {0, 1}
  BY DEF Answerer, flip, IDLE
<1>2. states' = [states EXCEPT ![c] = IF Due(c, seen) THEN flip(seen) ELSE @]
  BY DEF GiveAnswer
<1>3. states' = [states EXCEPT ![c] = states'[c]] /\ states'[c] \in {0, 1} /\ states'[c] # IDLE
      /\ states'[c] # seen
  BY <1>1, <1>2 DEF TlbIInv, TlbTypeOK, Due
<1>4. Idlers' = Idlers
  BY <1>1, <1>3 DEF TlbIInv, TlbTypeOK, Idlers
<1>5. CASE ~Due(c, seen)
  <2>1. UNCHANGED <<pending_tlb_updates, owed, again>> /\ states' = states
    BY <1>2, <1>5 DEF GiveAnswer, CountDown, TlbIInv, TlbTypeOK
  <2> QED  BY <1>3, <1>4, <1>5, <2>1 DEF TlbIInv, TlbTypeOK, Counted, Answering
<1>6. CASE Due(c, seen)
  <2>1. /\ pending_tlb_updates' = (pending_tlb_updates - 1) % CounterMod
        /\ owed' = owed \ {c}
        /\ again' = IF c \in owed THEN again ELSE again \cup {c}
    BY <1>6 DEF GiveAnswer, CountDown
  <2>2. pending_tlb_updates' \in Int /\ owed' \subseteq TlbCores /\ again' \subseteq TlbCores
    <3>1. (pending_tlb_updates - 1) % CounterMod \in Int
      BY CountsModulo DEF TlbIInv, TlbTypeOK
    <3> QED  BY <2>1, <3>1 DEF TlbIInv, TlbTypeOK
  <2>3. ASSUME again' = {}
        PROVE  pending_tlb_updates' = Cardinality(owed') /\ (LastAnswer <=> owed' = {})
    <3>1. c \in owed /\ again = {}
      BY <2>1, <2>3
    <3>2. pending_tlb_updates = Cardinality(owed)
      BY <3>1 DEF TlbIInv, Counted
    <3> QED  BY <2>1, <3>1, <3>2, Countdown DEF TlbIInv
  <2>4. ASSUME clean
        PROVE  /\ again' = {} /\ seen = pending_state /\ ~Requesting
               /\ \A d \in TlbCores : d \in owed' <=> states'[d] = pending_state
    <3>1. c \in owed /\ ~Requesting /\ seen = pending_state
      BY <1>6, <2>4 DEF Answerer
    <3>2. again' = {} /\ \A d \in TlbCores : d \in owed <=> states[d] = pending_state
      BY <2>1, <2>4, <3>1 DEF TlbIInv, Answering
    <3> QED  BY <1>3, <2>1, <3>1, <3>2 DEF TlbIInv, TlbTypeOK
  <2>5. Counted'
    BY <2>3 DEF Counted
  <2> QED  BY <1>3, <1>4, <2>1, <2>2, <2>3, <2>4, <2>5, Zenon
<1> QED  BY <1>5, <1>6

LEMMA AckTlb ==
  ASSUME TlbIInv, NEW c \in TlbCores, mem_virt_invtlb_ack(c)
  PROVE  TlbIInv' /\ (tpc'[c] \in Ending => owed' = {} \/ (again' # {} /\ ~clean))
<1>0. /\ tpc[c] = "ack" /\ tpc' = [tpc EXCEPT ![c] = IF Due(c, loaded[c]) /\ LastAnswer THEN "gen" ELSE "run"]
      /\ GiveAnswer(c, loaded[c])
      /\ UNCHANGED <<pending_state, idle_cores, pending, tlock, loaded, requests, clean>>
  BY DEF mem_virt_invtlb_ack, Goes
<1>t. tpc' = [tpc EXCEPT ![c] = tpc'[c]] /\ tpc'[c] \in {"gen", "run"}
      /\ (tpc'[c] = "gen" <=> Due(c, loaded[c]) /\ LastAnswer)
  BY <1>0 DEF TlbIInv, TlbTypeOK
<1>1. Answerer(c, loaded[c])
  BY <1>0, AckAnswers
<1>2. /\ states' = [states EXCEPT ![c] = states'[c]] /\ states'[c] \in {0, 1}
      /\ Idlers' = Idlers
      /\ pending_tlb_updates' \in Int /\ owed' \subseteq TlbCores /\ again' \subseteq TlbCores
      /\ Counted'
      /\ Due(c, loaded[c]) /\ LastAnswer => owed' = {} \/ (again' # {} /\ ~clean)
  BY <1>0, <1>1, AnswerTlb
<1>3. TlbTypeOK'
  BY <1>0, <1>t, <1>2 DEF TlbIInv, TlbTypeOK
<1>4. IdleCounted'
  <2>1. states[c] # IDLE /\ IDLE \notin {0, 1}
    BY <1>1 DEF Answerer, IDLE
  <2> QED  BY <1>0, <1>t, <1>2, <2>1 DEF TlbIInv, TlbTypeOK, IdleCounted
<1>5. LockHeld'
  BY <1>0, <1>t, <1>2 DEF TlbIInv, TlbTypeOK, LockHeld
<1>6. ASSUME clean PROVE Answering'
  <2>1. /\ again' = {}
        /\ ~Requesting => \A d \in TlbCores : d \in owed' <=> states'[d] = pending_state
        /\ Requesting => owed' = owed /\ states' = states
    BY <1>0, <1>1, <1>6, AnswerTlb
  <2>2. Requesting' <=> Requesting
    BY <1>0, <1>t DEF TlbIInv, TlbTypeOK, Requesting
  <2>3. CASE Requesting
    BY <1>0, <1>t, <1>2, <1>6, <2>1, <2>2, <2>3 DEF TlbIInv, TlbTypeOK, Answering
  <2>4. CASE ~Requesting
    <3>1. owed \ owed' \subseteq {c}
      BY <1>0 DEF GiveAnswer, CountDown
    <3>2. ASSUME NEW d \in TlbCores \ owed', tpc'[d] = "ack" PROVE loaded'[d] = pending_state'
      BY <1>0, <1>t, <1>6, <2>4, <3>1, <3>2 DEF TlbIInv, TlbTypeOK, Answering
    <3> QED  BY <1>0, <2>1, <2>2, <2>4, <3>2 DEF Answering
  <2> QED  BY <2>3, <2>4
<1>7. tpc'[c] \in Ending => owed' = {} \/ (again' # {} /\ ~clean)
  BY <1>t, <1>2 DEF Ending
<1> QED  BY <1>0, <1>2, <1>3, <1>4, <1>5, <1>6, <1>7 DEF TlbIInv

LEMMA IdleAnswerTlb ==
  ASSUME TlbIInv, NEW c \in TlbCores, IdleAnswer(c)
  PROVE  TlbIInv' /\ (tpc'[c] \in Ending => owed' = {} \/ (again' # {} /\ ~clean))
<1>0. /\ tpc[c] = "run" /\ tlock = {} /\ tlock' = {c}
      /\ tpc' = [tpc EXCEPT ![c] = IF Due(c, pending_state) /\ LastAnswer THEN "idlegen" ELSE "idleack"]
      /\ GiveAnswer(c, pending_state)
      /\ UNCHANGED <<pending_state, idle_cores, pending, loaded, requests, clean>>
  BY DEF IdleAnswer, Goes
<1>t. tpc' = [tpc EXCEPT ![c] = tpc'[c]] /\ tpc'[c] \in {"idlegen", "idleack"}
      /\ (tpc'[c] = "idlegen" <=> Due(c, pending_state) /\ LastAnswer)
  BY <1>0 DEF TlbIInv, TlbTypeOK
<1>1. Answerer(c, pending_state)
  BY <1>0, IdleAnswers
<1>2. /\ states' = [states EXCEPT ![c] = states'[c]] /\ states'[c] \in {0, 1}
      /\ states'[c] # pending_state
      /\ Idlers' = Idlers
      /\ pending_tlb_updates' \in Int /\ owed' \subseteq TlbCores /\ again' \subseteq TlbCores
      /\ Counted'
      /\ Due(c, pending_state) /\ LastAnswer => owed' = {} \/ (again' # {} /\ ~clean)
  BY <1>0, <1>1, AnswerTlb
<1>3. TlbTypeOK'
  BY <1>0, <1>t, <1>2 DEF TlbIInv, TlbTypeOK
<1>4. IdleCounted'
  <2>1. states[c] # IDLE /\ IDLE \notin {0, 1}
    BY <1>1 DEF Answerer, IDLE
  <2> QED  BY <1>0, <1>t, <1>2, <2>1 DEF TlbIInv, TlbTypeOK, IdleCounted
<1>5. LockHeld'
  BY <1>0, <1>t, <1>2 DEF TlbIInv, TlbTypeOK, LockHeld
<1>6. ASSUME clean PROVE Answering'
  <2>1. ~Requesting /\ ~Requesting'
    BY <1>0, <1>t, Locked DEF TlbIInv, TlbTypeOK, Requesting
  <2>2. again' = {} /\ \A d \in TlbCores : d \in owed' <=> states'[d] = pending_state
    BY <1>0, <1>1, <1>6, <2>1, AnswerTlb
  <2>3. owed \ owed' \subseteq {c}
    BY <1>0 DEF GiveAnswer, CountDown
  <2>4. ASSUME NEW d \in TlbCores \ owed', tpc'[d] = "ack" PROVE loaded'[d] = pending_state'
    BY <1>0, <1>t, <1>6, <2>1, <2>3, <2>4 DEF TlbIInv, TlbTypeOK, Answering
  <2> QED  BY <1>0, <2>1, <2>2, <2>4 DEF Answering
<1>7. tpc'[c] \in Ending => owed' = {} \/ (again' # {} /\ ~clean)
  BY <1>t, <1>2 DEF Ending
<1> QED  BY <1>0, <1>2, <1>3, <1>4, <1>5, <1>6, <1>7 DEF TlbIInv

LEMMA IdleEnterTlb ==
  ASSUME TlbIInv, NEW c \in TlbCores, mem_virt_invtlb_on_idle_enter(c) PROVE TlbIInv'
<1>0. /\ tpc[c] \in {"idlegen", "idleack"} /\ tpc' = [tpc EXCEPT ![c] = "idle"]
      /\ ~pending' /\ tlock = {c} /\ tlock' = {}
      /\ states' = [states EXCEPT ![c] = IDLE] /\ idle_cores' = idle_cores + 1
      /\ UNCHANGED <<pending_state, pending_tlb_updates, loaded, requests, owed, again, clean>>
  BY Locked DEF mem_virt_invtlb_on_idle_enter, Goes, TlbIInv, TlbTypeOK
<1>1. states[c] # IDLE
  BY <1>0 DEF TlbIInv, IdleCounted
<1>2. TlbTypeOK'
  BY <1>0 DEF TlbIInv, TlbTypeOK
<1>3. IdleCounted'
  <2>1. Idlers' = Idlers \cup {c} /\ c \in TlbCores \ Idlers /\ Idlers \in SUBSET TlbCores
    BY <1>0, <1>1 DEF TlbIInv, TlbTypeOK, Idlers
  <2>2. Cardinality(Idlers') = Cardinality(Idlers) + 1
    BY <2>1, CoreSets, Zenon
  <2>3. idle_cores' = Cardinality(Idlers')
    BY <1>0, <2>2 DEF TlbIInv, IdleCounted
  <2> QED  BY <1>0, <2>3 DEF TlbIInv, TlbTypeOK, IdleCounted
<1>4. LockHeld'
  BY <1>0 DEF TlbIInv, TlbTypeOK, LockHeld
<1>5. Counted'
  BY <1>0 DEF TlbIInv, Counted
<1>6. ASSUME clean PROVE Answering'
  <2>1. ~Requesting /\ ~Requesting'
    BY <1>0, Locked DEF TlbIInv, TlbTypeOK, Requesting
  <2>2. pending_state # IDLE /\ states[c] # pending_state
    BY <1>0 DEF TlbIInv, TlbTypeOK, LockHeld, IDLE
  <2>3. ASSUME NEW d \in TlbCores
        PROVE  (d \in owed' <=> states'[d] = pending_state')
               /\ (d \notin owed' /\ tpc'[d] = "ack" => loaded'[d] = pending_state')
    BY <1>0, <1>6, <2>1, <2>2 DEF TlbIInv, TlbTypeOK, Answering
  <2> QED  BY <1>0, <1>6, <2>1, <2>3 DEF TlbIInv, Answering
<1> QED  BY <1>0, <1>2, <1>3, <1>4, <1>5, <1>6 DEF TlbIInv

LEMMA IdleExitTlb ==
  ASSUME TlbIInv, NEW c \in TlbCores, mem_virt_invtlb_on_idle_exit(c) PROVE TlbIInv'
<1>0. /\ tpc[c] = "idle" /\ tpc' = [tpc EXCEPT ![c] = "run"] /\ tlock = {}
      /\ states' = [states EXCEPT ![c] = flip(pending_state)] /\ idle_cores' = idle_cores - 1
      /\ UNCHANGED <<pending_state, pending_tlb_updates, pending, tlock, loaded, requests, owed, again, clean>>
  BY DEF mem_virt_invtlb_on_idle_exit, Goes
<1>1. /\ states[c] = IDLE /\ flip(pending_state) \in {0, 1} /\ flip(pending_state) # pending_state
      /\ IDLE \notin {0, 1} /\ pending_state \in {0, 1}
  BY <1>0 DEF TlbIInv, TlbTypeOK, IdleCounted, IDLE, flip
<1>2. TlbTypeOK'
  BY <1>0, <1>1 DEF TlbIInv, TlbTypeOK
<1>3. IdleCounted'
  <2>1. Idlers' = Idlers \ {c} /\ c \in Idlers /\ Idlers \in SUBSET TlbCores
    BY <1>0, <1>1 DEF TlbIInv, TlbTypeOK, Idlers
  <2>2. Cardinality(Idlers') = Cardinality(Idlers) - 1
    BY <2>1, CoreSets, Zenon
  <2>3. idle_cores' = Cardinality(Idlers')
    BY <1>0, <2>2 DEF TlbIInv, IdleCounted
  <2> QED  BY <1>0, <1>1, <2>3 DEF TlbIInv, TlbTypeOK, IdleCounted
<1>4. LockHeld'
  BY <1>0 DEF TlbIInv, TlbTypeOK, LockHeld
<1>5. ASSUME clean PROVE Answering'
  <2>1. ~Requesting /\ ~Requesting'
    BY <1>0, Locked DEF TlbIInv, TlbTypeOK, Requesting
  <2>2. ASSUME NEW d \in TlbCores
        PROVE  (d \in owed' <=> states'[d] = pending_state')
               /\ (d \notin owed' /\ tpc'[d] = "ack" => loaded'[d] = pending_state')
    BY <1>0, <1>1, <1>5, <2>1 DEF TlbIInv, TlbTypeOK, Answering
  <2> QED  BY <1>0, <1>5, <2>1, <2>2 DEF TlbIInv, Answering
<1>6. Counted'
  BY <1>0 DEF TlbIInv, Counted
<1> QED  BY <1>0, <1>2, <1>3, <1>4, <1>5, <1>6 DEF TlbIInv

LEMMA StoreTlb == ASSUME TlbIInv, NEW c \in TlbCores, RequestStore(c) PROVE TlbIInv'
<1> DEFINE busy == {d \in TlbCores : states[d] # IDLE}
<1>0. /\ tpc[c] = "run" /\ tpc' = [tpc EXCEPT ![c] = "request"] /\ tlock = {} /\ tlock' = {c}
      /\ pending_tlb_updates' = Cardinality(TlbCores) - idle_cores
      /\ owed' = busy /\ again' = {}
      /\ (clean' <=> \A d \in busy : states[d] # pending_state /\ tpc[d] # "ack")
      /\ UNCHANGED <<pending_state, states, idle_cores, pending, loaded>>
  BY Zenon DEF RequestStore, Goes, TlbIInv, TlbTypeOK
<1>1. busy = TlbCores \ Idlers /\ Idlers \in SUBSET TlbCores /\ Idlers' = Idlers
  BY <1>0 DEF Idlers
<1>2. /\ Cardinality(TlbCores) \in Nat /\ idle_cores = Cardinality(Idlers)
      /\ Cardinality(busy) = Cardinality(TlbCores) - Cardinality(Idlers)
  BY <1>1, CoreSets, Zenon DEF TlbIInv, IdleCounted
<1>3. TlbTypeOK'
  BY <1>0, <1>2 DEF TlbIInv, TlbTypeOK
<1>4. IdleCounted'
  BY <1>0, <1>1 DEF TlbIInv, TlbTypeOK, IdleCounted
<1>5. LockHeld'
  BY <1>0 DEF TlbIInv, TlbTypeOK, LockHeld
<1>6. ASSUME clean' PROVE Answering'
  <2>1. Requesting'
    BY <1>0 DEF TlbIInv, TlbTypeOK, Requesting
  <2>2. ASSUME NEW d \in busy PROVE states[d] # pending_state /\ tpc'[d] # "ack"
    BY <1>0, <1>6 DEF TlbIInv, TlbTypeOK
  <2> QED  BY <1>0, <1>1, <2>1, <2>2 DEF Answering
<1>7. Counted'
  BY <1>0, <1>2 DEF Counted
<1> QED  BY <1>3, <1>4, <1>5, <1>6, <1>7 DEF TlbIInv

LEMMA FlipTlb == ASSUME TlbIInv, NEW c \in TlbCores, RequestFlip(c) PROVE TlbIInv'
<1>0. /\ tpc[c] = "request" /\ tpc' = [tpc EXCEPT ![c] = "requested"] /\ tlock = {c} /\ tlock' = {}
      /\ pending_state' = flip(pending_state)
      /\ UNCHANGED <<states, idle_cores, pending_tlb_updates, pending, loaded, requests, owed, again, clean>>
  BY Locked DEF RequestFlip, Goes, TlbIInv
<1>1. /\ pending_state \in {0, 1} /\ pending_state' \in {0, 1} /\ pending_state' # pending_state
      /\ IDLE \notin {0, 1} /\ \A d \in TlbCores : states[d] \in {0, 1, IDLE}
  BY <1>0 DEF TlbIInv, TlbTypeOK, flip, IDLE
<1>2. TlbTypeOK'
  BY <1>0, <1>1 DEF TlbIInv, TlbTypeOK
<1>3. IdleCounted'
  BY <1>0 DEF TlbIInv, TlbTypeOK, IdleCounted, Idlers
<1>4. LockHeld'
  BY <1>0 DEF TlbIInv, TlbTypeOK, LockHeld
<1>5. ASSUME clean PROVE Answering'
  <2>1. /\ owed = TlbCores \ Idlers
        /\ \A d \in owed : states[d] # pending_state
        /\ again = {}
    BY <1>0, <1>5 DEF TlbIInv, Answering, Requesting
  <2>2. ASSUME NEW d \in TlbCores
        PROVE  (d \in owed' <=> states'[d] = pending_state')
               /\ (d \notin owed' => tpc'[d] # "ack")
    <3>1. CASE states[d] = IDLE
      BY <1>0, <1>1, <2>1, <3>1 DEF Idlers, TlbIInv, TlbTypeOK, IdleCounted
    <3>2. CASE states[d] # IDLE
      BY <1>0, <1>1, <2>1, <3>2 DEF Idlers
    <3> QED  BY <3>1, <3>2
  <2>3. ~Requesting'
    BY <1>0, Locked DEF TlbIInv, TlbTypeOK, Requesting
  <2> QED  BY <1>0, <2>1, <2>2, <2>3 DEF Answering
<1>6. Counted'
  BY <1>0 DEF TlbIInv, Counted
<1> QED  BY <1>0, <1>2, <1>3, <1>4, <1>5, <1>6 DEF TlbIInv

LEMMA GenTlb ==
  ASSUME TlbIInv, NEW c \in TlbCores, mem_virt_invtlb_gen_update_nolock(c) PROVE TlbIInv'
<1>0. /\ tpc[c] = "gen" /\ tpc' = [tpc EXCEPT ![c] = "run"] /\ ~pending'
      /\ UNCHANGED <<pending_state, states, idle_cores, pending_tlb_updates,
                     tlock, loaded, requests, owed, again, clean>>
  BY DEF mem_virt_invtlb_gen_update_nolock, Goes
<1>1. TlbTypeOK'
  BY <1>0 DEF TlbIInv, TlbTypeOK
<1>2. IdleCounted'
  BY <1>0 DEF TlbIInv, TlbTypeOK, IdleCounted, Idlers
<1>3. LockHeld'
  BY <1>0 DEF TlbIInv, TlbTypeOK, LockHeld
<1>4. ASSUME clean PROVE Answering'
  <2>1. Requesting' <=> Requesting
    BY <1>0 DEF TlbIInv, TlbTypeOK, Requesting
  <2> QED  BY <1>0, <1>4, <2>1 DEF TlbIInv, TlbTypeOK, Answering, Idlers
<1>5. Counted'
  BY <1>0 DEF TlbIInv, Counted
<1> QED  BY <1>0, <1>1, <1>2, <1>3, <1>4, <1>5 DEF TlbIInv

LEMMA NextTlb == TlbIInv /\ [TlbNext]_tlbVars => TlbIInv'
<1> SUFFICES ASSUME TlbIInv, [TlbNext]_tlbVars PROVE TlbIInv'
  OBVIOUS
<1>1. CASE TlbNext
  BY <1>1, AckLoadTlb, AckTlb, IdleAnswerTlb, IdleEnterTlb, IdleExitTlb, StoreTlb, FlipTlb, GenTlb DEF TlbNext
<1>2. CASE UNCHANGED tlbVars
  BY <1>2 DEF tlbVars, TlbIInv, TlbTypeOK, IdleCounted, LockHeld, Counted, Requesting, Answering, Idlers
<1> QED  BY <1>1, <1>2

(* Only an answer leads a core to the end of a generation. *)
LEMMA GenIsAnAnswer ==
  ASSUME TlbIInv, TlbNext, NEW c \in TlbCores, tpc[c] \notin Ending, tpc'[c] \in Ending
  PROVE  mem_virt_invtlb_ack(c) \/ IdleAnswer(c)
<1>1. PICK d \in TlbCores :
        \/ AckLoad(d) \/ mem_virt_invtlb_ack(d) \/ mem_virt_invtlb_gen_update_nolock(d)
        \/ IdleAnswer(d) \/ mem_virt_invtlb_on_idle_enter(d) \/ mem_virt_invtlb_on_idle_exit(d)
        \/ RequestStore(d) \/ RequestFlip(d)
  BY DEF TlbNext
<1>2. \/ mem_virt_invtlb_ack(d) \/ IdleAnswer(d)
      \/ \E to \in {"ack", "run", "idle", "request", "requested"} : tpc' = [tpc EXCEPT ![d] = to] \/ tpc' = tpc
  BY <1>1, Zenon DEF AckLoad, mem_virt_invtlb_gen_update_nolock, mem_virt_invtlb_on_idle_enter,
              mem_virt_invtlb_on_idle_exit, RequestStore, RequestFlip, Goes
<1>3. mem_virt_invtlb_ack(d) \/ IdleAnswer(d)
  BY <1>2 DEF TlbIInv, TlbTypeOK, Ending
<1>4. d = c
  BY <1>3 DEF mem_virt_invtlb_ack, IdleAnswer, Goes, TlbIInv, TlbTypeOK
<1> QED  BY <1>3, <1>4

(* The inductive invariant of mem/virt/invtlb.c. *)
THEOREM InvTlbInvariant == TlbSpec => []TlbIInv
<1> QED  BY InitTlb, NextTlb, PTL DEF TlbSpec

(***************************************************************************)
(* A generation ends, by a core that switches tasks (mem_virt_invtlb_ack)  *)
(* or by one that goes idle (mem_virt_invtlb_on_idle_enter), only when     *)
(* every core that was not idle has answered since the request, or another *)
(* has answered twice, which only a request overlapping the answers to the *)
(* one before can meet; for any number of cores that the counter can count *)
(* and of requests.                                                        *)
(***************************************************************************)
THEOREM GenerationsWait == TlbSpec => GenerationWaits
<1> DEFINE Ends == \A c \in TlbCores : tpc[c] \notin Ending /\ tpc'[c] \in Ending
                                        => owed' = {} \/ (again' # {} /\ ~clean)
<1>1. TlbIInv /\ [TlbNext]_tlbVars => [Ends]_tlbVars
  BY GenIsAnAnswer, AckTlb, IdleAnswerTlb
<1> QED  BY <1>1, InvTlbInvariant, PTL DEF TlbSpec, GenerationWaits
=============================================================================
