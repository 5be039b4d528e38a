----------------------------- MODULE QueueProofs -----------------------------
(***************************************************************************)
(* What enqueueing and dequeueing do to the objects of a queue.            *)
(***************************************************************************)
EXTENDS Queue, Integers, SequenceTheorems, TLAPS

(***************************************************************************)
(* What queue_dequeue leaves behind: every node moves up by one.           *)
(***************************************************************************)
LEMMA TailFacts ==
  ASSUME NEW S, NEW q \in Seq(S), q # <<>>
  PROVE  /\ Head(q) \in S /\ Head(q) = q[1] /\ Tail(q) \in Seq(S)
         /\ DOMAIN q = 1..Len(q) /\ Len(q) \in Nat \ {0}
         /\ DOMAIN Tail(q) = 1..(Len(q) - 1)
         /\ \A i \in 1..(Len(q) - 1) : Tail(q)[i] = q[i + 1]
<1>1. Head(q) \in S /\ Tail(q) \in Seq(S) /\ Len(Tail(q)) = Len(q) - 1
  BY HeadTailProperties
<1>2. \A i \in 1..Len(Tail(q)) : Tail(q)[i] = q[i + 1]
  BY HeadTailProperties
<1>3. DOMAIN q = 1..Len(q) /\ Len(q) \in Nat \ {0} /\ DOMAIN Tail(q) = 1..Len(Tail(q))
  BY <1>1, LenProperties, EmptySeq
<1>4. Head(q) = q[1]
  OBVIOUS
<1>. QED
  BY <1>1, <1>2, <1>3, <1>4

(***************************************************************************)
(* queue_enqueue links one more node, after all the others.                *)
(***************************************************************************)
LEMMA AppendFacts ==
  ASSUME NEW S, NEW q \in Seq(S), NEW x \in S
  PROVE  /\ Append(q, x) \in Seq(S) /\ Append(q, x) # <<>>
         /\ DOMAIN q = 1..Len(q) /\ Len(q) \in Nat
         /\ DOMAIN Append(q, x) = 1..(Len(q) + 1)
         /\ \A i \in 1..Len(q) : Append(q, x)[i] = q[i]
         /\ Append(q, x)[Len(q) + 1] = x
<1>1. /\ Append(q, x) \in Seq(S) /\ Append(q, x) # <<>>
      /\ Len(Append(q, x)) = Len(q) + 1
      /\ \A i \in 1..Len(q) : Append(q, x)[i] = q[i]
      /\ Append(q, x)[Len(q) + 1] = x
  BY AppendProperties
<1>2. DOMAIN q = 1..Len(q) /\ Len(q) \in Nat
  BY LenProperties
<1>3. DOMAIN Append(q, x) = 1..Len(Append(q, x))
  BY <1>1, LenProperties
<1>. QED
  BY <1>1, <1>2, <1>3

(***************************************************************************)
(* The objects of a queue: none in an empty one, members of its type.      *)
(***************************************************************************)
LEMMA ElemsFacts ==
  ASSUME NEW S, NEW q \in Seq(S)
  PROVE  Elems(q) \subseteq S /\ (Elems(q) = {} <=> q = <<>>)
<1>1. DOMAIN q = 1..Len(q) /\ Len(q) \in Nat /\ (q = <<>> <=> Len(q) = 0)
  BY LenProperties, EmptySeq
<1>2. \A i \in 1..Len(q) : q[i] \in S
  BY ElementOfSeq
<1>3. Elems(q) \subseteq S
  BY <1>1, <1>2 DEF Elems
<1>4. q # <<>> => q[1] \in Elems(q)
  BY <1>1 DEF Elems
<1>5. q = <<>> => Elems(q) = {}
  BY <1>1 DEF Elems
<1>. QED
  BY <1>3, <1>4, <1>5

(***************************************************************************)
(* The empty queue has no elements.                                        *)
(***************************************************************************)
LEMMA EmptyQueue == Elems(<<>>) = {} /\ NoRepeats(<<>>)
<1>1. DOMAIN <<>> = {}
  BY EmptySeq, LenProperties
<1>. QED
  BY <1>1 DEF Elems, NoRepeats

(***************************************************************************)
(* Dequeueing takes the head out, and it is not linked a second time.      *)
(***************************************************************************)
LEMMA Dequeue ==
  ASSUME NEW S, NEW q \in Seq(S), q # <<>>, NoRepeats(q)
  PROVE  /\ NoRepeats(Tail(q)) /\ Head(q) \in Elems(q)
         /\ Elems(Tail(q)) = Elems(q) \ {Head(q)}
<1>. DEFINE n == Len(q)
            p == Tail(q)
<1>1. /\ Head(q) = q[1] /\ DOMAIN q = 1..n /\ n \in Nat \ {0}
      /\ DOMAIN p = 1..(n - 1) /\ \A i \in 1..(n - 1) : p[i] = q[i + 1]
  BY TailFacts, Zenon
<1>. HIDE DEF n, p
<1>2. NoRepeats(p)
  <2>. SUFFICES ASSUME NEW i \in DOMAIN p, NEW j \in DOMAIN p, p[i] = p[j] PROVE i = j
    BY DEF NoRepeats
  <2>1. i + 1 \in DOMAIN q /\ j + 1 \in DOMAIN q /\ q[i + 1] = q[j + 1]
    BY <1>1
  <2>2. i + 1 = j + 1
    BY <2>1, Zenon DEF NoRepeats
  <2>. QED
    BY <1>1, <2>2
<1>3. Head(q) \in Elems(q)
  BY <1>1 DEF Elems
<1>4. ASSUME NEW x \in Elems(p) PROVE x \in Elems(q) \ {Head(q)}
  <2>1. PICK i \in 1..(n - 1) : x = p[i]
    BY <1>1, <1>4 DEF Elems
  <2>2. i + 1 \in DOMAIN q /\ 1 \in DOMAIN q /\ x = q[i + 1] /\ i + 1 # 1
    BY <1>1, <2>1
  <2>. QED
    BY <1>1, <2>2, Zenon DEF Elems, NoRepeats
<1>5. ASSUME NEW x \in Elems(q), x # Head(q) PROVE x \in Elems(p)
  <2>1. PICK i \in 1..n : x = q[i]
    BY <1>1, <1>5 DEF Elems
  <2>2. i - 1 \in DOMAIN p /\ p[i - 1] = x
    BY <1>1, <1>5, <2>1
  <2>. QED
    BY <2>2 DEF Elems
<1>. QED
  BY <1>2, <1>3, <1>4, <1>5, Zenon DEF p

(***************************************************************************)
(* Enqueueing an object that is not linked yet.                            *)
(***************************************************************************)
LEMMA Enqueue ==
  ASSUME NEW S, NEW q \in Seq(S), NEW x \in S
  PROVE  /\ Elems(Append(q, x)) = Elems(q) \cup {x}
         /\ NoRepeats(q) /\ x \notin Elems(q) => NoRepeats(Append(q, x))
<1>. DEFINE n == Len(q)
            p == Append(q, x)
<1>1. /\ DOMAIN q = 1..n /\ n \in Nat /\ DOMAIN p = 1..(n + 1)
      /\ \A i \in 1..n : p[i] = q[i]
      /\ p[n + 1] = x
  BY AppendFacts
<1>. HIDE DEF n, p
<1>2. Elems(p) = Elems(q) \cup {x}
  BY <1>1 DEF Elems
<1>3. ASSUME NoRepeats(q), x \notin Elems(q) PROVE NoRepeats(p)
  BY <1>1, <1>3 DEF NoRepeats, Elems
<1>. QED
  BY <1>2, <1>3, Zenon DEF p
=============================================================================
