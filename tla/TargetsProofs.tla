------------------------------ MODULE TargetsProofs ------------------------------
(***************************************************************************)
(* Targets: the plan is in dependency order and names every target once,   *)
(* for every dependency graph, circular ones included.                     *)
(***************************************************************************)
EXTENDS Targets, TLAPS

USE SMTT(20), ZenonT(20)

TargetsTypeOK ==
  /\ deps \in [Targets -> Seq(Targets)]
  /\ dep_index \in [Targets -> Nat]
  /\ resolved \subseteq Targets
  /\ unfinished \in Seq(Targets)
  /\ plan \in Seq(Targets)

(* The plan lists the resolved targets. *)
PlanIsResolved ==
  /\ \A i \in DOMAIN plan : plan[i] \in resolved
  /\ \A t \in resolved : \E i \in DOMAIN plan : plan[i] = t

(* What is on the stack is not resolved, and is there once. *)
StackUnresolved ==
  /\ \A k \in DOMAIN unfinished : unfinished[k] \notin resolved
  /\ \A k, l \in DOMAIN unfinished : unfinished[k] = unfinished[l] => k = l

(* A target below the top has last looked at the one above it. *)
Waits(t, u) == dep_index[t] \in DOMAIN deps[t] /\ deps[t][dep_index[t]] = u
StackChained ==
  \A k \in DOMAIN unfinished : k > 1 => Waits(unfinished[k], unfinished[k - 1])

(* A target that was begun and is not resolved is on the stack. *)
BegunOnStack ==
  \A t \in Targets : dep_index[t] > 0 /\ t \notin resolved
                     => \E k \in DOMAIN unfinished : unfinished[k] = t

(* The dependencies of t that were looked at are resolved, or the last of  *)
(* them is in S.                                                           *)
Done(t, S) ==
  /\ dep_index[t] <= Len(deps[t])
  /\ \A i \in 1..dep_index[t] :
       deps[t][i] \in resolved \/ (i = dep_index[t] /\ deps[t][i] \in S)

(* The target that the k-th one of the stack waits for. *)
Above(k) == IF k > 1 THEN {unfinished[k - 1]} ELSE {}

LookedAt == \A k \in DOMAIN unfinished : Done(unfinished[k], Above(k))

PlanIInv ==
  /\ TargetsTypeOK /\ PlanIsResolved /\ DepsFirst /\ PlannedOnce /\ PanicIsRight
  /\ (tphase # "panic" => StackUnresolved /\ StackChained /\ BegunOnStack /\ LookedAt)
  /\ (tphase \in {"idle", "execute"} => unfinished = <<>>)

-----------------------------------------------------------------------------
(***************************************************************************)
(* Initially nothing is planned and nothing is on the stack.               *)
(***************************************************************************)
LEMMA InitPlan == TargetsInit => PlanIInv
<1>. SUFFICES ASSUME TargetsInit PROVE PlanIInv
  OBVIOUS
<1>1. TargetsTypeOK
  BY TargetsAssumption DEF TargetsInit, TargetsTypeOK
<1>2. PlanIsResolved /\ DepsFirst /\ PlannedOnce /\ PanicIsRight
  BY DEF TargetsInit, PlanIsResolved, DepsFirst, PlannedOnce, PanicIsRight
<1>3. StackUnresolved /\ StackChained /\ BegunOnStack /\ LookedAt
  BY DEF TargetsInit, StackUnresolved, StackChained, BegunOnStack, LookedAt
<1>. QED
  BY <1>1, <1>2, <1>3 DEF PlanIInv, TargetsInit

(***************************************************************************)
(* Beginning a plan puts one unresolved, unbegun target on the stack.      *)
(***************************************************************************)
LEMMA BeginPlan ==
  ASSUME NEW t \in Targets, PlanIInv, target_compute_plan(t) PROVE PlanIInv'
<1>1. unfinished = <<>> /\ unfinished' = <<t>> /\ t \notin resolved
  BY DEF PlanIInv, target_compute_plan
<1>2. UNCHANGED <<deps, dep_index, resolved, plan>> /\ tphase' = "resolve"
  BY DEF target_compute_plan
<1>3. TargetsTypeOK' /\ PlanIsResolved' /\ DepsFirst' /\ PlannedOnce'
  BY <1>1, <1>2 DEF PlanIInv, TargetsTypeOK, PlanIsResolved, DepsFirst, PlannedOnce, DepsOf
<1>4. dep_index[t] = 0
  BY <1>1 DEF PlanIInv, TargetsTypeOK, BegunOnStack, target_compute_plan
<1>5. StackUnresolved' /\ StackChained'
  BY <1>1, <1>2 DEF StackUnresolved, StackChained
<1>6. BegunOnStack'
  BY <1>1, <1>2, <1>4 DEF PlanIInv, TargetsTypeOK, BegunOnStack, target_compute_plan
<1>7. LookedAt'
  BY <1>1, <1>2, <1>4 DEF PlanIInv, TargetsTypeOK, LookedAt, Done, Above
<1>. QED
  BY <1>2, <1>3, <1>5, <1>6, <1>7 DEF PlanIInv, PanicIsRight

(***************************************************************************)
(* What a non-empty stack looks like without its top.                      *)
(***************************************************************************)
LEMMA PoppedStack ==
  ASSUME NEW s \in Seq(Targets), s # <<>>
  PROVE  /\ Tail(s) \in Seq(Targets) /\ Len(Tail(s)) = Len(s) - 1
         /\ \A k \in DOMAIN Tail(s) : k + 1 \in DOMAIN s /\ Tail(s)[k] = s[k + 1]
         /\ \A k \in DOMAIN s : k > 1 => k - 1 \in DOMAIN Tail(s) /\ Tail(s)[k - 1] = s[k]
         /\ Head(s) = s[1] /\ 1 \in DOMAIN s /\ Head(s) \in Targets
  OBVIOUS

(***************************************************************************)
(* What a stack looks like with a new top.                                 *)
(***************************************************************************)
LEMMA PushedStack ==
  ASSUME NEW s \in Seq(Targets), NEW t \in Targets
  PROVE  /\ <<t>> \o s \in Seq(Targets) /\ Len(<<t>> \o s) = Len(s) + 1
         /\ (<<t>> \o s)[1] = t
         /\ \A k \in DOMAIN (<<t>> \o s) : k > 1 => k - 1 \in DOMAIN s /\ (<<t>> \o s)[k] = s[k - 1]
         /\ \A k \in DOMAIN s : k + 1 \in DOMAIN (<<t>> \o s) /\ (<<t>> \o s)[k + 1] = s[k]
  OBVIOUS

(***************************************************************************)
(* A resolved target goes to the end of the plan, behind all it needs.     *)
(***************************************************************************)
LEMMA ResolvePlan == ASSUME PlanIInv, Resolve PROVE PlanIInv'
<1>. DEFINE tos == Head(unfinished)
<1>1. /\ tphase = "resolve" /\ tphase' = "resolve" /\ unfinished # <<>>
      /\ dep_index[tos] = Len(deps[tos])
      /\ resolved' = resolved \cup {tos} /\ plan' = Append(plan, tos)
      /\ unfinished' = Tail(unfinished) /\ UNCHANGED <<deps, dep_index>>
  BY DEF Resolve
<1>2. /\ TargetsTypeOK /\ StackUnresolved /\ StackChained /\ BegunOnStack /\ LookedAt
      /\ PlanIsResolved /\ DepsFirst /\ PlannedOnce
  BY <1>1 DEF PlanIInv
<1>3. /\ Tail(unfinished) \in Seq(Targets) /\ Len(Tail(unfinished)) = Len(unfinished) - 1
      /\ \A k \in DOMAIN Tail(unfinished) :
           k + 1 \in DOMAIN unfinished /\ Tail(unfinished)[k] = unfinished[k + 1]
      /\ \A k \in DOMAIN unfinished :
           k > 1 => k - 1 \in DOMAIN Tail(unfinished) /\ Tail(unfinished)[k - 1] = unfinished[k]
      /\ tos = unfinished[1] /\ 1 \in DOMAIN unfinished /\ tos \in Targets
  BY <1>1, <1>2, PoppedStack DEF TargetsTypeOK
<1>. HIDE DEF tos
<1>4. /\ plan' \in Seq(Targets) /\ Len(plan') = Len(plan) + 1
      /\ plan'[Len(plan) + 1] = tos
      /\ \A i \in DOMAIN plan : i \in DOMAIN plan' /\ plan'[i] = plan[i]
      /\ \A i \in DOMAIN plan' : i \in DOMAIN plan \/ i = Len(plan) + 1
  BY <1>1, <1>2, <1>3 DEF TargetsTypeOK
<1>5. TargetsTypeOK'
  BY <1>1, <1>2, <1>3, <1>4 DEF TargetsTypeOK
<1>6. tos \notin resolved
  BY <1>2, <1>3 DEF StackUnresolved
<1>7. DepsOf(tos) \subseteq resolved
  <2>0. Done(unfinished[1], Above(1))
    BY <1>2, <1>3 DEF LookedAt
  <2>1. Above(1) = {}
    BY DEF Above
  <2>2. DOMAIN deps[tos] = 1..dep_index[tos]
    BY <1>1, <1>2, <1>3 DEF TargetsTypeOK
  <2>. QED
    BY <2>0, <2>1, <2>2, <1>3 DEF DepsOf, Done
<1>8. PlanIsResolved'
  BY <1>1, <1>2, <1>4, <1>5 DEF PlanIsResolved, TargetsTypeOK
<1>9. DepsFirst'
  <2>0. \A t : DepsOf(t)' = DepsOf(t)
    BY <1>1 DEF DepsOf
  <2>. SUFFICES ASSUME NEW i \in DOMAIN plan', NEW d \in DepsOf(plan'[i])
       PROVE  \E j \in DOMAIN plan' : j < i /\ plan'[j] = d
    BY <2>0 DEF DepsFirst
  <2>1. CASE i \in DOMAIN plan
    BY <2>1, <1>2, <1>4 DEF DepsFirst
  <2>2. CASE i = Len(plan) + 1
    <3>1. d \in resolved
      BY <2>2, <1>4, <1>7
    <3>2. PICK j \in DOMAIN plan : plan[j] = d
      BY <3>1, <1>2 DEF PlanIsResolved
    <3>3. j < i
      BY <2>2, <1>2 DEF TargetsTypeOK
    <3>. QED
      BY <3>2, <3>3, <1>4
  <2>. QED
    BY <2>1, <2>2, <1>4
<1>10. PlannedOnce'
  BY <1>2, <1>4, <1>6 DEF PlannedOnce, PlanIsResolved
<1>11. StackUnresolved'
  <2>1. \A k \in DOMAIN unfinished' : unfinished'[k] \notin resolved'
    <3>. SUFFICES ASSUME NEW k \in DOMAIN unfinished' PROVE unfinished'[k] \notin resolved'
      OBVIOUS
    <3>1. k + 1 \in DOMAIN unfinished /\ unfinished'[k] = unfinished[k + 1] /\ k + 1 # 1
      BY <1>1, <1>2, <1>3 DEF TargetsTypeOK
    <3>. QED
      BY <3>1, <1>1, <1>2, <1>3 DEF StackUnresolved
  <2>2. \A k, l \in DOMAIN unfinished' : unfinished'[k] = unfinished'[l] => k = l
    <3>. SUFFICES ASSUME NEW k \in DOMAIN unfinished', NEW l \in DOMAIN unfinished',
                         unfinished'[k] = unfinished'[l]
                  PROVE  k = l
      OBVIOUS
    <3>1. /\ k + 1 \in DOMAIN unfinished /\ unfinished'[k] = unfinished[k + 1]
          /\ l + 1 \in DOMAIN unfinished /\ unfinished'[l] = unfinished[l + 1]
          /\ k \in Nat /\ l \in Nat
      BY <1>1, <1>3
    <3>2. k + 1 = l + 1
      BY <3>1, <1>2, Zenon DEF StackUnresolved
    <3>. QED
      BY <3>1, <3>2
  <2>. QED
    BY <2>1, <2>2 DEF StackUnresolved
<1>12. StackChained'
  <2>. SUFFICES ASSUME NEW k \in DOMAIN unfinished', k > 1
                PROVE  Waits(unfinished[k], unfinished[k - 1])'
    BY DEF StackChained
  <2>1. /\ k \in Nat /\ k - 1 \in DOMAIN unfinished' /\ k + 1 > 1
        /\ k \in DOMAIN unfinished /\ (k + 1) - 1 = k /\ (k - 1) + 1 = k
    <3>1. k \in 1..(Len(unfinished) - 1) /\ unfinished \in Seq(Targets)
      BY <1>1, <1>2, <1>3 DEF TargetsTypeOK
    <3>2. DOMAIN unfinished' = 1..(Len(unfinished) - 1) /\ DOMAIN unfinished = 1..Len(unfinished)
      BY <1>1, <1>3, <3>1
    <3>. QED
      BY <3>1, <3>2
  <2>2. /\ k + 1 \in DOMAIN unfinished /\ unfinished'[k] = unfinished[k + 1]
        /\ unfinished'[k - 1] = unfinished[k]
    BY <2>1, <1>1, <1>3
  <2>3. Waits(unfinished[k + 1], unfinished[k])
    BY <2>1, <2>2, <1>2 DEF StackChained
  <2>. QED
    BY <2>2, <2>3, <1>1 DEF Waits
<1>13. BegunOnStack'
  <2>. SUFFICES ASSUME NEW t \in Targets, dep_index[t] > 0, t \notin resolved, t # tos
       PROVE  \E k \in DOMAIN unfinished' : unfinished'[k] = t
    BY <1>1 DEF BegunOnStack
  <2>1. PICK k \in DOMAIN unfinished : unfinished[k] = t
    BY <1>2 DEF BegunOnStack
  <2>2. k > 1
    BY <2>1, <1>2, <1>3 DEF TargetsTypeOK
  <2>. QED
    BY <2>1, <2>2, <1>1, <1>3
<1>14. LookedAt'
  <2>. SUFFICES ASSUME NEW k \in DOMAIN unfinished' PROVE Done(unfinished[k], Above(k))'
    BY DEF LookedAt
  <2>1. /\ k \in Nat /\ k >= 1 /\ k + 1 \in DOMAIN unfinished
        /\ unfinished'[k] = unfinished[k + 1]
    BY <1>1, <1>3
  <2>2. Done(unfinished[k + 1], Above(k + 1))
    BY <2>1, <1>2 DEF LookedAt
  <2>2a. Above(k + 1) = {unfinished[k]}
    BY <2>1 DEF Above
  <2>3. unfinished[k] = tos \/ (k > 1 /\ unfinished'[k - 1] = unfinished[k])
    <3>1. CASE k = 1
      BY <3>1, <1>3
    <3>2. CASE k > 1
      <4>1. k - 1 \in DOMAIN unfinished' /\ (k - 1) + 1 = k
        BY <2>1, <3>2, <1>1, <1>3
      <4>. QED
        BY <4>1, <3>2, <1>1, <1>3
    <3>. QED
      BY <2>1, <3>1, <3>2
  <2>4. Above(k + 1) \subseteq Above(k)' \cup {tos}
    BY <2>2a, <2>3 DEF Above
  <2>. QED
    BY <2>1, <2>2, <2>4, <1>1 DEF Done
<1>. QED
  BY <1>1, <1>5, <1>8, <1>9, <1>10, <1>11, <1>12, <1>13, <1>14 DEF PlanIInv, PanicIsRight

(***************************************************************************)
(* The targets on the stack down to a begun one are a circle if the one on *)
(* top depends on it.                                                      *)
(***************************************************************************)
LEMMA StackCircle ==
  ASSUME TargetsTypeOK, StackUnresolved, StackChained,
         NEW m \in DOMAIN unfinished, unfinished[m] \in DepsOf(unfinished[1])
  PROVE  \E S \in SUBSET (Targets \ resolved) : Circular(S)
<1>. DEFINE S == {unfinished[k] : k \in 1..m}
<1>0. unfinished \in Seq(Targets) /\ m \in 1..Len(unfinished)
  BY DEF TargetsTypeOK
<1>1. S \in SUBSET (Targets \ resolved)
  BY <1>0 DEF StackUnresolved
<1>2. unfinished[1] \in S /\ unfinished[m] \in S
  BY <1>0
<1>3. ASSUME NEW k \in 1..m PROVE DepsOf(unfinished[k]) \cap S # {}
  <2>1. CASE k = 1
    BY <2>1, <1>2
  <2>2. CASE k > 1
    <3>1. k \in DOMAIN unfinished /\ k - 1 \in 1..m
      BY <2>2, <1>0
    <3>2. Waits(unfinished[k], unfinished[k - 1])
      BY <2>2, <3>1 DEF StackChained
    <3>3. unfinished[k - 1] \in DepsOf(unfinished[k])
      BY <3>2 DEF Waits, DepsOf
    <3>. QED
      BY <3>1, <3>3
  <2>. QED
    BY <2>1, <2>2
<1>4. Circular(S)
  BY <1>2, <1>3 DEF Circular
<1>. QED
  BY <1>1, <1>4

(***************************************************************************)
(* Looking at a dependency: it is resolved already, it closes a circle, or *)
(* it goes on top of the stack.                                            *)
(***************************************************************************)
LEMMA VisitPlan == ASSUME PlanIInv, VisitDependency PROVE PlanIInv'
<1>. DEFINE tos == unfinished[1]
            n == dep_index[tos] + 1
            dependency == deps[tos][n]
<1>1. /\ TargetsTypeOK /\ PlanIsResolved /\ DepsFirst /\ PlannedOnce /\ StackUnresolved
      /\ StackChained /\ BegunOnStack /\ LookedAt /\ tphase = "resolve"
  BY DEF PlanIInv, VisitDependency
<1>2. /\ 1 \in DOMAIN unfinished /\ tos = Head(unfinished) /\ tos \in Targets
      /\ unfinished \in Seq(Targets)
  BY <1>1, PoppedStack DEF TargetsTypeOK, VisitDependency
<1>3. /\ n <= Len(deps[tos]) /\ dep_index' = [dep_index EXCEPT ![tos] = n]
      /\ UNCHANGED <<deps, resolved, plan>>
      /\ \/ dependency \in resolved /\ UNCHANGED <<unfinished, tphase>>
         \/ /\ dependency \notin resolved /\ dep_index'[dependency] # 0
            /\ tphase' = "panic" /\ UNCHANGED unfinished
         \/ /\ dependency \notin resolved /\ dep_index'[dependency] = 0
            /\ unfinished' = <<dependency>> \o unfinished /\ UNCHANGED tphase
  BY <1>2 DEF VisitDependency
<1>4. /\ n \in DOMAIN deps[tos] /\ dependency \in Targets /\ n \in Nat /\ n > 0
      /\ dependency \in DepsOf(tos)
  <2>1. deps[tos] \in Seq(Targets) /\ dep_index[tos] \in Nat
    BY <1>1, <1>2 DEF TargetsTypeOK
  <2>2. n \in DOMAIN deps[tos] /\ n \in Nat /\ n > 0
    BY <2>1, <1>3
  <2>. QED
    BY <2>1, <2>2 DEF DepsOf
<1>5. /\ dep_index' \in [Targets -> Nat] /\ dep_index'[tos] = n
      /\ \A t \in Targets : t # tos => dep_index'[t] = dep_index[t]
  BY <1>1, <1>2, <1>3, <1>4 DEF TargetsTypeOK
<1>. HIDE DEF n, dependency
<1>6. PlanIsResolved' /\ DepsFirst' /\ PlannedOnce'
  BY <1>1, <1>3 DEF PlanIsResolved, DepsFirst, PlannedOnce, DepsOf
<1>7. \A k \in DOMAIN unfinished : k > 1 => unfinished[k] \in Targets /\ unfinished[k] # tos
  BY <1>1, <1>2 DEF StackUnresolved
(* The targets below the top, and what they wait for, stay as they are. *)
<1>8. \A k \in DOMAIN unfinished : k > 1 =>
         /\ Done(unfinished[k], Above(k)) /\ Waits(unfinished[k], unfinished[k - 1])
         /\ dep_index'[unfinished[k]] = dep_index[unfinished[k]]
  BY <1>1, <1>5, <1>7 DEF LookedAt, StackChained
(* The top has looked at one more. *)
<1>9. Done(tos, {})
  <2>1. Done(unfinished[1], Above(1))
    BY <1>1, <1>2 DEF LookedAt
  <2>2. Above(1) = {}
    BY DEF Above
  <2>. QED
    BY <2>1, <2>2
<1>10. CASE dependency \in resolved
  <2>1. UNCHANGED <<unfinished, tphase>>
    BY <1>3, <1>10
  <2>2. TargetsTypeOK' /\ StackUnresolved'
    BY <2>1, <1>1, <1>3, <1>5 DEF TargetsTypeOK, StackUnresolved
  <2>3. StackChained'
    BY <2>1, <1>3, <1>8 DEF StackChained, Waits
  <2>4. BegunOnStack'
    <3>. SUFFICES ASSUME NEW t \in Targets, dep_index'[t] > 0, t \notin resolved
         PROVE  \E k \in DOMAIN unfinished : unfinished[k] = t
      BY <2>1, <1>3 DEF BegunOnStack
    <3>1. CASE t = tos
      BY <3>1, <1>2
    <3>2. CASE t # tos
      BY <3>2, <1>1, <1>5 DEF BegunOnStack
    <3>. QED
      BY <3>1, <3>2
  <2>5. LookedAt'
    <3>. SUFFICES ASSUME NEW k \in DOMAIN unfinished PROVE Done(unfinished[k], Above(k))'
      BY <2>1 DEF LookedAt
    <3>1. CASE k = 1
      <4>1. \A i \in 1..n : deps[tos][i] \in resolved
        <5>1. \A i \in 1..dep_index[tos] : deps[tos][i] \in resolved
          BY <1>9 DEF Done
        <5>2. dep_index[tos] \in Nat
          BY <1>1, <1>2 DEF TargetsTypeOK
        <5>3. \A i \in 1..n : i \in 1..dep_index[tos] \/ i = n
          BY <5>2 DEF n
        <5>. QED
          BY <5>1, <5>3, <1>10 DEF dependency
      <4>. QED
        BY <3>1, <4>1, <2>1, <1>3, <1>5 DEF Done
    <3>2. CASE k > 1
      <4>1. Above(k)' = Above(k)
        BY <2>1 DEF Above
      <4>. QED
        BY <3>2, <4>1, <2>1, <1>3, <1>8 DEF Done
    <3>. QED
      BY <3>1, <3>2, <1>2
  <2>. QED
    BY <2>1, <2>2, <2>3, <2>4, <2>5, <1>1, <1>6 DEF PlanIInv, PanicIsRight
<1>11. CASE dependency \notin resolved /\ dep_index'[dependency] # 0
  <2>1. tphase' = "panic" /\ UNCHANGED <<unfinished, resolved, deps>>
    BY <1>3, <1>11
  <2>2. \E m \in DOMAIN unfinished : unfinished[m] = dependency
    <3>1. CASE dependency = tos
      BY <3>1, <1>2
    <3>2. CASE dependency # tos
      <4>1. dep_index[dependency] \in Nat /\ dep_index[dependency] # 0
        BY <3>2, <1>1, <1>4, <1>5, <1>11 DEF TargetsTypeOK
      <4>2. dep_index[dependency] > 0
        BY <4>1
      <4>. QED
        BY <4>2, <1>1, <1>4, <1>11 DEF BegunOnStack
    <3>. QED
      BY <3>1, <3>2
  <2>3. \E S \in SUBSET (Targets \ resolved) : Circular(S)
    BY <2>2, <1>1, <1>4, StackCircle
  <2>4. PanicIsRight'
    <3>1. \A S : Circular(S)' <=> Circular(S)
      BY <2>1 DEF Circular, DepsOf
    <3>. QED
      BY <2>1, <2>3, <3>1 DEF PanicIsRight
  <2>5. TargetsTypeOK'
    BY <2>1, <1>1, <1>3, <1>5 DEF TargetsTypeOK
  <2>. QED
    BY <2>1, <2>4, <2>5, <1>6 DEF PlanIInv
<1>12. CASE dependency \notin resolved /\ dep_index'[dependency] = 0
  <2>1. unfinished' = <<dependency>> \o unfinished /\ UNCHANGED tphase
    BY <1>3, <1>12
  <2>2. dependency # tos /\ dep_index[dependency] = 0
    BY <1>4, <1>5, <1>12
  <2>3. \A k \in DOMAIN unfinished : unfinished[k] # dependency
    <3>. SUFFICES ASSUME NEW k \in DOMAIN unfinished, k > 1 PROVE unfinished[k] # dependency
      BY <2>2, <1>2
    <3>1. dep_index[unfinished[k]] \in DOMAIN deps[unfinished[k]] /\ unfinished[k] \in Targets
      BY <1>7, <1>8 DEF Waits
    <3>2. dep_index[unfinished[k]] # 0
      BY <3>1, <1>1 DEF TargetsTypeOK
    <3>. QED
      BY <3>2, <2>2
  <2>4. /\ unfinished' \in Seq(Targets) /\ Len(unfinished') = Len(unfinished) + 1
        /\ unfinished'[1] = dependency
        /\ \A k \in DOMAIN unfinished' :
             k > 1 => k - 1 \in DOMAIN unfinished /\ unfinished'[k] = unfinished[k - 1]
        /\ \A k \in DOMAIN unfinished :
             k + 1 \in DOMAIN unfinished' /\ unfinished'[k + 1] = unfinished[k]
    BY <2>1, <1>2, <1>4, PushedStack
  <2>5. TargetsTypeOK'
    BY <2>4, <1>1, <1>3, <1>5, Zenon DEF TargetsTypeOK
  <2>6. \A k \in DOMAIN unfinished' : k \in Nat /\ (k = 1 \/ k > 1)
    BY <2>4
  <2>7. StackUnresolved'
    <3>1. \A k \in DOMAIN unfinished' : unfinished'[k] \notin resolved'
      BY <2>4, <2>6, <1>1, <1>3, <1>12 DEF StackUnresolved
    <3>2. \A k, l \in DOMAIN unfinished' : unfinished'[k] = unfinished'[l] => k = l
      <4>. SUFFICES ASSUME NEW k \in DOMAIN unfinished', NEW l \in DOMAIN unfinished',
                           unfinished'[k] = unfinished'[l]
                    PROVE  k = l
        OBVIOUS
      <4>1. CASE k = 1 \/ l = 1
        BY <4>1, <2>3, <2>4, <2>6
      <4>2. CASE k > 1 /\ l > 1
        <5>1. k - 1 = l - 1
          BY <4>2, <2>4, <1>1 DEF StackUnresolved
        <5>. QED
          BY <5>1, <2>6
      <4>. QED
        BY <4>1, <4>2, <2>6
    <3>. QED
      BY <3>1, <3>2 DEF StackUnresolved
  <2>8. /\ dep_index'[tos] \in DOMAIN deps'[tos] /\ deps'[tos][dep_index'[tos]] = dependency
        /\ dep_index'[tos] <= Len(deps'[tos])
    BY <1>3, <1>4, <1>5 DEF dependency
  <2>9. StackChained'
    <3>. SUFFICES ASSUME NEW k \in DOMAIN unfinished', k > 1
                  PROVE  Waits(unfinished[k], unfinished[k - 1])'
      BY DEF StackChained
    <3>1. CASE k = 2
      BY <3>1, <2>4, <2>8 DEF Waits
    <3>2. CASE k > 2
      <4>1. /\ k - 1 \in DOMAIN unfinished /\ k - 1 > 1 /\ unfinished'[k] = unfinished[k - 1]
            /\ k - 1 \in DOMAIN unfinished'
        BY <3>2, <2>4, <2>6, <1>2
      <4>2. unfinished'[k - 1] = unfinished[(k - 1) - 1]
        BY <4>1, <2>4
      <4>. QED
        BY <4>1, <4>2, <1>3, <1>8 DEF Waits
    <3>. QED
      BY <3>1, <3>2, <2>6
  <2>10. BegunOnStack'
    <3>. SUFFICES ASSUME NEW t \in Targets, dep_index'[t] > 0, t \notin resolved
         PROVE  \E k \in DOMAIN unfinished' : unfinished'[k] = t
      BY <1>3 DEF BegunOnStack
    <3>1. \E k \in DOMAIN unfinished : unfinished[k] = t
      <4>1. CASE t = tos
        BY <4>1, <1>2
      <4>2. CASE t # tos
        BY <4>2, <1>1, <1>5 DEF BegunOnStack
      <4>. QED
        BY <4>1, <4>2
    <3>. QED
      BY <3>1, <2>4
  <2>11. LookedAt'
    <3>. SUFFICES ASSUME NEW k \in DOMAIN unfinished' PROVE Done(unfinished[k], Above(k))'
      BY DEF LookedAt
    <3>1. CASE k = 1
      <4>1. dep_index'[dependency] <= Len(deps'[dependency])
        BY <1>1, <1>3, <1>4, <1>12 DEF TargetsTypeOK
      <4>. QED
        BY <3>1, <4>1, <2>4, <1>12 DEF Done
    <3>2. CASE k = 2
      <4>0. k > 1 /\ k - 1 = 1
        BY <3>2
      <4>1. unfinished'[k - 1] = dependency /\ unfinished'[k] = tos
        BY <4>0, <2>4
      <4>1a. dependency \in Above(k)'
        BY <4>0, <4>1 DEF Above
      <4>2. \A i \in 1..n : deps[tos][i] \in resolved \/ i = n
        <5>1. \A i \in 1..dep_index[tos] : deps[tos][i] \in resolved
          BY <1>9 DEF Done
        <5>2. dep_index[tos] \in Nat
          BY <1>1, <1>2 DEF TargetsTypeOK
        <5>. QED
          BY <5>1, <5>2 DEF n
      <4>. QED
        BY <4>1, <4>1a, <4>2, <2>8, <1>3, <1>5 DEF Done
    <3>3. CASE k > 2
      <4>1. /\ k - 1 \in DOMAIN unfinished /\ k - 1 > 1 /\ unfinished'[k] = unfinished[k - 1]
            /\ k - 1 \in DOMAIN unfinished'
        BY <3>3, <2>4, <2>6, <1>2
      <4>2. unfinished'[k - 1] = unfinished[(k - 1) - 1]
        BY <4>1, <2>4
      <4>3. Above(k - 1) = {unfinished[(k - 1) - 1]}
        BY <4>1 DEF Above
      <4>3a. unfinished'[k - 1] \in Above(k)'
        BY <3>3, <2>6 DEF Above
      <4>4. /\ Done(unfinished[k - 1], Above(k - 1))
            /\ dep_index'[unfinished[k - 1]] = dep_index[unfinished[k - 1]]
        BY <4>1, <1>8
      <4>. QED
        BY <4>1, <4>2, <4>3, <4>3a, <4>4, <1>3 DEF Done
    <3>. QED
      BY <3>1, <3>2, <3>3, <2>6
  <2>. QED
    BY <2>1, <2>5, <2>7, <2>9, <2>10, <2>11, <1>1, <1>6 DEF PlanIInv, PanicIsRight
<1>. QED
  BY <1>3, <1>10, <1>11, <1>12

(***************************************************************************)
(* Every step preserves the invariant.                                     *)
(***************************************************************************)
LEMMA NextPlan == PlanIInv /\ [TargetsNext]_targetVars => PlanIInv'
<1>. SUFFICES ASSUME PlanIInv, [TargetsNext]_targetVars PROVE PlanIInv'
  OBVIOUS
<1>1. CASE UNCHANGED targetVars \/ PlanComputed \/ target_execute_plan
  <2>1. /\ UNCHANGED <<deps, dep_index, resolved, unfinished, plan>>
        /\ tphase' = "panic" => tphase = "panic"
        /\ tphase = "panic" => tphase' = "panic"
        /\ tphase' \in {"idle", "execute"} => unfinished' = <<>>
    BY <1>1 DEF PlanIInv, targetVars, PlanComputed, target_execute_plan
  <2>2. TargetsTypeOK' /\ PlanIsResolved' /\ DepsFirst' /\ PlannedOnce'
    BY <2>1 DEF PlanIInv, TargetsTypeOK, PlanIsResolved, DepsFirst, PlannedOnce, DepsOf
  <2>3. PanicIsRight'
    <3>1. \A S : Circular(S)' <=> Circular(S)
      BY <2>1 DEF Circular, DepsOf
    <3>. QED
      BY <2>1, <3>1 DEF PlanIInv, PanicIsRight
  <2>4. tphase' # "panic" => StackUnresolved' /\ StackChained' /\ BegunOnStack'
    BY <2>1 DEF PlanIInv, StackUnresolved, StackChained, BegunOnStack, Waits
  <2>5. tphase' # "panic" => LookedAt'
    BY <2>1, Zenon DEF PlanIInv, LookedAt, Done, Above
  <2>. QED
    BY <2>1, <2>2, <2>3, <2>4, <2>5 DEF PlanIInv
<1>2. CASE \E t \in Targets : target_compute_plan(t)
  BY <1>2, BeginPlan
<1>3. CASE Resolve
  BY <1>3, ResolvePlan
<1>4. CASE VisitDependency
  BY <1>4, VisitPlan
<1>. QED
  BY <1>1, <1>2, <1>3, <1>4 DEF TargetsNext

(***************************************************************************)
(* The invariant holds throughout.                                         *)
(***************************************************************************)
THEOREM TargetsInvariant == TargetsSpec => []PlanIInv
  BY InitPlan, NextPlan, PTL DEF TargetsSpec

(***************************************************************************)
(* For any targets and any graph of dependencies, planned once or several  *)
(* times: a target comes behind all it depends on, none is planned twice,  *)
(* and the panic is only raised when there is a circular dependency        *)
(* (target_compute_plan).                                                  *)
(***************************************************************************)
THEOREM PlanIsExact == TargetsSpec => []PlanExact
<1>1. PlanIInv => PlanExact
  BY DEF PlanIInv, PlanExact
<1>. QED
  BY <1>1, TargetsInvariant, PTL
=============================================================================
