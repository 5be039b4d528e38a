------------------------------- MODULE SmpProofs -------------------------------
(***************************************************************************)
(* Any number of processors: their bring-up, and the loads of their groups *)
(* of tasks once they are up.                                              *)
(***************************************************************************)
EXTENDS SmpBringup, Balancer, FiniteSetTheorems, TLAPS

USE SMTT(20), ZenonT(20)

-----------------------------------------------------------------------------
(***************************************************************************)
(* The bring-up of any number of processors.  A processor's status says    *)
(* where it is: the store of WAITING_FOR_CALIBRATION looks at nothing, and *)
(* the boot processor may give it up at the same time, so status alone is  *)
(* not inductive.  What is: only a processor that has passed its own store *)
(* can be online, it goes on only from one end of the interval to the      *)
(* other, and those the last loop has passed are online, given up, or will *)
(* hang because the interval is over.                                      *)
(***************************************************************************)
Places == {"off", "check", "enable", "hang", "wait_begin", "late", "wait_end", "localsched",
           "running"}

(* What a processor has seen of the interval where it is. *)
SawInterval ==
  \A c \in Cpus :
    /\ apc[c] = "wait_end" => calibrated[c] = {"begin"}
    /\ apc[c] \in {"localsched", "running"} => calibrated[c] = {"begin", "end"}
    /\ status[c] = "ONLINE" => apc[c] = "running"

(* The processors the last loop has passed; all of them when it is done. *)
Passed(c) == bpc = "done" \/ (bpc = "online" /\ c < bi)

(* Past the end of the interval nobody sees its beginning any more. *)
PassedStay ==
  /\ bpc \in {"calibrate", "calibrating"} => bi = 1
  /\ bpc \in {"online", "done"} => trampoline = "END_CALIBRATION"
  /\ \A c \in Cpus : Passed(c) =>
       status[c] \in {"ONLINE", "GAVE_UP"} \/ apc[c] \in {"wait_begin", "late"}

SmpIInv == SmpTypeOK /\ apc \in [Cpus -> Places] /\ SawInterval /\ PassedStay

-----------------------------------------------------------------------------
(***************************************************************************)
(* Before the first IPI every processor is off.                            *)
(***************************************************************************)
LEMMA InitSmp == SmpInit => SmpIInv
<1>. SUFFICES ASSUME SmpInit PROVE SmpIInv
  OBVIOUS
<1>1. SmpTypeOK /\ apc \in [Cpus -> Places]
  BY SmpAssumption DEF SmpInit, SmpTypeOK, Cpus, Places
<1>2. SawInterval
  BY DEF SmpInit, SawInterval
<1>3. PassedStay
  BY DEF SmpInit, PassedStay, Passed
<1>. QED
  BY <1>1, <1>2, <1>3 DEF SmpIInv

(***************************************************************************)
(* The index of the boot processor's loops stays within the processors.    *)
(***************************************************************************)
LEMMA AdvanceIndex ==
  ASSUME bi \in Cpus, NEW next, Advance(next)
  PROVE  /\ bi' \in Cpus
         /\ bi < Aps => bi' = bi + 1 /\ bpc' = bpc
         /\ ~(bi < Aps) => bi' = 1 /\ bpc' = next /\ bi = Aps
  BY SmpAssumption DEF Advance, Cpus

(***************************************************************************)
(* The boot processor's steps up to the calibration.                       *)
(***************************************************************************)
LEMMA StartingSteps ==
  ASSUME SmpIInv, SendInit \/ SendStartup \/ CheckStarted \/ Recheck \/ GiveUp
  PROVE  SmpIInv'
<1>1. bi \in Cpus /\ 1 \in Cpus
  BY SmpAssumption DEF SmpIInv, SmpTypeOK, Cpus
<1>2. CASE SendInit
  <2>1. bi' \in Cpus /\ bpc' \in {"init_ipi", "startup"}
    BY <1>1, <1>2, AdvanceIndex DEF SendInit
  <2>2. SmpTypeOK' /\ (apc \in [Cpus -> Places])'
    BY <1>2, <2>1 DEF SmpIInv, SmpTypeOK, SendInit
  <2>3. SawInterval'
    BY <1>1, <1>2 DEF SmpIInv, SmpTypeOK, SawInterval, SendInit
  <2>. QED
    BY <2>1, <2>2, <2>3 DEF SmpIInv, PassedStay, Passed
<1>3. CASE SendStartup
  <2>1. bi' \in Cpus /\ bpc' \in {"startup", "check"}
    BY <1>1, <1>3, AdvanceIndex DEF SendStartup
  <2>2. SmpTypeOK' /\ (apc \in [Cpus -> Places])' /\ SawInterval'
    BY <1>1, <1>3, <2>1 DEF SmpIInv, SmpTypeOK, SawInterval, SendStartup
  <2>. QED
    BY <2>1, <2>2 DEF SmpIInv, PassedStay, Passed
<1>4. CASE CheckStarted
  <2>1. bi' \in Cpus /\ (bpc' = "check" \/ (bpc' \in {"calibrate", "recheck"} /\ bi' = 1))
    BY <1>1, <1>4, AdvanceIndex DEF CheckStarted
  <2>2. SmpTypeOK' /\ (apc \in [Cpus -> Places])' /\ SawInterval'
    BY <1>4, <2>1 DEF SmpIInv, SmpTypeOK, SawInterval, CheckStarted
  <2>. QED
    BY <2>1, <2>2 DEF SmpIInv, PassedStay, Passed
<1>5. CASE Recheck
  <2>1. bi' \in Cpus /\ (bpc' \in {"give_up", "recheck"} \/ (bpc' = "calibrate" /\ bi' = 1))
    BY <1>1, <1>5, AdvanceIndex DEF Recheck
  <2>2. SmpTypeOK' /\ (apc \in [Cpus -> Places])' /\ SawInterval'
    BY <1>5, <2>1 DEF SmpIInv, SmpTypeOK, SawInterval, Recheck
  <2>. QED
    BY <2>1, <2>2 DEF SmpIInv, PassedStay, Passed
<1>6. CASE GiveUp
  <2>1. bi' \in Cpus /\ (bpc' = "recheck" \/ (bpc' = "calibrate" /\ bi' = 1))
    BY <1>1, <1>6, SmpAssumption DEF GiveUp, Cpus
  <2>2. SmpTypeOK' /\ (apc \in [Cpus -> Places])'
    BY <1>6, <2>1 DEF SmpIInv, SmpTypeOK, GiveUp
  <2>3. SawInterval'
    BY <1>1, <1>6 DEF SmpIInv, SmpTypeOK, SawInterval, GiveUp
  <2>. QED
    BY <2>1, <2>2, <2>3 DEF SmpIInv, PassedStay, Passed
<1>. QED
  BY <1>2, <1>3, <1>4, <1>5, <1>6

(***************************************************************************)
(* The interval, and the loop that waits for everyone.                     *)
(***************************************************************************)
LEMMA CalibrationSteps ==
  ASSUME SmpIInv, BeginCalibration \/ EndCalibration \/ WaitOnline
  PROVE  SmpIInv'
<1>1. bi \in Cpus /\ 1 \in Cpus
  BY SmpAssumption DEF SmpIInv, SmpTypeOK, Cpus
<1>2. CASE BeginCalibration
  <2>1. SmpTypeOK' /\ (apc \in [Cpus -> Places])' /\ SawInterval'
    BY <1>2 DEF SmpIInv, SmpTypeOK, SawInterval, BeginCalibration
  <2>. QED
    BY <1>2, <2>1 DEF SmpIInv, PassedStay, Passed, BeginCalibration
<1>3. CASE EndCalibration
  <2>1. SmpTypeOK' /\ (apc \in [Cpus -> Places])' /\ SawInterval'
    BY <1>3 DEF SmpIInv, SmpTypeOK, SawInterval, EndCalibration
  <2>2. bi' = 1 /\ \A c \in Cpus : ~(c < 1)
    BY <1>3 DEF SmpIInv, PassedStay, EndCalibration, Cpus
  <2>. QED
    BY <1>3, <2>1, <2>2 DEF SmpIInv, PassedStay, Passed, EndCalibration
<1>4. CASE WaitOnline
  <2>1. trampoline = "END_CALIBRATION" /\ UNCHANGED <<status, trampoline, sipi, everyone, apc, calibrated>>
    BY <1>4 DEF SmpIInv, PassedStay, WaitOnline
  <2>2. \/ status[bi] \in {"ONLINE", "GAVE_UP"} /\ Advance("done")
        \/ bi' = 1 /\ bpc' = bpc
    BY <1>4 DEF WaitOnline
  <2>3. bi' \in Cpus /\ bpc' \in {"online", "done"}
    BY <1>1, <1>4, <2>2, AdvanceIndex DEF WaitOnline
  <2>4. SmpTypeOK' /\ (apc \in [Cpus -> Places])' /\ SawInterval'
    BY <2>1, <2>3 DEF SmpIInv, SmpTypeOK, SawInterval
  <2>5. ASSUME NEW c \in Cpus, Passed(c)'
        PROVE  Passed(c) \/ status[c] \in {"ONLINE", "GAVE_UP"}
    <3>1. c \in 1..Aps /\ bi \in 1..Aps /\ bpc = "online" /\ Aps \in Nat
      BY <1>1, <1>4, SmpAssumption DEF Cpus, WaitOnline
    <3>2. CASE bi' = 1 /\ bpc' = bpc
      BY <2>5, <3>1, <3>2 DEF Passed
    <3>3. CASE status[bi] \in {"ONLINE", "GAVE_UP"} /\ Advance("done")
      <4>1. c < bi \/ c = bi
        BY <1>1, <2>5, <3>1, <3>3, AdvanceIndex DEF Passed
      <4>. QED
        BY <3>1, <3>3, <4>1 DEF Passed
    <3>. QED
      BY <2>2, <3>2, <3>3
  <2>. QED
    BY <2>1, <2>3, <2>4, <2>5 DEF SmpIInv, PassedStay
<1>. QED
  BY <1>2, <1>3, <1>4

(***************************************************************************)
(* The steps of a processor that is starting.                              *)
(***************************************************************************)
LEMMA ApStepsKeep ==
  ASSUME SmpIInv, NEW c \in Cpus, ApStart(c) \/ ApSteps(c)
  PROVE  SmpIInv'
<1>1. CASE ApStart(c) \/ ApCheck(c)
  <2>1. UNCHANGED <<status, trampoline, sipi, bpc, bi, everyone, calibrated>>
    BY <1>1 DEF ApStart, ApCheck
  <2>2. PICK to \in {"check", "hang", "enable"} :
          apc[c] \in {"off", "check"} /\ apc' = [apc EXCEPT ![c] = to]
    BY <1>1 DEF ApStart, ApCheck, ApGoes
  <2>3. SmpTypeOK' /\ (apc \in [Cpus -> Places])'
    BY <2>1, <2>2 DEF SmpIInv, SmpTypeOK, Places
  <2>4. SawInterval'
    BY <2>1, <2>2 DEF SmpIInv, SawInterval
  <2>5. PassedStay'
    BY <2>1, <2>2 DEF SmpIInv, PassedStay, Passed
  <2>. QED
    BY <2>3, <2>4, <2>5 DEF SmpIInv
<1>2. CASE ApWaiting(c)
  <2>1. SmpTypeOK' /\ (apc \in [Cpus -> Places])'
    BY <1>2 DEF SmpIInv, SmpTypeOK, Places, ApWaiting, ApGoes
  <2>2. SawInterval'
    BY <1>2 DEF SmpIInv, SmpTypeOK, SawInterval, ApWaiting, ApGoes
  <2>3. PassedStay'
    BY <1>2 DEF SmpIInv, SmpTypeOK, PassedStay, Passed, ApWaiting, ApGoes
  <2>. QED
    BY <2>1, <2>2, <2>3 DEF SmpIInv
<1>3. CASE ApBegin(c)
  <2>1. UNCHANGED <<status, trampoline, sipi, bpc, bi, everyone>> /\ apc[c] = "wait_begin"
    BY <1>3 DEF ApBegin, ApGoes
  <2>2. \/ /\ trampoline = "BEGIN_CALIBRATION" /\ apc' = [apc EXCEPT ![c] = "wait_end"]
           /\ calibrated' = [calibrated EXCEPT ![c] = {"begin"}]
        \/ /\ trampoline = "END_CALIBRATION" /\ apc' = [apc EXCEPT ![c] = "late"]
           /\ calibrated' = [calibrated EXCEPT ![c] = {}]
    BY <1>3, Zenon DEF ApBegin, ApGoes
  <2>3. SmpTypeOK' /\ (apc \in [Cpus -> Places])'
    BY <2>1, <2>2 DEF SmpIInv, SmpTypeOK, Places
  <2>4. SawInterval'
    BY <2>1, <2>2 DEF SmpIInv, SmpTypeOK, SawInterval
  <2>5. PassedStay'
    BY <2>1, <2>2 DEF SmpIInv, PassedStay, Passed
  <2>. QED
    BY <2>3, <2>4, <2>5 DEF SmpIInv
<1>4. CASE ApEnd(c)
  <2>1. SmpTypeOK' /\ (apc \in [Cpus -> Places])'
    BY <1>4 DEF SmpIInv, SmpTypeOK, Places, ApEnd, ApGoes
  <2>2. SawInterval'
    BY <1>4 DEF SmpIInv, SmpTypeOK, SawInterval, ApEnd, ApGoes
  <2>3. PassedStay'
    BY <1>4 DEF SmpIInv, PassedStay, Passed, ApEnd, ApGoes
  <2>. QED
    BY <2>1, <2>2, <2>3 DEF SmpIInv
<1>5. CASE ApOnline(c)
  <2>1. SmpTypeOK' /\ (apc \in [Cpus -> Places])'
    BY <1>5 DEF SmpIInv, SmpTypeOK, Places, ApOnline, ApGoes
  <2>2. SawInterval'
    BY <1>5 DEF SmpIInv, SmpTypeOK, SawInterval, ApOnline, ApGoes
  <2>3. PassedStay'
    BY <1>5 DEF SmpIInv, SmpTypeOK, PassedStay, Passed, ApOnline, ApGoes
  <2>. QED
    BY <2>1, <2>2, <2>3 DEF SmpIInv
<1>. QED
  BY <1>1, <1>2, <1>3, <1>4, <1>5 DEF ApSteps

(***************************************************************************)
(* Every step preserves the invariant.                                     *)
(***************************************************************************)
LEMMA NextSmp == SmpIInv /\ [SmpNext]_smpVars => SmpIInv'
<1>. SUFFICES ASSUME SmpIInv, [SmpNext]_smpVars PROVE SmpIInv'
  OBVIOUS
<1>1. CASE UNCHANGED smpVars
  BY <1>1 DEF SmpIInv, SmpTypeOK, SawInterval, PassedStay, Passed, smpVars
<1>2. CASE thread_smp_ap_boot_bringup
  BY <1>2, StartingSteps, CalibrationSteps DEF thread_smp_ap_boot_bringup
<1>3. ASSUME NEW c \in Cpus, ApStart(c) \/ ApSteps(c) PROVE SmpIInv'
  BY <1>3, ApStepsKeep
<1>. QED
  BY <1>1, <1>2, <1>3 DEF SmpNext

(***************************************************************************)
(* The invariant holds throughout the bring-up.                            *)
(***************************************************************************)
THEOREM BringupInvariant == SmpSpec => []SmpIInv
  BY InitSmp, NextSmp, PTL DEF SmpSpec

(***************************************************************************)
(* For any number of processors, late or given up ones among them, one     *)
(* joins only when it has measured the whole interval, and after           *)
(* thread_smp_ap_boot_bringup has returned only when it was given up.      *)
(***************************************************************************)
THEOREM JoiningIsProper == SmpSpec => JoinsProperly
<1>. DEFINE Joins == \A c \in Cpus : status[c] # "ONLINE" /\ status'[c] = "ONLINE" =>
                       /\ calibrated[c] = {"begin", "end"}
                       /\ bpc = "done" => status[c] = "GAVE_UP"
<1>1. ASSUME SmpIInv, [SmpNext]_smpVars PROVE [Joins]_smpVars
  <2>. SUFFICES ASSUME SmpNext, NEW c \in Cpus, status[c] # "ONLINE", status'[c] = "ONLINE"
                PROVE  /\ calibrated[c] = {"begin", "end"}
                       /\ bpc = "done" => status[c] = "GAVE_UP"
    BY <1>1
  <2>1. status \in [Cpus -> {"ASLEEP", "WAKEUP_INITIATED", "WAITING_FOR_CALIBRATION",
                            "ONLINE", "GAVE_UP"}]
    BY <1>1 DEF SmpIInv, SmpTypeOK
  <2>2. ~thread_smp_ap_boot_bringup
    BY <2>1 DEF thread_smp_ap_boot_bringup, SendInit, SendStartup, CheckStarted, Recheck, GiveUp,
                BeginCalibration, EndCalibration, WaitOnline
  <2>3. PICK d \in Cpus : ApStart(d) \/ ApSteps(d)
    BY <2>2 DEF SmpNext
  <2>4. ApOnline(d)
    BY <2>1, <2>3 DEF ApStart, ApSteps, ApCheck, ApWaiting, ApBegin, ApEnd
  <2>5. c = d /\ apc[c] = "localsched"
    BY <2>1, <2>4 DEF ApOnline, ApGoes
  <2>. QED
    BY <1>1, <2>5 DEF SmpIInv, SawInterval, PassedStay, Passed
<1>. QED
  BY <1>1, BringupInvariant, PTL DEF SmpSpec, JoinsProperly

-----------------------------------------------------------------------------
(***************************************************************************)
(* The loads of the groups are exact, and two loads differ by no more than *)
(* the number of threads that create tasks, for any number of cores and    *)
(* threads.                                                                *)
(***************************************************************************)
Call == [at : {"none", "scan", "insert", "wake", "hung"}, root : CoreIds, current : CoreIds,
         result : CoreIds, load : Int]

BalTypeOK ==
  /\ tasks_count \in [CoreIds -> Int]
  /\ up \subseteq CoreIds
  /\ alloc \in [Allocators -> Call]
  /\ placed \in [CoreIds -> Nat] /\ ending \in [CoreIds -> Nat]
  /\ ended \in BOOLEAN

Ends == \A c \in CoreIds : ending[c] <= placed[c]

Exact ==
  \A c \in CoreIds : tasks_count[c] =
    (IF c = BootCore THEN 1 ELSE 0) + (placed[c] - ending[c]) + Cardinality(Counted(c))

(* The groups a call has seen: from its root round the ring to the current one. *)
Visited(a) ==
  IF a.load = -1 THEN {}
  ELSE {h \in CoreIds : IF a.root < a.current THEN a.root <= h /\ h < a.current
                        ELSE a.root <= h \/ h < a.current}

(* A call has a result exactly when it has left its root, and it is back there at the end. *)
Shape == \A t \in Allocators :
  /\ alloc[t].load >= -1
  /\ alloc[t].at = "scan" => (alloc[t].load = -1 <=> alloc[t].current = alloc[t].root)
  /\ alloc[t].at = "insert" => alloc[t].load # -1 /\ alloc[t].current = alloc[t].root

(* What a call has found is no more than any load it has seen is now. *)
Seen == \A t \in Allocators :
  alloc[t].at \in {"scan", "insert"} => \A h \in Visited(alloc[t]) : alloc[t].load <= tasks_count[h]

(* The calls that may still insert on g, having found a load of no more than l. *)
Pending(g, l) == {t \in Allocators : /\ alloc[t].at \in {"scan", "insert"} /\ alloc[t].load # -1
                                     /\ alloc[t].result = g /\ alloc[t].load <= l}

(* Every load, with all that may still be added to it at level l, is in bounds, *)
(* for each level l that is not below all loads.                                *)
Budget == \A g, h \in CoreIds : \A l \in Int :
  tasks_count[h] <= l => tasks_count[g] + Cardinality(Pending(g, l)) <= l + Cardinality(Allocators)

Spread == ~ended => Shape /\ Seen /\ Budget

BalIInv == BalTypeOK /\ Ends /\ Exact /\ Spread

-----------------------------------------------------------------------------
LEMMA AllocatorsFinite ==
  /\ IsFiniteSet(Allocators) /\ Cardinality(Allocators) \in Nat /\ Cardinality(Allocators) >= 1
  /\ \A S \in SUBSET Allocators : /\ IsFiniteSet(S) /\ Cardinality(S) \in Nat
                                  /\ Cardinality(S) <= Cardinality(Allocators)
<1>1. IsFiniteSet(Allocators) /\ Allocators # {}
  BY BalancerAssumption
<1>2. Cardinality(Allocators) \in Nat /\ Cardinality(Allocators) # 0
  BY <1>1, FS_CardinalityType, FS_EmptySet
<1>3. \A S \in SUBSET Allocators : IsFiniteSet(S) /\ Cardinality(S) <= Cardinality(Allocators)
  BY <1>1, FS_Subset
<1>4. \A S \in SUBSET Allocators : Cardinality(S) \in Nat
  BY <1>3, FS_CardinalityType
<1> QED
  BY <1>1, <1>2, <1>3, <1>4

LEMMA Ids ==
  /\ CoreCount \in Nat /\ CoreCount > 0 /\ CoreIds \subseteq Int
  /\ BootCore \in CoreIds /\ 0 \in CoreIds /\ NoCall \in Call
<1>1. CoreCount \in Nat /\ CoreCount > 0 /\ CoreIds \subseteq Int /\ BootCore \in CoreIds
  BY BalancerAssumption DEF CoreIds
<1>2. 0 \in CoreIds
  BY <1>1 DEF CoreIds
<1> QED
  BY <1>1, <1>2 DEF NoCall, Call

(* Fewer or the same calls are pending. *)
LEMMA Fewer ==
  ASSUME NEW S \in SUBSET Allocators, NEW T \in SUBSET S
  PROVE  Cardinality(T) <= Cardinality(S) /\ Cardinality(S) \in Nat /\ Cardinality(T) \in Nat
<1>1. IsFiniteSet(S)
  BY AllocatorsFinite
<1> QED
  BY <1>1, FS_Subset, FS_CardinalityType, AllocatorsFinite

LEMMA OneLess ==
  ASSUME NEW S \in SUBSET Allocators, NEW t \in S
  PROVE  Cardinality(S \ {t}) = Cardinality(S) - 1 /\ Cardinality(S) \in Nat
<1>1. IsFiniteSet(S)
  BY AllocatorsFinite
<1> QED
  BY <1>1, FS_RemoveElement, FS_CardinalityType

LEMMA OneMore ==
  ASSUME NEW S \in SUBSET Allocators, NEW t \in Allocators, t \notin S
  PROVE  Cardinality(S \cup {t}) = Cardinality(S) + 1 /\ Cardinality(S) \in Nat
<1>1. IsFiniteSet(S)
  BY AllocatorsFinite
<1> QED
  BY <1>1, FS_AddElement, FS_CardinalityType

-----------------------------------------------------------------------------
LEMMA InitBal == BalInit => BalIInv
<1> SUFFICES ASSUME BalInit PROVE BalIInv
  OBVIOUS
<1> USE Ids
<1>1. \A c \in CoreIds : tasks_count[c] = IF c = BootCore THEN 1 ELSE 0
  BY DEF BalInit, thread_smp_build_topology_flat
<1>2. \A t \in Allocators : alloc[t] = NoCall
  BY DEF BalInit
<1>3. BalTypeOK /\ Ends
  <2>1. alloc \in [Allocators -> Call]
    BY DEF BalInit
  <2>2. tasks_count \in [CoreIds -> Int]
    BY DEF BalInit, thread_smp_build_topology_flat
  <2>3. placed \in [CoreIds -> Nat] /\ ending \in [CoreIds -> Nat] /\ Ends
    BY DEF BalInit, Ends
  <2>4. up \subseteq CoreIds /\ ended \in BOOLEAN
    BY Zenon DEF BalInit
  <2> QED
    BY <2>1, <2>2, <2>3, <2>4 DEF BalTypeOK
<1>4. \A c \in CoreIds : Counted(c) = {}
  BY <1>2 DEF Counted, NoCall
<1>5. Exact
  BY <1>1, <1>4, FS_EmptySet DEF Exact, BalInit
<1>6. \A g \in CoreIds : \A l \in Int : Pending(g, l) = {}
  BY <1>2 DEF Pending, NoCall
<1>7. Budget
  BY <1>1, <1>6, FS_EmptySet, AllocatorsFinite DEF Budget
<1>8. Shape /\ Seen
  BY <1>2 DEF Shape, Seen, NoCall
<1> QED
  BY <1>3, <1>5, <1>7, <1>8 DEF BalIInv, Spread

(* A step that leaves the counts alone keeps the loads exact. *)
LEMMA ExactStays ==
  ASSUME Exact, UNCHANGED <<tasks_count, placed, ending>>,
         \A c \in CoreIds : Counted(c)' = Counted(c)
  PROVE  Exact'
BY DEF Exact

(* A step that leaves the loads alone and adds no pending call keeps the budget. *)
LEMMA BudgetStays ==
  ASSUME BalTypeOK, Budget, tasks_count' = tasks_count,
         \A g \in CoreIds : \A l \in Int : Pending(g, l)' \subseteq Pending(g, l)
  PROVE  Budget'
<1> SUFFICES ASSUME NEW g \in CoreIds, NEW h \in CoreIds, NEW l \in Int, tasks_count'[h] <= l
             PROVE  tasks_count'[g] + Cardinality(Pending(g, l)') <= l + Cardinality(Allocators)
  BY DEF Budget
<1>1. Pending(g, l) \in SUBSET Allocators
  BY DEF Pending
<1>2. Cardinality(Pending(g, l)') <= Cardinality(Pending(g, l))
      /\ Cardinality(Pending(g, l)) \in Nat /\ Cardinality(Pending(g, l)') \in Nat
  BY <1>1, Fewer
<1>3. tasks_count[g] + Cardinality(Pending(g, l)) <= l + Cardinality(Allocators)
  BY DEF Budget
<1> QED
  BY <1>2, <1>3, AllocatorsFinite DEF BalTypeOK

LEMMA NoneNegative ==
  ASSUME BalTypeOK, Ends, Exact, NEW c \in CoreIds
  PROVE  tasks_count[c] >= 0
<1>1. Cardinality(Counted(c)) \in Nat
  BY AllocatorsFinite DEF Counted
<1> QED
  BY <1>1 DEF BalTypeOK, Ends, Exact

LEMMA StepAllocateToAny ==
  ASSUME BalIInv, NEW t \in Allocators, AllocateToAny(t)
  PROVE  BalIInv'
<1> USE Ids DEF BalIInv
<1>1. PICK c \in up : alloc' = [alloc EXCEPT ![t] =
        [at |-> "scan", root |-> c, current |-> c, result |-> 0, load |-> -1]]
  BY Zenon DEF AllocateToAny
<1>2. UNCHANGED <<tasks_count, up, placed, ending, ended>> /\ alloc[t].at = "none"
  BY DEF AllocateToAny
<1>3. /\ alloc'[t] = [at |-> "scan", root |-> c, current |-> c, result |-> 0, load |-> -1]
      /\ \A s \in Allocators \ {t} : alloc'[s] = alloc[s]
  BY <1>1 DEF BalTypeOK
<1>4. BalTypeOK' /\ Ends'
  <2>1. alloc'[t] \in Call
    BY <1>3 DEF Call, BalTypeOK
  <2>2. alloc' \in [Allocators -> Call]
    BY <2>1, <1>1, <1>3 DEF BalTypeOK
  <2> QED
    BY <2>2, <1>2 DEF BalTypeOK, Ends
<1>5. \A d \in CoreIds : Counted(d)' = Counted(d)
  BY <1>2, <1>3 DEF Counted
<1>6. Exact'
  BY <1>2, <1>5, ExactStays
<1>7. ASSUME ~ended PROVE Shape' /\ Seen' /\ Budget'
  <2>1. Shape /\ Seen /\ Budget
    BY <1>7 DEF Spread
  <2>2. Shape'
    BY <2>1, <1>3 DEF Shape
  <2>3. Seen'
    BY <2>1, <1>2, <1>3 DEF Seen, Visited
  <2>4. \A g \in CoreIds : \A l \in Int : Pending(g, l)' \subseteq Pending(g, l)
    BY <1>3 DEF Pending
  <2> QED
    BY <2>1, <2>2, <2>3, <2>4, <1>2, BudgetStays
<1> QED
  BY <1>2, <1>4, <1>6, <1>7 DEF Spread

LEMMA StepWakeUp ==
  ASSUME BalIInv, NEW t \in Allocators, WakeUp(t)
  PROVE  BalIInv'
<1> USE Ids DEF BalIInv
<1>0. PICK id \in CoreIds : id = alloc[t].result
  BY Zenon DEF BalTypeOK, Call
<1>1. /\ alloc[t].at = "wake" /\ id \in CoreIds
      /\ UNCHANGED <<tasks_count, up, ending, ended>>
  BY DEF WakeUp
<1>2. \/ placed' = [placed EXCEPT ![id] = @ + 1] /\ alloc' = [alloc EXCEPT ![t] = NoCall]
      \/ placed' = placed /\ alloc' = [alloc EXCEPT ![t].at = "hung"]
  BY <1>0 DEF WakeUp
<1>3. /\ \A s \in Allocators \ {t} : alloc'[s] = alloc[s]
      /\ alloc'[t] \in Call /\ alloc' \in [Allocators -> Call]
      /\ alloc'[t].at \in {"none", "hung"}
      /\ alloc'[t].load \in {alloc[t].load, -1}
  <2>1. CASE alloc' = [alloc EXCEPT ![t] = NoCall]
    BY <2>1 DEF BalTypeOK, NoCall
  <2>2. CASE alloc' = [alloc EXCEPT ![t].at = "hung"]
    BY <2>2 DEF BalTypeOK, Call
  <2> QED
    BY <1>2, <2>1, <2>2
<1>4. BalTypeOK' /\ Ends'
  BY <1>1, <1>2, <1>3 DEF BalTypeOK, Ends
<1>5. Exact'
  <2>1. CASE alloc' = [alloc EXCEPT ![t] = NoCall] /\ placed' = [placed EXCEPT ![id] = @ + 1]
    <3>1. t \in Counted(id) /\ Counted(id)' = Counted(id) \ {t} /\ Counted(id) \in SUBSET Allocators
      BY <2>1, <1>0, <1>1, <1>3 DEF Counted, NoCall, BalTypeOK
    <3>2. \A c \in CoreIds \ {id} : Counted(c)' = Counted(c)
      BY <2>1, <1>0, <1>1, <1>3 DEF Counted, NoCall, BalTypeOK
    <3>3. Cardinality(Counted(id)') = Cardinality(Counted(id)) - 1 /\ Cardinality(Counted(id)) \in Nat
      BY <3>1, OneLess
    <3> QED
      BY <3>2, <3>3, <2>1, <1>1 DEF Exact, BalTypeOK
  <2>2. CASE alloc' = [alloc EXCEPT ![t].at = "hung"] /\ placed' = placed
    <3>1. \A c \in CoreIds : Counted(c)' = Counted(c)
      BY <2>2, <1>1, <1>3 DEF Counted, BalTypeOK
    <3> QED
      BY <3>1, <2>2, <1>1, ExactStays
  <2> QED
    BY <1>2, <2>1, <2>2
<1>6. ASSUME ~ended PROVE Shape' /\ Seen' /\ Budget'
  <2>1. Shape /\ Seen /\ Budget
    BY <1>6 DEF Spread
  <2>2. Shape'
    BY <2>1, <1>3 DEF Shape
  <2>3. Seen'
    BY <2>1, <1>1, <1>3 DEF Seen, Visited
  <2>4. \A g \in CoreIds : \A l \in Int : Pending(g, l)' \subseteq Pending(g, l)
    BY <1>3 DEF Pending
  <2> QED
    BY <2>1, <2>2, <2>3, <2>4, <1>1, BudgetStays
<1> QED
  BY <1>1, <1>4, <1>5, <1>6 DEF Spread

(* A call that is back at its root has seen all groups. *)
LEMMA AllSeen ==
  ASSUME NEW a \in Call, a.load # -1, a.current = a.root, NEW h \in CoreIds
  PROVE  h \in Visited(a)
<1>1. a.root \in Int /\ h \in Int
  BY Ids, Zenon DEF Call
<1>2. ~(a.root < a.current) /\ (a.root <= h \/ h < a.current)
  BY <1>1
<1> QED
  BY <1>2 DEF Visited

LEMMA StepInsert ==
  ASSUME BalIInv, NEW t \in Allocators, thread_smp_topology_update_on_insert(t)
  PROVE  BalIInv'
<1> USE Ids DEF BalIInv
<1>0. PICK id \in CoreIds : id = alloc[t].result
  BY Zenon DEF BalTypeOK, Call
<1>1. /\ alloc[t].at = "insert" /\ id \in CoreIds
      /\ tasks_count' = [tasks_count EXCEPT ![id] = @ + 1]
      /\ alloc' = [alloc EXCEPT ![t].at = "wake"]
      /\ UNCHANGED <<up, placed, ending, ended>>
  BY <1>0 DEF thread_smp_topology_update_on_insert, thread_balancer_least_busy_core
<1>2. /\ \A s \in Allocators \ {t} : alloc'[s] = alloc[s]
      /\ alloc'[t] \in Call /\ alloc' \in [Allocators -> Call]
      /\ alloc'[t].at = "wake" /\ alloc'[t].result = id /\ alloc'[t].load = alloc[t].load
  BY <1>0, <1>1 DEF BalTypeOK, Call
<1>3. /\ tasks_count' \in [CoreIds -> Int] /\ tasks_count'[id] = tasks_count[id] + 1
      /\ \A c \in CoreIds \ {id} : tasks_count'[c] = tasks_count[c]
      /\ \A c \in CoreIds : /\ tasks_count[c] \in Int /\ tasks_count'[c] \in Int
                             /\ tasks_count'[c] >= tasks_count[c]
  BY <1>1 DEF BalTypeOK
<1>4. BalTypeOK' /\ Ends'
  BY <1>1, <1>2, <1>3 DEF BalTypeOK, Ends
<1>5. Exact'
  <2>1. t \notin Counted(id) /\ Counted(id)' = Counted(id) \cup {t} /\ Counted(id) \in SUBSET Allocators
    BY <1>1, <1>2 DEF Counted
  <2>2. \A c \in CoreIds \ {id} : Counted(c)' = Counted(c)
    BY <1>1, <1>2 DEF Counted
  <2>3. Cardinality(Counted(id)') = Cardinality(Counted(id)) + 1 /\ Cardinality(Counted(id)) \in Nat
    BY <2>1, OneMore
  <2> QED
    BY <2>2, <2>3, <1>1, <1>3 DEF Exact, BalTypeOK
<1>6. ASSUME ~ended PROVE Shape' /\ Seen' /\ Budget'
  <2>1. Shape /\ Seen /\ Budget
    BY <1>6 DEF Spread
  <2>2. Shape'
    BY <2>1, <1>2 DEF Shape
  <2>3. Seen'
    <3> SUFFICES ASSUME NEW s \in Allocators, alloc'[s].at \in {"scan", "insert"},
                        NEW h \in Visited(alloc'[s])
                 PROVE  alloc'[s].load <= tasks_count'[h]
      BY DEF Seen
    <3>1. s # t /\ alloc'[s] = alloc[s]
      BY <1>2
    <3>2. h \in CoreIds /\ alloc[s].load <= tasks_count[h] /\ alloc[s].load \in Int
      BY <3>1, <2>1 DEF Seen, Visited, BalTypeOK, Call
    <3> QED
      BY <3>1, <3>2, <1>3
  <2>4. \A h \in CoreIds : alloc[t].load <= tasks_count[h]
    <3>1. alloc[t].load # -1 /\ alloc[t].current = alloc[t].root /\ alloc[t].root \in CoreIds
      BY <2>1, <1>1 DEF Shape, BalTypeOK, Call
    <3>2. \A h \in CoreIds : h \in Visited(alloc[t])
      BY <3>1, AllSeen DEF BalTypeOK
    <3> QED
      BY <3>2, <2>1, <1>1 DEF Seen
  <2>5. Budget'
    <3> SUFFICES ASSUME NEW g \in CoreIds, NEW h \in CoreIds, NEW l \in Int, tasks_count'[h] <= l
                 PROVE  tasks_count'[g] + Cardinality(Pending(g, l)') <= l + Cardinality(Allocators)
      BY DEF Budget
    <3>1. tasks_count[h] <= l /\ alloc[t].load <= l /\ alloc[t].load \in Int
      BY <2>4, <1>3 DEF BalTypeOK, Call
    <3>2. tasks_count[g] + Cardinality(Pending(g, l)) <= l + Cardinality(Allocators)
      BY <3>1, <2>1, Zenon DEF Budget
    <3>3. Pending(g, l) \in SUBSET Allocators
      BY DEF Pending
    <3>4. CASE g = id
      <4>1. t \in Pending(g, l)
        BY <3>1, <3>4, <1>0, <1>1, <2>1 DEF Pending, Shape
      <4>2. Pending(g, l)' = Pending(g, l) \ {t}
        BY <1>2 DEF Pending
      <4>3. Cardinality(Pending(g, l)') = Cardinality(Pending(g, l)) - 1
            /\ Cardinality(Pending(g, l)) \in Nat
        BY <3>3, <4>1, <4>2, OneLess
      <4> QED
        BY <3>2, <3>4, <4>3, <1>3, AllocatorsFinite
    <3>5. CASE g # id
      <4>1. Pending(g, l)' \subseteq Pending(g, l)
        BY <1>2 DEF Pending
      <4>2. Cardinality(Pending(g, l)') <= Cardinality(Pending(g, l))
            /\ Cardinality(Pending(g, l)) \in Nat /\ Cardinality(Pending(g, l)') \in Nat
        BY <3>3, <4>1, Fewer
      <4> QED
        BY <3>2, <3>5, <4>2, <1>3, AllocatorsFinite
    <3> QED
      BY <3>4, <3>5
  <2> QED
    BY <2>2, <2>3, <2>5
<1> QED
  BY <1>1, <1>4, <1>5, <1>6 DEF Spread

(* A turn of the scan: the groups seen are one more, the one it was at. *)
LEMMA OneMoreSeen ==
  ASSUME NEW a \in Call, NEW b \in Call, a.load = -1 <=> a.current = a.root,
         b.root = a.root, b.current = NextGroup(a.current), b.load # -1,
         NEW h \in Visited(b)
  PROVE  h \in CoreIds /\ (h = a.current \/ h \in Visited(a))
<1>1. h \in CoreIds
  BY DEF Visited
<1>2. /\ a.root \in 0..(CoreCount - 1) /\ a.current \in 0..(CoreCount - 1)
      /\ b.current \in 0..(CoreCount - 1) /\ h \in 0..(CoreCount - 1) /\ CoreCount \in Nat
  BY <1>1, Ids DEF Call, CoreIds
<1>3. IF a.root < b.current THEN a.root <= h /\ h < b.current ELSE a.root <= h \/ h < b.current
  BY DEF Visited
<1>4. CASE a.current = a.root
  BY <1>1, <1>2, <1>3, <1>4 DEF NextGroup
<1>5. CASE a.current # a.root
  <2>1. h = a.current \/ IF a.root < a.current THEN a.root <= h /\ h < a.current
                         ELSE a.root <= h \/ h < a.current
    BY <1>2, <1>3, <1>5 DEF NextGroup
  <2> QED
    BY <2>1, <1>1, <1>5 DEF Visited
<1> QED
  BY <1>4, <1>5

LEMMA StepScan ==
  ASSUME BalIInv, NEW t \in Allocators, thread_balancer_least_busy_group(t)
  PROVE  BalIInv'
<1> USE Ids DEF BalIInv
<1>0. PICK a \in Call : a = alloc[t]
  BY DEF BalTypeOK
<1>1. PICK b : b = alloc'[t]
  OBVIOUS
<1> DEFINE v == tasks_count[a.current]
           better == a.load = -1 \/ a.load > v
<1>2. /\ a.at = "scan"
      /\ b = [at |-> IF NextGroup(a.current) = a.root THEN "insert" ELSE "scan",
              root |-> a.root, current |-> NextGroup(a.current),
              result |-> IF better THEN a.current ELSE a.result,
              load |-> IF better THEN v ELSE a.load]
      /\ \A s \in Allocators \ {t} : alloc'[s] = alloc[s]
      /\ UNCHANGED <<tasks_count, up, placed, ending, ended>>
  BY <1>0, <1>1 DEF thread_balancer_least_busy_group, BalTypeOK
<1>3. a.current \in CoreIds /\ NextGroup(a.current) \in CoreIds /\ v \in Int /\ a.load \in Int
  <2>1. a.current \in CoreIds /\ a.load \in Int
    BY DEF Call
  <2>2. NextGroup(a.current) \in CoreIds
    BY <2>1 DEF NextGroup, CoreIds
  <2> QED
    BY <2>1, <2>2, Zenon DEF BalTypeOK
<1>4. /\ b.at \in {"scan", "insert"} /\ b.root = a.root /\ b.current = NextGroup(a.current)
      /\ b.at = "insert" <=> b.current = b.root
      /\ b.result = IF better THEN a.current ELSE a.result
      /\ b.load = IF better THEN v ELSE a.load
  BY <1>2
<1>5. b \in Call /\ alloc' \in [Allocators -> Call]
  <2>1. b.root \in CoreIds /\ b.current \in CoreIds /\ b.result \in CoreIds /\ b.load \in Int
    BY <1>3, <1>4 DEF Call
  <2>2. b \in Call
    BY <2>1, <1>2, <1>4 DEF Call
  <2> QED
    BY <2>2, <1>1, <1>2 DEF thread_balancer_least_busy_group, BalTypeOK
<1>6. BalTypeOK' /\ Ends'
  BY <1>2, <1>5 DEF BalTypeOK, Ends
<1>7. Exact'
  <2>1. alloc[t].at \notin {"wake", "hung"} /\ alloc'[t].at \notin {"wake", "hung"}
    BY <1>0, <1>1, <1>2, <1>4
  <2>2. \A c \in CoreIds : Counted(c)' = Counted(c)
    BY <2>1, <1>2 DEF Counted
  <2> QED
    BY <2>2, <1>2, ExactStays, Zenon
<1>8. ASSUME ~ended PROVE Shape' /\ Seen' /\ Budget'
  <2>1. Shape /\ Seen /\ Budget
    BY <1>8 DEF Spread
  <2>2. v >= 0
    BY <1>3, NoneNegative, Zenon
  <2>3. a.load >= -1 /\ (a.load = -1 <=> a.current = a.root)
    BY <1>0, <1>2, <2>1 DEF Shape
  <2>4. b.load # -1 /\ b.load >= -1 /\ b.load <= v /\ (a.load # -1 => b.load <= a.load)
    BY <1>3, <1>4, <2>2, <2>3
  <2>5. Shape'
    <3> SUFFICES ASSUME NEW s \in Allocators
                 PROVE  /\ alloc'[s].load >= -1
                        /\ alloc'[s].at = "scan" =>
                             (alloc'[s].load = -1 <=> alloc'[s].current = alloc'[s].root)
                        /\ alloc'[s].at = "insert" =>
                             alloc'[s].load # -1 /\ alloc'[s].current = alloc'[s].root
      BY DEF Shape
    <3>1. CASE s = t
      BY <3>1, <1>1, <1>4, <2>4
    <3>2. CASE s # t
      BY <3>2, <1>2, <2>1, Zenon DEF Shape
    <3> QED
      BY <3>1, <3>2
  <2>6. Seen'
    <3> SUFFICES ASSUME NEW s \in Allocators, alloc'[s].at \in {"scan", "insert"},
                        NEW h \in Visited(alloc'[s])
                 PROVE  alloc'[s].load <= tasks_count'[h]
      BY DEF Seen
    <3>1. CASE s = t
      <4>1. h \in CoreIds /\ (h = a.current \/ h \in Visited(a))
        BY <3>1, <1>1, <1>4, <1>5, <2>3, <2>4, OneMoreSeen
      <4>2. CASE h = a.current
        BY <4>2, <3>1, <1>1, <1>2, <2>4
      <4>3. CASE h \in Visited(a)
        <5>1. a.load # -1
          BY <4>3 DEF Visited
        <5>2. a.load <= tasks_count[h] /\ tasks_count[h] \in Int
          BY <4>1, <4>3, <1>0, <1>2, <2>1, Zenon DEF Seen, BalTypeOK
        <5>3. b.load \in Int
          BY <1>3, <1>4
        <5> QED
          BY <5>1, <5>2, <5>3, <3>1, <1>1, <1>2, <1>3, <2>4
      <4> QED
        BY <4>1, <4>2, <4>3
    <3>2. CASE s # t
      BY <3>2, <1>2, <2>1 DEF Seen
    <3> QED
      BY <3>1, <3>2
  <2>7. Budget'
    <3> SUFFICES ASSUME NEW g \in CoreIds, NEW h \in CoreIds, NEW l \in Int, tasks_count'[h] <= l
                 PROVE  tasks_count'[g] + Cardinality(Pending(g, l)') <= l + Cardinality(Allocators)
      BY DEF Budget
    <3>1. CASE better /\ g = a.current /\ v <= l
      <4>1. Pending(g, l)' \in SUBSET Allocators
        BY DEF Pending
      <4>2. Cardinality(Pending(g, l)') <= Cardinality(Allocators)
            /\ Cardinality(Pending(g, l)') \in Nat
        BY <4>1, AllocatorsFinite
      <4>3. tasks_count'[g] <= l
        BY <3>1, <1>2
      <4>4. tasks_count'[g] \in Int
        BY <1>0, <1>2 DEF BalTypeOK
      <4> QED
        BY <4>2, <4>3, <4>4, AllocatorsFinite
    <3>2. CASE ~(better /\ g = a.current /\ v <= l)
      <4>1. Pending(g, l)' \subseteq Pending(g, l)
        <5> SUFFICES ASSUME NEW s \in Pending(g, l)'  PROVE s \in Pending(g, l)
          OBVIOUS
        <5>1. /\ s \in Allocators /\ alloc'[s].at \in {"scan", "insert"} /\ alloc'[s].load # -1
              /\ alloc'[s].result = g /\ alloc'[s].load <= l
          BY DEF Pending
        <5>2. CASE s = t
          <6>1. ~better
            BY <5>1, <5>2, <3>2, <1>1, <1>4
          <6> QED
            BY <6>1, <5>1, <5>2, <1>0, <1>1, <1>2, <1>4 DEF Pending
        <5>3. CASE s # t
          BY <5>1, <5>3, <1>2, Zenon DEF Pending
        <5> QED
          BY <5>2, <5>3
      <4>2. Pending(g, l) \in SUBSET Allocators
        BY DEF Pending
      <4>3. Cardinality(Pending(g, l)') <= Cardinality(Pending(g, l))
            /\ Cardinality(Pending(g, l)) \in Nat /\ Cardinality(Pending(g, l)') \in Nat
        BY <4>1, <4>2, Fewer
      <4>4. tasks_count[g] + Cardinality(Pending(g, l)) <= l + Cardinality(Allocators)
        BY <1>2, <2>1 DEF Budget
      <4> QED
        BY <4>3, <4>4, <1>2, AllocatorsFinite DEF BalTypeOK
    <3> QED
      BY <3>1, <3>2
  <2> QED
    BY <2>5, <2>6, <2>7
<1> QED
  BY <1>2, <1>6, <1>7, <1>8 DEF Spread

LEMMA StepRemove ==
  ASSUME BalIInv, NEW c \in CoreIds, thread_smp_topology_update_on_remove(c)
  PROVE  BalIInv'
<1> USE Ids DEF BalIInv, thread_smp_topology_update_on_remove
<1>1. BalTypeOK' /\ Ends' /\ ended'
  BY DEF BalTypeOK, Ends
<1>2. \A d \in CoreIds : Counted(d)' = Counted(d) /\ Cardinality(Counted(d)) \in Nat
  BY AllocatorsFinite DEF Counted
<1>3. Exact'
  BY <1>2 DEF Exact, BalTypeOK
<1> QED
  BY <1>1, <1>3 DEF Spread

LEMMA StepTerminated ==
  ASSUME BalIInv, NEW c \in CoreIds, Terminated(c)
  PROVE  BalIInv'
<1> USE Ids DEF BalIInv, Terminated
<1>1. BalTypeOK' /\ Ends'
  BY DEF BalTypeOK, Ends
<1>2. \A d \in CoreIds : Counted(d)' = Counted(d) /\ Cardinality(Counted(d)) \in Nat
  BY AllocatorsFinite DEF Counted
<1>3. Exact'
  BY <1>2 DEF Exact, BalTypeOK
<1>4. Spread'
  BY Zenon DEF Spread, Shape, Seen, Budget, Pending
<1> QED
  BY <1>1, <1>3, <1>4

LEMMA NextBal == BalIInv /\ [BalNext]_balVars => BalIInv'
<1> SUFFICES ASSUME BalIInv, [BalNext]_balVars PROVE BalIInv'
  OBVIOUS
<1>1. CASE UNCHANGED balVars
  <2>1. UNCHANGED <<tasks_count, up, alloc, placed, ending, ended>>
    BY <1>1 DEF balVars
  <2> QED
    BY <2>1, Zenon DEF BalIInv, BalTypeOK, Ends, Exact, Counted, Spread, Shape, Seen, Budget, Pending
<1>2. CASE \E t \in Allocators :
             \/ AllocateToAny(t) \/ thread_balancer_least_busy_group(t)
             \/ thread_smp_topology_update_on_insert(t) \/ WakeUp(t)
  BY <1>2, StepAllocateToAny, StepScan, StepInsert, StepWakeUp
<1>3. CASE \E c \in CoreIds : thread_smp_topology_update_on_remove(c) \/ Terminated(c)
  BY <1>3, StepRemove, StepTerminated
<1> QED
  BY <1>1, <1>2, <1>3 DEF BalNext

(* The inductive invariant. *)
THEOREM BalancerInvariant == BalSpec => []BalIInv
BY InitBal, NextBal, PTL DEF BalSpec

-----------------------------------------------------------------------------
(***************************************************************************)
(* For any cores and threads, the load of every group is the number of its *)
(* tasks, whatever updates come together (thread_smp_topology_update_on_   *)
(* insert, thread_smp_topology_update_on_remove).                          *)
(***************************************************************************)
THEOREM LoadsAreExact == BalSpec => []LoadsExact
<1>1. BalIInv => LoadsExact
  BY NoneNegative DEF BalIInv, Exact, LoadsExact
<1> QED
  BY <1>1, BalancerInvariant, PTL

(***************************************************************************)
(* For any cores and threads, the least busy group that a thread found is  *)
(* never so stale that two loads differ by more than the number of threads *)
(* that create tasks, as long as no task has ended                         *)
(* (thread_balancer_least_busy_group).                                     *)
(***************************************************************************)
THEOREM SpreadIsBounded == BalSpec => []SpreadBounded
<1>1. ASSUME BalIInv, ~ended, NEW c \in CoreIds, NEW d \in CoreIds
      PROVE  tasks_count[c] <= tasks_count[d] + Cardinality(Allocators)
  <2>1. tasks_count[c] \in Int /\ tasks_count[d] \in Int
    BY <1>1 DEF BalIInv, BalTypeOK
  <2>2. tasks_count[c] + Cardinality(Pending(c, tasks_count[d]))
          <= tasks_count[d] + Cardinality(Allocators)
    BY <1>1, <2>1 DEF BalIInv, Spread, Budget
  <2>3. Cardinality(Pending(c, tasks_count[d])) \in Nat
    BY AllocatorsFinite DEF Pending
  <2> QED
    BY <2>1, <2>2, <2>3, AllocatorsFinite
<1>2. BalIInv => SpreadBounded
  BY <1>1 DEF SpreadBounded
<1> QED
  BY <1>2, BalancerInvariant, PTL

(***************************************************************************)
(* Both together: balancing keeps exact loads even, for any cores and      *)
(* threads.                                                                *)
(***************************************************************************)
THEOREM LoadsAreBalanced == BalSpec => []LoadsBalanced
<1>1. LoadsExact /\ SpreadBounded => LoadsBalanced
  BY DEF LoadsBalanced
<1> QED
  BY <1>1, LoadsAreExact, SpreadIsBounded, PTL
=============================================================================
