------------------------------- MODULE SmpBringup -------------------------------
(***************************************************************************)
(* The boot processor starts the other processors (thread/smp/             *)
(* boot_bringup.c) while each of them runs thread_smp_trampoline_ap_init   *)
(* (thread/smp/trampoline.c).  They share the status of each processor and *)
(* the state of the trampoline, all atomics: every load and every store is *)
(* a step.  How long anything takes is not modelled, so a processor may be *)
(* late for every timeout, and one that is never fair is dead.             *)
(***************************************************************************)
EXTENDS Integers, FiniteSets

CONSTANT Aps      \* the last of the processors 1..Aps; the boot processor is not in it

ASSUME SmpAssumption == Aps \in Nat \ {0}

VARIABLES
  status,         \* processor -> THREAD_SMP_CORE_STATUS_*
  trampoline,     \* thread_smp_trampoline_state
  sipi,           \* processors that were sent a startup IPI
  bpc, bi,        \* where the boot processor is, and the index of its loop
  everyone,       \* everyone_started, later everyone_ready
  apc,            \* processor -> where it is in thread_smp_trampoline_ap_init
  calibrated      \* processor -> parts of the interval it saw (not in the code)
smpVars == <<status, trampoline, sipi, bpc, bi, everyone, apc, calibrated>>

Cpus == 1..Aps

SmpInit ==
  /\ status = [c \in Cpus |-> "ASLEEP"]
  /\ trampoline = "WAITING"
  /\ sipi = {} /\ bpc = "init_ipi" /\ bi = 1 /\ everyone = TRUE
  /\ apc = [c \in Cpus |-> "off"]
  /\ calibrated = [c \in Cpus |-> {}]

(* The loop goes on with the next processor or the boot processor moves on. *)
Advance(next) == IF bi < Aps THEN bi' = bi + 1 /\ UNCHANGED bpc ELSE bi' = 1 /\ bpc' = next

(* Only the boot processor touches the status of a sleeping one. *)
SendInit ==
  /\ bpc = "init_ipi"
  /\ status' = [status EXCEPT ![bi] = "WAKEUP_INITIATED"]
  /\ Advance("startup")
  /\ UNCHANGED <<trampoline, sipi, everyone, apc, calibrated>>

(* ic_send_startup_ipi, in the first round and again after 10 ms. *)
SendStartup ==
  /\ bpc = "startup"
  /\ sipi' = IF status[bi] = "WAKEUP_INITIATED" THEN sipi \cup {bi} ELSE sipi
  /\ Advance("check") /\ everyone' = TRUE
  /\ UNCHANGED <<status, trampoline, apc, calibrated>>

CheckStarted ==
  LET missing == status[bi] = "WAKEUP_INITIATED"
  IN  /\ bpc = "check"
      /\ everyone' = (everyone /\ ~missing)
      /\ Advance(IF everyone' THEN "calibrate" ELSE "recheck")
      /\ UNCHANGED <<status, trampoline, sipi, apc, calibrated>>

(* After 200 ms more: the load and the store that gives up are two steps. *)
Recheck ==
  /\ bpc = "recheck"
  /\ IF status[bi] = "WAKEUP_INITIATED" THEN bpc' = "give_up" /\ UNCHANGED bi
     ELSE Advance("calibrate")
  /\ UNCHANGED <<status, trampoline, sipi, everyone, apc, calibrated>>

GiveUp ==
  /\ bpc = "give_up"
  /\ status' = [status EXCEPT ![bi] = "GAVE_UP"]
  /\ IF bi < Aps THEN bi' = bi + 1 /\ bpc' = "recheck" ELSE bi' = 1 /\ bpc' = "calibrate"
  /\ UNCHANGED <<trampoline, sipi, everyone, apc, calibrated>>

BeginCalibration ==
  /\ bpc = "calibrate" /\ trampoline' = "BEGIN_CALIBRATION" /\ bpc' = "calibrating"
  /\ UNCHANGED <<status, sipi, bi, everyone, apc, calibrated>>

EndCalibration ==
  /\ bpc = "calibrating" /\ trampoline' = "END_CALIBRATION" /\ bpc' = "online"
  /\ everyone' = TRUE
  /\ UNCHANGED <<status, sipi, bi, apc, calibrated>>

(* Faulty variant: a processor that waits for the calibration counts too. *)
WaitOnlineLoose ==
  LET ready == status[bi] \in {"ONLINE", "GAVE_UP", "WAITING_FOR_CALIBRATION"}
  IN  /\ bpc = "online"
      /\ IF ready THEN Advance("done") ELSE bi' = 1 /\ UNCHANGED bpc
      /\ UNCHANGED <<status, trampoline, sipi, everyone, apc, calibrated>>

(* The last loop: it starts over at the first processor that is not ready. *)
WaitOnline ==
  LET ready == status[bi] \in {"ONLINE", "GAVE_UP"}
  IN  /\ bpc = "online"
      /\ IF ready THEN Advance("done") ELSE bi' = 1 /\ UNCHANGED bpc
      /\ UNCHANGED <<status, trampoline, sipi, everyone, apc, calibrated>>

thread_smp_ap_boot_bringup ==
  \/ SendInit \/ SendStartup \/ CheckStarted \/ Recheck \/ GiveUp
  \/ BeginCalibration \/ EndCalibration \/ WaitOnline

-----------------------------------------------------------------------------
ApGoes(c, from, to) == apc[c] = from /\ apc' = [apc EXCEPT ![c] = to]

(* The processor gets the IPI and runs the trampoline's code; or it never does. *)
ApStart(c) ==
  /\ c \in sipi /\ ApGoes(c, "off", "check")
  /\ UNCHANGED <<status, trampoline, sipi, bpc, bi, everyone, calibrated>>

ApCheck(c) ==
  /\ ApGoes(c, "check", IF status[c] = "GAVE_UP" THEN "hang" ELSE "enable")
  /\ UNCHANGED <<status, trampoline, sipi, bpc, bi, everyone, calibrated>>

(* ic_enable and arch_init, then a store that looks at nothing. *)
ApWaiting(c) ==
  /\ ApGoes(c, "enable", "wait_begin")
  /\ status' = [status EXCEPT ![c] = "WAITING_FOR_CALIBRATION"]
  /\ UNCHANGED <<trampoline, sipi, bpc, bi, everyone, calibrated>>

(* Faulty variant: the end is waited for with the test of the beginning. *)
ApEndStuck(c) ==
  /\ trampoline = "BEGIN_CALIBRATION" /\ ApGoes(c, "wait_end", "localsched")
  /\ calibrated' = [calibrated EXCEPT ![c] = @ \cup {"end"}]
  /\ UNCHANGED <<status, trampoline, sipi, bpc, bi, everyone>>

(* While the interval has not begun it polls; once it is over it hangs. *)
ApBegin(c) ==
  /\ trampoline \in {"BEGIN_CALIBRATION", "END_CALIBRATION"}
  /\ ApGoes(c, "wait_begin", IF trampoline = "BEGIN_CALIBRATION" THEN "wait_end" ELSE "late")
  /\ calibrated' = [calibrated EXCEPT ![c] = IF trampoline = "BEGIN_CALIBRATION"
                                             THEN {"begin"} ELSE {}]
  /\ UNCHANGED <<status, trampoline, sipi, bpc, bi, everyone>>

ApEnd(c) ==
  /\ trampoline = "END_CALIBRATION" /\ ApGoes(c, "wait_end", "localsched")
  /\ calibrated' = [calibrated EXCEPT ![c] = @ \cup {"end"}]
  /\ UNCHANGED <<status, trampoline, sipi, bpc, bi, everyone>>

(* thread_localsched_init, and thread_localsched_bootstrap after it. *)
ApOnline(c) ==
  /\ ApGoes(c, "localsched", "running")
  /\ status' = [status EXCEPT ![c] = "ONLINE"]
  /\ UNCHANGED <<trampoline, sipi, bpc, bi, everyone, calibrated>>

ApSteps(c) == ApCheck(c) \/ ApWaiting(c) \/ ApBegin(c) \/ ApEnd(c) \/ ApOnline(c)

SmpNext ==
  \/ thread_smp_ap_boot_bringup
  \/ \E c \in Cpus : ApStart(c) \/ ApSteps(c)

(* The boot processor and those that have started keep running; no other one has to start. *)
SmpFairness ==
  /\ WF_smpVars(thread_smp_ap_boot_bringup)
  /\ \A c \in Cpus : WF_smpVars(ApSteps(c))
SmpSpec == SmpInit /\ [][SmpNext]_smpVars
SmpFairSpec == SmpSpec /\ SmpFairness

-----------------------------------------------------------------------------
SmpTypeOK ==
  /\ status \in [Cpus -> {"ASLEEP", "WAKEUP_INITIATED", "WAITING_FOR_CALIBRATION",
                          "ONLINE", "GAVE_UP"}]
  /\ trampoline \in {"WAITING", "BEGIN_CALIBRATION", "END_CALIBRATION"}
  /\ sipi \subseteq Cpus /\ bi \in Cpus /\ everyone \in BOOLEAN
  /\ calibrated \in [Cpus -> SUBSET {"begin", "end"}]

(***************************************************************************)
(* A processor joins only after it measured its clocks over the whole      *)
(* interval, also when it was given up before it said it was waiting (the  *)
(* store after the check in thread_smp_trampoline_ap_init).  After the     *)
(* bring-up has returned it joins only if giving it up overwrote the       *)
(* status it had just stored (the load and the store of "Give up on this   *)
(* CPU" are not one step): one that nobody gave up is waited for, one that *)
(* finds itself given up or late stays out.                                *)
(***************************************************************************)
JoinsProperly ==
  [][\A c \in Cpus : status[c] # "ONLINE" /\ status'[c] = "ONLINE" =>
       /\ calibrated[c] = {"begin", "end"}
       /\ bpc = "done" => status[c] = "GAVE_UP"]_smpVars

(***************************************************************************)
(* The startup IPIs once sent, the bring-up returns, unless a processor    *)
(* stored that it is waiting only after the interval was over: that one    *)
(* hangs in this status and the last loop waits for it for ever.           *)
(***************************************************************************)
BringupReturns == bpc = "startup" ~> bpc = "done" \/ \E c \in Cpus : apc[c] = "late"
=============================================================================
