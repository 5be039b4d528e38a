--------------------------------- MODULE MCLive ---------------------------------
(***************************************************************************)
(* Small instances of the parts with fairness, which share no state: the   *)
(* variable part says which of them moves, the others stay in an initial   *)
(* state.                                                                  *)
(***************************************************************************)
EXTENDS RpcSession, Mutex, Spinlock, SmpBringup

VARIABLE part

LiveInit ==
  /\ part \in {"session", "mutex", "spinlock", "smp"}
  /\ SessionInit /\ MutexInit /\ SmpInit
  /\ SpinInit /\ (part # "spinlock" => \A c \in Cores : ints[c])

LiveNext ==
  \/ /\ part = "session" /\ SessionNext
     /\ UNCHANGED <<part, mutexVars, spinVars, smpVars>>
  \/ /\ part = "mutex" /\ MutexNext
     /\ UNCHANGED <<part, sessionVars, spinVars, smpVars>>
  \/ /\ part = "spinlock" /\ SpinNext
     /\ UNCHANGED <<part, sessionVars, mutexVars, smpVars>>
  \/ /\ part = "smp" /\ SmpNext
     /\ UNCHANGED <<part, sessionVars, mutexVars, spinVars>>

(* The fairness of each part, for the part that moves: SessionFairness, SmpFairness, *)
(* MutexFairness and SpinFairness.  Other steps are not enabled in an initial state.  *)
LiveSpec ==
  /\ LiveInit /\ [][LiveNext]_<<part, sessionVars, mutexVars, spinVars, smpVars>>
  /\ \A t \in Threads : /\ WF_sessionVars(SessionInside(t))
                        /\ SF_sessionVars(part = "session" /\ GetNotification(t))
                        /\ SF_sessionVars(ActOnNote(t))
                        /\ SF_sessionVars(Return(t))
  /\ WF_smpVars(part = "smp" /\ thread_smp_ap_boot_bringup)
  /\ \A c \in Cpus : WF_smpVars(ApSteps(c))
  /\ MutexFairness /\ SpinFairness
=============================================================================
