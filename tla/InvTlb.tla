--------------------------------- MODULE InvTlb ---------------------------------
(***************************************************************************)
(* Global invalidation of TLBs (mem/virt/invtlb.c).  A core acknowledges a *)
(* request when it switches tasks or goes idle; the core that takes the    *)
(* counter to zero ends the generation.  Switching does not take the lock, *)
(* so its load and its decrement fall between the two stores of a request. *)
(* Interrupts are off in all of these: a core does one at a time.          *)
(***************************************************************************)
EXTENDS Integers, FiniteSets

CONSTANTS
  TlbCores,     \* the processors
  MaxRequests,  \* bound on the requests
  CounterMod    \* 2^64 in the code

ASSUME InvTlbAssumption ==
  IsFiniteSet(TlbCores) /\ CounterMod \in Nat /\ Cardinality(TlbCores) < CounterMod

IDLE == 2

VARIABLES
  pending_state, states, idle_cores,    \* mem_virt_invtlb_*
  pending_tlb_updates, pending,         \* mem_virt_invtlb_*
  tlock,        \* mem_virt_invtlb_lock: the core that holds it, in a set
  tpc,          \* core -> where it is
  loaded,       \* core -> the pending state it has read
  requests,     \* number of requests
  owed,         \* cores the last request counted that have not answered since (not in the code)
  again,        \* cores that answered since then without owing it (not in the code)
  clean         \* had all cores answered, and was none answering, when it came? (not in the code)
tlbVars == <<pending_state, states, idle_cores, pending_tlb_updates, pending,
             tlock, tpc, loaded, requests, owed, again, clean>>

flip(pending0) == 1 - pending0

(* mem_virt_invtlb_init: every core seems to owe an answer to a request. *)
TlbInit ==
  /\ pending_state = 0 /\ idle_cores = 0 /\ pending_tlb_updates = 0 /\ pending = FALSE
  /\ states = [c \in TlbCores |-> pending_state]
  /\ tlock = {} /\ tpc = [c \in TlbCores |-> "run"] /\ loaded = [c \in TlbCores |-> 0]
  /\ requests = 0 /\ owed = {} /\ again = {} /\ clean = FALSE

Goes(c, from, to) == tpc[c] = from /\ tpc' = [tpc EXCEPT ![c] = to]

(***************************************************************************)
(* mem_virt_invtlb_ack.  seen is the pending state that the core has read. *)
(* It is due if it has not answered yet; its answer is the last one if the *)
(* counter comes to zero.                                                  *)
(***************************************************************************)
Due(c, seen) == states[c] = seen
LastAnswer == (pending_tlb_updates - 1) % CounterMod = 0
CountDown(c, seen) ==
  IF Due(c, seen)
  THEN /\ pending_tlb_updates' = (pending_tlb_updates - 1) % CounterMod
       /\ owed' = owed \ {c}
       /\ again' = IF c \in owed THEN again ELSE again \cup {c}
  ELSE UNCHANGED <<pending_tlb_updates, owed, again>>
GiveAnswer(c, seen) ==
  /\ states' = [states EXCEPT ![c] = IF Due(c, seen) THEN flip(seen) ELSE @]
  /\ CountDown(c, seen)

(* Faulty variant: the generation ends with the first answer. *)
AckFirst(c) ==
  LET seen == loaded[c] IN
  /\ Goes(c, "ack", IF Due(c, seen) THEN "gen" ELSE "run")
  /\ GiveAnswer(c, seen)
  /\ UNCHANGED <<pending_state, idle_cores, pending, tlock, loaded, requests, clean>>

(* The load, in mem_virt_invtlb_update_cr3 and at the end of a request. *)
AckLoad(c) ==
  /\ \/ Goes(c, "run", "ack")
     \/ Goes(c, "requested", "ack")
  /\ loaded' = [loaded EXCEPT ![c] = pending_state]
  /\ UNCHANGED <<pending_state, states, idle_cores, pending_tlb_updates, pending,
                 tlock, requests, owed, again, clean>>

mem_virt_invtlb_ack(c) ==
  LET seen == loaded[c] IN
  /\ Goes(c, "ack", IF Due(c, seen) /\ LastAnswer THEN "gen" ELSE "run")
  /\ GiveAnswer(c, seen)
  /\ UNCHANGED <<pending_state, idle_cores, pending, tlock, loaded, requests, clean>>

mem_virt_invtlb_gen_update_nolock(c) ==
  /\ Goes(c, "gen", "run") /\ tlock = {}
  /\ pending' = FALSE
  /\ UNCHANGED <<pending_state, states, idle_cores, pending_tlb_updates,
                 tlock, loaded, requests, owed, again, clean>>

(* mem_virt_invtlb_on_idle_enter, with the lock held: the answer, and the rest. *)
IdleAnswer(c) ==
  /\ Goes(c, "run", IF Due(c, pending_state) /\ LastAnswer THEN "idlegen" ELSE "idleack")
  /\ tlock = {} /\ tlock' = {c}
  /\ GiveAnswer(c, pending_state)
  /\ UNCHANGED <<pending_state, idle_cores, pending, loaded, requests, clean>>

mem_virt_invtlb_on_idle_enter(c) ==
  /\ \/ Goes(c, "idlegen", "idle") /\ pending' = FALSE
     \/ Goes(c, "idleack", "idle") /\ UNCHANGED pending
  /\ idle_cores' = idle_cores + 1
  /\ states' = [states EXCEPT ![c] = IDLE]
  /\ tlock' = {}
  /\ UNCHANGED <<pending_state, pending_tlb_updates, loaded, requests, owed, again, clean>>

mem_virt_invtlb_on_idle_exit(c) ==
  /\ Goes(c, "idle", "run") /\ tlock = {}
  /\ idle_cores' = idle_cores - 1
  /\ states' = [states EXCEPT ![c] = flip(pending_state)]
  /\ UNCHANGED <<pending_state, pending_tlb_updates, pending, tlock, loaded, requests, owed, again, clean>>

(* mem_virt_invtlb_request: nothing ever sets mem_virt_invtlb_pending. *)
RequestStore(c) ==
  LET busy == {d \in TlbCores : states[d] # IDLE} IN
  /\ tpc[c] = "run" /\ tlock = {}
  /\ requests < MaxRequests /\ requests' = requests + 1
  /\ IF pending THEN UNCHANGED <<pending_tlb_updates, tlock, tpc, owed, again, clean>>
     ELSE /\ pending_tlb_updates' = Cardinality(TlbCores) - idle_cores
          /\ Goes(c, "run", "request") /\ tlock' = {c}
          /\ owed' = busy /\ again' = {}
          /\ clean' = \A d \in busy : states[d] # pending_state /\ tpc[d] # "ack"
  /\ UNCHANGED <<pending_state, states, idle_cores, pending, loaded>>

RequestFlip(c) ==
  /\ Goes(c, "request", "requested")
  /\ pending_state' = flip(pending_state) /\ tlock' = {}
  /\ UNCHANGED <<states, idle_cores, pending_tlb_updates, pending, loaded, requests, owed, again, clean>>

TlbNext ==
  \E c \in TlbCores :
    \/ AckLoad(c) \/ mem_virt_invtlb_ack(c) \/ mem_virt_invtlb_gen_update_nolock(c)
    \/ IdleAnswer(c) \/ mem_virt_invtlb_on_idle_enter(c) \/ mem_virt_invtlb_on_idle_exit(c)
    \/ RequestStore(c) \/ RequestFlip(c)

TlbSpec == TlbInit /\ [][TlbNext]_tlbVars

-----------------------------------------------------------------------------
(* The answer that ends a generation has been given. *)
Ending == {"gen", "idlegen"}

(***************************************************************************)
(* A generation ends, by a core that switches tasks or by one that goes    *)
(* idle, when every core that was not idle has answered since the request; *)
(* if one has not, another core has answered twice, and that happens only  *)
(* to a request that came before all had answered the earlier one, or      *)
(* while one was answering it (mem_virt_invtlb_ack).  Cores come and go    *)
(* idle meanwhile.  (The late answer to the earlier request counts for the *)
(* later one, and the core answers that one as well.)                      *)
(***************************************************************************)
GenerationWaits ==
  [][\A c \in TlbCores : tpc[c] \notin Ending /\ tpc'[c] \in Ending
       => owed' = {} \/ (again' # {} /\ ~clean)]_tlbVars
=============================================================================
