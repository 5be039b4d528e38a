------------------------------- MODULE Spinlock -------------------------------
(***************************************************************************)
(* The ticket spinlock (thread/locking/spinlock.c) with the interrupt      *)
(* state that thread_spinlock_lock and _unlock save and restore.  Tickets  *)
(* are a size_t: they wrap.  ungrab reads current and writes it back in    *)
(* two steps; only the holder does so.                                     *)
(***************************************************************************)
EXTENDS Integers, FiniteSets

CONSTANTS
  Cores,          \* contenders; a core that spins has interrupts off
  TicketModulus   \* a size_t wraps here

ASSUME SpinlockAssumption ==
  /\ IsFiniteSet(Cores)
  /\ TicketModulus \in Nat /\ TicketModulus >= Cardinality(Cores)
  /\ TicketModulus > 0

VARIABLES
  allocated,      \* spinlock->allocated: the next ticket
  current,        \* spinlock->current: the ticket that is served
  ticket,         \* the ticket each core has drawn
  seen,           \* what ungrab has read from current
  ints,           \* interrupts are enabled on the core
  saved,          \* the interrupt state thread_spinlock_lock returned
  spc             \* "out", "draw", "spin", "in", "ungrab" or "recover"

spinVars == <<allocated, current, ticket, seen, ints, saved, spc>>

Tickets == 0..(TicketModulus - 1)

(* n + 1 on a size_t. *)
Increment(n) == IF n = TicketModulus - 1 THEN 0 ELSE n + 1

SpinInit ==
  /\ allocated = 0 /\ current = 0
  /\ ticket = [c \in Cores |-> 0] /\ seen = [c \in Cores |-> 0]
  /\ ints \in [Cores -> BOOLEAN]
  /\ saved = [c \in Cores |-> FALSE]
  /\ spc = [c \in Cores |-> "out"]

(* Outside of the lock the kernel turns interrupts on and off as it likes. *)
SetInterrupts(c) ==
  /\ spc[c] = "out"
  /\ ints' = [ints EXCEPT ![c] = ~@]
  /\ UNCHANGED <<allocated, current, ticket, seen, saved, spc>>

(* thread_spinlock_lock: intlevel_elevate, then grab. *)
thread_spinlock_lock(c) ==
  /\ spc[c] = "out"
  /\ saved' = [saved EXCEPT ![c] = ints[c]]
  /\ ints' = [ints EXCEPT ![c] = FALSE]
  /\ spc' = [spc EXCEPT ![c] = "draw"]
  /\ UNCHANGED <<allocated, current, ticket, seen>>

(* Faulty variant: the ticket is read and incremented without atomicity,   *)
(* so that another core may draw the same one.                             *)
DrawLost(c) ==
  /\ spc[c] = "draw"
  /\ ticket' = [ticket EXCEPT ![c] = allocated]
  /\ \E lost \in BOOLEAN :
       allocated' = IF lost THEN allocated ELSE Increment(allocated)
  /\ spc' = [spc EXCEPT ![c] = "spin"]
  /\ UNCHANGED <<current, seen, ints, saved>>

GrabDraw(c) ==
  /\ spc[c] = "draw"
  /\ ticket' = [ticket EXCEPT ![c] = allocated]
  /\ allocated' = Increment(allocated)
  /\ spc' = [spc EXCEPT ![c] = "spin"]
  /\ UNCHANGED <<current, seen, ints, saved>>

GrabEnter(c) ==
  /\ spc[c] = "spin" /\ current = ticket[c]
  /\ spc' = [spc EXCEPT ![c] = "in"]
  /\ UNCHANGED <<allocated, current, ticket, seen, ints, saved>>

UngrabRead(c) ==
  /\ spc[c] = "in"
  /\ seen' = [seen EXCEPT ![c] = current]
  /\ spc' = [spc EXCEPT ![c] = "ungrab"]
  /\ UNCHANGED <<allocated, current, ticket, ints, saved>>

(* Faulty variant: the next ticket is not called. *)
UngrabKeeps(c) ==
  /\ spc[c] = "ungrab"
  /\ current' = seen[c]
  /\ spc' = [spc EXCEPT ![c] = "recover"]
  /\ UNCHANGED <<allocated, ticket, seen, ints, saved>>

UngrabWrite(c) ==
  /\ spc[c] = "ungrab"
  /\ current' = Increment(seen[c])
  /\ spc' = [spc EXCEPT ![c] = "recover"]
  /\ UNCHANGED <<allocated, ticket, seen, ints, saved>>

(* thread_spinlock_unlock: intlevel_recover after ungrab; the locals are gone. *)
Recover(c) ==
  /\ spc[c] = "recover"
  /\ ints' = [ints EXCEPT ![c] = saved[c] \/ @]
  /\ spc' = [spc EXCEPT ![c] = "out"]
  /\ ticket' = [ticket EXCEPT ![c] = 0]
  /\ seen' = [seen EXCEPT ![c] = 0] /\ saved' = [saved EXCEPT ![c] = FALSE]
  /\ UNCHANGED <<allocated, current>>

SpinStep(c) == GrabDraw(c) \/ GrabEnter(c) \/ UngrabRead(c) \/ UngrabWrite(c) \/ Recover(c)
SpinNext == \E c \in Cores : SetInterrupts(c) \/ thread_spinlock_lock(c) \/ SpinStep(c)

SpinSpec == SpinInit /\ [][SpinNext]_spinVars

(***************************************************************************)
(* Interrupts are off from lock to unlock, so nothing takes the core away: *)
(* it keeps executing, in the critical section too.                        *)
(***************************************************************************)
SpinFairness == \A c \in Cores : WF_spinVars(SpinStep(c))
SpinFairSpec == SpinSpec /\ SpinFairness

-----------------------------------------------------------------------------
SpinTypeOK ==
  /\ allocated \in Tickets /\ current \in Tickets
  /\ ticket \in [Cores -> Tickets] /\ seen \in [Cores -> Tickets]
  /\ ints \in [Cores -> BOOLEAN] /\ saved \in [Cores -> BOOLEAN]
  /\ spc \in [Cores -> {"out", "draw", "spin", "in", "ungrab", "recover"}]

SpinHolding(c) == spc[c] \in {"in", "ungrab"}

(***************************************************************************)
(* One core at a time is between grab and ungrab, even when the tickets    *)
(* wrap around, as long as there are no more cores than tickets.           *)
(***************************************************************************)
SpinExclusion == \A c, d \in Cores : SpinHolding(c) /\ SpinHolding(d) => c = d

(***************************************************************************)
(* A core that has locked keeps its interrupts off until it has unlocked   *)
(* (an interrupt handler that took the same lock would spin for ever).     *)
(***************************************************************************)
InterruptsOff == \A c \in Cores : spc[c] # "out" => ~ints[c]

(***************************************************************************)
(* Tickets are served in the order in which they were drawn: everybody who *)
(* spins gets in, however many others come back again and again.           *)
(***************************************************************************)
SpinnerGetsIn == \A c \in Cores : spc[c] = "spin" ~> spc[c] = "in"
=============================================================================
