------------------------------ MODULE SchedProofs ------------------------------
(***************************************************************************)
(* The per-core scheduler, for every set of cores and tasks: the run queue *)
(* is exact, and no wake-up is lost where IPIs are prompt.                 *)
(***************************************************************************)
EXTENDS LocalSched, TLAPS

USE SMTT(20), ZenonT(20)

(* A core executes task code exactly when it has a current task. *)
CurrentExact ==
  \A c \in Cores : current_task[c] # NoTask <=> pc[c] \in {"run", "resumed"}

(* A task that was ever put into a queue has been counted. *)
TasksCounted ==
  \A t \in Tasks : task[t].st # "none" => tasks_count[CoreOf[t]] # 0

(* Only the timer handler returns without ic_ack, and a core halts, and    *)
(* wakes up, with interrupts on.                                           *)
HaltsOpen ==
  \A c \in Cores :
    /\ "ipi" \notin isr[c]
    /\ pc[c] \in {"halt", "awake"} => ints[c]
    /\ ic_state = "xapic" => ~inflight[c]

(***************************************************************************)
(* An IPI on its way was sent for a task that is still in the queue, or    *)
(* that has just been taken out of it: the core takes the IPI before it    *)
(* executes anything that could make it idle again.                        *)
(***************************************************************************)
IpiHasReason ==
  \A c \in Cores :
    /\ sending[c] => heap[c] # {}
    /\ "ipi" \in irr[c] => \/ heap[c] # {}
                           \/ pc[c] = "resumed"
                           \/ pc[c] = "run" /\ ints[c]

(* A core in the idle loop with nothing to do tells so to its wakers. *)
IdleIsFlagged ==
  \A c \in Cores : pc[c] \in {"halt", "awake", "look"} /\ heap[c] = {} => idle[c]

WakeInv == PromptIpis => IpiHasReason /\ IdleIsFlagged /\ HaltsOnlyWhenEmpty

(***************************************************************************)
(* The inductive invariant.  That update_unfairness never divides by zero  *)
(* follows from it.                                                        *)
(***************************************************************************)
SchedIInv ==
  /\ TypeOK /\ TaskInOnePlace /\ TimesliceEnds
  /\ CurrentExact /\ TasksCounted /\ HaltsOpen /\ WakeInv

(* What a handler leaves to Run and EnterIdle: ready and ts agree on the   *)
(* queue of core c, nobody runs there, and the other cores are untouched.  *)
Left(c, ready, ts) ==
  /\ ready \in SUBSET Tasks /\ ts \in [Tasks -> TaskState]
  /\ \A t \in Tasks :
       /\ t \in ready <=> ts[t].st = "ready" /\ CoreOf[t] = c
       /\ ts[t].st = "running" => CoreOf[t] # c
       /\ CoreOf[t] # c => ts[t] = task[t]
       /\ ts[t].st # "none" => task[t].st # "none"

-----------------------------------------------------------------------------
(***************************************************************************)
(* Initially every core is about to bootstrap, and no task exists.         *)
(***************************************************************************)
LEMMA InitIInv == Init => SchedIInv
<1>. SUFFICES ASSUME Init PROVE SchedIInv
  OBVIOUS
<1>1. TypeOK
  BY LocalSchedAssumption DEF Init, TypeOK, PC, TaskState
<1>2. TaskInOnePlace /\ TimesliceEnds /\ CurrentExact /\ TasksCounted /\ HaltsOpen
  BY LocalSchedAssumption
     DEF Init, TaskInOnePlace, TimesliceEnds, CurrentExact, TasksCounted, HaltsOpen
<1>3. WakeInv
  BY DEF Init, WakeInv, IpiHasReason, IdleIsFlagged, HaltsOnlyWhenEmpty
<1>. QED
  BY <1>1, <1>2, <1>3 DEF SchedIInv

(***************************************************************************)
(* What Left leaves when nobody runs on the core: every task keeps its     *)
(* place.                                                                  *)
(***************************************************************************)
LEMMA LeftAsIs ==
  ASSUME SchedIInv, NEW c \in Cores, current_task[c] = NoTask
  PROVE  Left(c, heap[c], task)
  BY LocalSchedAssumption DEF SchedIInv, TypeOK, TaskInOnePlace, Left

(***************************************************************************)
(* The current task is suspended or ends.                                  *)
(***************************************************************************)
LEMMA LeftByCurrent ==
  ASSUME SchedIInv, NEW c \in Cores, NEW t \in Tasks, current_task[c] = t,
         NEW r \in TaskState, r.st \in {"blocked", "gone"}
  PROVE  Left(c, heap[c], [task EXCEPT ![t] = r])
  BY DEF SchedIInv, TypeOK, TaskInOnePlace, Left

(***************************************************************************)
(* The current task yields or is preempted.                                *)
(***************************************************************************)
LEMMA LeftToQueue ==
  ASSUME SchedIInv, NEW c \in Cores, NEW t \in Tasks, current_task[c] = t,
         NEW r \in TaskState, r.st = "ready"
  PROVE  Left(c, heap[c] \cup {t}, [task EXCEPT ![t] = r])
  BY DEF SchedIInv, TypeOK, TaskInOnePlace, Left

(***************************************************************************)
(* A task of the queue becomes the current task of the core.               *)
(***************************************************************************)
LEMMA RunIInv ==
  ASSUME SchedIInv, NEW c \in Cores, NEW ready, NEW ts, NEW t \in ready,
         Left(c, ready, ts), Run(c, t, ready, ts), ~sending[c],
         UNCHANGED <<platform, idle, tasks_count, sending, inflight, isr>>,
         UNCHANGED armed \/ armed' = [armed EXCEPT ![c] = TRUE],
         UNCHANGED irr \/ irr' = [irr EXCEPT ![c] = @ \ {"timer"}],
         armed'[c] \/ "timer" \in irr'[c]
  PROVE  SchedIInv'
<1>. t \in Tasks /\ CoreOf[t] = c /\ ts[t].st = "ready" /\ t # NoTask
  BY LocalSchedAssumption DEF Left
<1>1. TypeOK'
  <2>1. /\ heap' \in [Cores -> SUBSET Tasks] /\ current_task' \in [Cores -> Tasks \cup {NoTask}]
        /\ pc' \in [Cores -> PC]
    BY DEF SchedIInv, TypeOK, Left, Run, PC
  <2>2. ints' \in [Cores -> BOOLEAN] /\ task' \in [Tasks -> TaskState]
    BY DEF SchedIInv, TypeOK, Left, Run, TaskState
  <2>3. armed' \in [Cores -> BOOLEAN]
    BY Zenon DEF SchedIInv, TypeOK
  <2>4. irr' \in [Cores -> SUBSET {"timer", "ipi"}]
    BY DEF SchedIInv, TypeOK
  <2>. QED
    BY <2>1, <2>2, <2>3, <2>4, Zenon DEF SchedIInv, TypeOK, platform
<1>2. TaskInOnePlace'
  <2>. SUFFICES ASSUME NEW u \in Tasks, NEW d \in Cores
                PROVE  /\ u \in heap'[d] <=> task'[u].st = "ready" /\ CoreOf[u] = d
                       /\ current_task'[d] = u <=> task'[u].st = "running" /\ CoreOf[u] = d
    BY DEF TaskInOnePlace
  <2>1. task'[u].st = IF u = t THEN "running" ELSE ts[u].st
    BY DEF Left, Run, TaskState
  <2>2. CASE d = c
    BY <2>1, <2>2 DEF SchedIInv, TypeOK, Left, Run
  <2>3. CASE d # c
    BY <2>1, <2>3 DEF SchedIInv, TypeOK, TaskInOnePlace, Left, Run
  <2>. QED
    BY <2>2, <2>3
<1>3. TimesliceEnds'
  BY DEF SchedIInv, TypeOK, TimesliceEnds, Run
<1>4. CurrentExact'
  BY DEF SchedIInv, TypeOK, CurrentExact, Run, Left
<1>5. TasksCounted'
  BY DEF SchedIInv, TypeOK, TasksCounted, Run, Left
<1>6. HaltsOpen'
  BY DEF SchedIInv, TypeOK, HaltsOpen, Run, platform
<1>7. WakeInv'
  <2>. SUFFICES ASSUME PromptIpis PROVE IpiHasReason' /\ IdleIsFlagged' /\ HaltsOnlyWhenEmpty'
    BY DEF WakeInv, PromptIpis, platform
  <2>1. IpiHasReason'
    BY DEF SchedIInv, TypeOK, WakeInv, IpiHasReason, Run
  <2>2. IdleIsFlagged'
    BY DEF SchedIInv, TypeOK, WakeInv, IdleIsFlagged, Run
  <2>3. HaltsOnlyWhenEmpty'
    BY DEF SchedIInv, TypeOK, WakeInv, HaltsOnlyWhenEmpty, Deliverable, Run
  <2>. QED
    BY <2>1, <2>2, <2>3
<1>. QED
  BY <1>1, <1>2, <1>3, <1>4, <1>5, <1>6, <1>7 DEF SchedIInv

(***************************************************************************)
(* The core finds its queue empty and becomes idle.                        *)
(***************************************************************************)
LEMMA EnterIdleIInv ==
  ASSUME SchedIInv, NEW c \in Cores, NEW ts,
         Left(c, {}, ts), EnterIdle(c, {}, ts), ~sending[c],
         PromptIpis => "ipi" \notin irr[c],
         UNCHANGED <<platform, tasks_count, sending, inflight, irr, isr>>
  PROVE  SchedIInv'
<1>1. TypeOK'
  <2>1. /\ heap' \in [Cores -> SUBSET Tasks] /\ current_task' \in [Cores -> Tasks \cup {NoTask}]
        /\ pc' \in [Cores -> PC] /\ task' \in [Tasks -> TaskState]
    BY DEF SchedIInv, TypeOK, Left, EnterIdle, PC
  <2>2. idle' \in [Cores -> BOOLEAN] /\ armed' \in [Cores -> BOOLEAN] /\ ints' \in [Cores -> BOOLEAN]
    BY DEF SchedIInv, TypeOK, EnterIdle
  <2>. QED
    BY <2>1, <2>2, Zenon DEF SchedIInv, TypeOK, platform
<1>2. TaskInOnePlace'
  BY LocalSchedAssumption DEF SchedIInv, TypeOK, TaskInOnePlace, Left, EnterIdle
<1>3. TimesliceEnds' /\ CurrentExact'
  BY DEF SchedIInv, TypeOK, TimesliceEnds, CurrentExact, EnterIdle
<1>4. TasksCounted'
  BY DEF SchedIInv, TypeOK, TasksCounted, EnterIdle, Left
<1>5. HaltsOpen'
  BY DEF SchedIInv, TypeOK, HaltsOpen, EnterIdle, platform
<1>6. WakeInv'
  <2>. SUFFICES ASSUME PromptIpis PROVE IpiHasReason' /\ IdleIsFlagged' /\ HaltsOnlyWhenEmpty'
    BY DEF WakeInv, PromptIpis, platform
  <2>1. IpiHasReason'
    BY DEF SchedIInv, TypeOK, WakeInv, IpiHasReason, EnterIdle
  <2>2. IdleIsFlagged'
    BY DEF SchedIInv, TypeOK, WakeInv, IdleIsFlagged, EnterIdle
  <2>3. HaltsOnlyWhenEmpty'
    BY DEF SchedIInv, TypeOK, WakeInv, HaltsOnlyWhenEmpty, Deliverable, EnterIdle
  <2>. QED
    BY <2>1, <2>2, <2>3
<1>. QED
  BY <1>1, <1>2, <1>3, <1>4, <1>5, <1>6 DEF SchedIInv

(***************************************************************************)
(* The tail of a handler that suspends, yields or ends the current task.   *)
(***************************************************************************)
LEMMA DequeueIInv ==
  ASSUME SchedIInv, NEW c \in Cores, NEW ready, NEW ts,
         current_task[c] # NoTask, ~sending[c],
         Left(c, ready, ts), Dequeue(c, ready, ts),
         PromptIpis /\ ready = {} => "ipi" \notin irr[c],
         UNCHANGED <<platform, tasks_count, sending, inflight, irr, isr>>
  PROVE  SchedIInv'
<1>1. ASSUME NEW t \in ready, Run(c, t, ready, ts), UNCHANGED <<idle, armed>>
      PROVE  SchedIInv'
  <2>1. armed[c] \/ "timer" \in irr[c]
    BY DEF SchedIInv, TimesliceEnds
  <2>. QED
    BY <1>1, <2>1, RunIInv
<1>2. ASSUME ready = {}, EnterIdle(c, ready, ts) PROVE SchedIInv'
  BY <1>2, EnterIdleIInv
<1>. QED
  BY <1>1, <1>2 DEF Dequeue

(***************************************************************************)
(* What an executing core knows: it has a current task, and an IPI waits   *)
(* only while interrupts are off.                                          *)
(***************************************************************************)
LEMMA ExecutesFacts ==
  ASSUME SchedIInv, NEW c \in Cores, Executes(c)
  PROVE  current_task[c] \in Tasks /\ (ints[c] => "ipi" \notin irr[c])
  BY DEF SchedIInv, TypeOK, CurrentExact, HaltsOpen, Executes, Deliverable

(***************************************************************************)
(* thread_localsched_bootstrap.                                            *)
(***************************************************************************)
LEMMA BootstrapIInv ==
  ASSUME SchedIInv, NEW c \in Cores, thread_localsched_bootstrap(c), UNCHANGED platform
  PROVE  SchedIInv'
<1>1. current_task[c] = NoTask /\ ~sending[c]
  BY DEF SchedIInv, CurrentExact, thread_localsched_bootstrap
<1>2. Left(c, heap[c], task)
  BY <1>1, LeftAsIs
<1>3. ASSUME NEW t \in heap[c], Run(c, t, heap[c], task),
             armed' = [armed EXCEPT ![c] = TRUE], UNCHANGED idle
      PROVE  SchedIInv'
  <2>1. armed'[c]
    BY <1>3 DEF SchedIInv, TypeOK
  <2>. QED
    BY <1>1, <1>2, <1>3, <2>1, RunIInv, Zenon DEF thread_localsched_bootstrap
<1>4. ASSUME heap[c] = {}, EnterIdle(c, heap[c], task) PROVE SchedIInv'
  <2>1. PromptIpis => "ipi" \notin irr[c]
    BY <1>4 DEF SchedIInv, WakeInv, IpiHasReason, thread_localsched_bootstrap
  <2>. QED
    BY <1>1, <1>2, <1>4, <2>1, EnterIdleIInv DEF thread_localsched_bootstrap
<1>. QED
  BY <1>3, <1>4 DEF thread_localsched_bootstrap

(***************************************************************************)
(* The current task suspends itself.  Interrupts are off, so an IPI may be *)
(* waiting; unless tasks nest suspensions it was sent for a task that is   *)
(* still queued, and the core does not become idle.                        *)
(***************************************************************************)
LEMMA SuspendIInv ==
  ASSUME SchedIInv, NEW c \in Cores, thread_localsched_suspend_current(c), UNCHANGED platform
  PROVE  SchedIInv'
<1>. DEFINE r == [st |-> "blocked", iflag |-> FALSE]
            ts == [task EXCEPT ![current_task[c]] = r]
<1>1. /\ pc[c] = "run" \/ (pc[c] = "resumed" /\ nesting)
      /\ ~ints[c] /\ ~sending[c] /\ Dequeue(c, heap[c], ts)
      /\ UNCHANGED <<tasks_count, sending, inflight, irr, isr>>
  BY DEF thread_localsched_suspend_current, Executes
<1>2. current_task[c] \in Tasks /\ current_task[c] # NoTask
  BY <1>1, LocalSchedAssumption DEF SchedIInv, TypeOK, CurrentExact
<1>3. r \in TaskState /\ r.st \in {"blocked", "gone"}
  BY DEF TaskState
<1>4. Left(c, heap[c], ts)
  BY <1>2, <1>3, LeftByCurrent
<1>5. PromptIpis /\ heap[c] = {} => "ipi" \notin irr[c]
  BY <1>1 DEF SchedIInv, WakeInv, IpiHasReason, PromptIpis
<1>. HIDE DEF ts
<1>. QED
  BY <1>1, <1>2, <1>4, <1>5, DequeueIInv

(***************************************************************************)
(* The current task yields.                                                *)
(***************************************************************************)
LEMMA YieldIInv ==
  ASSUME SchedIInv, NEW c \in Cores, thread_localsched_yield(c), UNCHANGED platform
  PROVE  SchedIInv'
<1>. DEFINE r == [st |-> "ready", iflag |-> TRUE]
            ts == [task EXCEPT ![current_task[c]] = r]
            ready == heap[c] \cup {current_task[c]}
<1>1. /\ Executes(c) /\ ints[c] /\ ~sending[c] /\ Dequeue(c, ready, ts)
      /\ UNCHANGED <<tasks_count, sending, inflight, irr, isr>>
  BY DEF thread_localsched_yield
<1>2. current_task[c] \in Tasks /\ current_task[c] # NoTask /\ "ipi" \notin irr[c]
  BY <1>1, ExecutesFacts, LocalSchedAssumption
<1>3. r \in TaskState /\ r.st = "ready"
  BY DEF TaskState
<1>4. Left(c, ready, ts)
  BY <1>2, <1>3, LeftToQueue
<1>. HIDE DEF ts, ready
<1>. QED
  BY <1>1, <1>2, <1>4, DequeueIInv

(***************************************************************************)
(* The current task ends.                                                  *)
(***************************************************************************)
LEMMA TerminateIInv ==
  ASSUME SchedIInv, NEW c \in Cores, thread_localsched_terminate(c), UNCHANGED platform
  PROVE  SchedIInv'
<1>. DEFINE ts == [task EXCEPT ![current_task[c]].st = "gone"]
<1>1. /\ Executes(c) /\ ints[c] /\ ~sending[c] /\ Dequeue(c, heap[c], ts)
      /\ UNCHANGED <<tasks_count, sending, inflight, irr, isr>>
  BY DEF thread_localsched_terminate
<1>2. current_task[c] \in Tasks /\ current_task[c] # NoTask /\ "ipi" \notin irr[c]
  BY <1>1, ExecutesFacts, LocalSchedAssumption
<1>3. PICK r : r = [task[current_task[c]] EXCEPT !.st = "gone"]
  BY Zenon
<1>4. r \in TaskState /\ r.st = "gone"
  BY <1>2, <1>3 DEF SchedIInv, TypeOK, TaskState
<1>5. ts = [task EXCEPT ![current_task[c]] = r]
  BY <1>3
<1>6. Left(c, heap[c], ts)
  BY <1>2, <1>4, <1>5, LeftByCurrent
<1>. HIDE DEF ts
<1>. QED
  BY <1>1, <1>2, <1>6, DequeueIInv

(***************************************************************************)
(* The timer preempts the current task.                                    *)
(***************************************************************************)
LEMMA PreemptIInv ==
  ASSUME SchedIInv, NEW c \in Cores, thread_localsched_timer_int_handler(c), UNCHANGED platform
  PROVE  SchedIInv'
<1>. DEFINE r == [st |-> "ready", iflag |-> TRUE]
            ts == [task EXCEPT ![current_task[c]] = r]
            ready == heap[c] \cup {current_task[c]}
<1>1. PICK n \in ready : Run(c, n, ready, ts)
  BY DEF thread_localsched_timer_int_handler
<1>2. /\ pc[c] = "run" /\ ~sending[c] /\ armed' = [armed EXCEPT ![c] = TRUE]
      /\ irr' = [irr EXCEPT ![c] = @ \ {"timer"}]
      /\ UNCHANGED <<idle, tasks_count, sending, inflight, isr>>
  BY DEF thread_localsched_timer_int_handler
<1>3. current_task[c] \in Tasks /\ armed'[c]
  BY <1>2 DEF SchedIInv, TypeOK, CurrentExact
<1>4. r \in TaskState /\ r.st = "ready"
  BY DEF TaskState
<1>5. Left(c, ready, ts)
  BY <1>3, <1>4, LeftToQueue
<1>. HIDE DEF ts, ready
<1>. QED
  BY <1>1, <1>2, <1>3, <1>5, RunIInv, Zenon


(***************************************************************************)
(* The idle loop finds a task.                                             *)
(***************************************************************************)
LEMMA IdleFoundIInv ==
  ASSUME SchedIInv, NEW c \in Cores, IdleFound(c), UNCHANGED platform
  PROVE  SchedIInv'
<1>1. PICK t \in heap[c] : Run(c, t, heap[c], task)
  BY DEF IdleFound
<1>2. /\ pc[c] = "look" /\ ~sending[c] /\ armed' = [armed EXCEPT ![c] = TRUE]
      /\ UNCHANGED <<idle, tasks_count, sending, inflight, irr, isr>>
  BY DEF IdleFound
<1>3. current_task[c] = NoTask /\ armed'[c]
  BY <1>2 DEF SchedIInv, TypeOK, CurrentExact
<1>4. Left(c, heap[c], task)
  BY <1>3, LeftAsIs
<1>. QED
  BY <1>1, <1>2, <1>3, <1>4, RunIInv, Zenon

(***************************************************************************)
(* A wake-up, or a new task: it goes to the queue of its core, and an idle *)
(* core is sent an IPI.                                                    *)
(***************************************************************************)
LEMMA EnqueueIInv ==
  ASSUME SchedIInv, NEW t \in Tasks, task[t].st \in {"none", "blocked"},
         NEW flag \in BOOLEAN, enqueue_signal_nolock(t, flag),
         UNCHANGED <<platform, current_task, idle, inflight, armed, irr, isr, pc, ints>>
  PROVE  SchedIInv'
<1>. DEFINE home == CoreOf[t]
<1>1. /\ home \in Cores /\ ~sending[home] /\ tasks_count[home] < MaxWakeups
      /\ tasks_count' = [tasks_count EXCEPT ![home] = @ + 1]
      /\ heap' = [heap EXCEPT ![home] = @ \cup {t}]
      /\ task' = [task EXCEPT ![t] = [st |-> "ready", iflag |-> flag]]
      /\ sending' = [sending EXCEPT ![home] = idle[home]]
  BY LocalSchedAssumption DEF enqueue_signal_nolock
<1>2. \A u \in Tasks : CoreOf[u] \in Cores
  BY LocalSchedAssumption
<1>. HIDE DEF home
<1>3. TypeOK'
  <2>1. heap' \in [Cores -> SUBSET Tasks] /\ task' \in [Tasks -> TaskState]
    BY <1>1 DEF SchedIInv, TypeOK, TaskState
  <2>2. tasks_count' \in [Cores -> 0..MaxWakeups]
    BY <1>1, LocalSchedAssumption DEF SchedIInv, TypeOK
  <2>3. sending' \in [Cores -> BOOLEAN]
    BY <1>1, Zenon DEF SchedIInv, TypeOK
  <2>. QED
    BY <2>1, <2>2, <2>3, Zenon DEF SchedIInv, TypeOK, platform
<1>4. TaskInOnePlace'
  BY <1>1, <1>2 DEF SchedIInv, TypeOK, TaskInOnePlace, home
<1>5. TimesliceEnds' /\ CurrentExact' /\ HaltsOpen'
  BY DEF SchedIInv, TimesliceEnds, CurrentExact, HaltsOpen, platform
<1>6. TasksCounted'
  <2>1. \A c \in Cores : tasks_count[c] \in Nat
    BY LocalSchedAssumption DEF SchedIInv, TypeOK
  <2>2. \A c \in Cores : tasks_count'[c] = IF c = home THEN tasks_count[c] + 1 ELSE tasks_count[c]
    BY <1>1 DEF SchedIInv, TypeOK
  <2>3. \A c \in Cores : tasks_count[c] # 0 => tasks_count'[c] # 0
    BY <2>1, <2>2
  <2>4. tasks_count'[home] # 0
    BY <1>1, <2>1, <2>2
  <2>5. \A u \in Tasks : u # t => task'[u] = task[u]
    BY <1>1 DEF SchedIInv, TypeOK
  <2>. QED
    BY <1>2, <2>3, <2>4, <2>5 DEF SchedIInv, TasksCounted, home
<1>7. WakeInv'
  <2>. SUFFICES ASSUME PromptIpis PROVE IpiHasReason' /\ IdleIsFlagged' /\ HaltsOnlyWhenEmpty'
    BY DEF WakeInv, PromptIpis, platform
  <2>1. IpiHasReason'
    BY <1>1, Zenon DEF SchedIInv, TypeOK, WakeInv, IpiHasReason
  <2>2. IdleIsFlagged'
    BY <1>1 DEF SchedIInv, TypeOK, WakeInv, IdleIsFlagged
  <2>3. HaltsOnlyWhenEmpty'
    BY <1>1 DEF SchedIInv, TypeOK, WakeInv, IdleIsFlagged, HaltsOnlyWhenEmpty, Deliverable
  <2>. QED
    BY <2>1, <2>2, <2>3
<1>. QED
  BY <1>3, <1>4, <1>5, <1>6, <1>7 DEF SchedIInv

(***************************************************************************)
(* Steps that neither move a task nor count one: it is enough to look at   *)
(* the timer, the program counter and the IPIs.                            *)
(***************************************************************************)
LEMMA QuietIInv ==
  ASSUME SchedIInv, TypeOK', TimesliceEnds', CurrentExact', HaltsOpen', WakeInv',
         UNCHANGED <<heap, current_task, tasks_count, task>>
  PROVE  SchedIInv'
  BY DEF SchedIInv, TaskInOnePlace, TasksCounted

(***************************************************************************)
(* Interrupts go off and on again.                                         *)
(***************************************************************************)
LEMMA IntlevelIInv ==
  ASSUME SchedIInv, NEW c \in Cores, intlevel_elevate(c) \/ intlevel_recover(c), UNCHANGED platform
  PROVE  SchedIInv'
<1>1. TypeOK'
  BY Zenon DEF SchedIInv, TypeOK, intlevel_elevate, intlevel_recover, platform, PC
<1>2. TimesliceEnds' /\ CurrentExact' /\ HaltsOpen'
  BY DEF SchedIInv, TypeOK, TimesliceEnds, CurrentExact, HaltsOpen,
         intlevel_elevate, intlevel_recover, platform, Executes
<1>3. WakeInv'
  BY ExecutesFacts
     DEF SchedIInv, TypeOK, WakeInv, PromptIpis, IpiHasReason, IdleIsFlagged, HaltsOnlyWhenEmpty,
         Deliverable, intlevel_elevate, intlevel_recover, platform, Executes
<1>. QED
  BY <1>1, <1>2, <1>3, QuietIInv DEF intlevel_elevate, intlevel_recover

(***************************************************************************)
(* The IPI is sent, and arrives.                                           *)
(***************************************************************************)
LEMMA SendIInv ==
  ASSUME SchedIInv, NEW c \in Cores, ic_send_ipi(c) \/ IpiArrives(c), UNCHANGED platform
  PROVE  SchedIInv'
<1>1. TypeOK'
  <2>1. sending' \in [Cores -> BOOLEAN] /\ inflight' \in [Cores -> BOOLEAN]
    BY Zenon DEF SchedIInv, TypeOK, ic_send_ipi, IpiArrives
  <2>2. irr' \in [Cores -> SUBSET {"timer", "ipi"}]
    BY DEF SchedIInv, TypeOK, ic_send_ipi, IpiArrives
  <2>. QED
    BY <2>1, <2>2, Zenon DEF SchedIInv, TypeOK, ic_send_ipi, IpiArrives, platform
<1>2. TimesliceEnds' /\ CurrentExact'
  BY DEF SchedIInv, TypeOK, TimesliceEnds, CurrentExact, ic_send_ipi, IpiArrives
<1>3. HaltsOpen'
  BY DEF SchedIInv, TypeOK, HaltsOpen, ic_send_ipi, IpiArrives, platform
<1>4. WakeInv'
  <2>. SUFFICES ASSUME PromptIpis PROVE IpiHasReason' /\ IdleIsFlagged' /\ HaltsOnlyWhenEmpty'
    BY DEF WakeInv, PromptIpis, platform
  <2>0. ic_send_ipi(c) /\ ic_state = "xapic"
    BY DEF SchedIInv, HaltsOpen, IpiArrives, PromptIpis
  <2>1. IpiHasReason'
    BY <2>0 DEF SchedIInv, TypeOK, WakeInv, IpiHasReason, ic_send_ipi
  <2>2. IdleIsFlagged'
    BY <2>0 DEF SchedIInv, TypeOK, WakeInv, IdleIsFlagged, ic_send_ipi
  <2>3. HaltsOnlyWhenEmpty'
    BY <2>0 DEF SchedIInv, TypeOK, WakeInv, HaltsOnlyWhenEmpty, HaltsOpen, Deliverable, ic_send_ipi
  <2>. QED
    BY <2>1, <2>2, <2>3
<1>. QED
  BY <1>1, <1>2, <1>3, <1>4, QuietIInv DEF ic_send_ipi, IpiArrives


(***************************************************************************)
(* The timer expires.                                                      *)
(***************************************************************************)
LEMMA TimerFiresIInv ==
  ASSUME SchedIInv, NEW c \in Cores, TimerFires(c), UNCHANGED platform
  PROVE  SchedIInv'
<1>1. TypeOK'
  <2>1. armed' \in [Cores -> BOOLEAN]
    BY Zenon DEF SchedIInv, TypeOK, TimerFires
  <2>2. irr' \in [Cores -> SUBSET {"timer", "ipi"}]
    BY DEF SchedIInv, TypeOK, TimerFires
  <2>. QED
    BY <2>1, <2>2, Zenon DEF SchedIInv, TypeOK, TimerFires, platform
<1>2. TimesliceEnds' /\ CurrentExact' /\ HaltsOpen'
  BY DEF SchedIInv, TypeOK, TimesliceEnds, CurrentExact, HaltsOpen, TimerFires, platform
<1>3. WakeInv'
  BY DEF SchedIInv, TypeOK, WakeInv, PromptIpis, IpiHasReason, IdleIsFlagged, HaltsOnlyWhenEmpty,
         Deliverable, TimerFires, platform
<1>. QED
  BY <1>1, <1>2, <1>3, QuietIInv DEF TimerFires

(***************************************************************************)
(* The timer interrupts the idle loop.                                     *)
(***************************************************************************)
LEMMA SpuriousIInv ==
  ASSUME SchedIInv, NEW c \in Cores, SpuriousTimer(c), UNCHANGED platform
  PROVE  SchedIInv'
<1>1. TypeOK'
  <2>1. irr' \in [Cores -> SUBSET {"timer", "ipi"}] /\ isr' \in [Cores -> SUBSET {"timer", "ipi"}]
    BY DEF SchedIInv, TypeOK, SpuriousTimer
  <2>2. pc' \in [Cores -> PC]
    BY DEF SchedIInv, TypeOK, SpuriousTimer, PC
  <2>. QED
    BY <2>1, <2>2, Zenon DEF SchedIInv, TypeOK, SpuriousTimer, platform
<1>2. TimesliceEnds' /\ CurrentExact' /\ HaltsOpen'
  BY DEF SchedIInv, TypeOK, TimesliceEnds, CurrentExact, HaltsOpen, SpuriousTimer, platform
<1>3. WakeInv'
  BY DEF SchedIInv, TypeOK, WakeInv, PromptIpis, IpiHasReason, IdleIsFlagged, HaltsOnlyWhenEmpty,
         Deliverable, SpuriousTimer, platform
<1>. QED
  BY <1>1, <1>2, <1>3, QuietIInv DEF SpuriousTimer

(***************************************************************************)
(* The IPI is taken: the flag goes down, and a halted core wakes up.       *)
(***************************************************************************)
LEMMA IpiIInv ==
  ASSUME SchedIInv, NEW c \in Cores, thread_localsched_ipi_dummy(c), UNCHANGED platform
  PROVE  SchedIInv'
<1>1. TypeOK'
  <2>1. irr' \in [Cores -> SUBSET {"timer", "ipi"}] /\ idle' \in [Cores -> BOOLEAN]
    BY DEF SchedIInv, TypeOK, thread_localsched_ipi_dummy
  <2>2. pc' \in [Cores -> PC]
    BY DEF SchedIInv, TypeOK, thread_localsched_ipi_dummy, PC
  <2>. QED
    BY <2>1, <2>2, Zenon DEF SchedIInv, TypeOK, thread_localsched_ipi_dummy, platform
<1>2. TimesliceEnds' /\ CurrentExact' /\ HaltsOpen'
  BY DEF SchedIInv, TypeOK, TimesliceEnds, CurrentExact, HaltsOpen, thread_localsched_ipi_dummy,
         platform
<1>3. WakeInv'
  BY DEF SchedIInv, TypeOK, WakeInv, PromptIpis, IpiHasReason, IdleIsFlagged, HaltsOnlyWhenEmpty,
         Deliverable, thread_localsched_ipi_dummy, platform
<1>. QED
  BY <1>1, <1>2, <1>3, QuietIInv DEF thread_localsched_ipi_dummy

(***************************************************************************)
(* The idle loop wakes up, and halts again when it has found nothing.      *)
(***************************************************************************)
LEMMA IdleLoopIInv ==
  ASSUME SchedIInv, NEW c \in Cores, IdleCli(c) \/ IdleEmpty(c), UNCHANGED platform
  PROVE  SchedIInv'
<1>1. TypeOK'
  BY Zenon DEF SchedIInv, TypeOK, IdleCli, IdleEmpty, platform, PC
<1>2. TimesliceEnds' /\ CurrentExact' /\ HaltsOpen'
  BY DEF SchedIInv, TypeOK, TimesliceEnds, CurrentExact, HaltsOpen, IdleCli, IdleEmpty, platform
<1>3. WakeInv'
  BY DEF SchedIInv, TypeOK, WakeInv, PromptIpis, IpiHasReason, IdleIsFlagged, HaltsOnlyWhenEmpty,
         HaltsOpen, Deliverable, IdleCli, IdleEmpty, platform
<1>. QED
  BY <1>1, <1>2, <1>3, QuietIInv DEF IdleCli, IdleEmpty

(***************************************************************************)
(* Every step preserves the invariant.                                     *)
(***************************************************************************)
LEMMA NextIInv == SchedIInv /\ [Next]_vars => SchedIInv'
<1>. SUFFICES ASSUME SchedIInv, [Next]_vars PROVE SchedIInv'
  OBVIOUS
<1>1. CASE UNCHANGED vars
  <2>1. TypeOK' /\ TimesliceEnds' /\ CurrentExact' /\ HaltsOpen'
    BY <1>1, Zenon DEF SchedIInv, TypeOK, TimesliceEnds, CurrentExact, HaltsOpen, vars, platform
  <2>2. WakeInv'
    BY <1>1 DEF SchedIInv, WakeInv, PromptIpis, IpiHasReason, IdleIsFlagged, HaltsOnlyWhenEmpty,
                Deliverable, vars, platform
  <2>. QED
    BY <1>1, <2>1, <2>2, QuietIInv DEF vars
<1>2. ASSUME NEW c \in Cores, UNCHANGED platform,
             thread_localsched_bootstrap(c) \/ TaskCode(c) \/ Interrupt(c) \/ IdleLoop(c)
      PROVE  SchedIInv'
  BY <1>2, BootstrapIInv, SuspendIInv, YieldIInv, TerminateIInv, IntlevelIInv, PreemptIInv,
     SpuriousIInv, IpiIInv, IdleFoundIInv, IdleLoopIInv
     DEF TaskCode, Interrupt, IdleLoop
<1>3. ASSUME NEW c \in Cores, UNCHANGED platform,
             TimerFires(c) \/ ic_send_ipi(c) \/ IpiArrives(c)
      PROVE  SchedIInv'
  BY <1>3, TimerFiresIInv, SendIInv
<1>4. ASSUME NEW t \in Tasks, UNCHANGED platform,
             thread_localsched_associate(t) \/ thread_localsched_wake_up(t)
      PROVE  SchedIInv'
  <2>1. task[t].iflag \in BOOLEAN
    BY DEF SchedIInv, TypeOK, TaskState
  <2>. QED
    BY <1>4, <2>1, EnqueueIInv, Zenon DEF thread_localsched_associate, thread_localsched_wake_up
<1>. QED
  BY <1>1, <1>2, <1>3, <1>4 DEF Next

(***************************************************************************)
(* The invariant holds throughout.                                         *)
(***************************************************************************)
THEOREM Invariant == Spec => []SchedIInv
  BY InitIInv, NextIInv, PTL DEF Spec

(***************************************************************************)
(* For any number of cores and tasks: every task is in exactly one place,  *)
(* and a task that runs has a timer that ends its timeslice and a count    *)
(* that update_unfairness can divide by.                                   *)
(***************************************************************************)
THEOREM RunQueueIsExact == Spec => []RunQueueExact
<1>1. SchedIInv => RunQueueExact
  BY LocalSchedAssumption
     DEF SchedIInv, RunQueueExact, TypeOK, TaskInOnePlace, TasksCounted, DivisorNotZero
<1>. QED
  BY <1>1, Invariant, PTL

(***************************************************************************)
(* Where IPIs are prompt no core halts past a task in its queue, however   *)
(* wake-ups, timer interrupts and the idle loop interleave.                *)
(***************************************************************************)
THEOREM NoWakeupIsLost == Spec => []NoLostWakeup
<1>1. SchedIInv => NoLostWakeup
  BY DEF SchedIInv, WakeInv, NoLostWakeup
<1>. QED
  BY <1>1, Invariant, PTL

=============================================================================
