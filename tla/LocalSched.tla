------------------------------ MODULE LocalSched ------------------------------
(***************************************************************************)
(* The per-core scheduler (thread/tasking/localsched.c) together with the  *)
(* part of the local interrupt controller it depends on (sys/ic.c): the    *)
(* one-shot timer, the wake-up IPI, requested and in-service vectors.      *)
(*                                                                         *)
(* What is done with data->lock held and interrupts off is one step.  A    *)
(* handler runs with interrupts off and is one step too, up to the halt of *)
(* the idle loop, where the lock is released.  The exception is a wake-up: *)
(* between the load of data->idle and the IPI the flag may change, since   *)
(* the IPI handler clears it without the lock.  Unfairness is left out:    *)
(* any task of the heap may be the minimum.                                *)
(***************************************************************************)
EXTENDS Integers, FiniteSets

CONSTANTS
  Cores,
  Tasks,
  CoreOf,       \* task->core_id
  NoTask,       \* NULL
  MaxWakeups    \* bound on tasks_count

ASSUME LocalSchedAssumption ==
  /\ IsFiniteSet(Tasks) /\ NoTask \notin Tasks
  /\ CoreOf \in [Tasks -> Cores]
  /\ MaxWakeups \in Nat

VARIABLES
  ic_state,     \* "xapic": IPIs are waited for; "x2apic": they are posted
  nesting,      \* tasks may suspend themselves again before interrupts are on
  heap,         \* data->heap: tasks ready to run, per core
  current_task, \* data->current_task
  idle,         \* data->idle
  tasks_count,  \* data->tasks_count
  sending,      \* data->lock is held by a waker that has seen idle set
  inflight,     \* an IPI has been posted and has not arrived
  armed,        \* the one-shot timer is counting
  irr,          \* requested vectors: subsets of {"timer", "ipi"}
  isr,          \* vectors in service
  pc,           \* what the core executes: see PC
  ints,         \* the interrupt flag of the core
  task          \* what is known of a task: see TaskState

(* Found at boot, or a trait of the tasks: chosen once. *)
platform == <<ic_state, nesting>>
vars == <<platform, heap, current_task, idle, tasks_count, sending, inflight, armed, irr, isr, pc, ints, task>>

(* boot: thread_localsched_bootstrap; run: the current task; resumed: the  *)
(* current task, from its return out of a suspension to intlevel_recover;  *)
(* halt: sti and hlt in the idle loop; awake: after hlt, before cli; look: *)
(* after cli.                                                              *)
PC == {"boot", "run", "resumed", "halt", "awake", "look"}

(* A task's interrupt flag is part of its saved frame. *)
TaskState == [st : {"none", "ready", "running", "blocked", "gone"}, iflag : BOOLEAN]

Init ==
  /\ ic_state \in {"xapic", "x2apic"} /\ nesting \in BOOLEAN
  /\ heap = [c \in Cores |-> {}]
  /\ current_task = [c \in Cores |-> NoTask]
  /\ idle = [c \in Cores |-> FALSE]
  /\ tasks_count = [c \in Cores |-> 0]
  /\ sending = [c \in Cores |-> FALSE] /\ inflight = [c \in Cores |-> FALSE]
  /\ armed = [c \in Cores |-> FALSE]
  /\ irr = [c \in Cores |-> {}] /\ isr = [c \in Cores |-> {}]
  /\ pc = [c \in Cores |-> "boot"]
  /\ ints = [c \in Cores |-> FALSE]
  /\ task = [t \in Tasks |-> [st |-> "none", iflag |-> TRUE]]

(***************************************************************************)
(* A vector is taken when interrupts are on and nothing of its priority or *)
(* above is in service.  The IPI (0x69) is above the timer (32).           *)
(***************************************************************************)
Deliverable(c) ==
  {v \in irr[c] : ints[c] /\ "ipi" \notin isr[c] /\ (v = "timer" => "timer" \notin isr[c])}

(* The core executes instructions only when no interrupt is to be taken. *)
Executes(c) == pc[c] = "run" /\ Deliverable(c) = {}

-----------------------------------------------------------------------------
(***************************************************************************)
(* The end of a handler: t becomes the current task of core c.  ready is   *)
(* the heap, and ts the tasks, as the handler has left them.               *)
(***************************************************************************)
Run(c, t, ready, ts) ==
  /\ heap' = [heap EXCEPT ![c] = ready \ {t}]
  /\ current_task' = [current_task EXCEPT ![c] = t]
  /\ task' = [ts EXCEPT ![t].st = "running"]
  /\ pc' = [pc EXCEPT ![c] = IF ts[t].iflag THEN "run" ELSE "resumed"]
  /\ ints' = [ints EXCEPT ![c] = ts[t].iflag]

(* Faulty variant: the idle flag is not raised. *)
IdleUnflagged(c, ready, ts) ==
  /\ heap' = [heap EXCEPT ![c] = ready]
  /\ current_task' = [current_task EXCEPT ![c] = NoTask]
  /\ armed' = [armed EXCEPT ![c] = FALSE]
  /\ task' = ts
  /\ pc' = [pc EXCEPT ![c] = "halt"]
  /\ ints' = [ints EXCEPT ![c] = TRUE]
  /\ UNCHANGED idle

EnterIdle(c, ready, ts) ==
  /\ heap' = [heap EXCEPT ![c] = ready]
  /\ current_task' = [current_task EXCEPT ![c] = NoTask]
  /\ idle' = [idle EXCEPT ![c] = TRUE]
  /\ armed' = [armed EXCEPT ![c] = FALSE]
  /\ task' = ts
  /\ pc' = [pc EXCEPT ![c] = "halt"]
  /\ ints' = [ints EXCEPT ![c] = TRUE]

(***************************************************************************)
(* thread_localsched_dequeue, on behalf of the handler that suspended,     *)
(* yielded or ended a task: the fast path keeps the timer that is running. *)
(***************************************************************************)
Dequeue(c, ready, ts) ==
  \/ \E t \in ready : Run(c, t, ready, ts) /\ UNCHANGED <<idle, armed>>
  \/ ready = {} /\ EnterIdle(c, ready, ts)

thread_localsched_bootstrap(c) ==
  /\ pc[c] = "boot" /\ ~sending[c]
  /\ \/ /\ \E t \in heap[c] : Run(c, t, heap[c], task)
        /\ armed' = [armed EXCEPT ![c] = TRUE]
        /\ UNCHANGED idle
     \/ heap[c] = {} /\ EnterIdle(c, heap[c], task)
  /\ UNCHANGED <<tasks_count, sending, inflight, irr, isr>>

(***************************************************************************)
(* The current task suspends itself, with interrupts off (it holds the     *)
(* spinlock that the scheduler releases for it); or yields; or ends.  A    *)
(* nesting task may suspend itself once more before it gets to             *)
(* intlevel_recover, as user_shm_auth_read does: two mutexes in turn,      *)
(* under the spinlock of the shared memory object.                         *)
(***************************************************************************)
thread_localsched_suspend_current(c) ==
  /\ Executes(c) \/ (pc[c] = "resumed" /\ nesting)
  /\ ~ints[c] /\ ~sending[c]
  /\ Dequeue(c, heap[c], [task EXCEPT ![current_task[c]] = [st |-> "blocked", iflag |-> FALSE]])
  /\ UNCHANGED <<tasks_count, sending, inflight, irr, isr>>

thread_localsched_yield(c) ==
  /\ Executes(c) /\ ints[c] /\ ~sending[c]
  /\ LET t == current_task[c]
     IN Dequeue(c, heap[c] \cup {t}, [task EXCEPT ![t] = [st |-> "ready", iflag |-> TRUE]])
  /\ UNCHANGED <<tasks_count, sending, inflight, irr, isr>>

thread_localsched_terminate(c) ==
  /\ Executes(c) /\ ints[c] /\ ~sending[c]
  /\ Dequeue(c, heap[c], [task EXCEPT ![current_task[c]].st = "gone"])
  /\ UNCHANGED <<tasks_count, sending, inflight, irr, isr>>

(***************************************************************************)
(* A task turns interrupts off (intlevel_elevate) and on again, which also *)
(* ends the return from a suspension.                                      *)
(***************************************************************************)
intlevel_elevate(c) ==
  /\ Executes(c) /\ ints[c]
  /\ ints' = [ints EXCEPT ![c] = FALSE]
  /\ UNCHANGED <<heap, current_task, idle, tasks_count, sending, inflight, armed, irr, isr, pc, task>>

intlevel_recover(c) ==
  /\ pc[c] \in {"run", "resumed"} /\ ~ints[c]
  /\ ints' = [ints EXCEPT ![c] = TRUE]
  /\ pc' = [pc EXCEPT ![c] = "run"]
  /\ UNCHANGED <<heap, current_task, idle, tasks_count, sending, inflight, armed, irr, isr, task>>

-----------------------------------------------------------------------------
(***************************************************************************)
(* thread_localsched_wake_up of task t, from any core: count, enqueue and  *)
(* look at the idle flag of its core, under the lock of that core.         *)
(***************************************************************************)
enqueue_signal_nolock(t, flag) ==
  LET home == CoreOf[t] IN
  /\ ~sending[home] /\ tasks_count[home] < MaxWakeups
  /\ tasks_count' = [tasks_count EXCEPT ![home] = @ + 1]
  /\ heap' = [heap EXCEPT ![home] = @ \cup {t}]
  /\ task' = [task EXCEPT ![t] = [st |-> "ready", iflag |-> flag]]
  /\ sending' = [sending EXCEPT ![home] = idle[home]]

thread_localsched_wake_up(t) ==
  /\ task[t].st = "blocked"
  /\ enqueue_signal_nolock(t, task[t].iflag)
  /\ UNCHANGED <<current_task, idle, inflight, armed, irr, isr, pc, ints>>

(* A new task starts with interrupts on. *)
thread_localsched_associate(t) ==
  /\ task[t].st = "none"
  /\ enqueue_signal_nolock(t, TRUE)
  /\ UNCHANGED <<current_task, idle, inflight, armed, irr, isr, pc, ints>>

(* Faulty variant: the IPI is not sent. *)
UnlockSilently(c) ==
  /\ sending[c]
  /\ sending' = [sending EXCEPT ![c] = FALSE]
  /\ UNCHANGED <<heap, current_task, idle, tasks_count, inflight, armed, irr, isr, pc, ints, task>>

(* The IPI is sent and the lock released. *)
ic_send_ipi(c) ==
  /\ sending[c]
  /\ sending' = [sending EXCEPT ![c] = FALSE]
  /\ IF ic_state = "x2apic" THEN inflight' = [inflight EXCEPT ![c] = TRUE] /\ UNCHANGED irr
     ELSE irr' = [irr EXCEPT ![c] = @ \cup {"ipi"}] /\ UNCHANGED inflight
  /\ UNCHANGED <<heap, current_task, idle, tasks_count, armed, isr, pc, ints, task>>

(* A posted IPI arrives. *)
IpiArrives(c) ==
  /\ inflight[c]
  /\ inflight' = [inflight EXCEPT ![c] = FALSE]
  /\ irr' = [irr EXCEPT ![c] = @ \cup {"ipi"}]
  /\ UNCHANGED <<heap, current_task, idle, tasks_count, sending, armed, isr, pc, ints, task>>

-----------------------------------------------------------------------------
(* The one-shot timer expires. *)
TimerFires(c) ==
  /\ armed[c]
  /\ armed' = [armed EXCEPT ![c] = FALSE]
  /\ irr' = [irr EXCEPT ![c] = @ \cup {"timer"}]
  /\ UNCHANGED <<heap, current_task, idle, tasks_count, sending, inflight, isr, pc, ints, task>>

(* Faulty variant: the next timeslice is not set up. *)
TimerNotRearmed(c) ==
  /\ "timer" \in Deliverable(c) /\ "ipi" \notin Deliverable(c)
  /\ pc[c] = "run" /\ ~sending[c]
  /\ LET t == current_task[c]
         ready == heap[c] \cup {t}
     IN \E n \in ready : Run(c, n, ready, [task EXCEPT ![t] = [st |-> "ready", iflag |-> TRUE]])
  /\ irr' = [irr EXCEPT ![c] = @ \ {"timer"}]
  /\ UNCHANGED <<idle, tasks_count, sending, inflight, armed, isr>>

(***************************************************************************)
(* thread_localsched_timer_int_handler: the current task goes back to the  *)
(* heap and the minimum runs for a new timeslice.                          *)
(***************************************************************************)
thread_localsched_timer_int_handler(c) ==
  /\ "timer" \in Deliverable(c) /\ "ipi" \notin Deliverable(c)
  /\ pc[c] = "run" /\ ~sending[c]
  /\ LET t == current_task[c]
         ready == heap[c] \cup {t}
     IN \E n \in ready : Run(c, n, ready, [task EXCEPT ![t] = [st |-> "ready", iflag |-> TRUE]])
  /\ armed' = [armed EXCEPT ![c] = TRUE]
  /\ irr' = [irr EXCEPT ![c] = @ \ {"timer"}]
  /\ UNCHANGED <<idle, tasks_count, sending, inflight, isr>>

(***************************************************************************)
(* The same handler while the core is idle: the timer had expired before   *)
(* it was cancelled.  The handler returns early, without ic_ack.           *)
(***************************************************************************)
SpuriousTimer(c) ==
  /\ "timer" \in Deliverable(c) /\ "ipi" \notin Deliverable(c)
  /\ pc[c] \in {"halt", "awake"}
  /\ irr' = [irr EXCEPT ![c] = @ \ {"timer"}]
  /\ isr' = [isr EXCEPT ![c] = @ \cup {"timer"}]
  /\ pc' = [pc EXCEPT ![c] = "awake"]
  /\ UNCHANGED <<heap, current_task, idle, tasks_count, sending, inflight, armed, ints, task>>

thread_localsched_ipi_dummy(c) ==
  /\ "ipi" \in Deliverable(c)
  /\ idle' = [idle EXCEPT ![c] = FALSE]
  /\ irr' = [irr EXCEPT ![c] = @ \ {"ipi"}]
  /\ pc' = [pc EXCEPT ![c] = IF @ = "halt" THEN "awake" ELSE @]
  /\ UNCHANGED <<heap, current_task, tasks_count, sending, inflight, armed, isr, ints, task>>

-----------------------------------------------------------------------------
(* After hlt: cli, then try the queue again under the lock. *)
IdleCli(c) ==
  /\ pc[c] = "awake" /\ Deliverable(c) = {}
  /\ ints' = [ints EXCEPT ![c] = FALSE]
  /\ pc' = [pc EXCEPT ![c] = "look"]
  /\ UNCHANGED <<heap, current_task, idle, tasks_count, sending, inflight, armed, irr, isr, task>>

IdleFound(c) ==
  /\ pc[c] = "look" /\ ~sending[c]
  /\ \E t \in heap[c] : Run(c, t, heap[c], task)
  /\ armed' = [armed EXCEPT ![c] = TRUE]
  /\ UNCHANGED <<idle, tasks_count, sending, inflight, irr, isr>>

IdleEmpty(c) ==
  /\ pc[c] = "look" /\ ~sending[c] /\ heap[c] = {}
  /\ pc' = [pc EXCEPT ![c] = "halt"]
  /\ ints' = [ints EXCEPT ![c] = TRUE]
  /\ UNCHANGED <<heap, current_task, idle, tasks_count, sending, inflight, armed, irr, isr, task>>

-----------------------------------------------------------------------------
Interrupt(c) ==
  thread_localsched_timer_int_handler(c) \/ SpuriousTimer(c) \/ thread_localsched_ipi_dummy(c)

IdleLoop(c) == IdleCli(c) \/ IdleFound(c) \/ IdleEmpty(c)

TaskCode(c) ==
  \/ thread_localsched_suspend_current(c) \/ thread_localsched_yield(c)
  \/ thread_localsched_terminate(c) \/ intlevel_elevate(c) \/ intlevel_recover(c)

Next ==
  /\ \/ \E c \in Cores :
          \/ thread_localsched_bootstrap(c) \/ TaskCode(c) \/ TimerFires(c)
          \/ Interrupt(c) \/ IdleLoop(c) \/ ic_send_ipi(c) \/ IpiArrives(c)
     \/ \E t \in Tasks : thread_localsched_associate(t) \/ thread_localsched_wake_up(t)
  /\ UNCHANGED platform

Spec == Init /\ [][Next]_vars

(***************************************************************************)
(* The hardware delivers interrupts and lets the timer expire; the idle    *)
(* loop is executed; tasks need not do anything, except that they do not   *)
(* keep interrupts off for ever.                                           *)
(***************************************************************************)
Fairness ==
  \A c \in Cores :
    /\ WF_vars(thread_localsched_bootstrap(c) /\ UNCHANGED platform)
    /\ WF_vars(IdleLoop(c) /\ UNCHANGED platform)
    /\ WF_vars(Interrupt(c) /\ UNCHANGED platform)
    /\ WF_vars(TimerFires(c) /\ UNCHANGED platform)
    /\ WF_vars(ic_send_ipi(c) /\ UNCHANGED platform)
    /\ WF_vars(IpiArrives(c) /\ UNCHANGED platform)
    /\ WF_vars(intlevel_recover(c) /\ UNCHANGED platform)

FairSpec == Spec /\ Fairness

-----------------------------------------------------------------------------
TypeOK ==
  /\ ic_state \in {"xapic", "x2apic"} /\ nesting \in BOOLEAN
  /\ heap \in [Cores -> SUBSET Tasks]
  /\ current_task \in [Cores -> Tasks \cup {NoTask}]
  /\ idle \in [Cores -> BOOLEAN] /\ armed \in [Cores -> BOOLEAN]
  /\ tasks_count \in [Cores -> 0..MaxWakeups]
  /\ sending \in [Cores -> BOOLEAN] /\ inflight \in [Cores -> BOOLEAN]
  /\ irr \in [Cores -> SUBSET {"timer", "ipi"}] /\ isr \in [Cores -> SUBSET {"timer", "ipi"}]
  /\ pc \in [Cores -> PC] /\ ints \in [Cores -> BOOLEAN]
  /\ task \in [Tasks -> TaskState]

(* A core that is in sti; hlt while its heap is not empty is about to be   *)
(* woken by the IPI.                                                       *)
HaltsOnlyWhenEmpty ==
  \A c \in Cores :
    pc[c] = "halt" /\ heap[c] # {} => sending[c] \/ inflight[c] \/ "ipi" \in Deliverable(c)

(* No IPI can outlive the idle period it was sent for. *)
PromptIpis == ic_state = "xapic" /\ ~nesting

(***************************************************************************)
(* No lost wake-up: the check of the queue, the idle flag and sti; hlt in  *)
(* thread_localsched_dequeue never halt a core past a task that was put in *)
(* its queue, provided that IPIs are prompt.                               *)
(***************************************************************************)
NoLostWakeup == PromptIpis => HaltsOnlyWhenEmpty

(***************************************************************************)
(* "Dequeue task from the queue or wait until such task becomes available" *)
(* (thread_localsched_dequeue), on every platform.  Violated: an IPI that  *)
(* is taken late clears the flag of a later idle period, and the next      *)
(* wake-up sends none.                                                     *)
(***************************************************************************)
DequeueWaits == HaltsOnlyWhenEmpty

(***************************************************************************)
(* A task is where its state says, in exactly one place, and on the core   *)
(* it belongs to; no core runs a task that is also in a heap.              *)
(***************************************************************************)
TaskInOnePlace ==
  \A t \in Tasks, c \in Cores :
    /\ t \in heap[c] <=> task[t].st = "ready" /\ CoreOf[t] = c
    /\ current_task[c] = t <=> task[t].st = "running" /\ CoreOf[t] = c

(***************************************************************************)
(* Whenever a task runs, the timer that is to end its timeslice is         *)
(* counting, or has expired and is requested: no path of the scheduler     *)
(* forgets to arm it.  (Not that the request is delivered: the handler of  *)
(* an idle core leaves the vector in service.)                             *)
(***************************************************************************)
TimesliceEnds ==
  \A c \in Cores : current_task[c] # NoTask => armed[c] \/ "timer" \in irr[c]

(***************************************************************************)
(* thread_localsched_update_unfairness divides by tasks_count, whenever a  *)
(* task stops running: never by zero.                                      *)
(***************************************************************************)
DivisorNotZero ==
  \A c \in Cores : current_task[c] # NoTask => tasks_count[c] # 0

(***************************************************************************)
(* The run queue is exact: every task is in one place, and a task that     *)
(* runs has a timer that ends its timeslice and is counted, through        *)
(* wake-ups, preemption, sleep and termination in any order                *)
(* (thread_localsched_wake_up and the handlers of localsched.c).           *)
(***************************************************************************)
RunQueueExact == TypeOK /\ TaskInOnePlace /\ TimesliceEnds /\ DivisorNotZero

(***************************************************************************)
(* A core with a task in its queue gets to run one, when IPIs are prompt:  *)
(* the idle loop ends, whatever timer interrupts it takes meanwhile.       *)
(***************************************************************************)
ReadyCoreRuns ==
  \A c \in Cores : PromptIpis /\ heap[c] # {} ~> current_task[c] # NoTask
=============================================================================
