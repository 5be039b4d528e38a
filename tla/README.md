# A TLA+ verification of the ricerca kernel

Paths are relative to the kernel's source, `src/kernel`. Every module names the file it models, and
its actions keep the names of the functions they model. `PROJECT.json` lists runs, mutants, hazards
and, in `map`, the source lines each definition stands for.

## 1. The system

ricerca is an SMP microkernel for x86-64. The parts that hold state used by several cores are:

| part | state | operations | used by |
|---|---|---|---|
| spinlock (`thread/locking/spinlock.c`, `sys/intlevel.c`) | ticket counters, interrupt flag | grab, ungrab, lock, unlock | everything |
| mutex (`thread/locking/mutex.c`) | taken flag, sleep queue | lock, unlock | universes, cookies |
| read-write lock (`thread/locking/rwlock.c`) | state, reader count, sleep queue | read, write, unlock | nothing yet |
| local scheduler (`thread/tasking/localsched.c`, `sys/ic.c`) | heap of ready tasks, current task, idle flag, timer | associate, wake up, suspend, yield, terminate, timer and IPI handlers, idle loop | all that sleeps |
| notifications (`user/notifications.c`) | per slot a queue of channels and a queue of waiters; two reference counts | create, send, receive, shut down, free | RPC, user space |
| RPC (`user/rpc.c`) | queues of containers, the map of accepted calls, two reference counts for each object | create, call, accept, return, collect, shut down, free | user space |
| universes (`user/universe.c`) | cells with references and pins, free list, mutex | move, borrow and drop in, out and across, pin, fork | system calls |
| cookies (`user/cookie.c`) | a key, the keys of groups joined, mutex | join, leave, authorise | pins, shared memory |
| shared memory (`user/shm.c`) | owner and reference with a count each, two keys, table of ids | create, find, read, write, change permissions, shut down | system calls |
| system calls (`user/entry.c`) | universe, cookie and thread-local storage of a thread | 40 calls | user space |
| physical memory, heap (`mem/phys`, `mem/heap`) | free lists by order in each range, table of objects, slabs of each node | alloc, realloc, free | everything |
| paging (`mem/virt/paging.c`, `thread/tasking/task.c`) | tables, each task's cache of zeroed pages | map, unmap, create and dispose a task | tests so far |
| TLB invalidation (`mem/virt/invtlb.c`) | generation, state of each core, count of answers owed | request, acknowledge, idle enter and exit | the scheduler; no requester yet |
| balancer, topology (`thread/tasking/balancer.c`, `thread/smp/topology.c`) | load of each group of cores | choose, insert, remove | task creation |
| boot (`lib/target.c`, `mem/mem.c`, `sys/numa`, `sys/acpi`, `thread/smp`) | plan, memory map, nodes, status of each processor | plan, build nodes and ranges, start processors | once |
| containers (`lib/list.h`, `lib/dynarray.h`, `lib/pairing_heap.h`) | pointers | insert, remove, push, resize | all of the above |

Interactions. The locks nest in one direction: a caller's or callee's lock, then the mailbox's, then
the scheduler's; a mutex's lock, then the scheduler's. Sleeping is always "enqueue on some queue and
suspend, releasing the spinlock in the scheduler". The mailbox's receiver, the mutex and the
read-write lock all do this. An RPC call notifies the callee's raiser inside the critical section
that queues the request, and a reply notifies the caller's. Objects have two counts: when
`shutdown_rc` reaches 0 the object stops accepting work and lets go of what it holds, when
`dealloc_rc` reaches 0 its memory is freed.

A universe's mutex is held by itself, or two of them in the order of their ids. A node's
lock is held by itself, for one visit to the node.

What is hard to test here: lost wake-ups between a check and a halt; a channel or container linked
into two queues; an object that is shut down between two critical sections of one operation;
a reference dropped twice or never; counters that wrap; a late interrupt; a processor that answers
after its timeout; a choice made from loads that have changed. `hazards` in
`PROJECT.json` lists each one with its line and the property that watches it.

## 2. Modelling conventions

* A critical section of a spinlock is one atomic step: the lock is taken with interrupts off. What
  the code does before it, after it, or between two of them is another step, so that all other
  cores can act in between. `Spinlock` is what justifies this.
* What is used without a lock is split into steps of its own, one for each load and store: the drain
  of a dead mailbox (`notifications.c:144`), the read and write in `ungrab` (`spinlock.c:18`), the
  scheduler's idle flag between the waker's load and its IPI (`localsched.c:70`), the acknowledgement
  of a TLB request (`invtlb.c:77`), the status of a processor (`boot_bringup.c`), the scan of the loads
  (`balancer.c:40`).
* A mutex that is held across several steps is state (universes, cookies); a thread that finds it
  taken waits.
* Where the code would read memory that is not there or follow a wild pointer, the model enters a
  state of its own and stops: `astray` in `Objects` and in `Paging`, the phases `noneighbours` and `wildrange` in
  `Memory`. What comes after it is arbitrary.
* Queues are sequences, the scheduler's heap is a set (any task may be the minimum, since the
  unfairness values are left out), an integer map is a function.
* In `Notifications` and `Rpc` memory is `none`, `live` or `freed`, in `Objects` it has
  a kind, one of which is `freed`; freed objects stay freed, so that a use is detectable.
* A property that ends in `Exact` may be a conjunction; each conjunct is defined and explained above it.
* Operators marked "Faulty variant" are never part of a specification. Each is a plausible bug of
  the definition it precedes, and TLC finds the property it is paired with (`mutants`) violated when
  it takes that definition's place.

## 3. Modules

| module | models | state and actions |
|---|---|---|
| `Spinlock` | `spinlock.c`, `intlevel.c` | `allocated`, `current`, drawn tickets, interrupt flags. Draw, enter, the two halves of ungrab, recover. Counters wrap at `TicketModulus` |
| `Mutex` | `mutex.c` | `taken`, the sleep queue, what each task is doing. `LockFree`, sleeping, `LockWoken`, `thread_mutex_unlock` with its hand-over |
| `RwLock` | `rwlock.c` | state, `readers` as a wrapping `size_t`, queue of reading and writing nodes |
| `LocalSched` | `localsched.c` and the IPI and timer of `ic.c` | heaps, current tasks, idle flags, requested (`irr`) and in-service (`isr`) vectors, the idle loop in steps `halt`, `awake`, `look` |
| `NotificationCounter` | the promise of a mailbox | how many deliveries each channel owes |
| `Notifications` | `notifications.c`, `rc.h` | message and task queues per slot, `pending`, both counts of the mailbox and of raisers, a program counter per thread |
| `RpcPromise` | the promise of RPC to a client | calls outstanding per opaque value, replies in order |
| `Rpc` | `rpc.c`, its entry points in `entry.c`, `rc.h` | free, queued, accepted and replied containers, callers, callees and tokens with both counts, a program counter per thread |
| `RpcSession` | `rpc.c` with `notifications.c`, used as in `test/rpc.c` | extends `Rpc`; the mailbox is the `NotificationCounter` that `Notifications` implements |
| `Queue` | `queue.h` | what a queue holds, and that it holds nothing twice |
| `Objects` | `rc.h`, `object.h`, `cookie.c` | the heap of objects with kind, count and contents, and what each thread has to drop; cookies and authorisation |
| `Universes` | `universe.c` | extends `Objects`: cells, free list and lock of a universe, one operator for each of its functions |
| `Shm` | `shm.c` | extends `Universes`: owner and reference, permissions, bounds, the table of ids |
| `Entry` | `entry.c` | extends `Shm`: a thread's call in steps (borrow the handles, body, drop what was borrowed, store what was made), one action for each system call |
| `PhysSlab` | `slab.c` | a range's free lists, brk and cached maximum order, as operators on a record |
| `Numa` | `numa.c`, `acpi.c`, `acpi/numa.c`, `bootstrap.c` | domains, ranges, distances and neighbour lists from a firmware's tables, as operators |
| `Memory` | `mem.c`, `phys.c`, `heap.c`, `core.c` | extends `Numa` and `PhysSlab`: boot, then threads that allocate, reallocate and free; a visit to a node is a step |
| `Paging` | `paging.c`, `task.c` | entries present, caches of zeroed pages, free pages; `mem_paging_regen_cache` is apart from the walk, which is under the lock |
| `InvTlb` | `invtlb.c` | generation, states, counts, lock, what each core has loaded |
| `Tls` | `tls.c`, `list.h` | head, tail, prev and next of each list; the table as a function in `shadow` |
| `Dynarray` | `dynarray.h` | count, capacity, cells, and the block the heap gave |
| `PairingHeap` | `pairing_heap.h` | child and next of each hook |
| `Targets` | `target.c`, `init.c` | the stack of targets being visited, their `dep_index`, the plan |
| `SmpBringup` | `boot_bringup.c`, `trampoline.c` | status of each processor, state of the trampoline, where each one is |
| `Balancer` | `balancer.c`, `topology.c` | loads, and each thread's scan of them |
| `LockProofs`, `SchedProofs`, `NotificationsProofs` with the lemmas of `NotificationsLemmas` and `QueueProofs`, `KernelProofs`, `TargetsProofs`, `SmpProofs` | theorems | section 6 |
| `MCEntry` | six programs for `Entry` | what each one is set up by, and may call |
| `MCKernel`, `MCLive`, `MCWaking` | parts that share no state, in one instance | the variable `part` says which part moves; the others stay in an initial state |
| other `MC...` | instances for TLC | constants only |

Abstraction and composition. `Notifications` implements `NotificationCounter` (run
`notifications`, theorem `Refinement`; the mapping sends a channel to its `pending` count). `RpcSession` then
composes `Rpc` with `NotificationCounter` rather than with the full mailbox, which keeps the state
space small. `Rpc` implements `RpcPromise` (run `rpc`).

## 4. Runs

Passing runs:

| run | question | instance |
|---|---|---|
| `notifications` | one place per channel, nobody sleeps with mail, lone shutdown; exact counts, no use after free, no leak (`MemoryExact`); refinement of the counter | both kinds of mailbox, 2 cores, 3 threads, 2 raisers, 3 pending |
| `rpc` | one place per container, no use after free; the code's `ASSERT`s and an empty dead callee (`ShutDownIsFinal`); refinement of `RpcPromise` | 3 threads, 1 caller, 1 callee, 2 containers, 2 opaque values |
| `session` | one notification per request and reply; who is notified finds work (`NotesExact`) | 1 client, 2 servers |
| `waking` | scheduler: a task is in one place, its timer is armed, no division by zero (`RunQueueExact`); no lost wake-up, a core with a ready task runs one. Mailboxes: pending is delivered, however busy the other channels are | 1 core, 3 tasks, 5 wake-ups, xAPIC and x2APIC, with and without nested sleeps; 2 threads, 2 raisers, 2 pending |
| `objects` | are all counts and free lists exact, through failures, moves, forks and concurrent drops; do pins, leaving a group and bounds hold; do two threads ever wait for each other's universes | 6 programs of 2 threads, 8 objects, 3 cells, 2 or 3 calls after the set-up |
| `live` | a call that reached a callee comes back; abandoned calls are answered; a sleeper gets the mutex, a spinner the spinlock; the bring-up returns. With exclusion, order, and who may join (`JoinsProperly`) | a session of 1 client and 1 server, 4 tasks, 3 cores with 3 tickets, 2 processors to start |
| `kernel` | see below | 9 parts |

The parts of `kernel`:

| part | what is checked | instance |
|---|---|---|
| memory | `PhysExact`: blocks given out and free tile what brk has passed, the table tells the truth about each block. `HeapExact`: every heap object is once free or in use on the node of its slab. `BootExact`: nobody gives out what the bootstrap allocator gave, the first pass counted enough, neighbours are sorted | 7 machines (one node; two nodes in one entry; a node without memory; a gap in the ids; no path between the nodes; too little memory; hardly any), 2 threads, 3 calls of 3 sizes |
| paging | `PagingExact`: a page serves one purpose, none is lost but those that the creation of a task forgets, and the tables say what the calls promised | 2 tasks, 3 levels, 3 addresses, 9 pages |
| invtlb | `GenerationWaits`: a generation ends only when all who were asked have answered, or another has answered twice because its request overlapped the answers to the one before | 3 cores, 2 requests |
| tls | `TlsTableExact`: the table is a function, its lists are right forward and backward | 3 nodes, 2 buckets, 4 keys |
| dynarray | `DynarrayExact`: the array is its sequence and knows its block | up to 5 elements, any failure of the heap |
| heap | `PairingHeapExact`: one tree of the queued nodes, a least key on top | 4 nodes, 2 keys |
| targets | `PlanExact`: dependencies first, nothing twice, no false alarm | every graph on 3 targets, with every order of the dependencies, 2 plans |
| rwlock | `RwQueueExact`: what does hold of the queue | 4 tasks, `size_t` modulo 8 |
| balancer | `LoadsBalanced`: loads are exact, and differ by at most the number of creators until a task ends | 3 cores, any of them down, 2 threads, 4 tasks |

Runs that show a disagreement between the code and what a comment in it says (`findings` quotes the
comments):

| run | what TLC shows |
|---|---|
| `rpc_leak` | `user_rpc_initiate` on a dead callee keeps the reference it took for the container, so the caller is never freed |
| `rwlock_starvation` | the reader that finds the lock free is not counted (`rwlock.c:21`); when it unlocks, the count wraps around to a large one, nobody is woken, the lock stays taken for reading, and a writer in the queue sleeps for ever |
| `universe_cycle` | the test against cycles (`universe.c:84`) compares the ids with `<`, and a universe is stored in itself: its count does not reach 0 again |
| `memory_range` | `mem_phys_store_info` counts references to a range in its first word, which is `next_range`; a walk then follows a pointer that is none, or a drop calls one |
| `sched_late_ipi` | an IPI that is taken late (posted by an x2APIC, or kept pending by a task that sleeps twice before interrupts are on, as `user_shm_auth_read` may) clears the flag of a later idle period, and the next wake-up sends none |

`NoLostWakeup` and `ReadyCoreRuns` in `waking` are the complement of the last one: with xAPIC and no
nested sleeps they hold.

More that the models reproduce, and no property claims otherwise:

* The read-write lock does not count its first reader (`rwlock.c:21`), so a writer may also run beside a
  reader. The writer that ends a batch of readers is dequeued and never woken (`rwlock.c:79`).
* A timer that expired before its cancellation and interrupts the idle core is not acknowledged
  (`localsched.c:235`) and stays in service; `tasks_count` counts wake-ups (`localsched.c:352`).
* Leaving a group the entry is not in keeps the cookie's mutex (`cookie.c:135`): later calls on the
  cookie do not come back. The count of a group cookie is never set (`cookie.c:48`), so `RefsExact`
  leaves group cookies out.
* Locking a pair of the same universe makes the thread wait for itself (`universe.c:225`). A fork copies
  cells without the test against cycles, a second way to one, and forks the thread's own universe,
  whatever the handle says. The handle one past the end passes the test at
  `universe.c:153` (`astray`).
* `user_shm_modify_perms` changes the read-only key when asked for read and write, and the other way
  round (`shm.c:281`).
* The recomputed maximum order of a range may overlook free blocks (`slab.c:52`); they stay unused.
* Nodes whose id is not below the number of nodes get no neighbour list (`numa.c:101`; machine `Gap`).
* The zeroed pages of a new task's mapper are forgotten by the `memset` after it (`task.c:28`; `lost`), which
  `PagingExact` counts.
* `mem_paging_unmap_at` walks on through the page with the address 0 where a table is missing
  (`paging.c:225`; `astray`); its comment promises 0.
* A SLIT with a distance of 255 stops the kernel (`acpi.c:100`; machine `Unreachable`), unless an entry
  before it made the table be dropped.
* An acknowledgement that is late for one TLB request counts for the next, whose generation may then end
  before all have answered; `GenerationWaits` says that this is the only way (`again`, `clean`).
* A processor that answers between the load and the store with which it is given up on joins after the
  bring-up has returned; `JoinsProperly` says that this is the only way. One that stores that it
  is waiting after the calibration is over hangs, and the last loop waits for it for ever;
  `BringupReturns` leaves this case out.
* The balancer's groups include processors that never came up (`topology.c:17`): a task that is put
  there does not run, and its creator may not come back.

Bounds. Three threads are the fewest with which two act on an object that a third shuts down; two
raisers and two containers the fewest with an order between them. `MaxPending` 3 lets a channel
be re-enqueued by its receiver and sent to again (2 in `waking`, where a channel that always has more is
enough to keep the other one waiting). `MaxCalls` bounds `seq`, `MaxRefs` the references a
thread may add to a token, `MaxWakeups` the ever-growing `tasks_count`. In `Spinlock` all
tickets are in use at once when the counters wrap, the hardest case, since equal counters then mean
"all" as well as "none".

In `objects` a program's set-up brings the universes into a state from which two or three calls
meet: two threads that move handles both ways between the same two universes, a fork during a
move, a lookup by id during a shutdown. Three cells and a growth by two make a universe grow while it
is full and while it is not. Words up to 3 for a memory of size 2 let offset and length overflow.
In `memory` pages, slabs and structures are scaled down together; three calls are enough to split a
block, free it from the other thread, and use it again for another size. Three processors are the
fewest with which one answers a request while another goes idle and the third asks; two to be started,
the fewest with which one is given up on and the other not. Three targets have all shapes of cycles,
diamonds need the two orders of visits that the dependency lists give. Two creators are the fewest
that choose from the same loads.

Deadlock is not checked: in all runs the system may rightly stop, with all handles closed and all
objects freed, the plan made, or a bound reached.

## 5. Fairness

* `Spinlock`: a core in the lock's code executes (interrupts are off, nothing can stop it), and a
  holder releases.
* `Mutex`: an owner unlocks, and a woken task is run (`ReadyCoreRuns` says when the scheduler does).
* `RwLock`: whoever holds the lock releases it. The counterexample of `rwlock_starvation` does not
  rest on an owner that never unlocks.
* `SmpBringup`: the boot processor goes on, and a processor that was sent a startup IPI and began
  goes on. That it begins at all is not assumed.
* `LocalSched`: the hardware delivers interrupts and lets the timer expire, the idle loop is
  executed, and a task does not keep interrupts off for ever. Nothing is assumed of tasks otherwise.
* `Notifications`: a thread inside an operation goes on, since nothing in it blocks except the wait
  (weak). Receivers keep asking (strong, since other operations of the same thread compete).
* `RpcSession`: a thread inside an operation goes on. Clients and servers behave as in `test/rpc.c`: they keep asking for
  notifications, act on each, and servers return what they accepted. `EveryCallComesBack` is
  therefore a statement about well-behaved programs; safety is checked for all.

## 6. Proofs

### Locks (`LockProofs`)

Mutex, for every set of tasks: `MutexExcludes`, `MutexQueueIsExact` and `MutexIsFifo`. Mutual exclusion is not
inductive as it stands: a task that was handed the mutex owns it before it runs. The invariant
is `MutexTypeOK /\ QueueExact /\ OneOwner`, where an owner is a task that holds the mutex or was handed it
and has not run yet. `QueueExact` is needed because unlock hands over to the head of
the queue, which must be a sleeper and occur only once. `MutexIsFifo` is an action property and follows from
the same invariant. No assumption on the constants is used.

Spinlock, for every finite set of cores and every ticket width that has at least one ticket
per core (`SpinlockAssumption`; in the kernel 2^64 tickets): `SpinExcludes`, `SpinTypeCorrect`, and `SpinMasked`
(interrupts are off from lock to unlock).
The invariant `TicketsOut` says that the tickets out are those from `current` up to `allocated`,
counted around the wrap, each held by one core; `HolderServed` that the holder has the one being
served and that ungrab's read is still valid when it writes. The cardinality argument (a core without
a ticket leaves a ticket unused) is what rules out that two cores draw the same number.

Read-write lock, for every finite set of tasks that `size_t` can count: `RwQueueIsExact`. `RwQueueExact` is
inductive by itself. The work is in `thread_rwlock_unlock`, which wakes a
prefix of the queue up to the first writer (`FirstWriterFacts`, `RwSuffixExact`, `RwPassOnExact`): those who are
woken leave the queue and those who stay are still asleep. The length of the queue is below the modulus of
`size_t` because every sleeper has one node (`RwQueueBounded`), so the count of the readers woken does not wrap,
whatever the count of readers was.

### Scheduler (`SchedProofs`)

For every set of cores and tasks: `RunQueueIsExact` and `NoWakeupIsLost`. `RunQueueExact` needs that a core
executes task code exactly while it has a current task (`CurrentExact`), and that whoever was ever queued has
been counted (`TasksCounted`), which is why `update_unfairness` does not divide by 0. `NoLostWakeup` is not
inductive: whether a core may halt depends on the IPI that was sent before it looked at its queue.
`IpiHasReason` says that an IPI that is on its way was sent for a task that is still in the queue, or that has just
been taken out of it by a core that will take the IPI before it can become idle again; `IdleIsFlagged` that a core
in the idle loop with an empty queue has its flag set, so that the next wake-up sends one. Both hold only where
an IPI cannot be late (`PromptIpis`); elsewhere the run `sched_late_ipi` shows the lost wake-up.

### Notifications (`NotificationsLemmas`, `NotificationsProofs`)

`NotificationsProofs`, for every finite set of threads and raisers, every finite set of cores that contains
core 0, every bound on pending notifications (`NotificationsAssumption`) and both kinds of mailbox:
`ShutsDownAlone`, `AlwaysInOnePlace`, `NobodySleepsOnMail`, `Refinement` (`Spec =>
ImplementsCounter`) and `MemoryIsExact`. The invariant `IInv` has two halves beside the types (`NotificationsLemmas`):

* `Counted`: `shutdown_rc` is the handle plus the threads inside, and 0 once the shutdown has begun;
  only one thread shuts down. So nobody is inside while the queues are drained without the lock
  (`DownIsEmpty`), which is what the other half needs for receivers.
* `Placed`: the channels' places (`OnePlace`); the waiters of a slot are asleep there without a
  channel, once each, and only while no message is queued (`WaitersFor`); a thread has a channel from
  its wake-up until it drops it (`Held`).

`ShutdownAlone` is not inductive without the count, and one place per channel is not without
`WaitersFor`: the hand-over to a waiter that already has a channel would overwrite it. (`NoSleepWithMail`
would be inductive with the types alone.) The argument follows the code: a receive takes the channel out of its
place with nothing pending (`PlaceDequeue`, `PlaceGoOn`), and `user_raiser_enqueue_nolock` puts a
channel that is nowhere in one place (`EnqueuePlaces`), for a send as for the re-enqueue. `OnePlace`
and `WaitersFor` therefore take queues, sleepers, channels and counts as parameters. The refinement
needs the invariant in one point: `pending` is not 0 when a receive decrements it.

`MemoryIsExact` (exact counts, no use after free, nothing left at the end) rests on a third invariant,
`MemInv`, which is inductive relative to `IInv`:

* `Referenced`: the count of a raiser is the number of its references (its owner, the slots whose
  queue links it, the threads that hold it), and it is live exactly while that is positive;
  `dealloc_rc` is the number of live raisers plus one while the mailbox is open (counted, or being
  shut down), and the mailbox is live exactly while that is positive. No queue links a raiser twice,
  since a second link would be one element of the set of slots and two references.
* `Released`: the queues are empty from the moment the shutdown drained them. Without it a raiser in a
  queue of a dead mailbox would never be freed.

Every step is made of changes of one raiser's references by one (`RefsEnqueue`, `RefsDequeue`, `RefsTake`,
`RefsLetGo`, `RefsOwn`, `RefsDisown`); a receive moves one from a queue to the receiving thread. `IInv`
gives what these lemmas assume: an enqueued channel is not yet in that queue, and the woken thread has
no channel (`WaitersFor`).

### Containers and TLB (`KernelProofs`)

Dynamic arrays, for any elements, any header and growth above 0: `DynarrayIsExact`. The invariant
is the property with the types: the array has a cell for each unit of its capacity, and the block's order is the one
that the capacity rounds to, so that `heap_realloc` and `heap_free` are told the size that was
allocated.

TLB invalidation, for every finite set of cores that the counter can count (`InvTlbAssumption`): `GenerationsWait`.
The history variable `owed` has the cores that the last request counted and that have not answered since, `again` those
that answered without owing it, and `clean` says whether the request found all earlier ones answered and nobody
answering. Two invariants carry the theorem. `Counted`: as long as nobody has answered twice, `pending_tlb_updates` is
the number of cores in `owed`, so the answer that takes it to 0 is the last one. `Answering`: after a clean
request nobody answers twice. Before the flip all cores that are not idle owe an answer and none is due, afterwards
those owe one whose state is still that of the last generation, and a core that has loaded the old state is one of
them. `LockHeld` orders the flip against the cores that go idle, which answer and leave in two steps under
the lock; `IdleCounted` is needed because the request subtracts `idle_cores` without looking at the cores.

### Targets (`TargetsProofs`)

For every set of targets and any lists of dependencies: `PlanIsExact`. The invariant follows the stack of
`target_compute_plan`: each target on it was reached through the dependency its predecessor has just
gone past, a target is planned exactly when it is resolved, and what lies before a target's
`dep_index` is resolved or right above it on the stack (`LookedAt`). A target that was begun and is not resolved is
therefore on the stack, with a path of dependencies back to itself: the alarm is right.

### Bring-up and balancer (`SmpProofs`)

Bring-up, for every number of processors: `JoiningIsProper`. The status
alone is not inductive, since a processor's store of its status looks at nothing, and the boot
processor's load and its store of `GAVE_UP` are two steps. `SawInterval` says what a processor has
seen of the calibration where it is, and that only one that runs is online; `PassedStay` that
the processors the last loop has passed are online, given up, or still look for the beginning of an
interval that is over, and so hang.

Balancer, for every number of cores and every finite set of threads: `LoadsAreBalanced`,
from `LoadsAreExact` and `SpreadIsBounded`. That loads differ by at most the number of creators is not inductive: a choice that
was made long ago may still be inserted. `Seen` says that what a scan has found is no more than any load
it has passed is now (loads only grow while no task ends), `Budget` that for every level `l` that some
load has not passed, a load plus all the scans that found it at `l` or below, is at most `l` plus the
number of creators. An insertion moves one unit from the second to the first; a scan that finds a load
at `l` finds it no higher than `l`.

### Only model-checked

Liveness everywhere (TLAPS does not treat fairness); all of `Rpc` with the refinement of `RpcPromise`; and `RpcSession`, `Entry` and the
modules it extends, `Memory`, `Paging`, `Tls` and `PairingHeap`. The neighbour
lists of `Numa` (a fold) and the trees of `PairingHeap` (recursive operators) are computed by recursion
over data, which the provers do not reason about.

## 7. Not modelled

`components` in `PROJECT.json` lists every part with its reason. Whole parts: output and formatting,
descriptor tables and ports, the compiler's run-time support, symbol lookup, and profiling. They
have no protocol between steps or processors that a model checker would explore.

Within the modelled parts:

* the unfairness arithmetic of the scheduler, the payload of messages, the contents of memory, permissions
  of pages, the arithmetic of the calibration;
* the failing `intmap_init` of `user_rpc_create_callee`, which reports success with uninitialised
  results; `seq` wrapping at 2^64;
* the disposal of a paging root and the failing creation of one;
* a core that joins late while tasks are being put on it (`SmpBringup` and `Balancer` are not composed),
  and a task that spins for a lock whose owner sleeps on the same core (`Shm` and `LocalSched` are not);
* locating and checksumming ACPI tables; memory maps with pieces smaller than a page, of which the length
  would wrap (`mem.c:88`, `AddressModulus`): the boot loader's entries and the domains are page aligned;
* realloc of NULL and to size 0, which are plain alloc and free.
