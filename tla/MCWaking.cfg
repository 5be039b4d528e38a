\* One core, three tasks, every platform; one mailbox, two threads, two raisers.
CONSTANTS
  c1 = c1
  a = a
  b = b
  d = d
  Cores = {c1}
  Tasks = {a, b, d}
  CoreOf <- OneCore
  NoTask = NoTask
  MaxWakeups = 5
  r1 = r1
  r2 = r2
  NoRaiser = NoRaiser
  MaxPending = 2
SPECIFICATION WakingSpec
INVARIANTS RunQueueExact NoLostWakeup
PROPERTIES ReadyCoreRuns PendingIsDelivered
CHECK_DEADLOCK FALSE
