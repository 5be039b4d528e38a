\* An IPI is taken late: violated.
CONSTANTS
  c1 = c1
  a = a
  b = b
  d = d
  Cores = {c1}
  Tasks = {a, b, d}
  CoreOf <- OneCore
  NoTask = NoTask
  MaxWakeups = 5
SPECIFICATION Spec
INVARIANT DequeueWaits
CHECK_DEADLOCK FALSE
