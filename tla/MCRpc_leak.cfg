\* Everything is freed at the end: violated, a caller leaks.
CONSTANTS
  t1 = t1
  t2 = t2
  t3 = t3
  c1 = c1
  e1 = e1
  k1 = k1
  k2 = k2
  o1 = o1
  o2 = o2
  Threads = {t1, t2}
  Callers = {c1}
  Callees = {e1}
  Containers = {k1, k2}
  Opaques = {o1}
  Nobody = Nobody
  MaxCalls = 2
  MaxRefs = 4
SPECIFICATION Spec
INVARIANT AllFreedAtTheEnd
CHECK_DEADLOCK FALSE
