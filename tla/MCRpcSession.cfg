\* One client, two servers that share a callee.
CONSTANTS
  t1 = t1
  t2 = t2
  t3 = t3
  c1 = c1
  e1 = e1
  k1 = k1
  k2 = k2
  Threads = {t1, t2, t3}
  Clients = {t1}
  Servers = {t2, t3}
  Callers = {c1}
  Callees = {e1}
  Containers = {k1, k2}
  Opaques = {1}
  Nobody = Nobody
  MaxCalls = 2
  MaxRefs = 4
SYMMETRY SymmetryServers
SPECIFICATION SessionSpec
INVARIANTS NotesExact
CHECK_DEADLOCK FALSE
