\* One client and one server; four tasks, three cores, two processors to start.
CONSTANTS
  Threads = {t1, t2}
  Clients = {t1}
  Servers = {t2}
  Callers = {c1}
  Callees = {e1}
  Containers = {k1}
  Opaques = {1}
  Nobody = Nobody
  MaxCalls = 2
  MaxRefs = 4
  Tasks = {a, b, c, d}
  Cores = {a, b, c}
  TicketModulus = 3
  Aps = 2
SPECIFICATION LiveSpec
INVARIANTS MutualExclusion SpinExclusion
PROPERTIES NoOvertaking JoinsProperly CallsAreAnswered SleeperGetsMutex SpinnerGetsIn BringupReturns
CHECK_DEADLOCK FALSE
