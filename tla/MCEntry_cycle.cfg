\* A universe is stored in itself: violated.
CONSTANTS
  t1 = t1
  t2 = t2
  Threads = {t1, t2}
  Nobody = Nobody
  MaxObjects = 8
  MaxCells = 3
  GrowthDelta = 2
  ShmSize = 2
  WordMax = 3
  Menus <- PairMenu
SPECIFICATION Spec
INVARIANT NoCyclicalDeps
CHECK_DEADLOCK FALSE
