CONSTANTS
  t1 = t1
  t2 = t2
  Threads = {t1, t2}
  Nobody = Nobody
  MaxObjects = 8
  MaxCells = 3
  GrowthDelta = 2
  ShmSize = 2
  WordMax = 3
  Menus <- MCMenus

SPECIFICATION Spec
CHECK_DEADLOCK FALSE
INVARIANTS RefsExact TablesExact NoCircularWait ShmInBounds
PROPERTIES PinsRespected LeaveRevokes
