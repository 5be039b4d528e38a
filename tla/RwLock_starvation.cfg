\* A writer waits for ever, as a reader that is not counted wakes nobody: violated.
CONSTANTS
  Lockers = {a, b, c}
  SizeModulus = 8
SPECIFICATION RwFairSpec
PROPERTY WritersDoNotStarve
CHECK_DEADLOCK FALSE
