SPECIFICATION Spec
CONSTANTS
  Names = {n1, n2}
  Base = {b}
  Arrivals = {}
  Files = {}
  Dirs = {}
  None = None
  MaxMounts = 1
  MaxLost = 0
CHECK_DEADLOCK FALSE
INVARIANT RemovedIsHidden
