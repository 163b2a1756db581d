SPECIFICATION Spec
CONSTANTS
  Names = {n1, n2}
  Base = {b}
  Arrivals = {}
  Files = {f}
  Dirs = {}
  None = None
  MaxMounts = 2
  MaxLost = 0
CHECK_DEADLOCK FALSE
PROPERTY RefusedIsRestored
