SPECIFICATION Spec
CONSTANTS
  Workers = {w1, w2}
  NoOwner = NoOwner
  NoRow = NoRow
  Interval = 1
  Second = 1
  JitterCap = 0
  ClaimTTL = 1
  MinRenew = 1
  Grace = 0
  DbLatency = 0
  RecordTime = 0
  TimerLag = 0
  MaxSkew = 1
  MaxTime = 3
  MaxFaults = 1
  MaxShutdowns = 1
SYMMETRY WorkerSymmetry
CHECK_DEADLOCK FALSE
INVARIANTS FinishedIsRecorded
PROPERTIES NextRunAdvances CompletedNotRerun
VIEW UntimedView
