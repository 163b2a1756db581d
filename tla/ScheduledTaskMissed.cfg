SPECIFICATION TimelySpec
CONSTANTS
  Workers = {w1, w2}
  NoOwner = NoOwner
  NoRow = NoRow
  Interval = 2
  Second = 1
  JitterCap = 0
  ClaimTTL = 6
  MinRenew = 1
  Grace = 0
  DbLatency = 0
  RecordTime = 0
  TimerLag = 0
  MaxSkew = 0
  MaxTime = 8
  MaxFaults = 2
  MaxShutdowns = 0
SYMMETRY WorkerSymmetry
CHECK_DEADLOCK FALSE
INVARIANTS OneBodyAtATime
VIEW TimedView
