SPECIFICATION SpecOfPart
CONSTANTS
  Tasks = {t1}
  Workers = {w1, w2}
  NoTask = NoTask
  MaxAttempts = 2
  StaleSecs = 3
  HeartbeatSecs = 1
  ClaimDelay = 1
  RetryDelay = 1
  MaxToken = 2
  MaxFaults = 1
  NoOwner = NoOwner
  NoRow = NoRow
  Interval = 1
  Second = 1
  JitterCap = 0
  ClaimTTL = 20
  MinRenew = 1
  Grace = 0
  DbLatency = 1
  RecordTime = 0
  TimerLag = 0
  MaxSkew = 0
  MaxTime = 33
  MaxShutdowns = 0
  Unused = Unused
SYMMETRY WorkerSymmetry
VIEW View
INVARIANTS ActiveGuardHoldsLease ReportsAreDurable AttemptBudget OneBodyAtATime FiringRecovers
PROPERTIES DecisionsStand OnlyHolderWrites
