SPECIFICATION Spec
CONSTANTS
  Tasks = {t1}
  Workers = {w1, w2}
  NoTask = NoTask
  MaxAttempts = 2
  StaleSecs = 3
  HeartbeatSecs = 1
  ClaimDelay = 0
  RetryDelay = 1
  MaxToken = 2
  MaxFaults = 0
INVARIANT ActiveGuardHoldsLease
