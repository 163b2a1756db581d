SPECIFICATION FairSpecOfPart
CONSTANTS
  Instances = {1, 2}
  NoRow = NoRow
  ConfigTTL = 10
  ConfigRenew = 2
  ConfigRetry = 0
  DefaultTTL = 10
  DefaultRetry = 2
  Second = 1
  DbLatency = 1
  StopTime = 1
  TimerLag = 1
  MaxSkew = 1
  MaxFaults = 1
  Tasks = {t1}
  Workers = {w1}
  NoTask = NoTask
  RemoteKeys = {r1, r2}
  LocalKeys = {k1}
  MaxVersion = 1
  BufferSize = 1
  MaxPending = 1
  MaxReloadFaults = 2
  NumRequests = 3
  Maximum = 2
  MaxTokens = 3
  Unused = Unused
CHECK_DEADLOCK FALSE
INVARIANTS
  AtMostOneWorkload CleanShutdownFrees QuietIsCurrent RotationIsExclusive
  CleanupIsOrdered
PROPERTIES ReloadNeverRegresses TasksSettle ServicesSettle
