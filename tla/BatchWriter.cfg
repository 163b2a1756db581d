SPECIFICATION FairSpec
CONSTANTS
  N = 3
  Capacity = 2
  BatchSize = 2
  DirectWrite = TRUE
  Flushers = {f1}
  Stoppers = {s1}
  MaxFaults = 1
CHECK_DEADLOCK FALSE
INVARIANTS DoubtIsMarked
PROPERTIES IsDurableBuffer NobodyIsLeftWaiting
