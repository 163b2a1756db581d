SPECIFICATION FairSpec
CONSTANTS
  Ops = {o1}
  NumRunners = 2
  MaxGen = 2
  MaxRev = 2
  MaxFaults = 1
  NumUploads = 1
  Chunks = 2
  MaxEdits = 2
  Writes = {1, 2}
  Evictions = {v1}
  Leases = {l1}
  CacheSize = 3
  MaxRanges = 3
  Contents = {c1}
  HydrateSize = 2
  Alignments = {1, 2}
  NumWaiters = 3
  MaxWork = 2
  MaxPerContent = 2
  Parts = {"mutation", "upload", "cache", "fragmented", "hydration", "local", "feed"}
  Names = {n1, n2}
  OldItem = b
  NewItem = r
  NewFile = f
  NewDir = d
  None = None
  Unused = Unused
CHECK_DEADLOCK FALSE
INVARIANTS
  OutcomesAreTrue NoFalseStall NoChangeIsLost CoverageIsBacked EvictionIsExclusive
  HydrationIsExact NothingIsHidden
PROPERTIES DecisionsAreFinal JournalsSettle
