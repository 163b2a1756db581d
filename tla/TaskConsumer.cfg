SPECIFICATION LoopFairSpec
CONSTANTS
  Tasks = {t1, t2}
  MaxLimit = 2
  PollInterval = 1
  IdleMaxInterval = 2
  ErrorDelay = 2
  DrainTimeout = 1
  CancellationTimeout = 1
  MaxFaults = 1
INVARIANTS NothingIsLeftBehind NotifiedWorkIsSeen
PROPERTIES LimitRespected NoStartAfterStop ConsumerProgresses
