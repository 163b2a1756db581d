SPECIFICATION Spec
CONSTANTS
  Dispatchers = {d1, d2}
  NumMails = 1
  BatchSize = 1
  DrainRounds = 1
  MaxAttempts = 2
  SentTries = 1
  MaxFaults = 0
  MaxOverruns = 0

INVARIANTS AttemptBudget

