SPECIFICATION FairSpec
CONSTANTS
  Dispatchers = {d1, d2}
  NumMails = 2
  BatchSize = 2
  DrainRounds = 1
  MaxAttempts = 2
  SentTries = 2
  MaxFaults = 1
  MaxOverruns = 1
INVARIANTS MarksAreTrue AuditedOnce OneCopy
PROPERTIES SettledStays MailSettles
