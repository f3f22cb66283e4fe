\* One reader from Thursday (day 11) to Monday (day 15); two requests and the
\* cron at once, one freeze more than held, one failure.
CONSTANTS
  WeekStart = 1
  Requests = {r1, r2}
  cron = cron
  FirstDay = 11
  LastDay = 15
  FreezesHeld <- Held
  MaxBought = 2
  MaxFailures = 1
CONSTRAINT Orderly
CHECK_DEADLOCK FALSE
SPECIFICATION FairSpec
INVARIANTS
  TypeOK
  GapsAreCovered
  StreakIsRead
  PurchasesHold
PROPERTIES
  ResetOnlyIfMissed
  BrokenStreakEnds
