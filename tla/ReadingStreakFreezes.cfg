\* One reader with two freezes, one request and the cron.
CONSTANTS
  WeekStart = 1
  Requests = {r1}
  cron = cron
  FirstDay = 11
  LastDay = 12
  FreezesHeld = {2}
  MaxBought = 2
  MaxFailures = 0
CHECK_DEADLOCK FALSE
SPECIFICATION Spec
INVARIANTS
  OneFreezePerDay
