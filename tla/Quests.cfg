\* A quest of two events, one of one event, a milestone of one claim; two requests.
CONSTANTS
  first = first
  second = second
  Rotating = {first, second}
  Milestone = milestone
  Target <- Targets
  Events <- AllEvents
  XpQuests = {first, milestone}
  Requests = {r1, r2}
  MaxFailures = 1
CHECK_DEADLOCK FALSE
SPECIFICATION FairSpec
INVARIANTS
  TypeOK
  RewardsAreClaims
  MilestoneIsEarned
  ProgressIsEvents
PROPERTY
  QuestCompletes
