\* Two workers, two runs, one finding, one failure or duplicate delivery.
CONSTANTS
  Runs = {r1, r2}
  Workers = {w1, w2}
  Posts = {p1}
  Summaries = {}
  Notify = TRUE
  Null = null
  MaxFailures = 1
CHECK_DEADLOCK FALSE
SPECIFICATION FairSpec
INVARIANTS
  DeliveredOnce
  NoticeTellsRun
PROPERTY
  RequestEnds
