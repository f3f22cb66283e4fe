\* One batch of up to three jobs, three workers, one failure.
CONSTANTS
  Batches = {b1}
  Executors = {w1, w2, w3}
  BatchSizes = {0, 1, 3}
  MaxFaults = 1
CHECK_DEADLOCK FALSE
SPECIFICATION FairBatchSpec
INVARIANT
  StatusTellsJobs
PROPERTY
  BatchEnds
