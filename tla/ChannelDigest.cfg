\* Two deliveries at once of two runs, one post, one failure.
CONSTANTS
  Workers = {w1, w2}
  MaxRuns = 2
  MaxPosts = 1
  MaxFailures = 1
CHECK_DEADLOCK FALSE
SPECIFICATION FairSpec
INVARIANTS
  PostDigestedOnce
  PostsAreDigested
PROPERTY
  DigestDone
