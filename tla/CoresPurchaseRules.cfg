\* A plain checkout, one with a test discount or one whose buyer's role forbids
\* it, with one failure, under fairness.
CONSTANTS
  Checkouts = {c1, c2, c3}
  Values = {1}
  Handlers = {h1, h2}
  Discounted = {c1}
  Barred = {c2}
  MaxOpened = 1
  MaxNotices = 3
  MaxRows = 1
  MaxFailures = 1
CHECK_DEADLOCK FALSE
SPECIFICATION FairSpec
INVARIANT
  SuccessIsCredited
PROPERTY
  CompletedIsCredited
