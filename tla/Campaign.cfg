\* Two concurrent handlers, one post, two campaigns, two failures.
CONSTANTS
  Refs = {p1}
  Budgets = {2}
  Handlers = {h1, h2}
  MaxCampaigns = 2
  MaxFailures = 2
CHECK_DEADLOCK FALSE
SPECIFICATION FairSpec
INVARIANTS
  RefundIsUnspent
  CancelledIsSettled
PROPERTY
  EndedFreesPost
