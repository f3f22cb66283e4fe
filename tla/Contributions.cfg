\* A submission of each of two users, one review, two payments; two requests.
CONSTANTS
  Users = {1, 2}
  Causes = {1, 2}
  Preferences <- CausePreferences
  Submissions = {1, 2}
  Owner <- SubmissionOwner
  MaxPerUser = 1
  ActionPoints = 2
  Verdicts <- ReviewVerdicts
  Amounts = {7}
  Milestones = {2, 4}
  Requests = {r1, r2}
  MaxReviews = 1
  MaxPayments = 2
  MaxFaults = 1
CHECK_DEADLOCK FALSE
SPECIFICATION FairContributionSpec
INVARIANTS
  ContributionTypeOK
  PaymentIsOfSubmissions
  PaymentIsDivided
  CacheFollowsMilestones
PROPERTIES
  MilestoneIsReached
