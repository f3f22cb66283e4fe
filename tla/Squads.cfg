\* Two admins, one submission, two requests, one handler, two changes, one failure.
SPECIFICATION Spec
CONSTANTS
  ann = ann
  bob = bob
  post = post
  Users = {ann, bob}
  Members <- TeamMembers
  Newcomers = {bob}
  Submissions = {post}
  Author <- PostAuthor
  Requests = {r1, r2}
  Workers = {w}
  MaxChanges = 2
  MaxFailures = 1
CHECK_DEADLOCK FALSE
INVARIANT
  PublishedOnce
PROPERTIES
  DemotionLeavesAdmin
  BlockIsLifted
  ApprovedIsPublished
  QueueIsDrained
