\* Two concurrent requests of two senders, three awards, one outside failure.
CONSTANTS
  u1 = u1
  u2 = u2
  u3 = u3
  p1 = p1
  s1 = s1
  f1 = f1
  Users = {u1, u2, u3}
  Posts = {p1}
  Squads = {s1}
  Profiles = {f1}
  Receiver <- MCReceiver
  Prices = {1}
  Purse = 2
  Handlers = {h1, h2}
  MaxRows = 3
  MaxFailures = 1
CHECK_DEADLOCK FALSE
SPECIFICATION FairSpec
INVARIANTS
  PaidIsRecorded
  PostCountIsAwards
  AwardedOnce
PROPERTY
  RequestsEnd
