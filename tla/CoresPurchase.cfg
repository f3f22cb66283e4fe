\* One checkout, two racing handlers, one outside failure, the cleaning cron.
CONSTANTS
  Checkouts = {c1}
  Values = {1, 2}
  Handlers = {h1, h2}
  Discounted = {}
  Barred = {}
  MaxOpened = 1
  MaxNotices = 4
  MaxRows = 2
  MaxFailures = 1
SYMMETRY HandlerSymmetry
CHECK_DEADLOCK FALSE
SPECIFICATION Spec
PROPERTY
  ImplementsCreditOnce
