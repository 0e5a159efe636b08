SPECIFICATION Spec
CONSTANTS
  f1 = f1
  f2 = f2
  Nothing = Nothing
  NoLimit = NoLimit
  Feeds = {f1, f2}
  Supply <- TwoAndOne
  Faulty = {f2}
  Concurrency = 2
  Orders = {TRUE, FALSE}
  Fragile <- FirstItem
  Size = 2
  Timeouts = {TRUE, FALSE}
  Limits = {1, NoLimit}
  Cancellable = TRUE
INVARIANTS
  NothingDropped
  NobodyLeft
  WithinBounds
  NothingHangs
CHECK_DEADLOCK FALSE
PROPERTIES
  StagesKeepEveryItem
