SPECIFICATION FairSpec
CONSTANTS
  i1 = i1
  i2 = i2
  i3 = i3
  i4 = i4
  c1 = c1
  c2 = c2
  Items = {i1, i2, i3}
  Callers = {c1, c2}
  NoItem = NoItem
  NoTask = NoTask
  PoolSize = 2
  MaxSize = 1
  MaxStarts = 2
  Operations = {"join", "drain", "abort"}
  HandlerSuspends = {TRUE}
  HandlerOutcomes = {"ok"}
  OnResultRaises = {FALSE}
  Cancellable = {}
INVARIANTS
  DrainMeansEmpty
  NoOrphanWorker
PROPERTIES
  CallsReturn
CHECK_DEADLOCK FALSE
