SPECIFICATION Spec
CONSTANTS
  i1 = i1
  i2 = i2
  i3 = i3
  i4 = i4
  c1 = c1
  c2 = c2
  Items = {i1, i2, i3}
  Callers = {c1}
  NoItem = NoItem
  NoTask = NoTask
  PoolSize = 1
  MaxSize = 1
  MaxStarts = 1
  Operations = {"drain"}
  HandlerSuspends = {FALSE}
  HandlerOutcomes = {"ok"}
  OnResultRaises = {FALSE}
  Cancellable = {}
INVARIANTS
  DrainMeansEmpty
CHECK_DEADLOCK FALSE
