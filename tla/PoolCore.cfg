SPECIFICATION Spec
CONSTANTS
  i1 = i1
  i2 = i2
  i3 = i3
  i4 = i4
  c1 = c1
  c2 = c2
  Items = {i1, i2, i3}
  Callers = {c1, c2}
  NoItem = NoItem
  NoTask = NoTask
  PoolSize = 2
  MaxSize = 1
  MaxStarts = 1
  Operations = {"join", "drain", "abort"}
  HandlerSuspends = {TRUE, FALSE}
  HandlerOutcomes = {"ok", "error", "cancelled"}
  OnResultRaises = {TRUE, FALSE}
  Cancellable = {i1, i2, i3, c1, c2}
SYMMETRY Symmetry
INVARIANTS
  TypeOK
  BooksBalance
  NoLostWakeup
  JoinMeansProcessed
  NoOrphanWorker
  PoisonDoesNotKill
PROPERTIES
  ClosingTakesNothing
  ImplementsContract
CHECK_DEADLOCK FALSE
