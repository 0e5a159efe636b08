SPECIFICATION FairSpecBoth
CONSTANTS
  a = a
  b = b
  c = c
  d = d
  r1 = r1
  r2 = r2
  NoTask = NoTask
  NoResult = NoResult
  NoResource = NoResource
  Clients = {a, b, c, d}
  Resources = {r1, r2}
  Cancellable = {a, b, c, d}
  FactorySuspends = {TRUE, FALSE}
  FactoryOutcomes = {"ok", "error"}
INVARIANTS
  NothingLostOrShared
  NobodyStranded
  OneResult
PROPERTIES
  RunReturns
CHECK_DEADLOCK FALSE
