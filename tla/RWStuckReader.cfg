SPECIFICATION Spec
CONSTANTS
  a = a
  b = b
  c = c
  d = d
  NoTask = NoTask
  Clients = {a, b, c}
  Readers = {a, b, c}
  Writers = {a, b, c}
  Cancellable = {a, b, c}
INVARIANTS
  NobodyAsleepOnFreeLock
CHECK_DEADLOCK FALSE
