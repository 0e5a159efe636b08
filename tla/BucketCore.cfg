SPECIFICATION FairBucketSpec
CONSTANTS
  a = a
  b = b
  c = c
  NoTask = NoTask
  Callers = {a, b, c}
  Amounts = {1, 2}
  Capacity = 2
  MaxTries = 1
  MaxLag = 3
  MaxBack = 1
  MaxForward = 1
  Impatient = {a, b}
INVARIANTS
  RateHeld
PROPERTIES
  ServedInOrder
  AcquireReturns
