SPECIFICATION FairSpecBoth
CONSTANTS
  a = a
  b = b
  c = c
  Never = Never
  Clients = {a, b, c}
  Threshold = 2
  ResetAfter = 2
  Attempts = 3
  BaseDelay = 1
  Factor = 3
  MaxDelay = 2
  Jitter = FALSE
INVARIANTS
  TrippedByConsecutive
  BudgetSpent
PROPERTIES
  EndsInTime
