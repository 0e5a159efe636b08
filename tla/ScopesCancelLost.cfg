SPECIFICATION SpecBoth
CONSTANTS
  host = host
  k1 = k1
  c1 = c1
  c2 = c2
  a = a
  b = b
  c = c
  Nobody = Nobody
  Tasks = {host, k1}
  Closers = {c1}
  Operations = {"aclose"}
  Host = host
  Children = {a, b}
  Limit = 2
  Calls = {"run_all"}
  SelfCancels = FALSE
INVARIANTS
  CancelReachesCaller
CHECK_DEADLOCK FALSE
