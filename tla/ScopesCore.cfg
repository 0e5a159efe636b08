SPECIFICATION SpecBoth
CONSTANTS
  host = host
  k1 = k1
  c1 = c1
  c2 = c2
  a = a
  b = b
  c = c
  Nobody = Nobody
  Tasks = {host, k1}
  Closers = {c1, c2}
  Operations = {"drain", "aclose", "exit"}
  Host = host
  Children = {a, b}
  Limit = 1
  Calls = {"run_all", "run_all_settled", "first_result", "as_completed_results", "gather_with_index"}
  SelfCancels = TRUE
INVARIANTS
  Reconciles
  DrainMeansAll
  NothingLeftRunning
  ClosingReachesAll
SYMMETRY Symmetry
CHECK_DEADLOCK FALSE
