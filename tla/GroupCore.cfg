SPECIFICATION FairSpec
CONSTANTS
  a = a
  b = b
  c = c
  Children = {a, b, c}
  Nobody = Nobody
  Limit = 2
  Operations = {"run_all", "run_all_settled", "first_result", "as_completed_results",
                "gather_with_index", "wait_any", "shielded", "with_timeout"}
  SelfCancels = TRUE
INVARIANTS
  OwnershipDecides
  EndsHonestly
PROPERTIES
  GroupEnds
CHECK_DEADLOCK FALSE
