SPECIFICATION FairSpec
CONSTANTS
  a = a
  b = b
  c = c
  d = d
  NoTask = NoTask
  Clients = {a, b, c, d}
  Readers = {a, b, c, d}
  Writers = {a, b, c, d}
  Cancellable = {a, b, c, d}
INVARIANTS
  TypeOK
  MutualExclusion
  CountersExact
  NoStrandedWriter
PROPERTIES
  OnlyWithdrawalStrands
  WritersNotStarved
  ImplementsContract
