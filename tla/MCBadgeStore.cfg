CONSTANTS
  u1 = u1  u2 = u2
  n1 = n1  n2 = n2
  r1 = r1  r2 = r2
  User <- Users
  Number <- Numbers
  None = None
  Outages = TRUE
  Request <- TwoRequests
  Operation <- Operations
SPECIFICATION Spec
SYMMETRY Symmetric
INVARIANTS
  UniqueUnlessStale
  OpensUnlessStale
PROPERTIES
  PatchUnlessStale
  TurnedOnKeeps
CHECK_DEADLOCK FALSE
