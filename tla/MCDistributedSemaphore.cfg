CONSTANTS
  n1 = n1
  n2 = n2
  r1 = r1
  r2 = r2
  r3 = r3
  Replica = {n1, n2}
  Request = {r1, r2, r3}
  Home <- MCHome
  Limit = 1
  MaxQueue = 1
  Ttl = 2
  NoRequest = none
SPECIFICATION Spec
SYMMETRY MCSymmetry
INVARIANTS
  OwnersWithinLimit
  QueueServed
  RowsAccountedFor
  NoHolderForFailedCall
PROPERTY
  ImplementsClusterLimit
CHECK_DEADLOCK FALSE
