CONSTANTS
  c1 = c1
  c2 = c2
  c3 = c3
  c4 = c4
  k1 = k1
  k2 = k2
  Call = {c1, c2, c3, c4}
  Key = {k1, k2}
  KeyOf <- MCKeyOf
  KeyLimits = {1, 2}
  Settings <- MCSettings
  Multiplier = 0
  MinSize = 2
SPECIFICATION FairSpec
INVARIANTS
  CountsAreLeases
  GoneHoldsNothing
  NobodyStranded
  GlobalLimitHolds
PROPERTY
  WaitEnds
CHECK_DEADLOCK FALSE
