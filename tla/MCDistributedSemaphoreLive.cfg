CONSTANTS
  n1 = n1
  n2 = n2
  r1 = r1
  r2 = r2
  r3 = r3
  Replica = {n1}
  Request = {r1, r2}
  Home <- MCPairHome
  Limit = 1
  MaxQueue = 1
  Ttl = 2
  NoRequest = none
SPECIFICATION FairSpec
PROPERTIES
  WaiterAnswered
  RowGoesAway
CHECK_DEADLOCK FALSE
