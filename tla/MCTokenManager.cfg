CONSTANTS
  m1 = m1
  m2 = m2
  r1 = r1
  r2 = r2
  Manager = {m1, m2}
  Request = {r1, r2}
  ManagerOf <- MCManagerOf
  Enforcing = {m1, m2}
  StoreFails = TRUE
  Logout = logout
  MaxToken = 2
SPECIFICATION FairSpec
INVARIANTS
  NoReplay
  RotationKept
  HeaderHasToken
PROPERTIES
  LogoutIsFinal
  CallerAnswered
