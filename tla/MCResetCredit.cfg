CONSTANTS
  p1 = p1
  p2 = p2
  a1 = a1
  a2 = a2
  a3 = a3
  None = none
  Process = {p1, p2}
  Attempt = {a1, a2, a3}
  ProcessOf <- MCProcessOf
  Drift = {0}
  StoreFails = TRUE
  MaxHour = 1
  MaxWeek = 1
SPECIFICATION Spec
SYMMETRY MCSymmetry
INVARIANTS
  
  CooldownKept
CHECK_DEADLOCK FALSE
