CONSTANTS
  w1 = w1
  w2 = w2
  inProject = inProject
  withResource = withResource
  Nobody = nobody
  Worker = {w1, w2}
  Scope = {inProject, withResource}
  OwnScope = inProject
  Turns = 2
  PageSize = 1
  MaxMishaps = 1
SPECIFICATION Spec
SYMMETRY MCSymmetry
INVARIANTS
  ObservedOnce
  NoResurrection
PROPERTY VersionGrows
CHECK_DEADLOCK FALSE
