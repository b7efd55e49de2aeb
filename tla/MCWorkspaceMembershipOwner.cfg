SPECIFICATION Spec
CONSTANTS
  Workspace = {w1, w2}
  User = {u1, u2}
  Request = {q1, q2, q3}
  Null = Null
  DbFaults = FALSE
  MaxCrashes = 0
SYMMETRY Symmetry
INVARIANT HasOwner
