SPECIFICATION Spec
CONSTANTS
  Workspace = {w1, w2}
  User = {u1, u2}
  Request = {q1, q2, q3}
  Null = Null
  DbFaults = TRUE
  MaxCrashes = 1
SYMMETRY Symmetry
INVARIANTS
  HasOwnerUnlessRaced
  NothingOutlivesWorkspace
  LookupFollows
  AcceptedMadeAccount
