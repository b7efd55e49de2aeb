SPECIFICATION Spec
CONSTANTS
  User = {u1, u2}
  Workspace = {w1, w2}
  Doc = {d1}
  Link = {l1}
  Call = {c1}
  Edit = {e1}
  u1 = u1
  u2 = u2
  w1 = w1
  w2 = w2
  None = None
  System = System
  Creator <- MCCreator
  Home <- MCHome
  Normal <- MCNormal
  TagSets <- MCTagSets
  Limit = 1
  Roster <- MCRoster
  Deletable = {w1}
INVARIANTS
  AnswersConsistent
PROPERTIES
  FindsOnlyShared
  SharedAreFound
  RevokedLetsNobodyIn
