SPECIFICATION FairSpec
CONSTANTS
  Account = {a1, a2}
  Request = {r1, r2}
  Client = {c1, c2}
  None = None
  MaxPairs = 2
INVARIANTS
  SessionConsistent
  StaysSignedOut
PROPERTIES
  ResentWithOther
  RequestsEnd
  LoadingEnds
