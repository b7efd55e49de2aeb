SPECIFICATION Spec
CONSTANTS
  Request = {r1, r2, r3, r4, r5}
  Null = Null
  Cooldown = 1
  Ttl = 2
  MaxTime = 3
  MaxCrashes = 1
SYMMETRY Symmetry
INVARIANTS
  PasswordSetInTime
  UsedTokenIsCleared
  CurrentTokenIsMailed
PROPERTY DeadLinksStayDead
