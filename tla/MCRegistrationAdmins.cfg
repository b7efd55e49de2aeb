SPECIFICATION Spec
CONSTANTS
  Email = {e1, e2}
  Request = {r1, r2}
  Null = Null
  Environments = {"unset"}
  Cooldown = 1
  Ttl = 2
  MaxTime = 1
  MaxCrashes = 0
  MaxDeletions = 0
SYMMETRY Symmetry
INVARIANT OneAdmin
