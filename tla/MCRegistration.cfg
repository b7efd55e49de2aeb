SPECIFICATION Spec
CONSTANTS
  Email = {e1, e2}
  Request = {r1, r2, r3, r4}
  Null = Null
  Environments = {"cloud", "self-hosted", "unset"}
  Cooldown = 1
  Ttl = 2
  MaxTime = 3
  MaxCrashes = 1
  MaxDeletions = 1
SYMMETRY Symmetry
INVARIANTS
  OneAccountPerEmail
  VerifiedByMail
  VerifiesInTime
  CurrentTokenIsMailed
  SuccessIsBacked
  LateMakeNoAccount
