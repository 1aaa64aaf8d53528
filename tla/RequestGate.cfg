SPECIFICATION FairSpec
CONSTANTS
  p1 = p1
  p2 = p2
  a = a
  b = b
  Malformed = Malformed
  NoValue = NoValue
  Thread = {1, 2}
  Principal = {p1, p2}
  Inputs <- Credentials
  TokenFile <- Files
  Modes = {"token", "mtls"}
  Admins <- AdminIdentities
  One = 2
  Rate = 1
  Burst = 2
  Multiple = 2
  MaxNow = 1
  MaxWrites = 1
CHECK_DEADLOCK FALSE
INVARIANTS
  RateBound
  NotStarved
  AdmittedByList
PROPERTIES
  ReloadTakesEffect
