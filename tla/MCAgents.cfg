SPECIFICATION FairSpec
CONSTANTS
  r1 = r1
  r2 = r2
  n1 = n1
  n2 = n2
  k1 = k1
  k2 = k2
  Registrations = {r1, r2}
  Nonces = {n1, n2}
  Keys = {k1, k2}
  NoKey = NoKey
  Capacity = 1
  Faults = {"write_error", "read_error"}
CHECK_DEADLOCK FALSE
INVARIANTS
  ChallengeSpentOnce
  RegistryIsLatest
PROPERTIES
  GateHoldsUntilVerified
  OldIsRechallenged
