SPECIFICATION FairSpec
CONSTANTS
  r1 = r1
  r2 = r2
  n1 = n1
  n2 = n2
  k1 = k1
  k2 = k2
  Registrations = {r1}
  Nonces = {n1}
  Keys = {k1}
  NoKey = NoKey
  Capacity = 1
  Faults = {}
CHECK_DEADLOCK FALSE
PROPERTIES
  RegisteredIsRechallenged
