SPECIFICATION Spec
CONSTANTS
  k1 = k1
  k2 = k2
  art1 = art1
  art2 = art2
  art3 = art3
  r1 = r1
  m1 = m1
  Genesis = Genesis
  Missing = Missing
  Float = Float
  RestInstances = {r1}
  McpInstances = {m1}
  Kids <- TwoKids
  Calls <- ThreeCalls
  Filters <- WholeAndPart
  Earlier <- EarlierLogs
  MaxStarts = 2
  MaxFaults = 1
  MaxAnchors = 2
  PageSize = 2
  LogLimit = 5
CHECK_DEADLOCK FALSE
INVARIANTS
  TamperEvident
  VerifiersAgree
  ProofsSound
  GenuineReceiptsVerify
  PagedReadComplete
