SPECIFICATION AuditSpec
CONSTANTS
  r1 = r1
  r2 = r2
  r3 = r3
  r4 = r4
  Receipts = {r1, r2, r3, r4}
  Stubborn = {r1, r2}
  Ticks = {"t1", "t2"}
  MaxPerTick = 2
  MaxSeq = 4
  Positions <- FewPositions
  Conflicting = {r3}
  OnDemand = {r3}
  MaxMishaps = 1
CHECK_DEADLOCK FALSE
INVARIANTS
  NothingPassedOver
  ConflictsAccountedFor
PROPERTIES
  EveryReceiptAudited
