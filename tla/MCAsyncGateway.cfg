SPECIFICATION AsyncSpec
CONSTANTS
  r1 = r1
  r2 = r2
  Genesis = Genesis
  Requests = {r1, r2}
  Flushers = {"f1"}
  MaxBatch = 2
  SaveErrors = TRUE
CHECK_DEADLOCK FALSE
INVARIANTS
  EveryItemAccounted
  StoredChainResumes
PROPERTIES
  EveryReceiptSettles
  StopReturns
