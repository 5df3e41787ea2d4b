SPECIFICATION FairSpec
CONSTANTS
  a1 = a1
  a2 = a2
  i1 = i1
  i2 = i2
  Artifacts = {a1, a2}
  Instances = {i1, i2}
  LogFaults = {"append_error", "resume_error"}
  AnchorFaults = {"list_error", "tx_error", "record_error"}
  Threshold = 2
  Limit = 1
  MaxStarts = 2
  Triggered = {i1}
  MaxTxs = 1
CHECK_DEADLOCK FALSE
INVARIANTS
  AnchoredIsOnChain
PROPERTIES
  AppendOnly
  BacklogAnchored
