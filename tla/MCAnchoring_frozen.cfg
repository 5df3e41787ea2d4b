SPECIFICATION FairSpec
CONSTANTS
  a1 = a1
  a2 = a2
  a3 = a3
  i1 = i1
  i2 = i2
  Artifacts = {a1, a2}
  Instances = {i1}
  LogFaults = {}
  AnchorFaults = {}
  Threshold = 1
  Limit = 3
  MaxStarts = 2
  Triggered = {i1}
  MaxTxs = 9
CHECK_DEADLOCK FALSE
PROPERTIES
  EveryArtifactAnchored
