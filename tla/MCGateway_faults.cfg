SPECIFICATION Spec
CONSTANTS
  r1 = r1
  r2 = r2
  r3 = r3
  rest = rest
  mcp = mcp
  Genesis = Genesis
  Requests = {r1, r2, r3}
  Surfaces = {rest, mcp}
  RestSurfaces = {rest}
  Faults = {"save_error", "late_write", "crash", "resume_error"}
CHECK_DEADLOCK FALSE
SYMMETRY Symmetry
INVARIANTS
  AnswerHasStoredReceipt
  ArtifactsAreStored
  LinksResolve
  AnsweredPositionsDistinct
  ChainUnbrokenWhileHealthy
PROPERTIES
  ImplementsTrail
