SPECIFICATION Spec
CONSTANTS
  r1 = r1
  r2 = r2
  r3 = r3
  rest = rest
  mcp = mcp
  Genesis = Genesis
  Requests = {r1, r2, r3}
  Surfaces = {rest, mcp}
  RestSurfaces = {rest}
  Faults = {}
CHECK_DEADLOCK FALSE
SYMMETRY Symmetry
INVARIANTS
  ChainUnbrokenAtRest
