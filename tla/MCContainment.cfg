SPECIFICATION ContainSpec
CONSTANTS
  r1 = r1
  NoIncident = NoIncident
  Receipts = {r1}
  Ticks = {"t1"}
  Stubborn = {}
  MaxPerTick = 1
  MaxSeq = 1
  Positions <- AllPositions
  Conflicting = {r1}
  OnDemand = {}
  MaxMishaps = 1
  Agents = {"a1"}
  Deliveries = {"d1", "d2"}
  MaxIncidents = 2
  Named = {1}
CHECK_DEADLOCK FALSE
INVARIANTS
  RevocationsJustified
PROPERTIES
  AnnouncementsInvestigated
  HighIncidentsContained
