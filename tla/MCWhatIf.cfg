CONSTANTS
  r1 = r1
  r2 = r2
  r3 = r3
  r4 = r4
  b1 = b1
  h1 = h1
  fz = fz
  here = here
  there = there
  near = near
  e1 = e1
  e2 = e2
  t1 = t1
  t2 = t2
  t3 = t3
  low = low
  high = high
  Road = {r1, r2, r3, r4}
  Node = {1, 2, 3, 4}
  Edge = {1, 2, 3, 4, 5, 6}
  EdgeData <- MCEdgeData
  Place = {here, there, near}
  Reach <- MCReach
  Span <- MCSpan
  Absent = Absent
  Bridge = {b1}
  Facility = {h1}
  FloodZone = fz
  Status = {"OPERATIONAL"}
  MaxCapacity = 2
  Team = {t1, t2, t3}
  Available = {t1, t2}
  Registered <- MCRegistered
  OverlayRoad <- MCOverlayRoad
  LiveEvent <- MCLiveEvent
  Override <- MCOverride
  Request <- MCRequest
  Scenario <- MCScenario
  Cell = {low, high}
  Elevation <- MCElevation
  RoadCells <- MCRoadCells
  MaxChanges = 2
SPECIFICATION Spec
SYMMETRY Symmetry
CHECK_DEADLOCK FALSE
INVARIANTS
  TypeOK
  RouteShortest
  PassableUnlessRaced
  RerouteAvoids
  ChangesReported
  TeamsWithinReport
