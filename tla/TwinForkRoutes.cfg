CONSTANTS
  r1 = r1
  r2 = r2
  b1 = b1
  b2 = b2
  h1 = h1
  i1 = i1
  z1 = z1
  d1 = d1
  Road = {r1, r2}
  Bridge = {b1, b2}
  Facility = {h1}
  Incident = {i1}
  Area = {z1}
  Status = {"OPERATIONAL", "CLOSED"}
  Datum = {d1}
  MaxCapacity = 2
  EventId = {e1, e2, e3}
  Absent = Absent
  Payload <- MCPayload
  Registration <- MCRegistration
  OverlayRoad <- MCOverlayRoad
SPECIFICATION Spec
INVARIANT ForkRoutesAlike
