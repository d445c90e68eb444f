----------------------------- MODULE MCDigitalTwin -----------------------------
(* A small district: two roads, two bridges over the first one, a hospital,   *)
(* an incident and a flood zone; three event ids the callers may use freely.  *)
EXTENDS DigitalTwinProps, TLC

CONSTANTS r1, r2, b1, b2, h1, i1, z1, d1

MCOverlayRoad == [b \in {b1, b2} |-> r1]

MCRegistration ==
  {<<b1, [status |-> "OPEN", road |-> r1]>>,
   <<h1, [status |-> "OPERATIONAL", cap |-> 2, avail |-> 1]>>}

RoadSays(r, s) == [kind |-> "road", key |-> r, status |-> s]
BridgeSays(b, s, prop) == [kind |-> "bridge", key |-> b, status |-> s, propagate |-> prop]
CapacitySays(c, a) == [kind |-> "capacity", key |-> h1, cap |-> c, avail |-> a]
IncidentSays(k, s) == [kind |-> k, key |-> i1, status |-> s]

MCPayload ==
  {RoadSays(r1, "BLOCKED"), RoadSays(r2, "OPEN"),
   BridgeSays(b1, "COLLAPSED", TRUE), BridgeSays(b1, "OPEN", TRUE),
   BridgeSays(b2, "SUBMERGED", FALSE),
   [kind |-> "facility", key |-> h1, status |-> "CLOSED"],
   [kind |-> "area", key |-> z1, datum |-> d1],
   CapacitySays(1, 0), CapacitySays(0, 0),
   IncidentSays("created", "OPEN"), IncidentSays("incident", "ACKNOWLEDGED"),
   IncidentSays("incident", "RESOLVED")}

Symmetry == Permutations(EventId)
================================================================================
