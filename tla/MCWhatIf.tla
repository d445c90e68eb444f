-------------------------------- MODULE MCWhatIf -------------------------------
(* Two ways from node 1 to node 4: over the bridge of road r2, reached fastest  *)
(* by a detour on r3, or along r4. Roads r1 and r2 are registered in the twin,  *)
(* the others exist on the map only; r1 also has a private track.               *)
EXTENDS WhatIf, TLC

CONSTANTS r1, r2, r3, r4, b1, h1, fz, here, there, near, t1, t2, t3, low, high, e1, e2

E(u, v, r, len, limit, type, private) ==
  [from |-> u, to |-> v, road |-> r, length |-> len, limit |-> limit, type |-> type,
   status |-> "OPEN", access |-> "ALL_VEHICLES", private |-> private]

MCEdgeData ==
  <<E(1, 2, r1, 1000, Absent, "primary", FALSE), E(1, 3, r3, 400, 300, "tertiary", FALSE),
    E(3, 2, r3, 300, 300, "tertiary", FALSE), E(2, 4, r2, 1000, 0, "bridge", FALSE),
    [E(3, 4, r4, 1700, 300, "tertiary", FALSE) EXCEPT !.access = "HIGH_CLEARANCE_ONLY"],
    E(1, 4, r1, 1500, Absent, "service", TRUE)>>

MCSpan ==
  [v \in 1..4 |-> [w \in 1..4 |->
     IF w # 4 \/ v = 4 THEN 0 ELSE <<1300, 900, 1200>>[v]]]
MCReach ==
  [p \in {here, there, near} |-> [v \in 1..4 |->
     CASE p = here -> <<10, 500, 500, 900>>[v]
       [] p = there -> <<900, 500, 500, 0>>[v]
       [] OTHER -> <<20, 20, 800, 900>>[v]]]

MCOverlayRoad == [b \in {b1} |-> r2]
MCRegistered ==
  [k \in {r1, r2, r3, r4, b1, h1, fz} |->
     CASE k \in {r1, r2} -> "OPEN"
       [] k = b1 -> [status |-> "OPEN", road |-> r2]
       [] k = h1 -> [status |-> "OPERATIONAL", cap |-> 2, avail |-> 1]
       [] OTHER -> Absent]

MCLiveEvent ==
  {<<e1, [kind |-> "capacity", key |-> h1, cap |-> 1, avail |-> 0]>>,
   <<e2, [kind |-> "bridge", key |-> b1, status |-> "SUBMERGED", propagate |-> TRUE]>>}
MCOverride == {<<r3, "RESTRICTED">>, <<r4, "BLOCKED">>}

R(p, q, vehicle, mode, restricted, private, algorithm) ==
  [from |-> p, to |-> q, vehicle |-> vehicle, mode |-> mode, restricted |-> restricted,
   unknown |-> TRUE, private |-> private, algorithm |-> algorithm, radius |-> 2500]
MCRequest ==
  {R(here, there, "AMBULANCE", "DISTANCE", TRUE, FALSE, "dijkstra"),
   R(here, there, "FIRE_RESPONSE", "TRAVEL_TIME", FALSE, TRUE, "astar"),
   R(near, near, "AMBULANCE", "DISTANCE", TRUE, FALSE, "astar")}

Bridge_(propagate) == [kind |-> "bridge", key |-> b1, propagate |-> propagate]
Beds(n) == [kind |-> "capacity", key |-> h1, avail |-> n]
Teams(n) == [kind |-> "teams", quantity |-> n]
Flood(by, cells, metres) ==
  [kind |-> "flood", by |-> by, cells |-> cells, metres |-> metres, close |-> TRUE,
   threshold |-> 3]
Sc(base, mods) == [base |-> base, mods |-> mods]
MCScenario ==
  {Sc(0, <<Beds(2), Bridge_(TRUE), Beds(0)>>), Sc(0, <<Beds(3)>>),
   Sc(0, <<Flood("level", {}, Absent), Teams(0)>>),
   Sc(0, <<Flood("increment", {}, 1), Flood("polygon", {low}, 0), Bridge_(TRUE)>>),
   Sc(1, <<Flood("level", {}, 0), Bridge_(FALSE), Teams(1), Teams(1), Teams(0)>>)}

MCElevation == [c \in {low, high} |-> IF c = low THEN 790 ELSE 840]
MCRoadCells == [r \in {r1, r2, r3, r4} |->
  CASE r = r1 -> {low, high} [] r = r2 -> {high} [] OTHER -> {low}]

ASSUME StraightWaysAreShort == \A req \in Request : Consistent(req, Nearest(req.to))

Symmetry == Permutations(Available)
================================================================================
