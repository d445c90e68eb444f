-------------------------------- MODULE WhatIf ---------------------------------
(***************************************************************************)
(* WhatIfScenarioEngine (services/simulation) and the emergency routes it  *)
(* looks at: a client plans a route over the live overlay and has it       *)
(* checked again as roads change, a planner previews a scenario on a fork  *)
(* of the Digital Twin, and the twin goes on changing under both.          *)
(*                                                                         *)
(* Nothing is locked. A search reads the live overlay round by round; a    *)
(* preview compares the live version, forks, and then reads its baseline   *)
(* from the live twin. After that it works on the fork alone, so that its  *)
(* own search is one step.                                                 *)
(***************************************************************************)
EXTENDS Routing

CONSTANTS
  Bridge, Facility, FloodZone,  \* other ids of the twin; FloodZone is the scenario's
  Status, MaxCapacity,          \* as in DigitalTwin
  Team, Available,              \* rescue teams, and the live twin's that are AVAILABLE
  Registered,                   \* the entities the twin starts with
  OverlayRoad,                  \* the overlay's bridge index
  LiveEvent,                    \* pairs <<id, payload>> the live twin receives
  Override,                     \* pairs <<road, status>> set in the overlay directly
  Request,                      \* routes asked for
  Scenario,                     \* previews asked for: base version and modifications
  Cell, Elevation,              \* the elevation grid
  RoadCells,                    \* cells a registered road crosses; none without geometry
  MaxChanges                    \* bound: changes of the live twin and its overlay

Severity == {"LOW", "MODERATE", "SEVERE", "EXTREME"}

\* The ids the executor gives its events: one for each target.
Scenario_(k) == <<"SCEN-EVT", k>>
AnyId == {x[1] : x \in LiveEvent}
           \cup {Scenario_(k) : k \in Bridge \cup Facility \cup Road \cup {FloodZone}}

VARIABLES
  twin,       \* the live DigitalTwinStateManager
  client,     \* the route client: search, route or verdict
  preview,    \* execute_preview's locals
  changes,    \* bound: how often the live side has changed
  touched     \* history: roads overridden since the client's search began

vars == <<twin, client, preview, changes, touched>>

DT == INSTANCE DigitalTwin
        WITH Area <- {FloodZone}, Incident <- {}, Datum <- Severity, EventId <- AnyId,
             Payload <- {}, Registration <- {}, snapshot <- twin, registered <- {}

Modification ==
  [kind : {"bridge"}, key : Bridge, propagate : BOOLEAN]
    \cup [kind : {"capacity"}, key : Facility, avail : Nat]
    \cup [kind : {"teams"}, quantity : Nat]
    \cup [kind : {"flood"}, by : {"polygon", "increment", "level"}, cells : SUBSET Cell,
          metres : Nat \cup {Absent}, close : BOOLEAN, threshold : Nat]

ASSUME InputsTyped ==
  /\ Available \subseteq Team /\ IsFiniteSet(Team)
  /\ Elevation \in [Cell -> Nat] /\ RoadCells \in [Road -> SUBSET Cell]
  /\ Request \subseteq RouteRequest
  /\ \A x \in Scenario : x.base \in Nat /\ x.mods \in Seq(Modification)
  /\ OverlayRoad \in [Bridge -> Road] /\ MaxCapacity \in Nat /\ MaxChanges \in Nat
ASSUME KeysApart ==
  /\ Road \cap (Bridge \cup Facility \cup {FloodZone}) = {}
  /\ Bridge \cap (Facility \cup {FloodZone}) = {} /\ FloodZone \notin Facility
  /\ Absent \notin Road \cup Bridge /\ Absent \notin Overlay
  /\ \A k \in DT!Key : Absent \notin DT!EntityOf(k)
  /\ Absent \notin [path : Seq(Edge), req : RouteRequest]
ASSUME LiveTyped ==
  /\ \A x \in LiveEvent : x[2] \in DT!AnyPayload
  /\ Registered = [k \in DT!Key |-> Registered[k]]
  /\ \A k \in DT!Key : Registered[k] \in DT!EntityOf(k) \cup {Absent}
  /\ \A x \in Override : x[1] \in Road /\ x[2] \in RoadStatus

--------------------------------------------------------------------------------
(* Floods (geospatial/flood); heights and depths in tenths of a metre *)

\* _create_phase10_flood_scenario: what is not given, or is zero, is one metre of
\* depth or a level of 85; an increment is above 80.
WaterLevel(m) ==
  IF m.by = "increment" THEN 800 + m.metres
  ELSE IF m.metres \in {Absent, 0} THEN 850 ELSE m.metres

Extent(m) ==
  IF m.by = "polygon" THEN m.cells ELSE {c \in Cell : Elevation[c] < WaterLevel(m)}

\* maximum_depth_m
Depth(m) ==
  IF m.by = "polygon" THEN (IF m.metres \in {Absent, 0} THEN 10 ELSE m.metres)
  ELSE IF Extent(m) = {} THEN 0
  ELSE CHOOSE d \in {WaterLevel(m) - Elevation[c] : c \in Extent(m)} :
         \A c \in Extent(m) : d >= WaterLevel(m) - Elevation[c]

\* classify_flood_depth
SeverityOf(d) ==
  IF d <= 3 THEN "LOW" ELSE IF d <= 10 THEN "MODERATE" ELSE IF d <= 20 THEN "SEVERE" ELSE "EXTREME"

\* evaluate_road_exposure: the whole extent's greatest depth decides for each road.
ClosureRecommended(m, r) ==
  Extent(m) \cap RoadCells[r] # {} /\ m.close /\ Depth(m) >= m.threshold

--------------------------------------------------------------------------------

Idle == [pc |-> "idle"]

Init ==
  /\ \E o \in DT!Resynced(DT!Manager(0, Registered, {}, <<>>, Absent), DT!EmptyOverlay) :
       twin = DT!Manager(0, Registered, {}, <<>>, o)
  /\ client = Idle
  /\ preview = Idle
  /\ changes = 0
  /\ touched = {}

--------------------------------------------------------------------------------
(* The live twin and its overlay *)

Changed(over) == {r \in Road : over[r] # twin.overlay[r]}

\* The live side takes a new overlay.
Overridden(over) ==
  /\ changes < MaxChanges
  /\ changes' = changes + 1
  /\ touched' = touched \cup Changed(over)
  /\ UNCHANGED <<client, preview>>

LiveUpdate(id, p) ==
  /\ twin' = DT!ApplyEvent(twin, id, p)
  /\ Overridden(twin'.overlay)

SetRoadOverride(r, s) ==
  /\ twin' = [twin EXCEPT !.overlay[r] = s]
  /\ Overridden(twin'.overlay)

ClearRoadOverride(r) ==
  /\ twin.overlay[r] # Absent
  /\ twin' = [twin EXCEPT !.overlay[r] = Absent]
  /\ Overridden(twin'.overlay)

ClearAllOverrides ==
  /\ twin.overlay # DT!EmptyOverlay
  /\ twin' = [twin EXCEPT !.overlay = DT!EmptyOverlay]
  /\ Overridden(twin'.overlay)

--------------------------------------------------------------------------------
(* The route client: EmergencyRouter.route, then evaluate_and_reroute *)

AskRoute(req) ==
  /\ client.pc = "idle"
  /\ client' = [pc |-> "search", search |-> Begin(req), old |-> Absent, affected |-> {}]
  /\ touched' = {}
  /\ UNCHANGED <<twin, preview, changes>>

SearchRound ==
  /\ client.pc = "search" /\ client.search.status = "searching"
  /\ client' = [client EXCEPT !.search = Expand(@, twin.overlay)]
  /\ UNCHANGED <<twin, preview, changes, touched>>

\* No route: the request fails, a reroute reports it.
SearchDone ==
  /\ client.pc = "search" /\ client.search.status # "searching"
  /\ client' = [pc |-> "planned", old |-> client.old, affected |-> client.affected,
                search |-> client.search,
                route |-> IF client.search.status = "found" THEN RouteOf(client.search) ELSE Absent]
  /\ UNCHANGED <<twin, preview, changes, touched>>

\* Slip: the reroute goes on from the search that found the old route.
RerouteFromOldSearch ==
  /\ client.pc = "planned" /\ client.old = Absent /\ client.route # Absent
  /\ ~IsValid(client.route, twin.overlay)
  /\ client' = [pc |-> "search", search |-> client.search, old |-> client.route,
                affected |-> AffectedRoads(client.route, twin.overlay)]
  /\ touched' = {}
  /\ UNCHANGED <<twin, preview, changes>>

\* An invalid route is searched again for its own request; a valid one is kept.
EvaluateAndReroute ==
  /\ client.pc = "planned" /\ client.old = Absent /\ client.route # Absent
  /\ ~IsValid(client.route, twin.overlay)
  /\ client' = [pc |-> "search", search |-> Begin(client.route.req), old |-> client.route,
                affected |-> AffectedRoads(client.route, twin.overlay)]
  /\ touched' = {}
  /\ UNCHANGED <<twin, preview, changes>>

--------------------------------------------------------------------------------
(* execute_preview *)

\* validate_scenario_against_state
Valid(sc) ==
  /\ sc.base = twin.version
  /\ \A i \in DOMAIN sc.mods :
       LET m == sc.mods[i]
       IN  /\ m.kind = "bridge" => twin.ent[m.key] # Absent
           /\ m.kind = "capacity" => twin.ent[m.key] # Absent /\ m.avail <= twin.ent[m.key].cap
           /\ m.kind = "flood" => m.by = "polygon" \/ m.metres # Absent

\* The test route is the one the client holds.
Validate(sc) ==
  /\ preview.pc = "idle"
  /\ preview' = IF Valid(sc)
                THEN [pc |-> "fork", scenario |-> sc,
                      route |-> IF client.pc = "planned" THEN client.route ELSE Absent]
                ELSE [pc |-> "failed"]
  /\ UNCHANGED <<twin, client, changes, touched>>

Fork ==
  /\ preview.pc = "fork"
  /\ \E f \in DT!Forks(twin) :
       preview' = [pc |-> "baseline", scenario |-> preview.scenario, route |-> preview.route,
                   start |-> f.ent, fork |-> f, teams |-> Available]
  /\ UNCHANGED <<twin, client, changes, touched>>

\* The baseline is the live twin's, by now.
ReadBaseline ==
  /\ preview.pc = "baseline"
  /\ preview' = [pc |-> "modify", todo |-> preview.scenario.mods, base |-> twin.ent,
                 route |-> preview.route, start |-> preview.start, fork |-> preview.fork,
                 teams |-> preview.teams,
                 named |-> {}, shortages |-> {}, closing |-> {}]
  /\ UNCHANGED <<twin, client, changes, touched>>

Modifying(kind) ==
  /\ preview.pc = "modify" /\ preview.closing = {}
  /\ preview.todo # <<>> /\ Head(preview.todo).kind = kind

Event(k, p) == DT!ApplyEvent(preview.fork, Scenario_(k), p)
Applied(k, p) == DT!Applies(preview.fork, Scenario_(k), p)

\* Slip: the road that a bridge takes with it goes unnamed.
FailBridgeUnnamed ==
  /\ Modifying("bridge")
  /\ LET m == Head(preview.todo)
         p == [kind |-> "bridge", key |-> m.key, status |-> "BLOCKED", propagate |-> m.propagate]
     IN  preview' = [preview EXCEPT !.todo = Tail(@), !.fork = Event(m.key, p),
                                    !.named = IF Applied(m.key, p) THEN @ \cup {m.key} ELSE @]
  /\ UNCHANGED <<twin, client, changes, touched>>

\* The bridge's road is named even where the failure does not propagate to it.
FailBridge ==
  /\ Modifying("bridge")
  /\ LET m == Head(preview.todo)
         p == [kind |-> "bridge", key |-> m.key, status |-> "BLOCKED", propagate |-> m.propagate]
         r == Event(m.key, p).ent[m.key].road
     IN  preview' = [preview EXCEPT !.todo = Tail(@), !.fork = Event(m.key, p),
                                    !.named = IF Applied(m.key, p)
                                              THEN @ \cup ({m.key, r} \ {Absent}) ELSE @]
  /\ UNCHANGED <<twin, client, changes, touched>>

\* Slip: the event takes any number of beds.
RefusedByFork(k, p) == Scenario_(k) \notin preview.fork.seen /\ DT!Rejected(preview.fork, p)

\* The event itself refuses more beds than there are, and the fork's facility a
\* capacity below what it has free.
Refused(k, p) ==
  \/ p.avail > p.cap
  \/ Scenario_(k) \notin preview.fork.seen /\ DT!Rejected(preview.fork, p)

\* The capacity is the baseline's, which may be younger than the validated one; a
\* refusal ends the preview.
ChangeCapacity ==
  /\ Modifying("capacity")
  /\ LET m == Head(preview.todo)
         p == [kind |-> "capacity", key |-> m.key, cap |-> preview.base[m.key].cap,
               avail |-> m.avail]
     IN  preview' =
           IF Refused(m.key, p) THEN [pc |-> "failed"]
           ELSE [preview EXCEPT !.todo = Tail(@), !.fork = Event(m.key, p),
                                !.named = IF Applied(m.key, p) THEN @ \cup {m.key} ELSE @]
  /\ UNCHANGED <<twin, client, changes, touched>>

Least(a, b) == IF a <= b THEN a ELSE b

\* Slip: teams that are off duty already count as disabled.
ToDisableLookedAt(m) ==
  LET n == Cardinality(Available) - m.quantity
      k == n - Cardinality(Team \ preview.teams)
  IN  IF k > 0 THEN Least(k, Cardinality(preview.teams)) ELSE 0

\* So many teams as the baseline has too many go off duty, each time.
ToDisable(m) ==
  IF Cardinality(Available) > m.quantity
  THEN Least(Cardinality(Available) - m.quantity, Cardinality(preview.teams)) ELSE 0

ShortenTeams ==
  /\ Modifying("teams")
  /\ LET m == Head(preview.todo)
     IN  \E off \in SUBSET preview.teams :
           /\ Cardinality(off) = ToDisable(m)
           /\ preview' = [preview EXCEPT !.todo = Tail(@), !.teams = @ \ off,
                            !.shortages = @ \cup {[quantity |-> m.quantity, off |-> off]}]
  /\ UNCHANGED <<twin, client, changes, touched>>

\* The flood is named even if its event repeats an id and is dropped.
RaiseFlood ==
  /\ Modifying("flood")
  /\ LET m == Head(preview.todo)
         p == [kind |-> "area", key |-> FloodZone, datum |-> SeverityOf(Depth(m))]
     IN  preview' = [preview EXCEPT !.todo = Tail(@), !.fork = Event(FloodZone, p),
                       !.named = @ \cup {FloodZone},
                       !.closing = {r \in Road : /\ preview.fork.ent[r] # Absent
                                                 /\ ClosureRecommended(m, r)}]
  /\ UNCHANGED <<twin, client, changes, touched>>

CloseRoad(r) ==
  /\ preview.pc = "modify" /\ r \in preview.closing
  /\ LET p == [kind |-> "road", key |-> r, status |-> "BLOCKED"]
     IN  preview' = [preview EXCEPT !.closing = @ \ {r}, !.fork = Event(r, p),
                                    !.named = IF Applied(r, p) THEN @ \cup {r} ELSE @]
  /\ UNCHANGED <<twin, client, changes, touched>>

\* Roads that are s now and were not in the baseline.
Newly(s) ==
  {r \in Road : preview.fork.ent[r] = s /\ (preview.base[r] = Absent \/ preview.base[r] # s)}

\* A test route that no longer holds is searched for again on the fork. When there
\* is none, formatting the missing distance ends the preview.
Conclude ==
  LET over == preview.fork.overlay
      old  == preview.route
      cut  == old # Absent /\ ~IsValid(old, over)
      s    == Searched(old.req, over)
  IN  /\ preview.pc = "modify" /\ preview.todo = <<>> /\ preview.closing = {}
      /\ preview' =
           IF cut /\ s.status # "found" THEN [pc |-> "failed"]
           ELSE [pc |-> "done", start |-> preview.start, fork |-> preview.fork,
                 base |-> preview.base, teams |-> preview.teams,
                 shortages |-> preview.shortages, named |-> preview.named,
                 blocked |-> Newly("BLOCKED"),
                 restricted |-> Newly("RESTRICTED"), route |-> old,
                 comparison |-> IF cut THEN Compare(old, RouteOf(s)) ELSE Absent]
      /\ UNCHANGED <<twin, client, changes, touched>>

--------------------------------------------------------------------------------

Next ==
  \/ \E x \in LiveEvent : LiveUpdate(x[1], x[2])
  \/ \E x \in Override : SetRoadOverride(x[1], x[2])
  \/ \E r \in Road : ClearRoadOverride(r)
  \/ ClearAllOverrides
  \/ \E req \in Request : AskRoute(req)
  \/ SearchRound \/ SearchDone \/ EvaluateAndReroute
  \/ \E sc \in Scenario : Validate(sc)
  \/ Fork \/ ReadBaseline
  \/ FailBridge \/ ChangeCapacity \/ ShortenTeams \/ RaiseFlood
  \/ \E r \in Road : CloseRoad(r)
  \/ Conclude

Spec == Init /\ [][Next]_vars

--------------------------------------------------------------------------------

Key == Road \cup Bridge \cup Facility \cup {FloodZone}
IsSearch(s) ==
  /\ s = Search(s.status, s.req, s.g, s.parent, s.visited, s.heap)
  /\ s.status \in {"searching", "found", "none"} /\ s.req \in Request
  /\ s.g \in [Node -> Nat \cup {Absent}] /\ s.parent \in [Node -> Edge \cup {Absent}]
  /\ s.visited \subseteq Node /\ s.heap \subseteq [f : Nat, g : Nat, at : Node]
IsRoute(r) ==
  /\ r = [path |-> r.path, req |-> r.req]
  /\ r.path \in Seq(Edge) /\ r.req \in Request /\ Len(r.path) < Cardinality(Node)

\* Types of the twins, of the client's search and route, and of the preview.
TypeOK ==
  /\ DT!IsManager(twin)
  /\ changes \in 0..MaxChanges
  /\ touched \subseteq Road
  /\ \/ client = Idle
     \/ /\ client.pc \in {"search", "planned"}
        /\ IsSearch(client.search) /\ client.affected \subseteq Road
        /\ client.old = Absent \/ IsRoute(client.old)
        /\ client.pc = "planned" => client.route = Absent \/ IsRoute(client.route)
  /\ preview.pc \in {"idle", "fork", "baseline", "modify", "done", "failed"}
  /\ preview.pc \in {"baseline", "modify", "done"} =>
       DT!IsManager(preview.fork) /\ preview.teams \subseteq Team

\* All ways from a to b over edges that the request may use, without a node twice.
Ways(a, b, over, req) ==
  {p \in UNION {[1..n -> Edge] : n \in 1..(Cardinality(Node) - 1)} :
     /\ EdgeData[p[1]].from = a /\ EdgeData[p[Len(p)]].to = b
     /\ \A i \in 1..(Len(p) - 1) : EdgeData[p[i]].to = EdgeData[p[i + 1]].from
     /\ \A i, j \in DOMAIN p : EdgeData[p[i]].from = EdgeData[p[j]].from => i = j
     /\ \A i \in DOMAIN p : Traversable(p[i], over, PolicyOf(req), req.vehicle)}

CostOf(p, mode) ==
  LET sum[n \in 0..Len(p)] == IF n = 0 THEN 0 ELSE sum[n - 1] + Cost(p[n], mode)
  IN  sum[Len(p)]

\* "Deterministic Dijkstra and A* shortest-path solvers" (router.py): a search that
\* no override has disturbed finds a cheapest way over permitted edges, or there is
\* none, in either mode and however often the heap still holds outdated entries.
RouteShortest ==
  client.pc = "planned" /\ touched = {} /\ Snaps(client.search.req) =>
    LET req == client.search.req
        a   == Nearest(req.from)
        b   == Nearest(req.to)
        all == Ways(a, b, twin.overlay, req)
    IN  IF a = b THEN client.route.path = <<>>
        ELSE IF client.route = Absent THEN all = {}
        ELSE /\ client.route.path \in all
             /\ \A p \in all : CostOf(client.route.path, req.mode) <= CostOf(p, req.mode)

\* Whatever races with the search, the route is a chain of edges from its source to
\* its goal, and only a road overridden meanwhile may be one the request forbids.
PassableUnlessRaced ==
  client.pc = "planned" /\ client.route # Absent =>
    LET p   == client.route.path
        req == client.route.req
        at(i) == IF i = 0 THEN Nearest(req.from) ELSE EdgeData[p[i]].to
    IN  /\ \A i \in DOMAIN p :
             /\ EdgeData[p[i]].from = at(i - 1)
             /\ \/ Traversable(p[i], twin.overlay, PolicyOf(req), req.vehicle)
                \/ EdgeData[p[i]].road \in touched
        /\ at(Len(p)) = Nearest(req.to)

\* "Avoids blocked roads: ..." (rerouting.py, summary): the new route has none of the
\* roads that made the old one invalid, unless they changed during the search, or
\* are private ones that the request allows and the router's own policy does not.
RerouteAvoids ==
  client.pc = "planned" /\ client.old # Absent /\ client.route # Absent =>
    \A e \in EdgesOf(client.route) :
      EdgeData[e].road \in client.affected =>
        \/ EdgeData[e].road \in touched
        \/ client.route.req.private /\ \E d \in EdgesOf(client.old) :
             EdgeData[d].road = EdgeData[e].road /\ EdgeData[d].private

\* The result tells all that the scenario does to the fork (changed_entity_ids,
\* newly_blocked_roads), cascades and floods included; the baseline it is told
\* against may be younger than the fork.
ChangesReported ==
  preview.pc = "done" =>
    /\ \A k \in Key : preview.fork.ent[k] # preview.start[k] => k \in preview.named
    /\ \A r \in Road :
         preview.fork.ent[r] = "BLOCKED" /\ preview.start[r] # "BLOCKED" =>
           r \in preview.blocked \/ preview.base[r] # preview.start[r]

\* Of several shortages in one scenario, none leaves more teams than it reports,
\* although each counts from the baseline, and what is off duty is what they name
\* (affected_team_ids). That they leave fewer is not excluded.
TeamsWithinReport ==
  preview.pc = "done" =>
    /\ \A x \in preview.shortages :
         Cardinality(preview.teams) <= x.quantity \/ Cardinality(Available) <= x.quantity
    /\ preview.teams = Available \ UNION {x.off : x \in preview.shortages}

================================================================================
