-------------------------------- MODULE Routing --------------------------------
(***************************************************************************)
(* Emergency routing (geospatial/routing): the road graph seen through the *)
(* operational overlay, the policy that says which edges a vehicle may     *)
(* use, Dijkstra and A* with a heap that keeps outdated entries, and the   *)
(* check and repair of a route by DynamicRerouter.                         *)
(*                                                                         *)
(* An overlay is a function from roads to the status that overrides the    *)
(* road's own, Absent where there is none (what an override may say of     *)
(* accessibility and speed is left out). A search is a record, and one     *)
(* round of the router's loop a function on such records, so that a search *)
(* can run in steps while the overlay changes, or at one go on a fork.     *)
(*                                                                         *)
(* Lengths are in metres, times in hundredths of a second, speeds in tenths*)
(* of km/h. Nodes and edges are numbered in the order of their ids.        *)
(***************************************************************************)
EXTENDS Integers, Sequences, FiniteSets

CONSTANTS
  Road,        \* road ids
  Node, Edge,  \* of the graph
  EdgeData,    \* attributes of the edges: see InputsTyped
  Place,       \* coordinates that requests name
  Reach,       \* geodesic distance from a place to a node
  Span,        \* geodesic distance from a node to another
  Absent       \* no entry, None

RoadStatus == {"OPEN", "RESTRICTED", "BLOCKED", "UNKNOWN"}
Access == {"ALL_VEHICLES", "EMERGENCY_ONLY", "HIGH_CLEARANCE_ONLY", "IMPASSABLE"}
Vehicle == {"GENERAL_EMERGENCY", "AMBULANCE", "FIRE_RESPONSE", "RESCUE_VEHICLE"}
Overlay == [Road -> RoadStatus \cup {Absent}]

RouteRequest ==
  [from : Place, to : Place, vehicle : Vehicle, mode : {"DISTANCE", "TRAVEL_TIME"},
   restricted : BOOLEAN, unknown : BOOLEAN, private : BOOLEAN,
   algorithm : {"dijkstra", "astar"}, radius : Nat]

ASSUME GraphTyped ==
  /\ Node \subseteq Nat /\ Edge \subseteq Nat /\ IsFiniteSet(Node)
  /\ EdgeData \in [Edge ->
       [from : Node, to : Node, road : Road, length : Nat, limit : Nat \cup {Absent},
        type : STRING, status : RoadStatus, access : Access, private : BOOLEAN]]
  /\ Reach \in [Place -> [Node -> Nat]]
  /\ Span \in [Node -> [Node -> Nat]]
  /\ Absent \notin Nat
\* build_road_graph: a road is one way, and its edges have that way's attributes.
ASSUME SameWay ==
  \A d, e \in Edge : EdgeData[d].road = EdgeData[e].road =>
    EdgeData[d].status = EdgeData[e].status /\ EdgeData[d].access = EdgeData[e].access

--------------------------------------------------------------------------------
(* The graph under the overlay *)

\* get_effective_edge_data: the operational status precedes the map's.
EffectiveStatus(e, over) ==
  IF over[EdgeData[e].road] # Absent THEN over[EdgeData[e].road] ELSE EdgeData[e].status

\* A request's own policy, and the one an EmergencyRouter keeps for itself.
PolicyOf(req) ==
  [restricted |-> req.restricted, unknown |-> req.unknown, private |-> req.private]
DefaultPolicy == [restricted |-> TRUE, unknown |-> TRUE, private |-> FALSE]

\* evaluate_edge_traversability. "private" says that the map's access tag is no or
\* private and its emergency tag makes no exception.
Traversable(e, over, policy, vehicle) ==
  /\ EffectiveStatus(e, over) # "BLOCKED"
  /\ EffectiveStatus(e, over) = "RESTRICTED" => policy.restricted
  /\ EffectiveStatus(e, over) = "UNKNOWN" => policy.unknown
  /\ EdgeData[e].access # "IMPASSABLE"
  /\ EdgeData[e].access = "HIGH_CLEARANCE_ONLY" => vehicle # "AMBULANCE"
  /\ EdgeData[e].private => policy.private

\* get_edge_speed_kmh
DefaultSpeed(type) ==
  CASE type = "motorway"                              -> 800
    [] type = "trunk"                                 -> 600
    [] type = "primary"                               -> 500
    [] type \in {"secondary", "bridge"}               -> 400
    [] type = "residential"                           -> 250
    [] type \in {"service", "living_street"}          -> 150
    [] OTHER                                          -> 300
Speed(e) ==
  IF EdgeData[e].limit \notin {Absent, 0} THEN EdgeData[e].limit ELSE DefaultSpeed(EdgeData[e].type)

\* calculate_edge_duration_seconds: at least half a metre per second, rounded.
Duration(e) ==
  LET v == IF Speed(e) < 18 THEN 18 ELSE Speed(e)
  IN  (7200 * EdgeData[e].length + v) \div (2 * v)

\* calculate_edge_cost; the penalty for restricted roads is never configured.
Cost(e, mode) == IF mode = "TRAVEL_TIME" THEN Duration(e) ELSE EdgeData[e].length

\* The heuristic of A*: straight to the goal, for times at 120 km/h.
Heuristic(v, goal, req) ==
  IF req.algorithm = "dijkstra" THEN 0
  ELSE IF req.mode = "TRAVEL_TIME" THEN 3 * Span[v][goal] ELSE Span[v][goal]

\* "admissible, monotonic": no edge brings a search further than it costs.
Consistent(req, goal) ==
  \A e \in Edge : Heuristic(EdgeData[e].from, goal, req) <=
                   Cost(e, req.mode) + Heuristic(EdgeData[e].to, goal, req)

--------------------------------------------------------------------------------
(* Requests *)

\* find_nearest_node: of equally near ones, the first by id.
Nearest(p) ==
  CHOOSE v \in Node :
    \A w \in Node : Reach[p][v] < Reach[p][w] \/ (Reach[p][v] = Reach[p][w] /\ v <= w)
Snaps(req) ==
  /\ Node # {}
  /\ \A p \in {req.from, req.to} : Reach[p][Nearest(p)] <= req.radius

Search(status, req, g, parent, visited, heap) ==
  [status |-> status, req |-> req, g |-> g, parent |-> parent, visited |-> visited,
   heap |-> heap]

\* A heap's entry: estimate of the whole, cost so far, node.
Entry(f, g, v) == [f |-> f, g |-> g, at |-> v]

Nowhere == [v \in Node |-> Absent]

\* EmergencyRouter.route up to its loop: out of reach, there already, or on the way.
Begin(req) ==
  IF ~Snaps(req) THEN Search("none", req, Nowhere, Nowhere, {}, {})
  ELSE LET source == Nearest(req.from)
           goal   == Nearest(req.to)
       IN  Search(IF source = goal THEN "found" ELSE "searching", req,
                  [Nowhere EXCEPT ![source] = 0], Nowhere, {},
                  {Entry(Heuristic(source, goal, req), 0, source)})

--------------------------------------------------------------------------------
(* One round of _solve_dijkstra and _solve_astar *)

Precedes(x, y) ==
  \/ x.f < y.f
  \/ x.f = y.f /\ x.g < y.g
  \/ x.f = y.f /\ x.g = y.g /\ x.at <= y.at
Top(heap) == CHOOSE x \in heap : \A y \in heap : Precedes(x, y)

\* Slip: the router's own policy is asked for the request's edges.
UsableByDefault(u, v, over, req) ==
  {e \in Edge : /\ EdgeData[e].from = u /\ EdgeData[e].to = v
                /\ Traversable(e, over, DefaultPolicy, req.vehicle)}

\* The edges from u to v that the request may use, and the one it would.
Usable(u, v, over, req) ==
  {e \in Edge : /\ EdgeData[e].from = u /\ EdgeData[e].to = v
                /\ Traversable(e, over, PolicyOf(req), req.vehicle)}
BestEdge(u, v, over, req) ==
  CHOOSE e \in Usable(u, v, over, req) : \A d \in Usable(u, v, over, req) :
    \/ Cost(e, req.mode) < Cost(d, req.mode)
    \/ Cost(e, req.mode) = Cost(d, req.mode) /\ e <= d

\* Slip: a node keeps the first way that reaches it.
CloserIfNew(s, x, v, over) == Usable(x.at, v, over, s.req) # {} /\ s.g[v] = Absent

\* v is reached through the entry x at less than before.
Closer(s, x, v, over) ==
  /\ Usable(x.at, v, over, s.req) # {}
  /\ \/ s.g[v] = Absent
     \/ x.g + Cost(BestEdge(x.at, v, over, s.req), s.req.mode) < s.g[v]

Relax(s, x, over) ==
  LET nearer == {v \in Node : Closer(s, x, v, over)}
      best   == [v \in nearer |-> BestEdge(x.at, v, over, s.req)]
      g      == [v \in nearer |-> x.g + Cost(best[v], s.req.mode)]
      pushed == {Entry(g[v] + Heuristic(v, Nearest(s.req.to), s.req), g[v], v) : v \in nearer}
  IN  Search("searching", s.req,
             [v \in Node |-> IF v \in nearer THEN g[v] ELSE s.g[v]],
             [v \in Node |-> IF v \in nearer THEN best[v] ELSE s.parent[v]],
             s.visited \cup {x.at}, (s.heap \ {x}) \cup pushed)

\* The top of the heap is skipped, is the goal, or is left for its neighbours.
Expand(s, over) ==
  IF s.heap = {} THEN [s EXCEPT !.status = "none"]
  ELSE LET x == Top(s.heap)
       IN  IF x.at \in s.visited THEN [s EXCEPT !.heap = @ \ {x}]
           ELSE IF x.at = Nearest(s.req.to) THEN [s EXCEPT !.status = "found"]
           ELSE Relax(s, x, over)

\* The whole search, over an overlay that nobody else changes.
Rounds == 2 * (Cardinality(Edge) + 1)
Searched(req, over) ==
  LET s[n \in 0..Rounds] ==
        IF n = 0 THEN Begin(req)
        ELSE LET t == s[n - 1] IN IF t.status = "searching" THEN Expand(t, over) ELSE t
  IN  s[Rounds]

\* The edges found, from the goal back to the source.
Path(s) ==
  LET back[n \in 0..Cardinality(Node)] ==
        IF n = 0 THEN <<>>
        ELSE LET p == back[n - 1]
                 at == IF p = <<>> THEN Nearest(s.req.to) ELSE EdgeData[Head(p)].from
             IN  IF at = Nearest(s.req.from) THEN p ELSE <<s.parent[at]>> \o p
  IN  back[Cardinality(Node)]

\* reconstruct_route: the path and the request a route was found for.
RouteOf(s) == [path |-> Path(s), req |-> s.req]

EdgesOf(route) == {route.path[i] : i \in DOMAIN route.path}

Length(route) ==
  LET sum[n \in 0..Len(route.path)] ==
        IF n = 0 THEN 0 ELSE sum[n - 1] + EdgeData[route.path[n]].length
  IN  sum[Len(route.path)]

--------------------------------------------------------------------------------
(* DynamicRerouter *)

\* is_route_valid asks the router's policy, not the request's.
AffectedEdges(route, over) ==
  {e \in EdgesOf(route) : ~Traversable(e, over, DefaultPolicy, route.req.vehicle)}
AffectedRoads(route, over) == {EdgeData[e].road : e \in AffectedEdges(route, over)}
IsValid(route, over) == AffectedEdges(route, over) = {}

\* compare_routes
Compare(old, new) ==
  [changed |-> old.path # new.path, delta |-> Length(new) - Length(old),
   removed |-> EdgesOf(old) \ EdgesOf(new), added |-> EdgesOf(new) \ EdgesOf(old)]

================================================================================
