----------------------------- MODULE RoutingProofs ------------------------------
(***************************************************************************)
(* Lemmas about Routing, for every graph and every overlay: what the       *)
(* choices of the router's loop choose, which facts about a search one     *)
(* round keeps while the overlay changes between the rounds, and that the  *)
(* way back from the goal over the parents is a simple path from the       *)
(* source.                                                                 *)
(***************************************************************************)
EXTENDS Routing, Induction, FiniteSetTheorems

--------------------------------------------------------------------------------
(* What is chosen *)

\* An edge costs a natural number, whatever is asked for.
LEMMA CostIsNat ==
  ASSUME NEW e \in Edge, NEW mode
  PROVE  Cost(e, mode) \in Nat
<1>1. EdgeData[e].length \in Nat /\ EdgeData[e].limit \in Nat \cup {Absent}
  BY GraphTyped
<1>2. DefaultSpeed(EdgeData[e].type) \in Nat
  BY DEF DefaultSpeed
<1>3. Speed(e) \in Nat
  BY <1>1, <1>2 DEF Speed
<1>4. ASSUME NEW a \in Nat, NEW b \in Nat, b > 0 PROVE a \div b \in Nat
  BY <1>4
<1>5. Duration(e) \in Nat
  <2> DEFINE v == IF Speed(e) < 18 THEN 18 ELSE Speed(e)
  <2>1. v \in Nat /\ v > 0
    BY <1>3
  <2> HIDE DEF v
  <2>2. 7200 * EdgeData[e].length + v \in Nat /\ 2 * v \in Nat /\ 2 * v > 0
    BY <1>1, <2>1
  <2>3. (7200 * EdgeData[e].length + v) \div (2 * v) \in Nat
    BY <1>4, <2>2
  <2> QED BY <2>3 DEF Duration, v
<1> QED BY <1>1, <1>5 DEF Cost

\* The heuristic is a natural number.
LEMMA HeuristicIsNat ==
  ASSUME NEW v \in Node, NEW goal \in Node, NEW req
  PROVE  Heuristic(v, goal, req) \in Nat
<1>1. Span[v][goal] \in Nat
  BY GraphTyped
<1> QED BY <1>1 DEF Heuristic

\* Where there are nodes, find_nearest_node finds one.
LEMMA NearestIsNode ==
  ASSUME NEW p \in Place, Node # {}
  PROVE  Nearest(p) \in Node
<1>1. Node \subseteq Nat /\ \A v \in Node : Reach[p][v] \in Nat
  BY GraphTyped
<1> DEFINE D == {Reach[p][v] : v \in Node}
<1>2. D \in SUBSET Nat /\ D # {}
  BY <1>1
<1>3. PICK d \in D : \A x \in D : d <= x
  <2> HIDE DEF D
  <2> QED BY <1>2, Smallest
<1> DEFINE T == {v \in Node : Reach[p][v] = d}
<1>4. T \in SUBSET Nat /\ T # {}
  BY <1>1
<1>5. PICK v \in T : \A w \in T : v <= w
  <2> HIDE DEF T
  <2> QED BY <1>4, Smallest
<1>6. \A w \in Node : Reach[p][v] < Reach[p][w] \/ (Reach[p][v] = Reach[p][w] /\ v <= w)
  <2> TAKE w \in Node
  <2>1. d <= Reach[p][w] /\ d \in Nat /\ Reach[p][w] \in Nat /\ Reach[p][v] = d
    BY <1>1, <1>2, <1>3, <1>5
  <2>2. Reach[p][w] = d => v <= w
    BY <1>5
  <2> QED BY <2>1, <2>2
<1> HIDE DEF T, D
<1>7. v \in Node
  BY <1>5 DEF T
<1> QED BY <1>6, <1>7 DEF Nearest

\* The heap has a top: its least entry.
LEMMA TopIsLeast ==
  ASSUME NEW heap \in SUBSET [f : Nat, g : Nat, at : Node], heap # {}
  PROVE  Top(heap) \in heap /\ \A y \in heap : Precedes(Top(heap), y)
<1>1. Node \subseteq Nat
  BY GraphTyped
<1> DEFINE F == {x.f : x \in heap}
<1>2. PICK f \in F : \A k \in F : f <= k
  <2>1. F \in SUBSET Nat /\ F # {}
    OBVIOUS
  <2> HIDE DEF F
  <2> QED BY <2>1, Smallest
<1> DEFINE G == {x.g : x \in {y \in heap : y.f = f}}
<1>3. PICK g \in G : \A k \in G : g <= k
  <2>1. G \in SUBSET Nat /\ G # {}
    OBVIOUS
  <2> HIDE DEF G
  <2> QED BY <2>1, Smallest
<1> DEFINE A == {x.at : x \in {y \in heap : y.f = f /\ y.g = g}}
<1>4. PICK v \in A : \A k \in A : v <= k
  <2>1. A \in SUBSET Nat /\ A # {}
    BY <1>1
  <2> HIDE DEF A
  <2> QED BY <2>1, Smallest
<1>5. PICK x \in heap : x.f = f /\ x.g = g /\ x.at = v
  OBVIOUS
<1>6. \A y \in heap : Precedes(x, y)
  <2> TAKE y \in heap
  <2>1. y.f \in Nat /\ y.g \in Nat /\ y.at \in Nat /\ f \in Nat /\ g \in Nat /\ v \in Nat
    BY <1>1
  <2>2. f <= y.f
    BY <1>2
  <2>3. y.f = f => g <= y.g
    BY <1>3
  <2>4. y.f = f /\ y.g = g => v <= y.at
    BY <1>4
  <2> QED BY <1>5, <2>1, <2>2, <2>3, <2>4 DEF Precedes
<1> HIDE DEF F, G, A
<1> QED BY <1>5, <1>6 DEF Top

\* Where some edge is usable, the best one is, and none is cheaper.
LEMMA BestIsCheapest ==
  ASSUME NEW u, NEW v, NEW over, NEW req, Usable(u, v, over, req) # {}
  PROVE  LET e == BestEdge(u, v, over, req)
         IN  /\ e \in Usable(u, v, over, req)
             /\ \A d \in Usable(u, v, over, req) : Cost(e, req.mode) <= Cost(d, req.mode)
<1> DEFINE U == Usable(u, v, over, req)
           C == {Cost(e, req.mode) : e \in U}
<1>1. U \subseteq Edge /\ Edge \subseteq Nat /\ U # {}
  BY GraphTyped DEF Usable
<1>2. \A e \in U : Cost(e, req.mode) \in Nat
  BY <1>1, CostIsNat
<1> HIDE DEF U
<1>3. PICK c \in C : \A k \in C : c <= k
  <2>1. C \in SUBSET Nat /\ C # {}
    BY <1>1, <1>2
  <2> HIDE DEF C
  <2> QED BY <2>1, Smallest
<1> DEFINE B == {e \in U : Cost(e, req.mode) = c}
<1>4. PICK e \in B : \A d \in B : e <= d
  <2>1. B \in SUBSET Nat /\ B # {}
    BY <1>1
  <2> HIDE DEF B
  <2> QED BY <2>1, Smallest
<1>5. e \in U /\ \A d \in U : \/ Cost(e, req.mode) < Cost(d, req.mode)
                              \/ Cost(e, req.mode) = Cost(d, req.mode) /\ e <= d
  <2>1. e \in U /\ Cost(e, req.mode) = c /\ c \in Nat
    BY <1>2, <1>3
  <2>2. ASSUME NEW d \in U
        PROVE  \/ Cost(e, req.mode) < Cost(d, req.mode)
               \/ Cost(e, req.mode) = Cost(d, req.mode) /\ e <= d
    <3>1. c <= Cost(d, req.mode) /\ Cost(d, req.mode) \in Nat
      BY <1>2, <1>3
    <3>2. Cost(d, req.mode) = c => e <= d
      BY <1>4
    <3> QED BY <2>1, <3>1, <3>2
  <2> QED BY <2>1, <2>2
<1> DEFINE b == BestEdge(u, v, over, req)
<1> HIDE DEF B, C
<1>6. b \in U /\ \A d \in U : \/ Cost(b, req.mode) < Cost(d, req.mode)
                              \/ Cost(b, req.mode) = Cost(d, req.mode) /\ b <= d
  BY <1>5 DEF BestEdge, U
<1> HIDE DEF b
<1>7. \A d \in U : Cost(b, req.mode) <= Cost(d, req.mode)
  BY <1>2, <1>6
<1> QED BY <1>6, <1>7 DEF U, b

--------------------------------------------------------------------------------
(* A search between two rounds *)

Source(s) == Nearest(s.req.from)
Goal(s) == Nearest(s.req.to)
Reached(s) == {v \in Node : s.g[v] # Absent}
Up(s, v) == EdgeData[s.parent[v]].from

SearchTyped(s) ==
  /\ s = Search(s.status, s.req, s.g, s.parent, s.visited, s.heap)
  /\ s.status \in {"searching", "found", "none"} /\ s.req \in RouteRequest
  /\ s.g \in [Node -> Nat \cup {Absent}] /\ s.parent \in [Node -> Edge \cup {Absent}]
  /\ s.visited \subseteq Node /\ s.heap \subseteq [f : Nat, g : Nat, at : Node]

\* The request allows e, as far as the overlay has not changed on the roads of T.
Allowed(e, s, over, T) ==
  /\ Traversable(e, over, PolicyOf(s.req), s.req.vehicle) \/ EdgeData[e].road \in T
  /\ EdgeData[e].private => s.req.private

\* v was reached over its parent's edge, from a visited node, at no less than its cost.
Hangs(s, v, over, T) ==
  /\ s.parent[v] \in Edge /\ EdgeData[s.parent[v]].to = v
  /\ Up(s, v) \in s.visited
  /\ s.g[Up(s, v)] + Cost(s.parent[v], s.req.mode) <= s.g[v]
  /\ Allowed(s.parent[v], s, over, T)

Tree(s, over, T) ==
  /\ Source(s) \in Node /\ Goal(s) \in Node
  /\ s.g[Source(s)] = 0 /\ s.visited \subseteq Reached(s) /\ Goal(s) \notin s.visited
  /\ \A v \in Reached(s) \ {Source(s)} : Hangs(s, v, over, T)

\* Going up from a node, one does not come back to it.
Acyclic(s) ==
  \A Z \in SUBSET (Reached(s) \ {Source(s)}) : (\A z \in Z : Up(s, z) \in Z) => Z = {}

\* The heap holds an entry for every node that is reached and not visited; others
\* are outdated.
Frontier(s) ==
  /\ \A x \in s.heap : /\ x.at \in Reached(s) /\ s.g[x.at] <= x.g
                       /\ x.f = x.g + Heuristic(x.at, Goal(s), s.req)
  /\ \A v \in Reached(s) \ s.visited :
       Entry(s.g[v] + Heuristic(v, Goal(s), s.req), s.g[v], v) \in s.heap

Open(s, over, T) == SearchTyped(s) /\ Tree(s, over, T) /\ Acyclic(s) /\ Frontier(s)

\* The costs of visited nodes are final, on an overlay that has not changed.
Final(s, over) ==
  /\ \A e \in Edge : EdgeData[e].from \in s.visited
                       /\ Traversable(e, over, PolicyOf(s.req), s.req.vehicle) =>
       EdgeData[e].to \in Reached(s)
         /\ s.g[EdgeData[e].to] <= s.g[EdgeData[e].from] + Cost(e, s.req.mode)
  /\ \A u \in s.visited : \A y \in s.heap : s.g[u] + Heuristic(u, Goal(s), s.req) <= y.f

\* A search that started, with what its status says.
SoundSearch(s, over, T) ==
  /\ Open(s, over, T)
  /\ T = {} /\ Consistent(s.req, Goal(s)) => Final(s, over)
  /\ s.status = "none" => s.heap = {}
  /\ s.status = "found" =>
       /\ Goal(s) \in Reached(s)
       /\ \A y \in s.heap : s.g[Goal(s)] + Heuristic(Goal(s), Goal(s), s.req) <= y.f
  /\ s.status # "found" => Source(s) # Goal(s)

--------------------------------------------------------------------------------
(* The rounds *)

\* The facts of the graph's types that the rounds use.
LEMMA EdgeFacts ==
  ASSUME NEW e \in Edge
  PROVE  EdgeData[e].from \in Node /\ EdgeData[e].to \in Node /\ EdgeData[e].road \in Road
BY GraphTyped

\* The policy of the request never lets a private edge pass that it does not allow.
LEMMA PrivateIsStatic ==
  ASSUME NEW e \in Edge, NEW over, NEW req,
         Traversable(e, over, PolicyOf(req), req.vehicle)
  PROVE  EdgeData[e].private => req.private
BY DEF Traversable, PolicyOf

\* Overrides of other roads change nothing for an edge.
LEMMA SameRoadSameEdge ==
  ASSUME NEW e \in Edge, NEW over, NEW new, NEW policy, NEW vehicle,
         new[EdgeData[e].road] = over[EdgeData[e].road]
  PROVE  Traversable(e, new, policy, vehicle) = Traversable(e, over, policy, vehicle)
<1>1. EffectiveStatus(e, new) = EffectiveStatus(e, over)
  BY DEF EffectiveStatus
<1> QED BY <1>1 DEF Traversable

\* While others change the overlay, a search stays sound for the roads they changed.
LEMMA OverlayChange ==
  ASSUME NEW s, NEW over, NEW new, NEW T, NEW U, SoundSearch(s, over, T), T \subseteq U,
         \A r \in Road : new[r] # over[r] => r \in U
  PROVE  SoundSearch(s, new, U)
<1>1. ASSUME NEW e \in Edge, EdgeData[e].road \notin U
      PROVE  Traversable(e, new, PolicyOf(s.req), s.req.vehicle)
               = Traversable(e, over, PolicyOf(s.req), s.req.vehicle)
  BY <1>1, EdgeFacts, SameRoadSameEdge
<1>2. ASSUME NEW e \in Edge, Allowed(e, s, over, T) PROVE Allowed(e, s, new, U)
  BY <1>1, <1>2 DEF Allowed
<1>3. Tree(s, new, U)
  BY <1>2 DEF SoundSearch, Open, Tree, Hangs
<1>4. Open(s, new, U)
  BY <1>3 DEF SoundSearch, Open
<1>5. U = {} /\ Consistent(s.req, Goal(s)) => Final(s, new)
  BY <1>1 DEF SoundSearch, Final
<1> QED BY <1>4, <1>5 DEF SoundSearch

\* A request that reaches the graph starts a sound search.
LEMMA BeginSound ==
  ASSUME NEW req \in RouteRequest, NEW over, Snaps(req)
  PROVE  SoundSearch(Begin(req), over, {}) /\ Begin(req).req = req
<1> DEFINE a == Nearest(req.from)
           b == Nearest(req.to)
           s == Begin(req)
           g == [Nowhere EXCEPT ![a] = 0]
           x == Entry(Heuristic(a, b, req), 0, a)
<1>1. a \in Node /\ b \in Node /\ Absent \notin Nat
  BY NearestIsNode, GraphTyped DEF Snaps, RouteRequest
<1>2. s = Search(IF a = b THEN "found" ELSE "searching", req, g, Nowhere, {}, {x})
  BY DEF Begin
<1>3. /\ s.status = (IF a = b THEN "found" ELSE "searching") /\ s.req = req /\ s.g = g
      /\ s.parent = Nowhere /\ s.visited = {} /\ s.heap = {x}
  BY <1>2 DEF Search
<1>4. Heuristic(a, b, req) \in Nat /\ x.f = Heuristic(a, b, req) /\ x.g = 0 /\ x.at = a
  BY <1>1, HeuristicIsNat DEF Entry
<1>5. /\ g \in [Node -> Nat \cup {Absent}] /\ Nowhere \in [Node -> Edge \cup {Absent}]
      /\ g[a] = 0 /\ \A v \in Node : v # a => g[v] = Absent
  BY <1>1 DEF Nowhere
<1>6. {x} \subseteq [f : Nat, g : Nat, at : Node]
  BY <1>1, <1>4 DEF Entry
<1>7. SearchTyped(s)
  BY <1>2, <1>3, <1>5, <1>6 DEF SearchTyped
<1> HIDE DEF s, g, x
<1>8. Source(s) = a /\ Goal(s) = b /\ Reached(s) = {a}
  BY <1>1, <1>3, <1>5 DEF Source, Goal, Reached
<1>9. Tree(s, over, {})
  BY <1>1, <1>3, <1>5, <1>8 DEF Tree
<1>10. Acyclic(s)
  BY <1>8 DEF Acyclic
<1>11. Frontier(s)
  BY <1>1, <1>3, <1>4, <1>5, <1>8 DEF Frontier, x
<1>12. Final(s, over)
  BY <1>3 DEF Final
<1>13. s.status = "found" => /\ b \in Reached(s)
                             /\ \A y \in s.heap : s.g[b] + Heuristic(b, b, req) <= y.f
  BY <1>3, <1>4, <1>5, <1>8
<1> QED BY <1>3, <1>7, <1>8, <1>9, <1>10, <1>11, <1>12, <1>13 DEF SoundSearch, Open, a, b, s

\* What is reached has a cost; so have the goal's and the entries' estimates.
LEMMA SearchTypes ==
  ASSUME NEW s, NEW over, NEW T, Open(s, over, T)
  PROVE  /\ Source(s) \in Node /\ Goal(s) \in Node /\ Reached(s) \subseteq Node
         /\ Source(s) \in Reached(s) /\ s.visited \subseteq Reached(s)
         /\ \A v \in Reached(s) : s.g[v] \in Nat
         /\ \A v \in Node : v \notin Reached(s) => s.g[v] = Absent
         /\ \A v \in Node : Heuristic(v, Goal(s), s.req) \in Nat
         /\ \A y \in s.heap : y.f \in Nat /\ y.g \in Nat /\ y.at \in Node
<1>1. /\ Source(s) \in Node /\ Goal(s) \in Node /\ s.g[Source(s)] = 0
      /\ s.visited \subseteq Reached(s)
  BY DEF Open, Tree
<1>2. s.g \in [Node -> Nat \cup {Absent}] /\ s.heap \subseteq [f : Nat, g : Nat, at : Node]
  BY DEF Open, SearchTyped
<1>3. \A v \in Node : Heuristic(v, Goal(s), s.req) \in Nat
  BY <1>1, HeuristicIsNat
<1>4. Absent \notin Nat
  BY GraphTyped
<1>5. Reached(s) \subseteq Node /\ \A v \in Node : v \notin Reached(s) => s.g[v] = Absent
  BY DEF Reached
<1>6. \A v \in Reached(s) : s.g[v] \in Nat
  BY <1>2 DEF Reached
<1>7. Source(s) \in Reached(s)
  BY <1>1, <1>4 DEF Reached
<1>8. \A y \in s.heap : y.f \in Nat /\ y.g \in Nat /\ y.at \in Node
  BY <1>2
<1> QED BY <1>1, <1>3, <1>5, <1>6, <1>7, <1>8

\* Status and heap are no part of the tree.
LEMMA SameTree ==
  ASSUME NEW s, NEW t, NEW over, NEW T, Tree(s, over, T), Acyclic(s),
         t.req = s.req, t.g = s.g, t.parent = s.parent, t.visited = s.visited
  PROVE  /\ Tree(t, over, T) /\ Acyclic(t)
         /\ Source(t) = Source(s) /\ Goal(t) = Goal(s) /\ Reached(t) = Reached(s)
<1>1. Source(t) = Source(s) /\ Goal(t) = Goal(s) /\ Reached(t) = Reached(s)
  BY DEF Source, Goal, Reached
<1>2. \A v : Up(t, v) = Up(s, v)
  BY DEF Up
<1>3. ASSUME NEW v, Hangs(s, v, over, T) PROVE Hangs(t, v, over, T)
  BY <1>2, <1>3 DEF Hangs, Allowed
<1>4. Tree(t, over, T)
  BY <1>1, <1>3 DEF Tree
<1>5. Acyclic(t)
  BY <1>1, <1>2 DEF Acyclic
<1> QED BY <1>1, <1>4, <1>5

\* The top of the heap, if its node is not visited, has that node's cost, and no
\* entry has a lower estimate.
LEMMA TopIsCurrent ==
  ASSUME NEW s, NEW over, NEW T, Open(s, over, T), s.heap # {}, Top(s.heap).at \notin s.visited
  PROVE  LET x == Top(s.heap)
         IN  /\ x \in s.heap /\ x.at \in Reached(s) /\ x.g = s.g[x.at]
             /\ x.f = x.g + Heuristic(x.at, Goal(s), s.req)
             /\ \A y \in s.heap : x.f <= y.f
<1> DEFINE x == Top(s.heap)
           h == Heuristic(x.at, Goal(s), s.req)
           y == Entry(s.g[x.at] + h, s.g[x.at], x.at)
<1>1. x \in s.heap /\ \A k \in s.heap : Precedes(x, k)
  BY TopIsLeast DEF Open, SearchTyped
<1> HIDE DEF x
<1>2. /\ x.at \in Reached(s) /\ x.at \notin s.visited /\ s.g[x.at] <= x.g
      /\ x.f = x.g + h /\ y \in s.heap
  BY <1>1 DEF Open, Frontier, x
<1>3. /\ s.g[x.at] \in Nat /\ x.g \in Nat /\ h \in Nat
      /\ \A k \in s.heap : k.f \in Nat /\ k.g \in Nat
  BY <1>1, <1>2, SearchTypes
<1>4. y.f = s.g[x.at] + h /\ y.g = s.g[x.at]
  BY DEF Entry
<1> HIDE DEF h, y
<1>5. x.g = s.g[x.at]
  BY <1>1, <1>2, <1>3, <1>4 DEF Precedes
<1>6. \A k \in s.heap : x.f <= k.f
  BY <1>1, <1>3 DEF Precedes
<1> QED BY <1>1, <1>2, <1>5, <1>6 DEF x, h

\* A round that finds the heap empty ends the search.
LEMMA EmptyHeapEnds ==
  ASSUME NEW s, NEW over, NEW T, SoundSearch(s, over, T), s.status = "searching", s.heap = {}
  PROVE  SoundSearch([s EXCEPT !.status = "none"], over, T)
<1> DEFINE t == [s EXCEPT !.status = "none"]
<1>1. s = Search(s.status, s.req, s.g, s.parent, s.visited, s.heap)
  BY DEF SoundSearch, Open, SearchTyped
<1>2. /\ t = Search("none", s.req, s.g, s.parent, s.visited, s.heap)
      /\ t.status = "none" /\ t.req = s.req /\ t.g = s.g /\ t.parent = s.parent
      /\ t.visited = s.visited /\ t.heap = s.heap
  BY <1>1 DEF Search
<1> HIDE DEF t
<1>3. /\ Tree(t, over, T) /\ Acyclic(t)
      /\ Source(t) = Source(s) /\ Goal(t) = Goal(s) /\ Reached(t) = Reached(s)
  BY <1>2, SameTree DEF SoundSearch, Open
<1>4. SearchTyped(t) /\ Frontier(t)
  BY <1>2, <1>3 DEF SoundSearch, Open, SearchTyped, Frontier
<1>5. Final(s, over) => Final(t, over)
  BY <1>2, <1>3 DEF Final
<1> QED BY <1>2, <1>3, <1>4, <1>5 DEF SoundSearch, Open, t

\* A round that finds the goal on top of the heap ends the search.
LEMMA GoalOnTopEnds ==
  ASSUME NEW s, NEW over, NEW T, SoundSearch(s, over, T), s.status = "searching", s.heap # {},
         Top(s.heap).at = Goal(s)
  PROVE  SoundSearch([s EXCEPT !.status = "found"], over, T)
<1> DEFINE t == [s EXCEPT !.status = "found"]
<1>1. s = Search(s.status, s.req, s.g, s.parent, s.visited, s.heap)
  BY DEF SoundSearch, Open, SearchTyped
<1>2. /\ t = Search("found", s.req, s.g, s.parent, s.visited, s.heap)
      /\ t.status = "found" /\ t.req = s.req /\ t.g = s.g /\ t.parent = s.parent
      /\ t.visited = s.visited /\ t.heap = s.heap
  BY <1>1 DEF Search
<1> HIDE DEF t
<1>3. /\ Tree(t, over, T) /\ Acyclic(t)
      /\ Source(t) = Source(s) /\ Goal(t) = Goal(s) /\ Reached(t) = Reached(s)
  BY <1>2, SameTree DEF SoundSearch, Open
<1>4. SearchTyped(t) /\ Frontier(t)
  BY <1>2, <1>3 DEF SoundSearch, Open, SearchTyped, Frontier
<1>5. Final(s, over) => Final(t, over)
  BY <1>2, <1>3 DEF Final
<1>6. Open(s, over, T) /\ Goal(s) \notin s.visited
  BY DEF SoundSearch, Open, Tree
<1>7. /\ Goal(s) \in Reached(s)
      /\ \A y \in s.heap : s.g[Goal(s)] + Heuristic(Goal(s), Goal(s), s.req) <= y.f
  BY <1>6, TopIsCurrent
<1> QED BY <1>2, <1>3, <1>4, <1>5, <1>7 DEF SoundSearch, Open, t

\* A round that finds an outdated entry on top drops it.
LEMMA OutdatedDropped ==
  ASSUME NEW s, NEW over, NEW T, SoundSearch(s, over, T), s.status = "searching",
         NEW x \in s.heap, x.at \in s.visited
  PROVE  SoundSearch([s EXCEPT !.heap = @ \ {x}], over, T)
<1> DEFINE t == [s EXCEPT !.heap = @ \ {x}]
<1>1. s = Search(s.status, s.req, s.g, s.parent, s.visited, s.heap)
  BY DEF SoundSearch, Open, SearchTyped
<1>2. /\ t = Search(s.status, s.req, s.g, s.parent, s.visited, s.heap \ {x})
      /\ t.status = s.status /\ t.req = s.req /\ t.g = s.g /\ t.parent = s.parent
      /\ t.visited = s.visited /\ t.heap = s.heap \ {x}
  BY <1>1 DEF Search
<1> HIDE DEF t
<1>3. /\ Tree(t, over, T) /\ Acyclic(t)
      /\ Source(t) = Source(s) /\ Goal(t) = Goal(s) /\ Reached(t) = Reached(s)
  BY <1>2, SameTree DEF SoundSearch, Open
<1>4. SearchTyped(t)
  BY <1>2 DEF SoundSearch, Open, SearchTyped
<1>5. Frontier(t)
  <2>1. \A v \in Reached(s) \ s.visited :
          Entry(s.g[v] + Heuristic(v, Goal(s), s.req), s.g[v], v) # x
    BY DEF Entry
  <2> QED BY <1>2, <1>3, <2>1 DEF SoundSearch, Open, Frontier
<1>6. Final(s, over) => Final(t, over)
  BY <1>2, <1>3 DEF Final
<1> QED BY <1>2, <1>3, <1>4, <1>5, <1>6 DEF SoundSearch, Open, t

\* What a node gains when the search s leaves the entry x for x's neighbours, and is t
\* then: the nearer ones, N, hang on it at a lower cost than before, and the others
\* are near enough.
Relaxed(s, x, over, N, t) ==
  /\ SearchTyped(t) /\ t.status = "searching"
  /\ t.req = s.req /\ t.visited = s.visited \cup {x.at}
  /\ t.heap = (s.heap \ {x}) \cup
                {Entry(t.g[v] + Heuristic(v, Goal(s), s.req), t.g[v], v) : v \in N}
  /\ \A v \in Node \ N : t.g[v] = s.g[v] /\ t.parent[v] = s.parent[v]
  /\ \A v \in N : /\ t.parent[v] \in Usable(x.at, v, over, s.req)
                  /\ t.g[v] = x.g + Cost(t.parent[v], s.req.mode)
                  /\ v \in Reached(s) => t.g[v] < s.g[v]
  /\ \A v \in Node : \A e \in Usable(x.at, v, over, s.req) :
       v \in Reached(t) /\ t.g[v] <= x.g + Cost(e, s.req.mode)
  /\ x.at \notin N /\ Source(s) \notin N
  /\ Reached(t) = Reached(s) \cup N

\* Relax does that.
LEMMA RelaxFacts ==
  ASSUME NEW s, NEW over, NEW T, Open(s, over, T), NEW x \in s.heap,
         x.at \in Reached(s), x.g = s.g[x.at],
         NEW N, N = {v \in Node : Closer(s, x, v, over)},
         NEW t, t = Relax(s, x, over)
  PROVE  Relaxed(s, x, over, N, t)
<1> DEFINE best == [v \in N |-> BestEdge(x.at, v, over, s.req)]
           g == [v \in N |-> x.g + Cost(best[v], s.req.mode)]
           H(v) == Heuristic(v, Goal(s), s.req)
           pushed == {Entry(g[v] + H(v), g[v], v) : v \in N}
           G == [v \in Node |-> IF v \in N THEN g[v] ELSE s.g[v]]
           P == [v \in Node |-> IF v \in N THEN best[v] ELSE s.parent[v]]
<1>1. t = Search("searching", s.req, G, P, s.visited \cup {x.at}, (s.heap \ {x}) \cup pushed)
  BY DEF Relax, Goal
<1>2. /\ t.status = "searching" /\ t.req = s.req /\ t.g = G /\ t.parent = P
      /\ t.visited = s.visited \cup {x.at} /\ t.heap = (s.heap \ {x}) \cup pushed
  BY <1>1 DEF Search
<1>3. /\ SearchTyped(s) /\ Source(s) \in Node /\ Reached(s) \subseteq Node
      /\ Source(s) \in Reached(s) /\ s.g[Source(s)] = 0
      /\ \A v \in Reached(s) : s.g[v] \in Nat
      /\ \A v \in Node : v \notin Reached(s) => s.g[v] = Absent
      /\ \A v \in Node : H(v) \in Nat
      /\ N \subseteq Node /\ x.at \in Node /\ x.g \in Nat
      /\ Absent \notin Nat
  BY SearchTypes, GraphTyped DEF Open, Tree
<1>4. \A v \in N : \/ s.g[v] = Absent
                   \/ x.g + Cost(BestEdge(x.at, v, over, s.req), s.req.mode) < s.g[v]
  BY DEF Closer
<1>5. \A v \in N : BestEdge(x.at, v, over, s.req) \in Usable(x.at, v, over, s.req)
  BY BestIsCheapest DEF Closer
<1>6. \A v \in N : \A e \in Usable(x.at, v, over, s.req) :
        Cost(BestEdge(x.at, v, over, s.req), s.req.mode) <= Cost(e, s.req.mode)
  BY BestIsCheapest
<1>7. \A v \in Node \ N : \A e \in Usable(x.at, v, over, s.req) :
        /\ s.g[v] # Absent
        /\ ~(x.g + Cost(BestEdge(x.at, v, over, s.req), s.req.mode) < s.g[v])
        /\ Cost(BestEdge(x.at, v, over, s.req), s.req.mode) <= Cost(e, s.req.mode)
        /\ BestEdge(x.at, v, over, s.req) \in Usable(x.at, v, over, s.req)
  BY BestIsCheapest DEF Closer
<1>8. \A v : Usable(x.at, v, over, s.req) \subseteq Edge
  BY DEF Usable
<1>9. \A v : \A e \in Usable(x.at, v, over, s.req) : Cost(e, s.req.mode) \in Nat
  BY <1>8, CostIsNat
<1>10. /\ \A v \in N : best[v] = BestEdge(x.at, v, over, s.req)
       /\ \A v \in N : g[v] = x.g + Cost(BestEdge(x.at, v, over, s.req), s.req.mode)
       /\ \A v \in N : g[v] \in Nat /\ best[v] \in Edge
  BY <1>3, <1>5, <1>8, <1>9
<1> HIDE DEF best, g, H
<1>11. /\ G \in [Node -> Nat \cup {Absent}] /\ P \in [Node -> Edge \cup {Absent}]
       /\ \A v \in N : G[v] = g[v] /\ P[v] = best[v]
       /\ \A v \in Node \ N : G[v] = s.g[v] /\ P[v] = s.parent[v]
  BY <1>3, <1>10 DEF SearchTyped
<1>12. pushed \subseteq [f : Nat, g : Nat, at : Node]
  BY <1>3, <1>10 DEF Entry
<1> HIDE DEF G, P
<1>13. t.heap = (s.heap \ {x}) \cup {Entry(t.g[v] + H(v), t.g[v], v) : v \in N}
  BY <1>2, <1>11
<1> HIDE DEF pushed
<1>14. SearchTyped(t)
  <2>1. (s.heap \ {x}) \cup pushed \subseteq [f : Nat, g : Nat, at : Node]
    BY <1>3, <1>12 DEF SearchTyped
  <2>2. s.visited \cup {x.at} \subseteq Node /\ s.req \in RouteRequest
    BY <1>3 DEF SearchTyped
  <2> QED BY <1>1, <1>2, <1>11, <2>1, <2>2 DEF SearchTyped
<1>15. \A v \in Node \ N : t.g[v] = s.g[v] /\ t.parent[v] = s.parent[v]
  BY <1>2, <1>11
<1>16. \A v \in N : /\ t.parent[v] \in Usable(x.at, v, over, s.req)
                    /\ t.g[v] = x.g + Cost(t.parent[v], s.req.mode)
                    /\ t.g[v] \in Nat
                    /\ v \in Reached(s) => t.g[v] < s.g[v]
  <2> TAKE v \in N
  <2>1. v \in Node /\ (v \in Reached(s) => s.g[v] # Absent)
    BY <1>3 DEF Reached
  <2> QED BY <1>2, <1>4, <1>5, <1>10, <1>11, <2>1
<1>17. Reached(t) = Reached(s) \cup N
  <2>1. \A v \in N : v \in Node /\ t.g[v] # Absent
    BY <1>3, <1>16
  <2>2. \A v \in Node \ N : t.g[v] = s.g[v]
    BY <1>15
  <2> QED BY <1>3, <2>1, <2>2 DEF Reached
<1>18. \A v \in Node : \A e \in Usable(x.at, v, over, s.req) :
         v \in Reached(t) /\ t.g[v] <= x.g + Cost(e, s.req.mode)
  <2> TAKE v \in Node
  <2> TAKE e \in Usable(x.at, v, over, s.req)
  <2>1. Cost(e, s.req.mode) \in Nat
    BY <1>9
  <2>2. CASE v \in N
    <3>1. /\ t.g[v] = g[v] /\ g[v] = x.g + Cost(BestEdge(x.at, v, over, s.req), s.req.mode)
          /\ Cost(BestEdge(x.at, v, over, s.req), s.req.mode) <= Cost(e, s.req.mode)
          /\ Cost(BestEdge(x.at, v, over, s.req), s.req.mode) \in Nat
      BY <1>2, <1>5, <1>6, <1>9, <1>10, <1>11, <2>2
    <3> QED BY <1>3, <1>17, <2>1, <2>2, <3>1
  <2>3. CASE v \notin N
    <3>1. /\ v \in Reached(s) /\ t.g[v] = s.g[v] /\ s.g[v] \in Nat
          /\ ~(x.g + Cost(BestEdge(x.at, v, over, s.req), s.req.mode) < s.g[v])
          /\ Cost(BestEdge(x.at, v, over, s.req), s.req.mode) <= Cost(e, s.req.mode)
          /\ Cost(BestEdge(x.at, v, over, s.req), s.req.mode) \in Nat
      BY <1>3, <1>7, <1>9, <1>15, <2>3
    <3> QED BY <1>3, <1>17, <2>1, <3>1
  <2> QED BY <2>2, <2>3
<1>19. x.at \notin N /\ Source(s) \notin N
  <2>1. ASSUME NEW v \in N, v \in Reached(s) PROVE x.g < s.g[v]
    <3>1. /\ s.g[v] \in Nat /\ s.g[v] # Absent
          /\ Cost(BestEdge(x.at, v, over, s.req), s.req.mode) \in Nat
      BY <1>3, <1>5, <1>9, <2>1
    <3> QED BY <1>3, <1>4, <3>1
  <2> QED BY <1>3, <2>1
<1> QED BY <1>2, <1>13, <1>14, <1>15, <1>16, <1>17, <1>18, <1>19
  DEF Relaxed, H

\* Leaving a node keeps the tree, its acyclicity, and the heap's entries: a node that
\* is reached at less than before was no ancestor of the one that is left.
LEMMA RelaxOpen ==
  ASSUME NEW s, NEW over, NEW T, Open(s, over, T), NEW x \in s.heap,
         x.at \in Reached(s), x.g = s.g[x.at], x.at # Goal(s),
         NEW N, NEW t, Relaxed(s, x, over, N, t)
  PROVE  Open(t, over, T)
<1>1. /\ SearchTyped(t) /\ t.req = s.req /\ t.visited = s.visited \cup {x.at}
      /\ t.heap = (s.heap \ {x}) \cup
                    {Entry(t.g[v] + Heuristic(v, Goal(s), s.req), t.g[v], v) : v \in N}
      /\ \A v \in Node \ N : t.g[v] = s.g[v] /\ t.parent[v] = s.parent[v]
      /\ \A v \in N : /\ t.parent[v] \in Usable(x.at, v, over, s.req)
                      /\ t.g[v] = x.g + Cost(t.parent[v], s.req.mode)
                      /\ v \in Reached(s) => t.g[v] < s.g[v]
      /\ x.at \notin N /\ Source(s) \notin N
      /\ Reached(t) = Reached(s) \cup N
  BY DEF Relaxed
<1>2. /\ Source(s) \in Node /\ Goal(s) \in Node /\ Reached(s) \subseteq Node 
      /\ \A v \in Reached(s) : s.g[v] \in Nat
      /\ s.visited \subseteq Reached(s) /\ Goal(s) \notin s.visited /\ s.g[Source(s)] = 0
      /\ \A v \in Reached(s) \ {Source(s)} : Hangs(s, v, over, T)
  BY SearchTypes DEF Open, Tree
<1>3. Source(t) = Source(s) /\ Goal(t) = Goal(s)
  BY <1>1 DEF Source, Goal
<1>4. /\ \A v \in Reached(t) : t.g[v] \in Nat
      /\ \A v \in Reached(s) : t.g[v] <= s.g[v]
      /\ t.g[x.at] = x.g
  <2>1. \A v \in Reached(t) : t.g[v] \in Nat
    BY <1>1 DEF SearchTyped, Reached
  <2> QED BY <1>1, <1>2, <2>1
<1>5. ASSUME NEW v \in N
      PROVE  t.parent[v] \in Edge /\ EdgeData[t.parent[v]].to = v /\ Up(t, v) = x.at
  BY <1>1 DEF Usable, Up
<1>6. ASSUME NEW v \in Reached(s) \ {Source(s)}, v \notin N
      PROVE  /\ s.parent[v] \in Edge /\ t.parent[v] = s.parent[v] /\ t.g[v] = s.g[v]
             /\ Up(t, v) = Up(s, v) /\ Up(s, v) \in s.visited
             /\ s.g[Up(s, v)] + Cost(s.parent[v], s.req.mode) <= s.g[v]
             /\ Cost(s.parent[v], s.req.mode) \in Nat
  <2>1. Hangs(s, v, over, T) /\ v \in Node
    BY <1>2
  <2>2. t.parent[v] = s.parent[v] /\ t.g[v] = s.g[v]
    BY <1>1, <1>6, <2>1
  <2> QED BY <2>1, <2>2, CostIsNat DEF Hangs, Up
<1>7. Tree(t, over, T)
  <2>1. ASSUME NEW v \in Reached(t) \ {Source(s)} PROVE Hangs(t, v, over, T)
    <3>1. CASE v \in N
      <4>1. Traversable(t.parent[v], over, PolicyOf(s.req), s.req.vehicle)
        BY <1>1, <3>1 DEF Usable
      <4>2. Allowed(t.parent[v], t, over, T)
        BY <1>1, <1>5, <3>1, <4>1, PrivateIsStatic DEF Allowed
      <4>3. t.g[Up(t, v)] + Cost(t.parent[v], t.req.mode) <= t.g[v]
        <5>1. /\ t.g[Up(t, v)] = x.g /\ t.g[v] = x.g + Cost(t.parent[v], t.req.mode)
              /\ t.g[v] \in Nat
          BY <1>1, <1>4, <1>5, <3>1
        <5> QED BY <5>1
      <4> QED BY <1>1, <1>5, <3>1, <4>2, <4>3 DEF Hangs
    <3>2. CASE v \notin N
      <4>1. v \in Reached(s) \ {Source(s)} /\ Hangs(s, v, over, T)
        BY <1>1, <1>2, <3>2
      <4>2. Allowed(t.parent[v], t, over, T)
        BY <1>1, <1>6, <3>2, <4>1 DEF Allowed, Hangs
      <4>3. Up(s, v) \in Reached(s) /\ Up(s, v) \in Reached(t)
        BY <1>1, <1>2, <1>6, <3>2, <4>1
      <4>4. t.g[Up(t, v)] + Cost(t.parent[v], t.req.mode) <= t.g[v]
        <5>1. /\ t.g[Up(s, v)] <= s.g[Up(s, v)] /\ t.g[Up(s, v)] \in Nat /\ s.g[Up(s, v)] \in Nat
              /\ t.g[v] \in Nat
          BY <1>2, <1>4, <4>3
        <5> QED BY <1>1, <1>6, <3>2, <4>1, <5>1
      <4> QED BY <1>1, <1>6, <3>2, <4>1, <4>2, <4>4 DEF Hangs
    <3> QED BY <3>1, <3>2
  <2>2. t.g[Source(s)] = 0
    BY <1>1, <1>2
  <2>3. t.visited \subseteq Reached(t) /\ Goal(s) \notin t.visited
    BY <1>1, <1>2
  <2> QED BY <1>2, <1>3, <2>1, <2>2, <2>3 DEF Tree
<1>8. Acyclic(t)
  <2> SUFFICES ASSUME NEW Z \in SUBSET (Reached(t) \ {Source(s)}), \A z \in Z : Up(t, z) \in Z
               PROVE  Z = {}
    BY <1>3 DEF Acyclic
  <2> DEFINE Y == {z \in Z : z \notin N /\ s.g[z] <= x.g}
  <2>1. CASE Z \cap N = {}
    <3>1. Z \subseteq Reached(s) \ {Source(s)} /\ \A z \in Z : Up(s, z) \in Z
      BY <1>1, <1>6, <2>1
    <3> QED BY <3>1 DEF Open, Acyclic
  <2>2. CASE Z \cap N # {}
    <3>1. x.at \in Y
      BY <1>1, <1>2, <1>5, <2>2
    <3>2. Y \subseteq Reached(s) \ {Source(s)}
      BY <1>1
    <3>3. ASSUME NEW z \in Y PROVE Up(s, z) \in Y
      <4>1. /\ Up(s, z) \in Z /\ Up(s, z) \in Reached(s)
            /\ s.g[Up(s, z)] + Cost(s.parent[z], s.req.mode) <= s.g[z] /\ s.g[z] <= x.g
            /\ Cost(s.parent[z], s.req.mode) \in Nat
        BY <1>2, <1>6, <3>2, <3>3
      <4>2. s.g[Up(s, z)] \in Nat /\ s.g[z] \in Nat /\ x.g \in Nat
        BY <1>2, <3>2, <4>1
      <4>3. s.g[Up(s, z)] <= x.g
        BY <4>1, <4>2
      <4>4. Up(s, z) \notin N
        <5>1. SUFFICES ASSUME Up(s, z) \in N PROVE FALSE
          OBVIOUS
        <5>2. /\ t.g[Up(s, z)] = x.g + Cost(t.parent[Up(s, z)], s.req.mode)
              /\ t.g[Up(s, z)] < s.g[Up(s, z)]
              /\ Cost(t.parent[Up(s, z)], s.req.mode) \in Nat
          BY <1>1, <1>5, <4>1, <5>1, CostIsNat
        <5> QED BY <4>2, <4>3, <5>2
      <4> QED BY <4>1, <4>3, <4>4
    <3> HIDE DEF Y
    <3>4. Y = {}
      BY <3>2, <3>3 DEF Open, Acyclic
    <3> QED BY <3>1, <3>4
  <2> QED BY <2>1, <2>2
<1>9. Frontier(t)
  <2> DEFINE H(v) == Heuristic(v, Goal(s), s.req)
             new == {Entry(t.g[v] + H(v), t.g[v], v) : v \in N}
  <2>1. /\ \A y \in s.heap : /\ y.at \in Reached(s) /\ s.g[y.at] <= y.g
                             /\ y.f = y.g + H(y.at) /\ y.g \in Nat
        /\ \A v \in Reached(s) \ s.visited : Entry(s.g[v] + H(v), s.g[v], v) \in s.heap
    BY SearchTypes DEF Open, Frontier
  <2>2. \A y \in new : y.at \in N /\ y.g = t.g[y.at] /\ y.f = y.g + H(y.at)
    BY DEF Entry
  <2>3. t.heap = (s.heap \ {x}) \cup new
    BY <1>1
  <2> HIDE DEF H
  <2>4. ASSUME NEW y \in t.heap
        PROVE  y.at \in Reached(t) /\ t.g[y.at] <= y.g /\ y.f = y.g + H(y.at)
    <3>1. CASE y \in s.heap
      <4>1. y.at \in Reached(t) /\ t.g[y.at] <= s.g[y.at] /\ s.g[y.at] \in Nat /\ t.g[y.at] \in Nat
        BY <1>1, <1>2, <1>4, <2>1, <3>1
      <4> QED BY <2>1, <3>1, <4>1
    <3>2. CASE y \in new
      <4>1. y.at \in Reached(t) /\ t.g[y.at] \in Nat
        BY <1>1, <1>4, <2>2, <3>2
      <4> HIDE DEF new
      <4> QED BY <2>2, <3>2, <4>1
    <3> QED BY <2>3, <3>1, <3>2
  <2>5. ASSUME NEW v \in Reached(t) \ t.visited
        PROVE  Entry(t.g[v] + H(v), t.g[v], v) \in t.heap
    <3>1. CASE v \in N
      BY <2>3, <3>1
    <3>2. CASE v \notin N
      <4>1. v \in Reached(s) \ s.visited /\ t.g[v] = s.g[v] /\ v # x.at
        BY <1>1, <1>2, <3>2
      <4>2. Entry(t.g[v] + H(v), t.g[v], v) \in s.heap /\ Entry(t.g[v] + H(v), t.g[v], v) # x
        BY <2>1, <4>1 DEF Entry
      <4> HIDE DEF new
      <4> QED BY <2>3, <4>2
    <3> QED BY <3>1, <3>2
  <2> QED BY <1>1, <1>3, <2>4, <2>5 DEF Frontier, H
<1> QED BY <1>1, <1>7, <1>8, <1>9 DEF Open

\* A heuristic that is consistent makes the costs of visited nodes final: a later
\* round cannot reach them at less.
LEMMA RelaxFinal ==
  ASSUME NEW s, NEW over, NEW T, Open(s, over, T), Final(s, over), NEW x \in s.heap,
         x.at \in Reached(s), x.g = s.g[x.at],
         x.f = x.g + Heuristic(x.at, Goal(s), s.req), \A y \in s.heap : x.f <= y.f,
         Consistent(s.req, Goal(s)),
         NEW N, NEW t, Relaxed(s, x, over, N, t)
  PROVE  Final(t, over)
<1> DEFINE H(v) == Heuristic(v, Goal(s), s.req)
<1>1. /\ SearchTyped(t) /\ t.status = "searching"
      /\ t.req = s.req /\ t.visited = s.visited \cup {x.at}
      /\ t.heap = (s.heap \ {x}) \cup 
                    {Entry(t.g[v] + Heuristic(v, Goal(s), s.req), t.g[v], v) : v \in N}
      /\ \A v \in Node \ N : t.g[v] = s.g[v] /\ t.parent[v] = s.parent[v]
      /\ \A v \in N : /\ t.parent[v] \in Usable(x.at, v, over, s.req)
                      /\ t.g[v] = x.g + Cost(t.parent[v], s.req.mode)
                      /\ v \in Reached(s) => t.g[v] < s.g[v]
      /\ \A v \in Node : \A e \in Usable(x.at, v, over, s.req) :
           v \in Reached(t) /\ t.g[v] <= x.g + Cost(e, s.req.mode)
      /\ x.at \notin N /\ Source(s) \notin N
      /\ Reached(t) = Reached(s) \cup N
  BY DEF Relaxed
<1>2. /\ Reached(s) \subseteq Node  /\ x.at \in Node
      /\ \A v \in Reached(s) : s.g[v] \in Nat
      /\ s.visited \subseteq Reached(s)
      /\ \A v \in Node : H(v) \in Nat
      /\ \A y \in s.heap : y.f \in Nat /\ y.g \in Nat
  BY SearchTypes
<1>3. \A v \in Reached(t) : t.g[v] \in Nat
  BY <1>1 DEF SearchTyped, Reached
<1>4. Goal(t) = Goal(s)
  BY <1>1 DEF Goal
<1>5. ASSUME NEW v \in N
      PROVE  /\ t.g[v] \in Nat /\ H(v) \in Nat /\ t.g[v] + H(v) >= x.f
             /\ t.parent[v] \in Edge
  <2>1. /\ t.parent[v] \in Edge /\ EdgeData[t.parent[v]].from = x.at
        /\ EdgeData[t.parent[v]].to = v /\ v \in Node /\ v \in Reached(t)
    BY <1>1, EdgeFacts DEF Usable
  <2>2. H(x.at) <= Cost(t.parent[v], s.req.mode) + H(v)
    BY <2>1 DEF Consistent
  <2>3. /\ Cost(t.parent[v], s.req.mode) \in Nat /\ H(x.at) \in Nat /\ H(v) \in Nat
        /\ t.g[v] \in Nat /\ x.g \in Nat
    BY <1>1, <1>2, <1>3, <2>1, CostIsNat
  <2>4. t.g[v] = x.g + Cost(t.parent[v], s.req.mode) /\ x.f = x.g + H(x.at)
    BY <1>1
  <2> HIDE DEF H
  <2> QED BY <2>1, <2>2, <2>3, <2>4
<1>6. \A u \in s.visited : s.g[u] + H(u) <= x.f
  BY DEF Final
<1> HIDE DEF H
<1>7. ASSUME NEW u \in t.visited
      PROVE  u \notin N /\ u \in Reached(s) /\ t.g[u] = s.g[u] /\ t.g[u] + H(u) <= x.f
  <2>1. u \in Reached(s) /\ u \in Node
    BY <1>1, <1>2
  <2>2. s.g[u] + H(u) <= x.f
    <3>1. CASE u \in s.visited
      BY <1>6, <3>1
    <3>2. CASE u = x.at
      <4>1. x.f = s.g[u] + H(u) /\ s.g[u] \in Nat /\ H(u) \in Nat
        BY <1>2, <2>1, <3>2 DEF H
      <4> QED BY <4>1
    <3> QED BY <1>1, <3>1, <3>2
  <2>3. u \notin N
    <3> SUFFICES ASSUME u \in N PROVE FALSE
      OBVIOUS
    <3>1. t.g[u] < s.g[u] /\ t.g[u] \in Nat /\ H(u) \in Nat /\ t.g[u] + H(u) >= x.f
      BY <1>1, <1>5, <2>1
    <3>2. s.g[u] \in Nat /\ x.f \in Nat
      BY <1>2, <2>1
    <3> QED BY <2>2, <3>1, <3>2
  <2>4. t.g[u] = s.g[u]
    BY <1>1, <2>1, <2>3
  <2> QED BY <2>1, <2>2, <2>3, <2>4
<1>8. ASSUME NEW e \in Edge, EdgeData[e].from \in t.visited,
             Traversable(e, over, PolicyOf(t.req), t.req.vehicle)
      PROVE  /\ EdgeData[e].to \in Reached(t)
             /\ t.g[EdgeData[e].to] <= t.g[EdgeData[e].from] + Cost(e, t.req.mode)
  <2> DEFINE u == EdgeData[e].from
             v == EdgeData[e].to
  <2>1. u \in Node /\ v \in Node /\ Cost(e, s.req.mode) \in Nat
    BY EdgeFacts, CostIsNat
  <2>2. CASE u = x.at
    <3>1. e \in Usable(x.at, v, over, s.req)
      BY <1>1, <1>8, <2>2 DEF Usable
    <3>2. t.g[u] = x.g
      BY <1>7, <1>8, <2>2
    <3> QED BY <1>1, <2>1, <3>1, <3>2
  <2>3. CASE u # x.at
    <3>1. u \in s.visited /\ Traversable(e, over, PolicyOf(s.req), s.req.vehicle)
      BY <1>1, <1>8, <2>3
    <3>2. v \in Reached(s) /\ s.g[v] <= s.g[u] + Cost(e, s.req.mode)
      BY <3>1 DEF Final
    <3>3. t.g[u] = s.g[u] /\ u \in Reached(s)
      BY <1>7, <1>8
    <3>4. v \in Reached(t) /\ t.g[v] <= s.g[v] /\ t.g[v] \in Nat /\ s.g[v] \in Nat /\ s.g[u] \in Nat
      BY <1>1, <1>2, <1>3, <3>2, <3>3
    <3> QED BY <1>1, <2>1, <3>2, <3>3, <3>4
  <2> QED BY <2>2, <2>3
<1>9. ASSUME NEW u \in t.visited, NEW y \in t.heap PROVE t.g[u] + H(u) <= y.f
  <2>1. t.g[u] + H(u) <= x.f /\ t.g[u] \in Nat /\ H(u) \in Nat /\ x.f \in Nat
    BY <1>1, <1>2, <1>3, <1>7
  <2>2. CASE y \in s.heap
    <3>1. x.f <= y.f /\ y.f \in Nat
      BY <1>2, <2>2
    <3> QED BY <2>1, <3>1
  <2>3. CASE y \notin s.heap
    <3>1. PICK v \in N : y = Entry(t.g[v] + H(v), t.g[v], v)
      BY <1>1, <2>3 DEF H
    <3>2. y.f = t.g[v] + H(v)
      BY <3>1 DEF Entry
    <3> QED BY <1>5, <2>1, <3>2
  <2> QED BY <2>2, <2>3
<1> QED BY <1>1, <1>4, <1>8, <1>9 DEF Final, H

\* A round of the loop keeps a search sound.
LEMMA ExpandSound ==
  ASSUME NEW s, NEW over, NEW T, SoundSearch(s, over, T), s.status = "searching"
  PROVE  SoundSearch(Expand(s, over), over, T) /\ Expand(s, over).req = s.req
<1> DEFINE x == Top(s.heap)
           N == {v \in Node : Closer(s, x, v, over)}
           t == Relax(s, x, over)
<1>0. Open(s, over, T) /\ s.heap \in SUBSET [f : Nat, g : Nat, at : Node]
  BY DEF SoundSearch, Open, SearchTyped
<1>1. CASE s.heap = {}
  <2>1. Expand(s, over) = [s EXCEPT !.status = "none"]
    BY <1>1 DEF Expand
  <2>2. s = Search(s.status, s.req, s.g, s.parent, s.visited, s.heap)
    BY <1>0 DEF Open, SearchTyped
  <2>3. [s EXCEPT !.status = "none"].req = s.req
    BY <2>2 DEF Search
  <2> QED BY <1>1, <2>1, <2>3, EmptyHeapEnds
<1>2. CASE s.heap # {} /\ x.at \in s.visited
  <2>1. Expand(s, over) = [s EXCEPT !.heap = @ \ {x}] /\ x \in s.heap
    BY <1>0, <1>2, TopIsLeast DEF Expand
  <2>2. s = Search(s.status, s.req, s.g, s.parent, s.visited, s.heap)
    BY <1>0 DEF Open, SearchTyped
  <2> HIDE DEF x
  <2>3. [s EXCEPT !.heap = @ \ {x}].req = s.req
    BY <2>2 DEF Search
  <2> QED BY <1>2, <2>1, <2>3, OutdatedDropped
<1>3. CASE s.heap # {} /\ x.at \notin s.visited /\ x.at = Goal(s)
  <2>1. Expand(s, over) = [s EXCEPT !.status = "found"]
    BY <1>3 DEF Expand, Goal
  <2>2. s = Search(s.status, s.req, s.g, s.parent, s.visited, s.heap)
    BY <1>0 DEF Open, SearchTyped
  <2>3. [s EXCEPT !.status = "found"].req = s.req
    BY <2>2 DEF Search
  <2> QED BY <1>3, <2>1, <2>3, GoalOnTopEnds
<1>4. CASE s.heap # {} /\ x.at \notin s.visited /\ x.at # Goal(s)
  <2>1. Expand(s, over) = t
    BY <1>4 DEF Expand, Goal
  <2>2. /\ x \in s.heap /\ x.at \in Reached(s) /\ x.g = s.g[x.at]
        /\ x.f = x.g + Heuristic(x.at, Goal(s), s.req)
        /\ \A y \in s.heap : x.f <= y.f
    BY <1>0, <1>4, TopIsCurrent
  <2> HIDE DEF x
  <2>3. Relaxed(s, x, over, N, t)
    BY <1>0, <2>2, RelaxFacts
  <2> HIDE DEF N, t
  <2>5. t.req = s.req /\ t.status = "searching"
    BY <2>3 DEF Relaxed
  <2>6. Open(t, over, T)
    BY <1>0, <1>4, <2>2, <2>3, RelaxOpen
  <2>7. Goal(t) = Goal(s) /\ Source(t) = Source(s)
    BY <2>5 DEF Goal, Source
  <2>8. Final(s, over) /\ Consistent(s.req, Goal(s)) => Final(t, over)
    BY <1>0, <2>2, <2>3, RelaxFinal
  <2>9. SoundSearch(t, over, T)
    BY <2>5, <2>6, <2>7, <2>8 DEF SoundSearch
  <2> QED BY <2>1, <2>5, <2>9
<1> QED BY <1>1, <1>2, <1>3, <1>4

--------------------------------------------------------------------------------
(* The way back from the goal *)

\* The node that a way p, found from the goal backwards, has come to.
Head_(s, p) == IF p = <<>> THEN Goal(s) ELSE EdgeData[p[1]].from

\* p leads to the goal over edges that are their ends' parents.
Upward(s, p) ==
  /\ p \in Seq(Edge)
  /\ \A i \in 1..Len(p) : /\ EdgeData[p[i]].to \in Reached(s) \ {Source(s)}
                          /\ p[i] = s.parent[EdgeData[p[i]].to]
  /\ \A i \in 1..(Len(p) - 1) : EdgeData[p[i]].to = EdgeData[p[i + 1]].from
  /\ p # <<>> => EdgeData[p[Len(p)]].to = Goal(s)
  /\ Head_(s, p) \in Reached(s)

\* An edge in front of a way.
LEMMA InFront ==
  ASSUME NEW S, NEW e \in S, NEW p \in Seq(S)
  PROVE  /\ <<e>> \o p \in Seq(S) /\ Len(<<e>> \o p) = Len(p) + 1 /\ <<e>> \o p # <<>>
         /\ (<<e>> \o p)[1] = e /\ Len(p) \in Nat
         /\ \A i \in 1..Len(p) : (<<e>> \o p)[i + 1] = p[i]
<1>1. <<e>> \in Seq(S) /\ Len(<<e>>) = 1 /\ <<e>>[1] = e /\ Len(p) \in Nat
  OBVIOUS
<1>2. /\ <<e>> \o p \in Seq(S)
      /\ Len(<<e>> \o p) = 1 + Len(p)
      /\ \A i \in 1..(1 + Len(p)) : (<<e>> \o p)[i] = IF i <= 1 THEN <<e>>[i] ELSE p[i - 1]
  BY <1>1, ConcatProperties
<1> DEFINE q == <<e>> \o p
<1> HIDE DEF q
<1>3. q[1] = e
  BY <1>1, <1>2 DEF q
<1>4. \A i \in 1..Len(p) : q[i + 1] = p[i]
  <2> TAKE i \in 1..Len(p)
  <2>1. i + 1 \in 1..(1 + Len(p)) /\ ~(i + 1 <= 1) /\ (i + 1) - 1 = i
    BY <1>1
  <2> QED BY <1>2, <2>1 DEF q
<1>5. q # <<>>
  BY <1>1, <1>2 DEF q
<1> QED BY <1>1, <1>2, <1>3, <1>4, <1>5 DEF q

\* One edge further back.
LEMMA OneFurther ==
  ASSUME NEW s, NEW over, NEW T, Tree(s, over, T),
         NEW p, Upward(s, p), Head_(s, p) # Source(s)
  PROVE  Upward(s, <<s.parent[Head_(s, p)]>> \o p)
<1> DEFINE v == Head_(s, p)
           e == s.parent[v]
           q == <<e>> \o p
<1>1. /\ v \in Reached(s) \ {Source(s)} /\ e \in Edge /\ EdgeData[e].to = v
      /\ EdgeData[e].from \in Reached(s) /\ p \in Seq(Edge)
  BY DEF Upward, Tree, Hangs, Up
<1> HIDE DEF v, e
<1>2. /\ q \in Seq(Edge) /\ Len(q) = Len(p) + 1 /\ q # <<>> /\ q[1] = e /\ Len(p) \in Nat
      /\ \A i \in 1..Len(p) : q[i + 1] = p[i]
  BY <1>1, InFront
<1> HIDE DEF q
<1>3. \A i \in 1..Len(q) : i = 1 \/ (i - 1 \in 1..Len(p) /\ q[i] = p[i - 1])
  <2> TAKE i \in 1..Len(q)
  <2>1. i = 1 \/ i - 1 \in 1..Len(p)
    BY <1>2
  <2>2. i - 1 \in 1..Len(p) => q[(i - 1) + 1] = p[i - 1]
    BY <1>2
  <2>3. (i - 1) + 1 = i
    OBVIOUS
  <2> QED BY <2>1, <2>2, <2>3
<1>4. \A i \in 1..Len(q) : /\ EdgeData[q[i]].to \in Reached(s) \ {Source(s)}
                           /\ q[i] = s.parent[EdgeData[q[i]].to]
  BY <1>1, <1>2, <1>3 DEF Upward, e
<1>5. \A i \in 1..(Len(q) - 1) : EdgeData[q[i]].to = EdgeData[q[i + 1]].from
  <2> TAKE i \in 1..(Len(q) - 1)
  <2>1. i \in 1..Len(p) /\ q[i + 1] = p[i] /\ i \in 1..Len(q)
    BY <1>2
  <2>2. CASE i = 1
    <3>1. p # <<>> /\ v = EdgeData[p[1]].from
      BY <1>2, <2>1, EmptySeq DEF v, Head_
    <3> QED BY <1>1, <1>2, <2>1, <2>2, <3>1
  <2>3. CASE i # 1
    <3>1. i - 1 \in 1..(Len(p) - 1) /\ (i - 1) + 1 = i /\ q[i] = p[i - 1]
      BY <1>2, <1>3, <2>1, <2>3
    <3>2. EdgeData[p[i - 1]].to = EdgeData[p[(i - 1) + 1]].from
      BY <3>1 DEF Upward
    <3> QED BY <2>1, <3>1, <3>2
  <2> QED BY <2>2, <2>3
<1>6. EdgeData[q[Len(q)]].to = Goal(s)
  <2>1. CASE p = <<>>
    BY <1>1, <1>2, <2>1 DEF v, Head_
  <2>2. CASE p # <<>>
    <3>1. Len(p) \in 1..Len(p)
      BY <1>1, <2>2, EmptySeq
    <3>2. q[Len(q)] = p[Len(p)]
      BY <1>2, <3>1
    <3> QED BY <2>2, <3>2 DEF Upward
  <2> QED BY <2>1, <2>2
<1>7. Head_(s, q) = EdgeData[e].from
  BY <1>2 DEF Head_
<1> QED BY <1>1, <1>2, <1>4, <1>5, <1>6, <1>7 DEF Upward, q, e, v

\* A way back meets no node twice, and so is shorter than the graph has nodes.
LEMMA NoNodeTwice ==
  ASSUME NEW s, Acyclic(s), NEW p, Upward(s, p), Source(s) \in Node
  PROVE  /\ \A i, j \in 1..Len(p) : EdgeData[p[i]].to = EdgeData[p[j]].to => i = j
         /\ Len(p) \in Nat /\ Len(p) < Cardinality(Node) /\ Cardinality(Node) \in Nat
<1>1. p \in Seq(Edge) /\ Len(p) \in Nat /\ \A i \in 1..Len(p) : p[i] \in Edge
  BY DEF Upward
<1>2. ASSUME NEW i \in 1..Len(p), NEW j \in 1..Len(p), i < j,
             EdgeData[p[i]].to = EdgeData[p[j]].to
      PROVE  FALSE
  <2> DEFINE Z == {EdgeData[p[k]].to : k \in (i + 1)..j}
  <2>1. (i + 1)..j \subseteq 1..Len(p) /\ j \in (i + 1)..j
    BY <1>1, <1>2
  <2>2. Z \subseteq Reached(s) \ {Source(s)}
    BY <2>1 DEF Upward
  <2>3. ASSUME NEW z \in Z PROVE Up(s, z) \in Z
    <3>1. PICK k \in (i + 1)..j : z = EdgeData[p[k]].to
      BY <2>3
    <3>2. Up(s, z) = EdgeData[p[k]].from
      BY <2>1, <3>1 DEF Upward, Up
    <3>3. k - 1 \in 1..(Len(p) - 1) /\ (k - 1) + 1 = k
      BY <1>1, <2>1, <3>1
    <3>4. EdgeData[p[k - 1]].to = EdgeData[p[(k - 1) + 1]].from
      BY <3>3 DEF Upward
    <3>5. Up(s, z) = EdgeData[p[k - 1]].to
      BY <3>2, <3>3, <3>4
    <3>6. CASE k = i + 1
      <4>1. k - 1 = i
        BY <3>6
      <4> QED BY <1>2, <2>1, <3>5, <4>1
    <3>7. CASE k # i + 1
      <4>1. k - 1 \in (i + 1)..j
        BY <3>1, <3>7
      <4> QED BY <3>5, <4>1
    <3> QED BY <3>6, <3>7
  <2>4. EdgeData[p[j]].to \in Z
    BY <2>1
  <2> HIDE DEF Z
  <2>5. Z = {}
    BY <2>2, <2>3 DEF Acyclic
  <2> QED BY <2>4, <2>5
<1>3. \A i, j \in 1..Len(p) : EdgeData[p[i]].to = EdgeData[p[j]].to => i = j
  <2> TAKE i, j \in 1..Len(p)
  <2>1. i < j \/ i = j \/ j < i
    OBVIOUS
  <2> QED BY <1>2, <2>1
<1>4. /\ IsFiniteSet(Node \ {Source(s)}) /\ Cardinality(Node) \in Nat
      /\ Cardinality(Node \ {Source(s)}) = Cardinality(Node) - 1
  BY GraphTyped, FS_RemoveElement, FS_CardinalityType
<1>5. IsFiniteSet(1..Len(p)) /\ Cardinality(1..Len(p)) = Len(p)
  <2>1. 1 \in Int /\ Len(p) \in Int
    BY <1>1
  <2>2. /\ IsFiniteSet(1..Len(p))
        /\ Cardinality(1..Len(p)) = IF 1 > Len(p) THEN 0 ELSE Len(p) - 1 + 1
    BY <2>1, FS_Interval
  <2> QED BY <1>1, <2>2
<1>6. ~(Cardinality(Node \ {Source(s)}) < Cardinality(1..Len(p)))
  <2> SUFFICES ASSUME Cardinality(Node \ {Source(s)}) < Cardinality(1..Len(p)) PROVE FALSE
    OBVIOUS
  <2> DEFINE f == [i \in 1..Len(p) |-> EdgeData[p[i]].to]
  <2>1. f \in [1..Len(p) -> Node \ {Source(s)}]
    BY DEF Upward, Reached
  <2>2. \E i, j \in 1..Len(p) : i # j /\ f[i] = f[j]
    <3> HIDE DEF f
    <3> QED BY <1>4, <1>5, <2>1, FS_PigeonHole
  <2> QED BY <1>3, <2>2
<1> QED BY <1>1, <1>3, <1>4, <1>5, <1>6

\* Path(s), the way back from a goal that is reached, is a way from the source to the
\* goal: a chain of edges, each the parent of its end, that leaves no node twice.
IsWayBack(s, p) == Upward(s, p) /\ Head_(s, p) = Source(s)

LEMMA PathIsWayBack ==
  ASSUME NEW s, NEW over, NEW T, Tree(s, over, T), Acyclic(s), Goal(s) \in Reached(s)
  PROVE  IsWayBack(s, Path(s))
<1> DEFINE N == Cardinality(Node)
           Back(p) == LET at == IF p = <<>> THEN Nearest(s.req.to) ELSE EdgeData[Head(p)].from
                      IN  IF at = Nearest(s.req.from) THEN p ELSE <<s.parent[at]>> \o p
           Good(n, p) == Upward(s, p) /\ (Head_(s, p) = Source(s) \/ Len(p) = n)
           Builds(n, f) == /\ f[0] = <<>> /\ \A m \in 1..n : f[m] = Back(f[m - 1])
                           /\ \A m \in 0..n : Good(m, f[m])
           P == {n \in Nat : \E f \in [0..n -> Seq(Edge)] : Builds(n, f)}
<1>0. N \in Nat /\ Source(s) \in Node
  BY GraphTyped, FS_CardinalityType DEF Tree
<1>1. ASSUME NEW n \in Nat, NEW p, Good(n, p) PROVE Good(n + 1, Back(p))
  <2>1. Back(p) = IF Head_(s, p) = Source(s) THEN p ELSE <<s.parent[Head_(s, p)]>> \o p
    <3>1. p # <<>> => Head(p) = p[1]
      BY <1>1 DEF Upward
    <3> QED BY <3>1 DEF Head_, Source, Goal
  <2> HIDE DEF Back
  <2>2. CASE Head_(s, p) = Source(s)
    BY <1>1, <2>1, <2>2
  <2>3. CASE Head_(s, p) # Source(s)
    <3>1. Upward(s, Back(p))
      BY <1>1, <2>1, <2>3, OneFurther
    <3>2. s.parent[Head_(s, p)] \in Edge /\ p \in Seq(Edge)
      BY <1>1, <2>3 DEF Upward, Tree, Hangs
    <3>3. Len(Back(p)) = n + 1
      BY <1>1, <2>1, <2>3, <3>2, InFront
    <3> QED BY <3>1, <3>3
  <2> QED BY <2>2, <2>3
<1>2. Good(0, <<>>)
  BY EmptySeq DEF Upward, Head_
<1>3. \A n, p : Good(n, p) => p \in Seq(Edge)
  BY DEF Upward
<1> HIDE DEF Good, Back, N
<1>4. 0 \in P
  <2> DEFINE f == [n \in 0..0 |-> <<>>]
  <2>1. f \in [0..0 -> Seq(Edge)] /\ f[0] = <<>>
    BY EmptySeq
  <2> HIDE DEF f
  <2>2. Builds(0, f)
    BY <1>2, <2>1
  <2> QED BY <2>1, <2>2
<1>5. ASSUME NEW n \in 0..(N - 1), n \in P PROVE n + 1 \in P
  <2>1. PICK f \in [0..n -> Seq(Edge)] : Builds(n, f)
    BY <1>5
  <2>2. n \in Nat /\ n + 1 \in Nat /\ n \in 0..n
    BY <1>0
  <2> DEFINE z == Back(f[n])
             h == [m \in 0..(n + 1) |-> IF m <= n THEN f[m] ELSE z]
  <2>3. Good(n + 1, z) /\ z \in Seq(Edge)
    BY <1>1, <1>3, <2>1, <2>2
  <2> HIDE DEF z
  <2>4. h \in [0..(n + 1) -> Seq(Edge)]
    BY <2>2, <2>3
  <2>5. /\ \A m \in 0..n : h[m] = f[m]
        /\ h[n + 1] = z
    BY <2>2
  <2> HIDE DEF h
  <2>6. \A m \in 0..(n + 1) : m \in 0..n \/ m = n + 1
    BY <2>2
  <2>7. h[0] = <<>> /\ \A m \in 0..(n + 1) : Good(m, h[m])
    BY <2>1, <2>2, <2>3, <2>5, <2>6
  <2>8. ASSUME NEW m \in 1..(n + 1) PROVE h[m] = Back(h[m - 1])
    <3>1. m - 1 \in 0..n /\ (m \in 1..n \/ m = n + 1)
      BY <2>2
    <3>2. CASE m \in 1..n
      <4>1. m \in 0..n
        BY <3>2
      <4> QED BY <2>1, <2>5, <3>1, <3>2, <4>1
    <3>3. CASE m = n + 1
      <4>1. m - 1 = n
        BY <2>2, <3>3
      <4> QED BY <2>2, <2>5, <3>3, <4>1 DEF z
    <3> QED BY <3>1, <3>2, <3>3
  <2> QED BY <2>2, <2>4, <2>7, <2>8
<1>6. 0..N \subseteq P
  <2> HIDE DEF P
  <2> QED BY <1>0, <1>4, <1>5, InductUpTo
<1>7. PICK f \in [0..N -> Seq(Edge)] : Builds(N, f)
  <2>1. N \in P
    <3> HIDE DEF P
    <3> QED BY <1>0, <1>6
  <2> HIDE DEF Builds
  <2> QED BY <2>1
<1> DEFINE Rec(h) == h = [n \in 0..N |-> IF n = 0 THEN <<>> ELSE Back(h[n - 1])]
<1>8. Rec(f)
  <2>1. ASSUME NEW n \in 0..N PROVE f[n] = IF n = 0 THEN <<>> ELSE Back(f[n - 1])
    <3>1. n = 0 \/ n \in 1..N
      BY <1>0
    <3> QED BY <1>7, <3>1
  <2> QED BY <1>7, <2>1
<1>9. PICK h : Rec(h) /\ Path(s) = h[N]
  <2>1. Path(s) = (CHOOSE h : Rec(h))[N]
    BY DEF Path, Back, N
  <2> HIDE DEF Rec
  <2> QED BY <1>8, <2>1
<1>10. 0..N \subseteq {n \in 0..N : h[n] = f[n]}
  <2> DEFINE Q == {n \in 0..N : h[n] = f[n]}
  <2>1. 0 \in Q
    BY <1>0, <1>7, <1>9
  <2>2. ASSUME NEW n \in 0..(N - 1), n \in Q PROVE n + 1 \in Q
    <3>1. n + 1 \in 1..N /\ n + 1 \in 0..N /\ (n + 1) - 1 = n /\ n + 1 # 0
      BY <1>0
    <3>2. h[n + 1] = Back(h[n]) /\ f[n + 1] = Back(f[n])
      BY <1>7, <1>9, <3>1
    <3> QED BY <2>2, <3>1, <3>2
  <2>3. 0..N \subseteq Q
    <3> HIDE DEF Q
    <3> QED BY <1>0, <2>1, <2>2, InductUpTo
  <2> QED BY <2>3
<1>11. Path(s) = f[N] /\ Good(N, f[N])
  BY <1>0, <1>7, <1>9, <1>10
<1>12. Upward(s, f[N]) /\ (Head_(s, f[N]) = Source(s) \/ Len(f[N]) = N)
  BY <1>11 DEF Good
<1>13. Len(f[N]) # N
  BY <1>0, <1>12, NoNodeTwice DEF N
<1> QED BY <1>11, <1>12, <1>13 DEF IsWayBack

\* The way back, read forwards: a chain from the source to the goal over edges that
\* the request allows, which leaves no node twice; empty only if it is there already.
LEMMA WayBackReads ==
  ASSUME NEW s, NEW over, NEW T, Tree(s, over, T), Acyclic(s), NEW p, IsWayBack(s, p)
  PROVE  /\ p \in Seq(Edge) /\ Len(p) < Cardinality(Node)
         /\ p = <<>> <=> Source(s) = Goal(s)
         /\ p # <<>> => EdgeData[p[1]].from = Source(s) /\ EdgeData[p[Len(p)]].to = Goal(s)
         /\ \A i \in 1..(Len(p) - 1) : EdgeData[p[i]].to = EdgeData[p[i + 1]].from
         /\ \A i, j \in 1..Len(p) : EdgeData[p[i]].from = EdgeData[p[j]].from => i = j
         /\ \A i \in 1..Len(p) : Allowed(p[i], s, over, T)
<1>1. /\ Upward(s, p) /\ p \in Seq(Edge) /\ Len(p) \in Nat /\ Source(s) \in Node
      /\ \A i \in 1..(Len(p) - 1) : EdgeData[p[i]].to = EdgeData[p[i + 1]].from
      /\ p # <<>> => EdgeData[p[1]].from = Source(s) /\ EdgeData[p[Len(p)]].to = Goal(s)
  BY DEF IsWayBack, Upward, Head_, Tree
<1>2. /\ \A i, j \in 1..Len(p) : EdgeData[p[i]].to = EdgeData[p[j]].to => i = j
      /\ Len(p) < Cardinality(Node)
  BY <1>1, NoNodeTwice
<1>3. p = <<>> <=> Source(s) = Goal(s)
  <2>1. p = <<>> => Source(s) = Goal(s)
    BY DEF IsWayBack, Head_
  <2>2. p # <<>> => Source(s) # Goal(s)
    <3>1. p # <<>> => Len(p) \in 1..Len(p)
      BY <1>1, EmptySeq
    <3> QED BY <1>1, <3>1 DEF Upward
  <2> QED BY <2>1, <2>2
<1>4. ASSUME NEW i \in 1..Len(p) PROVE Allowed(p[i], s, over, T)
  <2>1. /\ EdgeData[p[i]].to \in Reached(s) \ {Source(s)}
        /\ p[i] = s.parent[EdgeData[p[i]].to]
    BY <1>1 DEF Upward
  <2> QED BY <2>1 DEF Tree, Hangs
<1>5. ASSUME NEW i \in 1..Len(p)
      PROVE  \/ i = 1 /\ EdgeData[p[i]].from = Source(s)
             \/ /\ i - 1 \in 1..Len(p) /\ EdgeData[p[i]].from = EdgeData[p[i - 1]].to
                /\ EdgeData[p[i]].from # Source(s)
  <2>1. CASE i = 1
    <3>1. p # <<>>
      BY <2>1, EmptySeq
    <3> QED BY <1>1, <2>1, <3>1
  <2>2. CASE i # 1
    <3>1. i - 1 \in 1..(Len(p) - 1) /\ (i - 1) + 1 = i /\ i - 1 \in 1..Len(p)
      BY <1>1, <2>2
    <3>2. EdgeData[p[i - 1]].to = EdgeData[p[(i - 1) + 1]].from
      BY <1>1, <3>1
    <3>3. EdgeData[p[i - 1]].to # Source(s)
      BY <1>1, <3>1 DEF Upward
    <3> QED BY <3>1, <3>2, <3>3
  <2> QED BY <2>1, <2>2
<1>6. ASSUME NEW i \in 1..Len(p), NEW j \in 1..Len(p),
             EdgeData[p[i]].from = EdgeData[p[j]].from
      PROVE  i = j
  <2>1. CASE i = 1
    BY <1>5, <1>6, <2>1
  <2>2. CASE j = 1
    BY <1>5, <1>6, <2>2
  <2>3. CASE i # 1 /\ j # 1
    <3>1. /\ i - 1 \in 1..Len(p) /\ EdgeData[p[i]].from = EdgeData[p[i - 1]].to
          /\ j - 1 \in 1..Len(p) /\ EdgeData[p[j]].from = EdgeData[p[j - 1]].to
      BY <1>5, <2>3
    <3>2. i - 1 = j - 1
      BY <1>2, <1>6, <3>1
    <3> QED BY <3>2
  <2> QED BY <2>1, <2>2, <2>3
<1> QED BY <1>1, <1>2, <1>3, <1>4, <1>6

--------------------------------------------------------------------------------
(* Costs of ways *)

\* S are the costs of the first edges of p.
SumsUp(S, p, n, mode) ==
  /\ S \in [0..n -> Nat] /\ S[0] = 0
  /\ \A i \in 1..n : S[i] = S[i - 1] + Cost(p[i], mode)

\* The way back costs no more than the search says of the goal.
LEMMA WayBackCost ==
  ASSUME NEW s, NEW over, NEW T, Open(s, over, T), NEW p, IsWayBack(s, p), p # <<>>,
         NEW S, SumsUp(S, p, Len(p), s.req.mode)
  PROVE  S[Len(p)] <= s.g[Goal(s)]
<1> DEFINE v(i) == IF i = 0 THEN Source(s) ELSE EdgeData[p[i]].to
           P == {i \in 0..Len(p) : S[i] <= s.g[v(i)]}
<1>1. /\ Upward(s, p) /\ p \in Seq(Edge) /\ Len(p) \in Nat \ {0} /\ s.g[Source(s)] = 0
      /\ \A w \in Reached(s) : s.g[w] \in Nat
  BY SearchTypes, EmptySeq DEF IsWayBack, Upward, Open, Tree
<1>2. 0 \in P
  BY <1>1 DEF SumsUp
<1>3. ASSUME NEW i \in 0..(Len(p) - 1), i \in P PROVE i + 1 \in P
  <2>1. /\ i + 1 \in 1..Len(p) /\ i + 1 \in 0..Len(p) /\ i \in 0..Len(p)
        /\ (i + 1) - 1 = i /\ i + 1 # 0
    BY <1>1
  <2>2. S[i + 1] = S[i] + Cost(p[i + 1], s.req.mode) /\ S[i] \in Nat /\ S[i] <= s.g[v(i)]
    BY <1>3, <2>1 DEF SumsUp
  <2>3. v(i) = EdgeData[p[i + 1]].from
    <3>1. CASE i = 0
      BY <1>1, <3>1 DEF IsWayBack, Head_
    <3>2. CASE i # 0
      <4>1. i \in 1..(Len(p) - 1)
        BY <1>1, <3>2
      <4> QED BY <1>1, <3>2, <4>1 DEF Upward
    <3> QED BY <3>1, <3>2
  <2>4. /\ v(i + 1) \in Reached(s) \ {Source(s)} /\ p[i + 1] = s.parent[v(i + 1)]
        /\ v(i + 1) = EdgeData[p[i + 1]].to
    BY <1>1, <2>1 DEF Upward
  <2> HIDE DEF v
  <2>5. Hangs(s, v(i + 1), over, T)
    BY <2>4 DEF Open, Tree
  <2>6. /\ s.g[v(i)] + Cost(p[i + 1], s.req.mode) <= s.g[v(i + 1)]
        /\ v(i) \in Reached(s) /\ p[i + 1] \in Edge
    BY <2>3, <2>4, <2>5 DEF Hangs, Up, Open, Tree
  <2>7. /\ s.g[v(i)] \in Nat /\ s.g[v(i + 1)] \in Nat /\ Cost(p[i + 1], s.req.mode) \in Nat
    BY <1>1, <2>4, <2>6, CostIsNat
  <2> QED BY <2>1, <2>2, <2>6, <2>7
<1>4. 0..Len(p) \subseteq P
  <2> HIDE DEF P
  <2> QED BY <1>1, <1>2, <1>3, InductUpTo
<1>5. Len(p) \in P /\ v(Len(p)) = Goal(s)
  <2>1. Len(p) \in 0..Len(p) /\ Len(p) # 0
    BY <1>1
  <2> QED BY <1>1, <1>4, <2>1 DEF Upward
<1> QED BY <1>5

\* A way from the source to the goal over n edges that the request may use.
IsWay(s, q, n, over) ==
  /\ n \in Nat \ {0} /\ q \in [1..n -> Edge]
  /\ EdgeData[q[1]].from = Source(s) /\ EdgeData[q[n]].to = Goal(s)
  /\ \A i \in 1..(n - 1) : EdgeData[q[i]].to = EdgeData[q[i + 1]].from
  /\ \A i \in 1..n : Traversable(q[i], over, PolicyOf(s.req), s.req.vehicle)

\* The i-th node of a way.
NodeAt(s, q, i) == IF i = 0 THEN Source(s) ELSE EdgeData[q[i]].to

LEMMA WayFacts ==
  ASSUME NEW s, NEW over, NEW n, NEW q, IsWay(s, q, n, over), NEW i \in 0..(n - 1)
  PROVE  /\ i + 1 \in 1..n /\ i + 1 \in 0..n /\ (i + 1) - 1 = i /\ i \in 0..n
         /\ q[i + 1] \in Edge
         /\ EdgeData[q[i + 1]].from = NodeAt(s, q, i)
         /\ EdgeData[q[i + 1]].to = NodeAt(s, q, i + 1)
         /\ Traversable(q[i + 1], over, PolicyOf(s.req), s.req.vehicle)
<1>1. i + 1 \in 1..n /\ i + 1 \in 0..n /\ (i + 1) - 1 = i /\ i \in 0..n /\ i + 1 # 0 /\ n \in Nat
  BY DEF IsWay
<1>2. q[i + 1] \in Edge /\ Traversable(q[i + 1], over, PolicyOf(s.req), s.req.vehicle)
  BY <1>1 DEF IsWay
<1>3. EdgeData[q[i + 1]].from = NodeAt(s, q, i)
  <2>1. CASE i = 0
    BY <2>1 DEF IsWay, NodeAt
  <2>2. CASE i # 0
    <3>1. i \in 1..(n - 1)
      BY <1>1, <2>2
    <3> QED BY <2>2, <3>1 DEF IsWay, NodeAt
  <2> QED BY <2>1, <2>2
<1> QED BY <1>1, <1>2, <1>3 DEF NodeAt

\* A search whose heap is empty has left no way: its nodes would all be visited.
LEMMA NoWayLeft ==
  ASSUME NEW s, NEW over, NEW T, Open(s, over, T), Final(s, over), s.heap = {},
         NEW n, NEW q, IsWay(s, q, n, over)
  PROVE  FALSE
<1> DEFINE P == {i \in 0..n : NodeAt(s, q, i) \in s.visited}
<1>1. n \in Nat /\ Reached(s) \subseteq s.visited /\ Source(s) \in Reached(s)
  BY SearchTypes DEF IsWay, Open, Frontier
<1>2. 0 \in P
  BY <1>1 DEF NodeAt
<1>3. ASSUME NEW i \in 0..(n - 1), i \in P PROVE i + 1 \in P
  <2>1. /\ q[i + 1] \in Edge /\ EdgeData[q[i + 1]].from = NodeAt(s, q, i)
        /\ EdgeData[q[i + 1]].to = NodeAt(s, q, i + 1) /\ i + 1 \in 0..n
        /\ Traversable(q[i + 1], over, PolicyOf(s.req), s.req.vehicle)
    BY WayFacts
  <2>2. EdgeData[q[i + 1]].to \in Reached(s)
    BY <1>3, <2>1 DEF Final
  <2> QED BY <1>1, <2>1, <2>2
<1>4. 0..n \subseteq P
  <2> HIDE DEF P
  <2> QED BY <1>1, <1>2, <1>3, InductUpTo
<1>5. n \in P
  BY <1>1, <1>4
<1>6. NodeAt(s, q, n) = Goal(s)
  BY DEF NodeAt, IsWay
<1> QED BY <1>5, <1>6 DEF Open, Tree

\* A search that has found the goal has found it at least cost: on any way, the costs
\* so far exceed those of visited nodes, and from there on the estimates of the heap.
LEMMA NoneCheaper ==
  ASSUME NEW s, NEW over, NEW T, Open(s, over, T), Final(s, over),
         Consistent(s.req, Goal(s)), Goal(s) \in Reached(s),
         \A y \in s.heap : s.g[Goal(s)] + Heuristic(Goal(s), Goal(s), s.req) <= y.f,
         NEW n, NEW q, IsWay(s, q, n, over), NEW S, SumsUp(S, q, n, s.req.mode)
  PROVE  s.g[Goal(s)] <= S[n]
<1> DEFINE H(v) == Heuristic(v, Goal(s), s.req)
           X == s.g[Goal(s)] + H(Goal(s))
           v(i) == NodeAt(s, q, i)
           Near(i) == v(i) \in s.visited /\ s.g[v(i)] <= S[i]
           Far(i) == X <= S[i] + H(v(i))
           P == {i \in 0..n : Near(i) \/ Far(i)}
<1>1. /\ n \in Nat /\ Source(s) \in Reached(s) /\ s.g[Source(s)] = 0 /\ Goal(s) \in Node
      /\ s.visited \subseteq Reached(s) /\ Goal(s) \notin s.visited
      /\ \A w \in Reached(s) : w \in Node /\ s.g[w] \in Nat
      /\ \A w \in Node : H(w) \in Nat
      /\ \A i \in 0..n : S[i] \in Nat
  BY SearchTypes DEF IsWay, SumsUp, Open, Tree
<1>2. X \in Nat /\ H(Goal(s)) \in Nat
  BY <1>1
<1>3. ASSUME NEW w \in Reached(s), w \notin s.visited PROVE X <= s.g[w] + H(w)
  <2>1. Entry(s.g[w] + H(w), s.g[w], w) \in s.heap
    BY <1>3 DEF Open, Frontier
  <2> QED BY <2>1 DEF Entry
<1>4. \A e \in Edge : H(EdgeData[e].from) <= Cost(e, s.req.mode) + H(EdgeData[e].to)
  BY DEF Consistent
<1> HIDE DEF H, X
<1>5. 0 \in P
  <2>1. v(0) = Source(s) /\ S[0] = 0 /\ 0 \in 0..n
    BY <1>1 DEF NodeAt, SumsUp
  <2>2. Near(0) \/ Far(0)
    BY <1>1, <1>3, <2>1
  <2> QED BY <2>1, <2>2
<1>6. ASSUME NEW i \in 0..(n - 1), i \in P PROVE i + 1 \in P
  <2> DEFINE e == q[i + 1]
             c == Cost(e, s.req.mode)
  <2>1. /\ e \in Edge /\ EdgeData[e].from = v(i) /\ EdgeData[e].to = v(i + 1)
        /\ Traversable(e, over, PolicyOf(s.req), s.req.vehicle)
        /\ i + 1 \in 1..n /\ i + 1 \in 0..n /\ i \in 0..n /\ (i + 1) - 1 = i
    BY WayFacts
  <2>2. S[i + 1] = S[i] + c /\ S[i] \in Nat /\ S[i + 1] \in Nat /\ c \in Nat
    BY <1>1, <2>1, CostIsNat DEF SumsUp
  <2>3. H(v(i)) <= c + H(v(i + 1)) /\ H(v(i)) \in Nat /\ H(v(i + 1)) \in Nat
    BY <1>1, <1>4, <2>1, EdgeFacts
  <2>4. Near(i) \/ Far(i)
    BY <1>6
  <2> HIDE DEF v, e, c
  <2>5. CASE Far(i)
    <3>1. Far(i + 1)
      BY <1>2, <2>2, <2>3, <2>5
    <3> QED BY <2>1, <3>1
  <2>6. CASE Near(i)
    <3>1. v(i + 1) \in Reached(s) /\ s.g[v(i + 1)] <= s.g[v(i)] + c
      BY <2>1, <2>6 DEF Final, c
    <3>2. s.g[v(i + 1)] \in Nat /\ s.g[v(i)] \in Nat
      BY <1>1, <2>6, <3>1
    <3>3. s.g[v(i + 1)] <= S[i + 1]
      BY <2>2, <2>6, <3>1, <3>2
    <3>4. CASE v(i + 1) \in s.visited
      BY <2>1, <3>3, <3>4
    <3>5. CASE v(i + 1) \notin s.visited
      <4>1. Far(i + 1)
        BY <1>2, <1>3, <2>2, <2>3, <3>1, <3>2, <3>3, <3>5
      <4> QED BY <2>1, <4>1
    <3> QED BY <3>4, <3>5
  <2> QED BY <2>4, <2>5, <2>6
<1>7. 0..n \subseteq P
  <2> HIDE DEF P
  <2> QED BY <1>1, <1>5, <1>6, InductUpTo
<1>8. v(n) = Goal(s) /\ n \in P
  BY <1>1, <1>7 DEF NodeAt, IsWay
<1>9. Far(n)
  BY <1>1, <1>8
<1> QED BY <1>1, <1>2, <1>8, <1>9 DEF X

--------------------------------------------------------------------------------
(* The heuristic *)

\* No edge is shorter than the way it saves towards any node.
Geodesic ==
  \A e \in Edge : \A w \in Node :
    Span[EdgeData[e].from][w] <= EdgeData[e].length + Span[EdgeData[e].to][w]

\* On such a graph A* is consistent by distance, and by time too where no road is
\* faster than the 120 km/h of the heuristic.
THEOREM GeodesicIsConsistent ==
  ASSUME Geodesic, NEW req, NEW goal \in Node,
         req.algorithm = "dijkstra" \/ req.mode # "TRAVEL_TIME"
           \/ \A e \in Edge : Speed(e) <= 1200
  PROVE  Consistent(req, goal)
<1> SUFFICES ASSUME NEW e \in Edge
             PROVE  Heuristic(EdgeData[e].from, goal, req) <=
                      Cost(e, req.mode) + Heuristic(EdgeData[e].to, goal, req)
  BY DEF Consistent
<1> DEFINE L == EdgeData[e].length
           a == Span[EdgeData[e].from][goal]
           b == Span[EdgeData[e].to][goal]
<1>1. L \in Nat /\ a \in Nat /\ b \in Nat /\ a <= L + b /\ Cost(e, req.mode) \in Nat
  <2>1. L \in Nat
    BY GraphTyped
  <2>2. EdgeData[e].from \in Node /\ EdgeData[e].to \in Node
    BY EdgeFacts
  <2>3. a \in Nat /\ b \in Nat
    <3>1. \A u, w \in Node : Span[u][w] \in Nat
      BY GraphTyped
    <3> QED BY <2>2, <3>1
  <2>4. a <= L + b
    BY DEF Geodesic
  <2>5. Cost(e, req.mode) \in Nat
    BY CostIsNat
  <2> QED BY <2>1, <2>3, <2>4, <2>5
<1>2. CASE req.algorithm = "dijkstra"
  BY <1>1, <1>2 DEF Heuristic
<1>3. CASE req.algorithm # "dijkstra" /\ req.mode # "TRAVEL_TIME"
  BY <1>1, <1>3 DEF Heuristic, Cost
<1>4. CASE req.algorithm # "dijkstra" /\ req.mode = "TRAVEL_TIME"
  <2> DEFINE v == IF Speed(e) < 18 THEN 18 ELSE Speed(e)
  <2>1. v \in Nat /\ v > 0 /\ v <= 1200
    <3>1. EdgeData[e].limit \in Nat \cup {Absent}
      BY GraphTyped
    <3>2. Speed(e) \in Nat /\ Speed(e) <= 1200
      BY <1>4, <3>1 DEF Speed, DefaultSpeed
    <3> QED BY <3>2
  <2> HIDE DEF v, L, a, b
  <2>2. ASSUME NEW x \in Nat, NEW y \in Nat, y > 0, NEW q \in Nat, q * y <= x PROVE q <= x \div y
    BY <2>2
  <2>3. (3 * L) * (2 * v) <= 7200 * L + v
    <3>1. (3 * L) * (2 * v) = 6 * (L * v)
      BY <1>1, <2>1
    <3>2. L * v <= L * 1200
      BY <1>1, <2>1
    <3>3. L * v \in Nat
      BY <1>1, <2>1
    <3> QED BY <1>1, <2>1, <3>1, <3>2, <3>3
  <2>4. 3 * L <= (7200 * L + v) \div (2 * v)
    <3>1. 7200 * L + v \in Nat /\ 2 * v \in Nat /\ 2 * v > 0 /\ 3 * L \in Nat
      BY <1>1, <2>1
    <3> QED BY <2>2, <2>3, <3>1
  <2>5. Cost(e, req.mode) = (7200 * L + v) \div (2 * v)
    BY <1>4 DEF Cost, Duration, v, L
  <2>6. 3 * a <= Cost(e, req.mode) + 3 * b
    BY <1>1, <2>4, <2>5
  <2> QED BY <1>4, <2>6 DEF Heuristic, a, b
<1> QED BY <1>2, <1>3, <1>4
================================================================================
