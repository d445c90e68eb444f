------------------------------ MODULE WhatIfProofs ------------------------------
(***************************************************************************)
(* Proofs about WhatIf, for every graph, scenario, number of teams and     *)
(* history of the live twin: what a preview reports of the fork, what a    *)
(* route is worth that was searched for while the overlay changed, and the *)
(* types of both. The twin's lemmas on types are DigitalTwinProofs's,      *)
(* proved of the instance here.                                            *)
(***************************************************************************)
EXTENDS WhatIf, RoutingProofs

--------------------------------------------------------------------------------
(* Types of the twins *)

\* The twin's keys and overlays are this module's.
LEMMA SameKeys == DT!Key = Key /\ [Road -> DT!RoadStatus \cup {Absent}] = Overlay
BY DEF DT!Key, Key, DT!RoadStatus, RoadStatus, Overlay

\* A bridge status always translates to a road status.
LEMMA RoadStatusUnderType == \A s : DT!RoadStatusUnder(s) \in DT!RoadStatus
BY DEF DT!RoadStatusUnder, DT!RoadStatus

\* The kinds of entities do not overlap.
LEMMA EntityOfKinds ==
  /\ \A k \in Road : DT!EntityOf(k) = DT!RoadStatus
  /\ \A k \in Bridge : DT!EntityOf(k) = DT!BridgeEntity
  /\ \A k \in Facility : DT!EntityOf(k) = DT!FacilityEntity
  /\ DT!EntityOf(FloodZone) = Severity
BY KeysApart DEF DT!EntityOf

\* Where there are bridges, none is absent.
LEMMA NoBridgeAbsent == \A b \in Bridge : Absent \notin DT!BridgeEntity
BY EntityOfKinds, KeysApart DEF DT!Key

\* The handlers leave every entity within its kind.
LEMMA TargetType ==
  ASSUME NEW t, NEW p \in DT!AnyPayload, ~DT!Rejected(t, p),
         \A k \in DT!Key : t.ent[k] \in DT!EntityOf(k) \cup {Absent}
  PROVE  DT!Target(t, p) \in DT!EntityOf(p.key)
<1> DEFINE cur == t.ent[p.key]
<1>1. CASE p \in DT!RoadPayload
  BY <1>1, EntityOfKinds DEF DT!RoadPayload, DT!Target
<1>2. CASE p \in DT!BridgePayload
  <2>1. p.kind = "bridge" /\ p.key \in Bridge /\ p.status \in DT!BridgeStatus
    BY <1>2 DEF DT!BridgePayload
  <2>2. cur \in DT!BridgeEntity \cup {Absent}
    BY <2>1, EntityOfKinds DEF DT!Key
  <2>3. DT!Current(t, p) \in DT!BridgeEntity
    BY <2>1, <2>2 DEF DT!Current, DT!BridgeEntity, DT!BridgeStatus
  <2>4. DT!Target(t, p) \in DT!BridgeEntity
    BY <2>1, <2>3 DEF DT!Target, DT!BridgeEntity
  <2> QED BY <2>1, <2>4, EntityOfKinds
<1>3. CASE p \in DT!CapacityPayload
  <2>1. /\ p.kind = "capacity" /\ p.key \in Facility /\ p.avail <= p.cap
        /\ p.cap \in 0..MaxCapacity /\ p.avail \in 0..MaxCapacity
    BY <1>3 DEF DT!CapacityPayload
  <2>2. cur \in DT!FacilityEntity
    BY <2>1, EntityOfKinds DEF DT!Key, DT!Rejected
  <2>3. DT!Current(t, p) = cur
    BY <2>1 DEF DT!Current, DT!Rejected
  <2>4. DT!Target(t, p) \in DT!FacilityEntity
    BY <2>1, <2>2, <2>3 DEF DT!Target, DT!FacilityEntity
  <2> QED BY <2>1, <2>4, EntityOfKinds
<1>4. CASE p \in DT!FacilityPayload
  <2>1. p.kind = "facility" /\ p.key \in Facility /\ p.status \in Status
    BY <1>4 DEF DT!FacilityPayload
  <2>2. cur \in DT!FacilityEntity
    BY <2>1, EntityOfKinds DEF DT!Key, DT!Rejected
  <2>3. DT!Current(t, p) = cur
    BY <2>1 DEF DT!Current, DT!Rejected
  <2>4. DT!Target(t, p) \in DT!FacilityEntity
    BY <2>1, <2>2, <2>3 DEF DT!Target, DT!FacilityEntity
  <2> QED BY <2>1, <2>4, EntityOfKinds
<1>5. CASE p \in DT!IncidentPayload
  BY <1>5, EntityOfKinds DEF DT!IncidentPayload, DT!Target
<1>6. CASE p \in DT!AreaPayload
  BY <1>6, EntityOfKinds DEF DT!AreaPayload, DT!Target
<1> QED BY <1>1, <1>2, <1>3, <1>4, <1>5, <1>6 DEF DT!AnyPayload

\* Every payload names a key.
LEMMA PayloadKey == \A p \in DT!AnyPayload : p.key \in DT!Key
BY DEF DT!AnyPayload, DT!RoadPayload, DT!BridgePayload, DT!CapacityPayload, DT!FacilityPayload,
       DT!IncidentPayload, DT!AreaPayload, DT!Key

\* Resynchronising gives a road a status or leaves it without.
LEMMA ResyncedRoadType ==
  ASSUME NEW t, DT!IsManager(t), NEW ov \in [Road -> DT!RoadStatus \cup {Absent}], NEW r \in Road
  PROVE  DT!ResyncedRoad(t, ov, r) \subseteq DT!RoadStatus \cup {Absent}
<1>1. t.ent[r] \in DT!RoadStatus \cup {Absent}
  BY EntityOfKinds DEF DT!IsManager, DT!Key
<1> QED BY <1>1, RoadStatusUnderType DEF DT!ResyncedRoad

\* An override written for an entity keeps the overlay one of road statuses.
LEMMA OverlayWithType ==
  ASSUME NEW t, t.overlay \in [Road -> DT!RoadStatus \cup {Absent}] \cup {Absent},
         NEW k \in DT!Key, NEW e \in DT!EntityOf(k)
  PROVE  DT!OverlayWith(t, k, e) \in [Road -> DT!RoadStatus \cup {Absent}] \cup {Absent}
<1>1. CASE k \in Road
  BY <1>1, EntityOfKinds DEF DT!OverlayWith
<1>2. CASE k \in Bridge /\ k \notin Road
  BY <1>2, RoadStatusUnderType, InputsTyped DEF DT!OverlayWith
<1>3. CASE k \notin Road /\ k \notin Bridge
  BY <1>3 DEF DT!OverlayWith
<1> QED BY <1>1, <1>2, <1>3

\* One handler keeps a manager a manager.
LEMMA HandleType ==
  ASSUME NEW t, DT!IsManager(t), NEW id \in DT!AnyEventId, NEW p \in DT!AnyPayload
  PROVE  DT!IsManager(DT!Handle(t, id, p))
<1>0. p.key \in DT!Key
  BY PayloadKey
<1>1. CASE DT!Applies(t, id, p)
  <2>1. DT!Target(t, p) \in DT!EntityOf(p.key)
    BY <1>1, TargetType DEF DT!IsManager, DT!Applies
  <2>2. DT!OverlayWith(t, p.key, DT!Target(t, p))
          \in [Road -> DT!RoadStatus \cup {Absent}] \cup {Absent}
    BY <1>0, <2>1, OverlayWithType DEF DT!IsManager
  <2>3. [id |-> id, body |-> p, version |-> t.version + 1] \in DT!LogEntry
    BY DEF DT!LogEntry, DT!IsManager
  <2>4. Append(t.log, [id |-> id, body |-> p, version |-> t.version + 1]) \in Seq(DT!LogEntry)
    BY <2>3 DEF DT!IsManager
  <2>5. /\ [t.ent EXCEPT ![p.key] = DT!Target(t, p)]
            = [k \in DT!Key |-> [t.ent EXCEPT ![p.key] = DT!Target(t, p)][k]]
        /\ \A k \in DT!Key :
              [t.ent EXCEPT ![p.key] = DT!Target(t, p)][k] \in DT!EntityOf(k) \cup {Absent}
    BY <1>0, <2>1 DEF DT!IsManager
  <2> QED BY <1>1, <2>2, <2>4, <2>5 DEF DT!Handle, DT!Commit, DT!Manager, DT!IsManager
<1>2. CASE ~DT!Applies(t, id, p) /\ (id \in t.seen \/ DT!Rejected(t, p))
  BY <1>2 DEF DT!Handle
<1>3. CASE ~DT!Applies(t, id, p) /\ ~(id \in t.seen \/ DT!Rejected(t, p))
  <2>1. DT!Current(t, p) \in DT!EntityOf(p.key)
    BY <1>3, TargetType DEF DT!IsManager, DT!Applies, DT!NoOp
  <2>2. /\ [t.ent EXCEPT ![p.key] = DT!Current(t, p)]
            = [k \in DT!Key |-> [t.ent EXCEPT ![p.key] = DT!Current(t, p)][k]]
        /\ \A k \in DT!Key :
              [t.ent EXCEPT ![p.key] = DT!Current(t, p)][k] \in DT!EntityOf(k) \cup {Absent}
    BY <1>0, <2>1 DEF DT!IsManager
  <2> QED BY <1>3, <2>2 DEF DT!Handle, DT!Ignore, DT!Manager, DT!IsManager
<1> QED BY <1>1, <1>2, <1>3

\* A cascade is a road event with an id of its own.
LEMMA CascadeType ==
  ASSUME NEW t, DT!IsManager(t), NEW id \in AnyId, NEW p \in DT!AnyPayload,
         DT!Cascades(t, id, p)
  PROVE  /\ DT!CascadeTo(t, p) \in Road
         /\ DT!Caused(id, DT!CascadeTo(t, p)) \in DT!AnyEventId
         /\ DT!CascadePayload(DT!CascadeTo(t, p), p.status) \in DT!AnyPayload
<1>1. p \in DT!BridgePayload
  BY DEF DT!Cascades, DT!AnyPayload, DT!RoadPayload, DT!BridgePayload, DT!CapacityPayload,
         DT!FacilityPayload, DT!IncidentPayload, DT!AreaPayload
<1>2. t.ent[p.key] \in DT!BridgeEntity \cup {Absent}
  BY <1>1, EntityOfKinds DEF DT!BridgePayload, DT!IsManager, DT!Key
<1>3. DT!CascadeTo(t, p) \in Road
  BY <1>1, <1>2 DEF DT!Cascades, DT!CascadeTo, DT!Current, DT!BridgePayload, DT!BridgeEntity
<1>4. DT!CascadePayload(DT!CascadeTo(t, p), p.status) \in DT!RoadPayload
  BY <1>3, RoadStatusUnderType DEF DT!CascadePayload, DT!RoadPayload
<1> QED BY <1>3, <1>4 DEF DT!AnyPayload, DT!AnyEventId

\* So does an event with its cascade.
LEMMA ApplyEventType ==
  ASSUME NEW t, DT!IsManager(t), NEW id \in AnyId, NEW p \in DT!AnyPayload
  PROVE  DT!IsManager(DT!ApplyEvent(t, id, p))
<1>1. DT!IsManager(DT!Handle(t, id, p))
  BY HandleType DEF DT!AnyEventId
<1>2. CASE DT!Cascades(t, id, p)
  BY <1>1, <1>2, CascadeType, HandleType DEF DT!ApplyEvent
<1>3. CASE ~DT!Cascades(t, id, p)
  BY <1>1, <1>3 DEF DT!ApplyEvent
<1> QED BY <1>2, <1>3
\* So does the overlay of a fork, or a twin's first one.
LEMMA ResyncedType ==
  ASSUME NEW t, DT!IsManager(t), NEW ov \in Overlay, NEW o \in DT!Resynced(t, ov)
  PROVE  o \in Overlay
<1>1. \A r \in Road : o[r] \in DT!RoadStatus \cup {Absent}
  BY ResyncedRoadType, SameKeys DEF DT!Resynced
<1>2. o = [r \in Road |-> o[r]]
  BY DEF DT!Resynced
<1> QED BY <1>1, <1>2, SameKeys

--------------------------------------------------------------------------------
(* What an event does to the registries *)

\* The registries of a manager, with bridges that are bridges.
Sound(t) ==
  /\ t.ent = [k \in DT!Key |-> t.ent[k]]
  /\ \A b \in Bridge : t.ent[b] \in DT!BridgeEntity \cup {Absent}

\* An event for the kind of entity it names.
Fits(p) ==
  /\ p.key \in Key
  /\ p.key \in Bridge <=> p.kind = "bridge"
  /\ p.kind = "bridge" => p.status \in DT!BridgeStatus

\* A bridge keeps its road under a new status.
LEMMA BridgeTarget ==
  ASSUME NEW t, Sound(t), NEW p, Fits(p), p.kind = "bridge"
  PROVE  /\ DT!Target(t, p) \in DT!BridgeEntity
         /\ DT!Target(t, p).road = DT!Current(t, p).road
         /\ DT!Current(t, p) \in DT!BridgeEntity
<1>1. t.ent[p.key] \in DT!BridgeEntity \cup {Absent}
  BY DEF Sound, Fits
<1>2. DT!Current(t, p) \in DT!BridgeEntity
  BY <1>1 DEF DT!Current, DT!BridgeEntity, DT!BridgeStatus
<1>3. DT!Target(t, p) = [DT!Current(t, p) EXCEPT !.status = p.status]
  BY DEF DT!Target
<1>4. p.status \in DT!BridgeStatus
  BY DEF Fits
<1> HIDE DEF DT!Target
<1> QED BY <1>2, <1>3, <1>4 DEF DT!BridgeEntity

\* One handler changes one entity, and none if the event does not apply.
LEMMA HandleKeeps ==
  ASSUME NEW t, Sound(t), NEW id, NEW p, Fits(p)
  PROVE  LET u == DT!Handle(t, id, p)
         IN  /\ Sound(u)
             /\ \A j \in Key : j # p.key => u.ent[j] = t.ent[j]
             /\ \A b \in Bridge : t.ent[b] # Absent => u.ent[b] # Absent
             /\ p.kind = "bridge" /\ DT!Applies(t, id, p) =>
                  u.ent[p.key].road = DT!CascadeTo(t, p)
             /\ ~DT!Applies(t, id, p) /\ (p.kind = "capacity" \/ t.ent[p.key] # Absent) =>
                  u.ent = t.ent
<1> DEFINE u == DT!Handle(t, id, p)
<1>0. /\ p.key \in DT!Key /\ t.ent = [k \in DT!Key |-> t.ent[k]]
      /\ Bridge \subseteq Key /\ DT!Key = Key
  BY SameKeys DEF Fits, Sound, Key
<1>1. CASE DT!Applies(t, id, p)
  <2>1. u.ent = [t.ent EXCEPT ![p.key] = DT!Target(t, p)]
    BY <1>1 DEF DT!Handle, DT!Commit, DT!Manager
  <2> HIDE DEF u
  <2>2. /\ u.ent = [k \in DT!Key |-> u.ent[k]] /\ u.ent[p.key] = DT!Target(t, p)
        /\ \A j \in Key : j # p.key => u.ent[j] = t.ent[j]
    BY <1>0, <2>1
  <2>3. p.kind = "bridge" => u.ent[p.key] \in DT!BridgeEntity
    BY <2>2, BridgeTarget
  <2>4. \A b \in Bridge : u.ent[b] \in DT!BridgeEntity \cup {Absent}
    BY <1>0, <2>2, <2>3 DEF Sound, Fits
  <2>5. \A b \in Bridge : t.ent[b] # Absent => u.ent[b] # Absent
    BY <1>0, <2>2, <2>3, NoBridgeAbsent DEF Fits
  <2>6. p.kind = "bridge" => u.ent[p.key].road = DT!CascadeTo(t, p)
    BY <2>2, BridgeTarget DEF DT!CascadeTo
  <2> QED BY <1>1, <2>2, <2>4, <2>5, <2>6 DEF Sound, u
<1>2. CASE ~DT!Applies(t, id, p) /\ (id \in t.seen \/ DT!Rejected(t, p))
  <2>1. u = t
    BY <1>2 DEF DT!Handle
  <2> QED BY <1>2, <2>1
<1>3. CASE ~DT!Applies(t, id, p) /\ ~(id \in t.seen \/ DT!Rejected(t, p))
  <2>1. u.ent = [t.ent EXCEPT ![p.key] = DT!Current(t, p)]
    BY <1>3 DEF DT!Handle, DT!Ignore, DT!Manager
  <2>2. t.ent[p.key] # Absent => DT!Current(t, p) = t.ent[p.key]
    BY DEF DT!Current
  <2>3. p.kind = "capacity" => t.ent[p.key] # Absent
    BY <1>3 DEF DT!Rejected
  <2>4. p.kind = "bridge" => DT!Current(t, p) \in DT!BridgeEntity
    BY BridgeTarget
  <2> HIDE DEF u
  <2>5. /\ u.ent = [k \in DT!Key |-> u.ent[k]] /\ u.ent[p.key] = DT!Current(t, p)
        /\ \A j \in Key : j # p.key => u.ent[j] = t.ent[j]
    BY <1>0, <2>1
  <2>6. \A b \in Bridge : u.ent[b] \in DT!BridgeEntity \cup {Absent}
    BY <1>0, <2>4, <2>5 DEF Sound, Fits
  <2>7. \A b \in Bridge : t.ent[b] # Absent => u.ent[b] # Absent
    BY <1>0, <2>2, <2>5
  <2>8. t.ent[p.key] # Absent => u.ent = t.ent
    BY <1>0, <2>1, <2>2
  <2> QED BY <1>3, <2>3, <2>5, <2>6, <2>7, <2>8 DEF Sound, u
<1> QED BY <1>1, <1>2, <1>3

\* An event changes its entity and, through a bridge, the bridge's road.
LEMMA EventKeeps ==
  ASSUME NEW t, Sound(t), NEW id, NEW p, Fits(p)
  PROVE  LET w == DT!ApplyEvent(t, id, p)
         IN  /\ Sound(w)
             /\ \A j \in Key : w.ent[j] # t.ent[j] =>
                  j = p.key \/ (DT!Cascades(t, id, p) /\ j \in Road /\ j = w.ent[p.key].road)
             /\ \A b \in Bridge : t.ent[b] # Absent => w.ent[b] # Absent
             /\ ~DT!Applies(t, id, p) /\ (p.kind = "capacity" \/ t.ent[p.key] # Absent) =>
                  w.ent = t.ent
<1> DEFINE u == DT!Handle(t, id, p)
           r == DT!CascadeTo(t, p)
           c == DT!CascadePayload(r, p.status)
           w == DT!Handle(u, DT!Caused(id, r), c)
<1>1. /\ Sound(u)
      /\ \A j \in Key : j # p.key => u.ent[j] = t.ent[j]
      /\ \A b \in Bridge : t.ent[b] # Absent => u.ent[b] # Absent
      /\ p.kind = "bridge" /\ DT!Applies(t, id, p) => u.ent[p.key].road = r
      /\ ~DT!Applies(t, id, p) /\ (p.kind = "capacity" \/ t.ent[p.key] # Absent) =>
           u.ent = t.ent
  BY HandleKeeps
<1>2. CASE ~DT!Cascades(t, id, p)
  <2>1. DT!ApplyEvent(t, id, p) = u
    BY <1>2 DEF DT!ApplyEvent
  <2> HIDE DEF u
  <2> QED BY <1>1, <2>1
<1>3. CASE DT!Cascades(t, id, p)
  <2>1. DT!ApplyEvent(t, id, p) = w /\ DT!Applies(t, id, p) /\ p.kind = "bridge" /\ r # Absent
    BY <1>3 DEF DT!ApplyEvent, DT!Cascades
  <2>2. r \in Road
    <3>1. DT!Current(t, p) \in DT!BridgeEntity
      BY <2>1, BridgeTarget
    <3> QED BY <2>1, <3>1 DEF DT!CascadeTo, DT!BridgeEntity
  <2>3. c.key = r /\ c.kind = "road"
    BY DEF DT!CascadePayload
  <2>4. p.key \in Bridge /\ p.key \in Key /\ p.key # r /\ r \in Key
    BY <2>1, <2>2, KeysApart DEF Fits, Key
  <2> HIDE DEF u, r, c
  <2>5. Fits(c)
    BY <2>2, <2>3, <2>4, KeysApart DEF Fits
  <2>6. /\ Sound(w)
        /\ \A j \in Key : j # r => w.ent[j] = u.ent[j]
        /\ \A b \in Bridge : u.ent[b] # Absent => w.ent[b] # Absent
    BY <1>1, <2>3, <2>5, HandleKeeps
  <2> HIDE DEF w
  <2>7. w.ent[p.key].road = r
    BY <1>1, <2>1, <2>4, <2>6
  <2> QED BY <1>1, <1>3, <2>1, <2>2, <2>6, <2>7
<1> QED BY <1>2, <1>3

--------------------------------------------------------------------------------
(* The invariant *)

\* The bridges a scenario still has to fail are known.
Known(mods, t) ==
  \A i \in DOMAIN mods : mods[i].kind = "bridge" => t.ent[mods[i].key] # Absent

InFork(q) ==
  /\ Sound(q.fork)
  /\ q.teams \subseteq Available

\* The locals of a preview that modifies its fork.
IsModifying(q) ==
  q = [pc |-> q.pc, todo |-> q.todo, base |-> q.base, route |-> q.route, start |-> q.start,
       fork |-> q.fork, teams |-> q.teams, named |-> q.named, shortages |-> q.shortages,
       closing |-> q.closing]

AllNamed(q) == \A k \in Key : q.fork.ent[k] # q.start[k] => k \in q.named

\* The teams off duty are those the shortages so far have named.
OffNamed(q) == q.teams = Available \ UNION {x.off : x \in q.shortages}

WithinReport(q) ==
  /\ \A x \in q.shortages :
       /\ x.quantity \in Nat
       /\ Cardinality(q.teams) <= x.quantity \/ Cardinality(Available) <= x.quantity
  /\ OffNamed(q)

Modifies(q) ==
  /\ IsModifying(q)
  /\ InFork(q)
  /\ q.todo \in Seq(Modification) /\ Known(q.todo, q.fork)
  /\ q.closing \subseteq {r \in Road : q.fork.ent[r] # Absent}
  /\ AllNamed(q)
  /\ WithinReport(q)

PInv(q) ==
  /\ q.pc \in {"idle", "fork", "baseline", "modify", "done", "failed"}
  /\ q.pc = "fork" => q.scenario \in Scenario /\ Known(q.scenario.mods, twin)
  /\ q.pc = "baseline" =>
       /\ q.scenario \in Scenario /\ InFork(q) /\ q.teams = Available
       /\ Known(q.scenario.mods, q.fork) /\ q.fork.ent = q.start
  /\ q.pc = "modify" => Modifies(q)
  /\ q.pc = "done" =>
       /\ AllNamed(q) /\ WithinReport(q)
       /\ \A r \in Road :
            q.fork.ent[r] = "BLOCKED" /\ q.start[r] # "BLOCKED" =>
              r \in q.blocked \/ q.base[r] # q.start[r]

IInv == Sound(twin) /\ PInv(preview)

--------------------------------------------------------------------------------
(* The live twin *)

\* A twin keeps the bridges it knows.
LEMMA KnownStay ==
  ASSUME NEW t, NEW u, NEW mods \in Seq(Modification), Known(mods, t),
         \A b \in Bridge : t.ent[b] # Absent => u.ent[b] # Absent
  PROVE  Known(mods, u)
<1> SUFFICES ASSUME NEW i \in DOMAIN mods, mods[i].kind = "bridge"
             PROVE  u.ent[mods[i].key] # Absent
  BY DEF Known
<1>1. mods[i] \in Modification
  OBVIOUS
<1>2. mods[i].key \in Bridge
  BY <1>1 DEF Modification
<1> QED BY <1>2 DEF Known

\* Every event the live twin receives names an entity of its own kind.
LEMMA LiveFits ==
  ASSUME NEW x \in LiveEvent
  PROVE  Fits(x[2])
<1>1. x[2] \in DT!AnyPayload
  BY LiveTyped
<1>2. x[2] \in DT!RoadPayload => Fits(x[2])
  BY KeysApart DEF DT!RoadPayload, Fits, Key
<1>3. x[2] \in DT!BridgePayload => Fits(x[2])
  BY KeysApart DEF DT!BridgePayload, Fits, Key
<1>4. x[2] \in DT!CapacityPayload => Fits(x[2])
  BY KeysApart DEF DT!CapacityPayload, Fits, Key
<1>5. x[2] \in DT!FacilityPayload => Fits(x[2])
  BY KeysApart DEF DT!FacilityPayload, Fits, Key
<1>6. x[2] \in DT!IncidentPayload => Fits(x[2])
  BY DEF DT!IncidentPayload
<1>7. x[2] \in DT!AreaPayload => Fits(x[2])
  BY KeysApart DEF DT!AreaPayload, Fits, Key
<1> QED BY <1>1, <1>2, <1>3, <1>4, <1>5, <1>6, <1>7 DEF DT!AnyPayload

\* The preview does not notice a twin that keeps its bridges.
LEMMA LiveKeeps ==
  ASSUME IInv, Sound(twin'), UNCHANGED preview,
         \A b \in Bridge : twin.ent[b] # Absent => twin'.ent[b] # Absent
  PROVE  IInv'
<1>1. ASSUME preview.pc = "fork"
      PROVE  Known(preview.scenario.mods, twin')
  <2>1. preview.scenario \in Scenario /\ Known(preview.scenario.mods, twin)
    BY <1>1 DEF IInv, PInv
  <2>2. preview.scenario.mods \in Seq(Modification)
    BY <2>1, InputsTyped
  <2> QED BY <2>1, <2>2, KnownStay
<1> QED
  BY <1>1 DEF IInv, PInv, Modifies, IsModifying, InFork, AllNamed, WithinReport, OffNamed, Known

\* An event on the live twin loses no bridge.
LEMMA LiveUpdateKeeps ==
  ASSUME IInv, NEW x \in LiveEvent, LiveUpdate(x[1], x[2])
  PROVE  IInv'
<1>1. Fits(x[2]) /\ Sound(twin)
  BY LiveFits DEF IInv
<1>2. twin' = DT!ApplyEvent(twin, x[1], x[2]) /\ UNCHANGED preview
  BY DEF LiveUpdate, Overridden
<1>3. Sound(twin') /\ \A b \in Bridge : twin.ent[b] # Absent => twin'.ent[b] # Absent
  BY <1>1, <1>2, EventKeeps
<1> QED BY <1>2, <1>3, LiveKeeps

\* An override leaves the entities alone.
LEMMA OverrideKeeps ==
  ASSUME IInv, UNCHANGED preview, NEW o, twin' = [twin EXCEPT !.overlay = o]
  PROVE  IInv'
<1>1. twin'.ent = twin.ent
  OBVIOUS
<1>2. Sound(twin')
  BY <1>1 DEF IInv, Sound
<1> QED BY <1>1, <1>2, LiveKeeps

--------------------------------------------------------------------------------
(* The steps of a preview *)

\* The live twin starts sound and no preview has begun.
LEMMA StartsSound == Init => IInv
<1> SUFFICES ASSUME Init PROVE IInv
  OBVIOUS
<1>1. PICK o : twin = DT!Manager(0, Registered, {}, <<>>, o)
  BY DEF Init
<1>2. twin.ent = Registered
  BY <1>1 DEF DT!Manager
<1>3. Sound(twin)
  BY <1>2, LiveTyped, EntityOfKinds DEF Sound, DT!Key
<1> QED BY <1>3 DEF Init, IInv, PInv, Idle

\* A validated scenario fails only bridges that the live twin knows.
LEMMA ValidateKeeps ==
  ASSUME IInv, NEW sc \in Scenario, Validate(sc)
  PROVE  IInv'
<1>1. UNCHANGED twin
  BY DEF Validate
<1>2. CASE Valid(sc)
  <2>1. preview'.pc = "fork" /\ preview'.scenario = sc
    BY <1>2 DEF Validate
  <2>2. Known(sc.mods, twin)
    BY <1>2 DEF Valid, Known
  <2> QED BY <1>1, <2>1, <2>2 DEF IInv, PInv, Known, Sound
<1>3. CASE ~Valid(sc)
  BY <1>1, <1>3 DEF Validate, IInv, PInv, Sound
<1> QED BY <1>2, <1>3

\* A fork starts with the entities of the live twin.
LEMMA ForkKeeps ==
  ASSUME IInv, Fork
  PROVE  IInv'
<1>1. PICK f \in DT!Forks(twin) :
        preview' = [pc |-> "baseline", scenario |-> preview.scenario, route |-> preview.route,
                    start |-> f.ent, fork |-> f, teams |-> Available]
  BY DEF Fork
<1>2. f.ent = twin.ent
  BY DEF DT!Forks, DT!Manager
<1>3. Sound(f) /\ UNCHANGED twin
  BY <1>2 DEF IInv, Sound, Fork
<1>4. preview.scenario \in Scenario /\ Known(preview.scenario.mods, f)
  BY <1>2 DEF IInv, PInv, Fork, Known
<1> QED BY <1>1, <1>3, <1>4 DEF IInv, PInv, InFork, Known, Sound

\* However young the baseline, the fork is still what it started as.
LEMMA BaselineKeeps ==
  ASSUME IInv, ReadBaseline
  PROVE  IInv'
<1>1. /\ preview.scenario.mods \in Seq(Modification) /\ InFork(preview)
      /\ preview.teams = Available
      /\ Known(preview.scenario.mods, preview.fork) /\ preview.fork.ent = preview.start
  BY InputsTyped DEF IInv, PInv, ReadBaseline
<1>2. preview' = [pc |-> "modify", todo |-> preview.scenario.mods, base |-> twin.ent,
                  route |-> preview.route, start |-> preview.start, fork |-> preview.fork,
                  teams |-> preview.teams,
                  named |-> {}, shortages |-> {}, closing |-> {}]
      /\ UNCHANGED twin
  BY DEF ReadBaseline
<1>3. IsModifying(preview') /\ AllNamed(preview') /\ WithinReport(preview')
  BY <1>1, <1>2 DEF IsModifying, AllNamed, WithinReport, OffNamed
<1>4. Modifies(preview')
  BY <1>1, <1>2, <1>3 DEF Modifies, InFork, Known
<1> QED BY <1>2, <1>4 DEF IInv, PInv, Sound

\* An event of the preview that names what it changes.
LEMMA EventStays ==
  ASSUME Modifies(preview), NEW id, NEW p, Fits(p), NEW q,
         IsModifying(q), q.fork = DT!ApplyEvent(preview.fork, id, p),
         q.start = preview.start, q.teams = preview.teams, q.shortages = preview.shortages,
         q.todo \in Seq(Modification), Known(q.todo, preview.fork),
         preview.named \subseteq q.named,
         \A r \in q.closing : r \in Road /\ q.fork.ent[r] # Absent,
         \A k \in Key : q.fork.ent[k] # preview.fork.ent[k] => k \in q.named
  PROVE  Modifies(q)
<1>1. Sound(q.fork) /\ \A b \in Bridge : preview.fork.ent[b] # Absent => q.fork.ent[b] # Absent
  BY EventKeeps DEF Modifies, InFork
<1>2. Known(q.todo, q.fork)
  BY <1>1, KnownStay
<1>3. AllNamed(q) /\ WithinReport(q)
  BY DEF Modifies, AllNamed, WithinReport, OffNamed
<1> QED BY <1>1, <1>2, <1>3 DEF Modifies, InFork

\* What the next modification is, and what is left after it.
LEMMA ToDo ==
  ASSUME Modifies(preview), NEW kind, Modifying(kind)
  PROVE  /\ Head(preview.todo) \in Modification /\ Head(preview.todo).kind = kind
         /\ Tail(preview.todo) \in Seq(Modification)
         /\ Known(Tail(preview.todo), preview.fork)
         /\ kind = "bridge" => preview.fork.ent[Head(preview.todo).key] # Absent
         /\ preview.closing = {}
<1>1. preview.todo \in Seq(Modification) /\ preview.todo # <<>> /\ Known(preview.todo, preview.fork)
  BY DEF Modifies, Modifying
<1>2. /\ Head(preview.todo) = preview.todo[1] /\ 1 \in DOMAIN preview.todo
      /\ Tail(preview.todo) \in Seq(Modification)
      /\ \A i \in DOMAIN Tail(preview.todo) :
           i + 1 \in DOMAIN preview.todo /\ Tail(preview.todo)[i] = preview.todo[i + 1]
  BY <1>1
<1> QED BY <1>1, <1>2 DEF Modifying, Known

\* A failed bridge is named, and so is the road it takes with it.
LEMMA FailBridgeKeeps ==
  ASSUME Modifies(preview), FailBridge
  PROVE  Modifies(preview') /\ preview'.pc = "modify"
<1> DEFINE m == Head(preview.todo)
           p == [kind |-> "bridge", key |-> m.key, status |-> "BLOCKED", propagate |-> m.propagate]
           w == DT!ApplyEvent(preview.fork, Scenario_(m.key), p)
           names == IF Applied(m.key, p)
                    THEN preview.named \cup ({m.key, w.ent[m.key].road} \ {Absent})
                    ELSE preview.named
<1>1. /\ m \in Modification /\ m.kind = "bridge" /\ Tail(preview.todo) \in Seq(Modification)
      /\ Known(Tail(preview.todo), preview.fork) /\ preview.fork.ent[m.key] # Absent
      /\ preview.closing = {}
  BY ToDo DEF FailBridge
<1>2. m.key \in Bridge /\ m.key # Absent
  BY <1>1, KeysApart DEF Modification
<1>3. preview' = [preview EXCEPT !.todo = Tail(preview.todo), !.fork = w, !.named = names]
  BY DEF FailBridge, Event
<1>4. Fits(p)
  BY <1>2 DEF Fits, Key, DT!BridgeStatus
<1>5. p.key = m.key /\ p.kind = "bridge"
  OBVIOUS
<1> HIDE DEF m, p
<1>6. \A k \in Key : w.ent[k] # preview.fork.ent[k] => k \in names
  <2> SUFFICES ASSUME NEW k \in Key, w.ent[k] # preview.fork.ent[k]
               PROVE  k \in names
    OBVIOUS
  <2>1. Sound(preview.fork)
    BY DEF Modifies, InFork
  <2>2. Applied(m.key, p)
    BY <1>1, <1>4, <1>5, <2>1, EventKeeps DEF Applied
  <2>3. k = m.key \/ (k \in Road /\ k = w.ent[m.key].road)
    BY <1>4, <1>5, <2>1, EventKeeps
  <2> QED BY <1>2, <2>2, <2>3, KeysApart
<1> HIDE DEF w, names
<1>7. /\ IsModifying(preview') /\ preview'.pc = preview.pc /\ preview'.todo = Tail(preview.todo)
      /\ preview'.fork = w /\ preview'.named = names /\ preview'.closing = {}
      /\ preview'.start = preview.start /\ preview'.teams = preview.teams
      /\ preview'.shortages = preview.shortages
  BY <1>1, <1>3 DEF Modifies, IsModifying
<1>8. preview.named \subseteq names /\ w = DT!ApplyEvent(preview.fork, Scenario_(m.key), p)
  BY DEF names, w
<1>9. Modifies(preview')
  BY <1>1, <1>4, <1>6, <1>7, <1>8, EventStays
<1> QED BY <1>7, <1>9 DEF FailBridge, Modifying

\* A change of beds, if it is not refused.
LEMMA ChangeCapacityKeeps ==
  ASSUME Modifies(preview), ChangeCapacity
  PROVE  preview'.pc = "failed" \/ (Modifies(preview') /\ preview'.pc = "modify")
<1> DEFINE m == Head(preview.todo)
           p == [kind |-> "capacity", key |-> m.key, cap |-> preview.base[m.key].cap,
                 avail |-> m.avail]
           w == DT!ApplyEvent(preview.fork, Scenario_(m.key), p)
           names == IF Applied(m.key, p) THEN preview.named \cup {m.key} ELSE preview.named
<1>1. CASE Refused(m.key, p)
  <2>1. preview' = [pc |-> "failed"]
    BY <1>1 DEF ChangeCapacity
  <2> QED BY <2>1
<1>2. CASE ~Refused(m.key, p)
  <2>1. /\ m \in Modification /\ m.kind = "capacity" /\ Tail(preview.todo) \in Seq(Modification)
        /\ Known(Tail(preview.todo), preview.fork) /\ preview.closing = {}
    BY ToDo DEF ChangeCapacity
  <2>2. m.key \in Facility
    BY <2>1 DEF Modification
  <2>3. preview' = [preview EXCEPT !.todo = Tail(preview.todo), !.fork = w, !.named = names]
    BY <1>2 DEF ChangeCapacity, Event
  <2>4. Fits(p)
    BY <2>2, KeysApart DEF Fits, Key
  <2>5. p.key = m.key /\ p.kind = "capacity"
    OBVIOUS
  <2> HIDE DEF m, p
  <2>6. \A k \in Key : w.ent[k] # preview.fork.ent[k] => k \in names
    <3> SUFFICES ASSUME NEW k \in Key, w.ent[k] # preview.fork.ent[k]
                 PROVE  k \in names
      OBVIOUS
    <3>1. Sound(preview.fork)
      BY DEF Modifies, InFork
    <3>2. Applied(m.key, p)
      BY <2>4, <2>5, <3>1, EventKeeps DEF Applied
    <3>3. k = m.key
      BY <2>4, <2>5, <3>1, EventKeeps DEF DT!Cascades
    <3> QED BY <3>2, <3>3
  <2> HIDE DEF w, names
  <2>7. /\ IsModifying(preview') /\ preview'.pc = preview.pc /\ preview'.todo = Tail(preview.todo)
        /\ preview'.fork = w /\ preview'.named = names /\ preview'.closing = {}
        /\ preview'.start = preview.start /\ preview'.teams = preview.teams
        /\ preview'.shortages = preview.shortages
    BY <2>1, <2>3 DEF Modifies, IsModifying
  <2>8. preview.named \subseteq names /\ w = DT!ApplyEvent(preview.fork, Scenario_(m.key), p)
    BY DEF names, w
  <2>9. Modifies(preview')
    BY <2>1, <2>4, <2>6, <2>7, <2>8, EventStays
  <2> QED BY <2>7, <2>9 DEF ChangeCapacity, Modifying
<1> QED BY <1>1, <1>2

\* A flood changes its zone, and closes roads that the fork knows.
LEMMA RaiseFloodKeeps ==
  ASSUME Modifies(preview), RaiseFlood
  PROVE  Modifies(preview') /\ preview'.pc = "modify"
<1> DEFINE m == Head(preview.todo)
           p == [kind |-> "area", key |-> FloodZone, datum |-> SeverityOf(Depth(m))]
           w == DT!ApplyEvent(preview.fork, Scenario_(FloodZone), p)
           closing == {r \in Road : preview.fork.ent[r] # Absent /\ ClosureRecommended(m, r)}
<1>1. Tail(preview.todo) \in Seq(Modification) /\ Known(Tail(preview.todo), preview.fork)
  BY ToDo DEF RaiseFlood
<1>2. preview' = [preview EXCEPT !.todo = Tail(preview.todo), !.fork = w,
                                 !.named = preview.named \cup {FloodZone}, !.closing = closing]
  BY DEF RaiseFlood, Event
<1>3. Fits(p)
  BY KeysApart DEF Fits, Key
<1>4. p.key = FloodZone /\ p.kind = "area"
  OBVIOUS
<1> HIDE DEF m, p
<1>5. \A k \in Key : w.ent[k] # preview.fork.ent[k] => k = FloodZone
  BY <1>3, <1>4, EventKeeps DEF Modifies, InFork, DT!Cascades
<1>6. \A r \in closing : r \in Road /\ w.ent[r] # Absent
  BY <1>5, KeysApart DEF Key
<1> HIDE DEF w, closing
<1>7. /\ IsModifying(preview') /\ preview'.pc = preview.pc /\ preview'.todo = Tail(preview.todo)
      /\ preview'.fork = w /\ preview'.named = preview.named \cup {FloodZone}
      /\ preview'.closing = closing
      /\ preview'.start = preview.start /\ preview'.teams = preview.teams
      /\ preview'.shortages = preview.shortages
  BY <1>2 DEF Modifies, IsModifying
<1>8. w = DT!ApplyEvent(preview.fork, Scenario_(FloodZone), p)
  BY DEF w
<1>9. Modifies(preview')
  BY <1>1, <1>3, <1>5, <1>6, <1>7, <1>8, EventStays
<1> QED BY <1>7, <1>9 DEF RaiseFlood, Modifying

\* A closed road is one the fork knows, so that a dropped event changes nothing.
LEMMA CloseRoadKeeps ==
  ASSUME Modifies(preview), NEW r \in Road, CloseRoad(r)
  PROVE  Modifies(preview') /\ preview'.pc = "modify"
<1> DEFINE p == [kind |-> "road", key |-> r, status |-> "BLOCKED"]
           w == DT!ApplyEvent(preview.fork, Scenario_(r), p)
           names == IF Applied(r, p) THEN preview.named \cup {r} ELSE preview.named
<1>1. preview.todo \in Seq(Modification) /\ Known(preview.todo, preview.fork)
  BY DEF Modifies
<1>2. preview' = [preview EXCEPT !.closing = preview.closing \ {r}, !.fork = w, !.named = names]
  BY DEF CloseRoad, Event
<1>3. Fits(p)
  BY KeysApart DEF Fits, Key
<1>4. p.key = r /\ p.kind = "road"
  OBVIOUS
<1> HIDE DEF p
<1>5. Sound(preview.fork) /\ preview.fork.ent[r] # Absent
  BY DEF Modifies, InFork, CloseRoad
<1>6. \A k \in Key : w.ent[k] # preview.fork.ent[k] => k = r /\ Applied(r, p)
  BY <1>3, <1>4, <1>5, EventKeeps DEF DT!Cascades, Applied
<1>7. \A s \in preview.closing \ {r} : s \in Road /\ w.ent[s] # Absent
  BY <1>6 DEF Modifies, Key
<1>8. \A k \in Key : w.ent[k] # preview.fork.ent[k] => k \in names
  BY <1>6
<1> HIDE DEF w, names
<1>9. /\ IsModifying(preview') /\ preview'.pc = preview.pc /\ preview'.todo = preview.todo
      /\ preview'.fork = w /\ preview'.named = names
      /\ preview'.closing = preview.closing \ {r}
      /\ preview'.start = preview.start /\ preview'.teams = preview.teams
      /\ preview'.shortages = preview.shortages
  BY <1>2 DEF Modifies, IsModifying
<1>10. preview.named \subseteq names /\ w = DT!ApplyEvent(preview.fork, Scenario_(r), p)
  BY DEF names, w
<1>11. Modifies(preview')
  BY <1>1, <1>3, <1>7, <1>8, <1>9, <1>10, EventStays
<1> QED BY <1>9, <1>11 DEF CloseRoad

\* A shortage leaves no more teams than it reports, and only ever fewer.
LEMMA ShortenTeamsKeeps ==
  ASSUME Modifies(preview), ShortenTeams
  PROVE  Modifies(preview') /\ preview'.pc = "modify"
<1> DEFINE m == Head(preview.todo)
<1>1. /\ m \in Modification /\ m.kind = "teams" /\ Tail(preview.todo) \in Seq(Modification)
      /\ Known(Tail(preview.todo), preview.fork)
  BY ToDo DEF ShortenTeams
<1>2. m.quantity \in Nat
  BY <1>1 DEF Modification
<1>3. PICK off \in SUBSET preview.teams :
        /\ Cardinality(off) = ToDisable(m)
        /\ preview' = [preview EXCEPT !.todo = Tail(preview.todo), !.teams = preview.teams \ off,
             !.shortages = preview.shortages \cup {[quantity |-> m.quantity, off |-> off]}]
  BY DEF ShortenTeams
<1> HIDE DEF m
<1> DEFINE left == preview.teams \ off
           all  == preview.shortages \cup {[quantity |-> m.quantity, off |-> off]}
<1>4. preview.teams \subseteq Available
  BY DEF Modifies, InFork
<1>5. IsFiniteSet(Available) /\ IsFiniteSet(preview.teams)
  BY <1>4, InputsTyped, FS_Subset
<1>6. /\ Cardinality(Available) \in Nat /\ Cardinality(preview.teams) \in Nat
      /\ Cardinality(left) = Cardinality(preview.teams) - Cardinality(off)
      /\ Cardinality(off) \in Nat /\ Cardinality(left) \in Nat
      /\ Cardinality(preview.teams) <= Cardinality(Available)
  <2>1. preview.teams \cap off = off
    OBVIOUS
  <2>2. IsFiniteSet(off) /\ IsFiniteSet(left)
    BY <1>5, FS_Subset
  <2>3. Cardinality(left) = Cardinality(preview.teams) - Cardinality(off)
    BY <1>5, <2>1, FS_Difference
  <2>4. Cardinality(preview.teams) <= Cardinality(Available)
    BY <1>4, <1>5, FS_Subset
  <2> QED BY <1>5, <2>2, <2>3, <2>4, FS_CardinalityType
<1> HIDE DEF left
<1>7. Cardinality(left) <= m.quantity \/ Cardinality(Available) <= m.quantity
  BY <1>2, <1>3, <1>6 DEF ToDisable, Least
<1> HIDE DEF all
<1>8. /\ IsModifying(preview') /\ preview'.pc = preview.pc /\ preview'.todo = Tail(preview.todo)
      /\ preview'.fork = preview.fork /\ preview'.named = preview.named
      /\ preview'.closing = preview.closing
      /\ preview'.start = preview.start /\ preview'.teams = left
      /\ preview'.shortages = all
  BY <1>3 DEF Modifies, IsModifying, left, all
<1>9. OffNamed(preview')
  <2> DEFINE x == [quantity |-> m.quantity, off |-> off]
  <2>1. preview.teams = Available \ UNION {y.off : y \in preview.shortages}
    BY DEF Modifies, WithinReport, OffNamed
  <2>2. x.off = off
    OBVIOUS
  <2> HIDE DEF x
  <2>3. UNION {y.off : y \in preview.shortages \cup {x}}
          = (UNION {y.off : y \in preview.shortages}) \cup off
    BY <2>2
  <2>4. left = Available \ UNION {y.off : y \in preview.shortages \cup {x}}
    BY <2>1, <2>3 DEF left
  <2>5. preview'.teams = left /\ preview'.shortages = preview.shortages \cup {x}
    BY <1>8 DEF all, x
  <2> QED BY <2>4, <2>5 DEF OffNamed
<1>11. WithinReport(preview')
  <2> SUFFICES ASSUME NEW x \in all
               PROVE  x.quantity \in Nat /\ (\/ Cardinality(left) <= x.quantity
                                             \/ Cardinality(Available) <= x.quantity)
    BY <1>8, <1>9 DEF WithinReport
  <2>1. CASE x \in preview.shortages
    BY <1>6, <2>1 DEF Modifies, WithinReport
  <2>2. CASE x = [quantity |-> m.quantity, off |-> off]
    BY <1>2, <1>7, <2>2
  <2> QED BY <2>1, <2>2 DEF all
<1>10. InFork(preview') /\ AllNamed(preview')
  BY <1>8 DEF Modifies, InFork, AllNamed, left
<1> QED BY <1>1, <1>8, <1>10, <1>11 DEF Modifies, Known, ShortenTeams, Modifying

\* What the result says is blocked: a road the baseline had as the fork began.
LEMMA ConcludeKeeps ==
  ASSUME IInv, Conclude
  PROVE  PInv(preview)'
<1>1. Modifies(preview)
  BY DEF IInv, PInv, Conclude
<1>2. CASE preview'.pc = "failed"
  BY <1>2 DEF PInv
<1>3. CASE preview'.pc # "failed"
  <2>1. /\ preview'.pc = "done" /\ preview'.fork = preview.fork /\ preview'.start = preview.start
        /\ preview'.base = preview.base /\ preview'.teams = preview.teams
        /\ preview'.shortages = preview.shortages /\ preview'.named = preview.named
        /\ preview'.blocked = Newly("BLOCKED")
    BY <1>3 DEF Conclude
  <2>2. AllNamed(preview') /\ WithinReport(preview')
    BY <1>1, <2>1 DEF Modifies, AllNamed, WithinReport, OffNamed
  <2>3. \A r \in Road :
          preview'.fork.ent[r] = "BLOCKED" /\ preview'.start[r] # "BLOCKED" =>
            r \in preview'.blocked \/ preview'.base[r] # preview'.start[r]
    BY <2>1 DEF Newly
  <2> QED BY <2>1, <2>2, <2>3 DEF PInv
<1> QED BY <1>2, <1>3

--------------------------------------------------------------------------------
(* Theorems *)

\* One case for each action; those of the route client change neither part.
LEMMA Inductive == IInv /\ [Next]_vars => IInv'
<1> SUFFICES ASSUME IInv, [Next]_vars PROVE IInv'
  OBVIOUS
<1> USE DEF IInv
<1>1. ASSUME NEW x \in LiveEvent, LiveUpdate(x[1], x[2]) PROVE IInv'
  BY <1>1, LiveUpdateKeeps
<1>2. ASSUME NEW x \in Override, SetRoadOverride(x[1], x[2]) PROVE IInv'
  <2>1. /\ twin' = [twin EXCEPT !.overlay = [twin.overlay EXCEPT ![x[1]] = x[2]]]
        /\ UNCHANGED preview
    BY <1>2 DEF SetRoadOverride, Overridden
  <2> QED BY <2>1, OverrideKeeps
<1>3. ASSUME NEW r \in Road, ClearRoadOverride(r) PROVE IInv'
  <2>1. /\ twin' = [twin EXCEPT !.overlay = [twin.overlay EXCEPT ![r] = Absent]]
        /\ UNCHANGED preview
    BY <1>3 DEF ClearRoadOverride, Overridden
  <2> QED BY <2>1, OverrideKeeps
<1>4. CASE ClearAllOverrides
  BY <1>4, OverrideKeeps DEF ClearAllOverrides, Overridden
<1>5. ASSUME UNCHANGED <<twin, preview>> PROVE IInv'
  BY <1>5 DEF PInv, Modifies, IsModifying, InFork, AllNamed, WithinReport, OffNamed, Known, Sound
<1>6. CASE \E req \in Request : AskRoute(req)
  BY <1>5, <1>6 DEF AskRoute
<1>7. CASE SearchRound \/ SearchDone \/ EvaluateAndReroute
  BY <1>5, <1>7 DEF SearchRound, SearchDone, EvaluateAndReroute
<1>8. ASSUME NEW sc \in Scenario, Validate(sc) PROVE IInv'
  BY <1>8, ValidateKeeps
<1>9. CASE Fork
  BY <1>9, ForkKeeps
<1>10. CASE ReadBaseline
  BY <1>10, BaselineKeeps
<1>11. ASSUME UNCHANGED twin,
              preview'.pc = "failed" \/ (Modifies(preview') /\ preview'.pc = "modify")
       PROVE  IInv'
  BY <1>11 DEF PInv, Sound, Modifies, IsModifying, InFork, AllNamed, WithinReport, OffNamed, Known
<1>12. preview.pc = "modify" => Modifies(preview)
  BY DEF PInv
<1>13. CASE FailBridge
  BY <1>11, <1>12, <1>13, FailBridgeKeeps DEF FailBridge, Modifying
<1>14. CASE ChangeCapacity
  BY <1>11, <1>12, <1>14, ChangeCapacityKeeps DEF ChangeCapacity, Modifying
<1>15. CASE ShortenTeams
  BY <1>11, <1>12, <1>15, ShortenTeamsKeeps DEF ShortenTeams, Modifying
<1>16. CASE RaiseFlood
  BY <1>11, <1>12, <1>16, RaiseFloodKeeps DEF RaiseFlood, Modifying
<1>17. ASSUME NEW r \in Road, CloseRoad(r) PROVE IInv'
  BY <1>11, <1>12, <1>17, CloseRoadKeeps DEF CloseRoad
<1>18. CASE Conclude
  <2>1. UNCHANGED twin
    BY <1>18 DEF Conclude
  <2> QED BY <1>18, <2>1, ConcludeKeeps DEF Sound
<1>19. CASE UNCHANGED vars
  BY <1>5, <1>19 DEF vars
<1> QED BY <1>1, <1>2, <1>3, <1>4, <1>6, <1>7, <1>8, <1>9, <1>10, <1>13, <1>14, <1>15, <1>16,
           <1>17, <1>18, <1>19 DEF Next

\* The twin keeps its bridges, and a preview's locals belong together at every step.
THEOREM PreviewInvariant == Spec => []IInv
<1>1. Init => IInv
  BY StartsSound
<1> QED BY <1>1, Inductive, PTL DEF Spec

\* The result of a preview names every entity that the scenario changed on the fork,
\* and every road it blocked unless the live road changed before the baseline was
\* read, for every scenario and however the live twin changes meanwhile.
THEOREM PreviewTells == Spec => []ChangesReported
<1>1. IInv => ChangesReported
  BY DEF IInv, PInv, AllNamed, ChangesReported
<1> QED BY <1>1, PreviewInvariant, PTL

\* However many shortages a scenario has and whichever teams they take, none leaves
\* more teams than it reports, and they name all teams that are off duty.
THEOREM ShortagesHold == Spec => []TeamsWithinReport
<1>1. IInv => TeamsWithinReport
  BY DEF IInv, PInv, WithinReport, OffNamed, TeamsWithinReport
<1> QED BY <1>1, PreviewInvariant, PTL

--------------------------------------------------------------------------------
(* The route client *)

\* A search for one of the requests, on an overlay that changed on the roads of T.
SearchHolds(s, over, T) ==
  /\ s.req \in Request
  /\ IF Snaps(s.req) THEN SoundSearch(s, over, T) ELSE s = Begin(s.req)

\* The route that a reroute replaces: it has private edges only if its request allows
\* them, and on every road it names as affected, unless that changed meanwhile, an
\* edge that the router's own policy still forbids.
OldHolds(c, over, T) ==
  /\ IsRoute(c.old) /\ c.old.req = c.search.req
  /\ \A e \in EdgesOf(c.old) : e \in Edge /\ (EdgeData[e].private => c.old.req.private)
  /\ \A r \in c.affected :
       \/ r \in T
       \/ \E d \in EdgesOf(c.old) :
            /\ EdgeData[d].road = r
            /\ ~Traversable(d, over, DefaultPolicy, c.old.req.vehicle)

Searches(c) ==
  c = [pc |-> c.pc, search |-> c.search, old |-> c.old, affected |-> c.affected]

Plans(c) ==
  /\ c.search.status # "searching"
  /\ c.route = IF c.search.status = "found" THEN RouteOf(c.search) ELSE Absent

CInv(c) ==
  \/ c = Idle
  \/ /\ \/ c.pc = "search" /\ Searches(c)
        \/ c.pc = "planned" /\ Plans(c)
     /\ SearchHolds(c.search, twin.overlay, touched)
     /\ c.affected \subseteq Road
     /\ c.old = Absent \/ OldHolds(c, twin.overlay, touched)

Routed == CInv(client) /\ touched \subseteq Road

\* What a finished search has found is a route for its request.
LEMMA RouteIsRoute ==
  ASSUME NEW s, NEW over, NEW T, SearchHolds(s, over, T), s.status = "found"
  PROVE  /\ SoundSearch(s, over, T) /\ Snaps(s.req)
         /\ IsRoute(RouteOf(s)) /\ RouteOf(s) # Absent
         /\ RouteOf(s).req = s.req /\ RouteOf(s).path = Path(s)
         /\ IsWayBack(s, Path(s))
         /\ \A i \in 1..Len(Path(s)) : Allowed(Path(s)[i], s, over, T)
         /\ \A e \in EdgesOf(RouteOf(s)) :
              e \in Edge /\ (EdgeData[e].private => s.req.private)
<1>1. Snaps(s.req)
  <2>1. Begin(s.req).status = "none" \/ Snaps(s.req)
    BY DEF Begin, Search
  <2> QED BY <2>1 DEF SearchHolds
<1>2. SoundSearch(s, over, T)
  BY <1>1 DEF SearchHolds
<1>3. Tree(s, over, T) /\ Acyclic(s) /\ Goal(s) \in Reached(s)
  BY <1>2 DEF SoundSearch, Open
<1>4. IsWayBack(s, Path(s))
  BY <1>3, PathIsWayBack
<1>5. /\ Path(s) \in Seq(Edge) /\ Len(Path(s)) < Cardinality(Node)
      /\ \A i \in 1..Len(Path(s)) : Allowed(Path(s)[i], s, over, T)
  BY <1>3, <1>4, WayBackReads
<1>6. RouteOf(s) = [path |-> Path(s), req |-> s.req]
  BY DEF RouteOf
<1>7. s.req \in Request /\ s.req \in RouteRequest
  BY InputsTyped DEF SearchHolds
<1>8. RouteOf(s) \in [path : Seq(Edge), req : RouteRequest]
  BY <1>5, <1>6, <1>7
<1>9. RouteOf(s) # Absent
  BY <1>8, KeysApart
<1>10. IsRoute(RouteOf(s))
  BY <1>5, <1>6, <1>7 DEF IsRoute
<1>11. ASSUME NEW e \in EdgesOf(RouteOf(s))
       PROVE  e \in Edge /\ (EdgeData[e].private => s.req.private)
  <2>1. PICK i \in DOMAIN Path(s) : e = Path(s)[i]
    BY <1>6, <1>11 DEF EdgesOf
  <2>2. i \in 1..Len(Path(s)) /\ e \in Edge
    BY <1>5, <2>1
  <2> QED BY <1>5, <2>1, <2>2 DEF Allowed
<1> QED BY <1>1, <1>2, <1>4, <1>5, <1>6, <1>9, <1>10, <1>11

\* A client that waits sees roads change only as far as touched tells.
LEMMA LiveRouted ==
  ASSUME Routed, UNCHANGED client, touched \subseteq touched', touched' \subseteq Road,
         \A r \in Road : twin'.overlay[r] # twin.overlay[r] => r \in touched'
  PROVE  Routed'
<1>1. CASE client = Idle
  BY <1>1 DEF Routed, CInv, Idle
<1>2. CASE client # Idle
  <2>1. SearchHolds(client'.search, twin'.overlay, touched')
    <3>1. CASE Snaps(client.search.req)
      <4>1. SoundSearch(client.search, twin.overlay, touched)
        BY <1>2, <3>1 DEF Routed, CInv, SearchHolds
      <4>2. SoundSearch(client.search, twin'.overlay, touched')
        BY <4>1, OverlayChange
      <4> QED BY <1>2, <3>1, <4>2 DEF Routed, CInv, SearchHolds
    <3> QED BY <1>2, <3>1 DEF Routed, CInv, SearchHolds
  <2>2. ASSUME OldHolds(client, twin.overlay, touched)
        PROVE  OldHolds(client', twin'.overlay, touched')
    <3>1. ASSUME NEW r \in client.affected
          PROVE  \/ r \in touched'
                 \/ \E d \in EdgesOf(client.old) :
                      /\ EdgeData[d].road = r
                      /\ ~Traversable(d, twin'.overlay, DefaultPolicy, client.old.req.vehicle)
      <4>1. CASE r \in touched
        BY <4>1
      <4>2. CASE r \notin touched
        <5>1. PICK d \in EdgesOf(client.old) :
                /\ EdgeData[d].road = r
                /\ ~Traversable(d, twin.overlay, DefaultPolicy, client.old.req.vehicle)
          BY <2>2, <3>1, <4>2 DEF OldHolds
        <5>2. d \in Edge /\ r \in Road
          BY <2>2, <5>1, EdgeFacts DEF OldHolds
        <5>3. CASE r \notin touched'
          <6>1. twin'.overlay[r] = twin.overlay[r]
            BY <5>2, <5>3
          <6>2. Traversable(d, twin'.overlay, DefaultPolicy, client.old.req.vehicle)
                  = Traversable(d, twin.overlay, DefaultPolicy, client.old.req.vehicle)
            BY <5>1, <5>2, <6>1, SameRoadSameEdge
          <6> QED BY <5>1, <6>2
        <5> QED BY <5>3
      <4> QED BY <4>1, <4>2
    <3> QED BY <2>2, <3>1 DEF OldHolds
  <2> QED BY <1>2, <2>1, <2>2 DEF Routed, CInv, Plans, Searches
<1> QED BY <1>1, <1>2

\* The live side tells which roads it changes.
LEMMA OverriddenRouted ==
  ASSUME Routed, NEW over, over = twin'.overlay, Overridden(over)
  PROVE  Routed'
<1>1. UNCHANGED client /\ touched' = touched \cup Changed(twin'.overlay)
  BY DEF Overridden
<1>2. Changed(twin'.overlay) = {r \in Road : twin'.overlay[r] # twin.overlay[r]}
  BY DEF Changed
<1>3. touched \subseteq touched' /\ touched' \subseteq Road
  BY <1>1, <1>2 DEF Routed
<1>4. \A r \in Road : twin'.overlay[r] # twin.overlay[r] => r \in touched'
  BY <1>1, <1>2
<1> QED BY <1>1, <1>3, <1>4, LiveRouted

\* A request starts a search: unless the graph is out of reach, a sound one.
LEMMA BeginHolds ==
  ASSUME NEW req \in Request, NEW over
  PROVE  SearchHolds(Begin(req), over, {})
<1>1. req \in RouteRequest
  BY InputsTyped
<1>2. Begin(req).req = req
  BY DEF Begin, Search
<1>3. CASE Snaps(req)
  <2>1. SoundSearch(Begin(req), over, {})
    BY <1>1, <1>3, BeginSound
  <2> QED BY <1>2, <1>3, <2>1 DEF SearchHolds
<1> QED BY <1>2, <1>3 DEF SearchHolds

LEMMA AskRouteRouted ==
  ASSUME Routed, NEW req \in Request, AskRoute(req)
  PROVE  Routed'
<1>1. /\ client' = [pc |-> "search", search |-> Begin(req), old |-> Absent, affected |-> {}]
      /\ touched' = {}
  BY DEF AskRoute
<1>2. SearchHolds(Begin(req), twin'.overlay, {})
  BY <1>1, BeginHolds
<1>3. /\ client'.pc = "search" /\ client'.search = Begin(req) /\ client'.old = Absent
      /\ client'.affected = {} /\ Searches(client')
  BY <1>1 DEF Searches
<1>4. SearchHolds(client'.search, twin'.overlay, touched')
  BY <1>1, <1>2, <1>3
<1> QED BY <1>1, <1>3, <1>4 DEF Routed, CInv

\* A round of the search, on the overlay of the moment.
LEMMA SearchRoundRouted ==
  ASSUME Routed, SearchRound
  PROVE  Routed'
<1> DEFINE s == client.search
           t == Expand(s, twin.overlay)
<1>1. /\ client.pc = "search" /\ Searches(client) /\ SearchHolds(s, twin.overlay, touched)
      /\ s.status = "searching"
      /\ client.affected \subseteq Road
      /\ client.old = Absent \/ OldHolds(client, twin.overlay, touched)
  BY DEF SearchRound, Routed, CInv, Idle
<1>2. /\ client' = [client EXCEPT !.search = t]
      /\ UNCHANGED <<twin, touched>>
  BY DEF SearchRound
<1>3. Snaps(s.req)
  <2>1. Begin(s.req).status = "none" \/ Snaps(s.req)
    BY DEF Begin, Search
  <2> QED BY <1>1, <2>1 DEF SearchHolds
<1>4. SoundSearch(t, twin.overlay, touched) /\ t.req = s.req
  BY <1>1, <1>3, ExpandSound DEF SearchHolds
<1>5. SearchHolds(t, twin.overlay, touched)
  BY <1>1, <1>3, <1>4 DEF SearchHolds
<1> HIDE DEF s, t
<1>6. /\ client'.pc = "search" /\ Searches(client') /\ client'.search = t
      /\ client'.old = client.old /\ client'.affected = client.affected
  BY <1>1, <1>2 DEF Searches
<1>7. SearchHolds(client'.search, twin'.overlay, touched')
  BY <1>2, <1>5, <1>6
<1>8. OldHolds(client, twin.overlay, touched) => OldHolds(client', twin'.overlay, touched')
  BY <1>2, <1>4, <1>6 DEF OldHolds, s
<1> QED BY <1>1, <1>2, <1>6, <1>7, <1>8 DEF Routed, CInv

LEMMA SearchDoneRouted ==
  ASSUME Routed, SearchDone
  PROVE  Routed'
<1>1. /\ client.pc = "search" /\ SearchHolds(client.search, twin.overlay, touched)
      /\ client.search.status # "searching"
      /\ client.affected \subseteq Road
      /\ client.old = Absent \/ OldHolds(client, twin.overlay, touched)
  BY DEF SearchDone, Routed, CInv, Idle
<1>2. /\ client'.pc = "planned" /\ client'.search = client.search /\ client'.old = client.old
      /\ client'.affected = client.affected
      /\ client'.route = IF client.search.status = "found" THEN RouteOf(client.search)
                         ELSE Absent
      /\ UNCHANGED <<twin, touched>>
  BY DEF SearchDone
<1>3. SearchHolds(client'.search, twin'.overlay, touched')
  BY <1>1, <1>2 DEF SearchHolds
<1>4. OldHolds(client, twin.overlay, touched) => OldHolds(client', twin'.overlay, touched')
  BY <1>2 DEF OldHolds
<1>5. Plans(client')
  BY <1>1, <1>2 DEF Plans
<1> QED BY <1>1, <1>2, <1>3, <1>4, <1>5 DEF Routed, CInv

\* A reroute starts over for the request of the route it finds invalid.
LEMMA EvaluateRouted ==
  ASSUME Routed, EvaluateAndReroute
  PROVE  Routed'
<1> DEFINE r == client.route
           a == AffectedRoads(r, twin.overlay)
<1>1. /\ client.pc = "planned" /\ r # Absent /\ Plans(client)
      /\ SearchHolds(client.search, twin.overlay, touched)
  BY DEF EvaluateAndReroute, Routed, CInv, Idle
<1>2. client.search.status = "found" /\ r = RouteOf(client.search)
  BY <1>1 DEF Plans
<1>3. /\ IsRoute(r) /\ r.req = client.search.req
      /\ \A e \in EdgesOf(r) : e \in Edge /\ (EdgeData[e].private => r.req.private)
  BY <1>1, <1>2, RouteIsRoute
<1>4. /\ client' = [pc |-> "search", search |-> Begin(r.req), old |-> r, affected |-> a]
      /\ touched' = {} /\ UNCHANGED twin
  BY DEF EvaluateAndReroute
<1>5. r.req \in Request
  BY <1>3 DEF IsRoute
<1>6. SearchHolds(Begin(r.req), twin'.overlay, {})
  BY <1>4, <1>5, BeginHolds
<1>7. Begin(r.req).req = r.req
  BY DEF Begin, Search
<1>8. /\ a \subseteq Road
      /\ \A q \in a : \E d \in EdgesOf(r) :
           EdgeData[d].road = q /\ ~Traversable(d, twin.overlay, DefaultPolicy, r.req.vehicle)
  BY <1>3, EdgeFacts DEF AffectedRoads, AffectedEdges
<1> HIDE DEF r, a
<1>9. /\ client'.pc = "search" /\ client'.search = Begin(r.req) /\ client'.old = r
      /\ client'.affected = a /\ Searches(client')
  BY <1>4 DEF Searches
<1>10. SearchHolds(client'.search, twin'.overlay, touched')
  BY <1>4, <1>6, <1>9
<1>11. OldHolds(client', twin'.overlay, touched')
  BY <1>3, <1>4, <1>7, <1>8, <1>9 DEF OldHolds
<1> QED BY <1>4, <1>8, <1>9, <1>10, <1>11 DEF Routed, CInv

\* Whatever the live side does between the rounds, the client's search stays sound
\* for the roads that changed since it began, and its route is what the search found.
THEOREM RoutedInvariant == Spec => []Routed
<1>1. Init => Routed
  BY DEF Init, Routed, CInv
<1>2. Routed /\ [Next]_vars => Routed'
  <2> SUFFICES ASSUME Routed, [Next]_vars PROVE Routed'
    OBVIOUS
  <2>1. CASE \E x \in LiveEvent : LiveUpdate(x[1], x[2])
    BY <2>1, OverriddenRouted DEF LiveUpdate
  <2>2. CASE \E x \in Override : SetRoadOverride(x[1], x[2])
    BY <2>2, OverriddenRouted DEF SetRoadOverride
  <2>3. CASE \E r \in Road : ClearRoadOverride(r)
    BY <2>3, OverriddenRouted DEF ClearRoadOverride
  <2>4. CASE ClearAllOverrides
    BY <2>4, OverriddenRouted DEF ClearAllOverrides
  <2>5. CASE \E req \in Request : AskRoute(req)
    BY <2>5, AskRouteRouted
  <2>6. CASE SearchRound
    BY <2>6, SearchRoundRouted
  <2>7. CASE SearchDone
    BY <2>7, SearchDoneRouted
  <2>8. CASE EvaluateAndReroute
    BY <2>8, EvaluateRouted
  <2>9. ASSUME UNCHANGED <<twin, client, touched>> PROVE Routed'
    <3>1. UNCHANGED client /\ touched \subseteq touched' /\ touched' \subseteq Road
          /\ \A r \in Road : twin'.overlay[r] # twin.overlay[r] => r \in touched'
      BY <2>9 DEF Routed
    <3> QED BY <3>1, LiveRouted
  <2>10. CASE (\E sc \in Scenario : Validate(sc)) \/ Fork \/ ReadBaseline
    BY <2>9, <2>10 DEF Validate, Fork, ReadBaseline
  <2>11. CASE FailBridge \/ ChangeCapacity \/ ShortenTeams \/ RaiseFlood
    BY <2>9, <2>11 DEF FailBridge, ChangeCapacity, ShortenTeams, RaiseFlood
  <2>12. CASE (\E r \in Road : CloseRoad(r)) \/ Conclude
    BY <2>9, <2>12 DEF CloseRoad, Conclude
  <2>13. CASE UNCHANGED vars
    BY <2>9, <2>13 DEF vars
  <2> QED BY <2>1, <2>2, <2>3, <2>4, <2>5, <2>6, <2>7, <2>8, <2>10, <2>11, <2>12, <2>13 DEF Next
<1> QED BY <1>1, <1>2, PTL DEF Spec

--------------------------------------------------------------------------------
(* What the routes are worth *)

\* EmergencyRouter, for every graph and every interleaving of a search with changes of
\* the overlay: its route is a chain of edges from source to goal, and only on a road
\* that changed meanwhile may an edge be one the request forbids.
THEOREM RoutesPassable == Spec => []PassableUnlessRaced
<1>1. Routed => PassableUnlessRaced
  <2> DEFINE p     == client.route.path
             req   == client.route.req
             at(i) == IF i = 0 THEN Nearest(req.from) ELSE EdgeData[p[i]].to
             s     == client.search
  <2> SUFFICES ASSUME Routed, client.pc = "planned", client.route # Absent
               PROVE  /\ \A i \in DOMAIN p :
                           /\ EdgeData[p[i]].from = at(i - 1)
                           /\ \/ Traversable(p[i], twin.overlay, PolicyOf(req), req.vehicle)
                              \/ EdgeData[p[i]].road \in touched
                      /\ at(Len(p)) = Nearest(req.to)
    BY DEF PassableUnlessRaced
  <2>1. /\ SearchHolds(s, twin.overlay, touched) /\ s.status = "found"
        /\ client.route = RouteOf(s)
    BY DEF Routed, CInv, Plans, Idle
  <2>2. /\ SoundSearch(s, twin.overlay, touched) /\ req = s.req /\ p = Path(s)
        /\ IsWayBack(s, p)
    BY <2>1, RouteIsRoute
  <2>3. Tree(s, twin.overlay, touched) /\ Acyclic(s)
    BY <2>2 DEF SoundSearch, Open
  <2>4. /\ p \in Seq(Edge) /\ (p = <<>> <=> Source(s) = Goal(s))
        /\ p # <<>> => EdgeData[p[1]].from = Source(s) /\ EdgeData[p[Len(p)]].to = Goal(s)
        /\ \A i \in 1..(Len(p) - 1) : EdgeData[p[i]].to = EdgeData[p[i + 1]].from
        /\ \A i \in 1..Len(p) : Allowed(p[i], s, twin.overlay, touched)
    BY <2>2, <2>3, WayBackReads
  <2>5. Source(s) = Nearest(req.from) /\ Goal(s) = Nearest(req.to)
    BY <2>2 DEF Source, Goal
  <2> HIDE DEF p, req, s
  <2>6. Len(p) \in Nat /\ DOMAIN p = 1..Len(p) /\ (p # <<>> => Len(p) # 0)
    BY <2>4
  <2>7. ASSUME NEW i \in DOMAIN p
        PROVE  EdgeData[p[i]].from = at(i - 1)
    <3>1. CASE i = 1
      BY <2>4, <2>5, <2>6, <2>7, <3>1
    <3>2. CASE i # 1
      <4>1. i - 1 \in 1..(Len(p) - 1) /\ (i - 1) + 1 = i /\ i - 1 # 0
        BY <2>6, <2>7, <3>2
      <4>2. EdgeData[p[i - 1]].to = EdgeData[p[(i - 1) + 1]].from
        BY <2>4, <4>1
      <4> QED BY <4>1, <4>2
    <3> QED BY <3>1, <3>2
  <2>8. at(Len(p)) = Nearest(req.to)
    BY <2>4, <2>5, <2>6
  <2>9. \A i \in DOMAIN p : \/ Traversable(p[i], twin.overlay, PolicyOf(req), req.vehicle)
                            \/ EdgeData[p[i]].road \in touched
    BY <2>2, <2>4, <2>6 DEF Allowed
  <2> QED BY <2>7, <2>8, <2>9
<1> QED BY <1>1, RoutedInvariant, PTL

\* What the router's own policy forbids an edge for: its road, or that it is private.
LEMMA ForbiddenByRoad ==
  ASSUME NEW d \in Edge, NEW e \in Edge, EdgeData[d].road = EdgeData[e].road,
         NEW over, NEW req, ~Traversable(d, over, DefaultPolicy, req.vehicle),
         Traversable(e, over, PolicyOf(req), req.vehicle)
  PROVE  EdgeData[d].private
<1>1. EdgeData[d].status = EdgeData[e].status /\ EdgeData[d].access = EdgeData[e].access
  BY SameWay
<1>2. EffectiveStatus(d, over) = EffectiveStatus(e, over)
  BY <1>1 DEF EffectiveStatus
<1> QED BY <1>1, <1>2 DEF Traversable, DefaultPolicy

\* DynamicRerouter, for every graph whose roads are ways of the map: a new route has
\* none of the roads that made the old one invalid, unless they changed meanwhile or
\* are private and allowed by the request, and so invalid for the router alone.
THEOREM ReroutesAvoid == Spec => []RerouteAvoids
<1>1. Routed => RerouteAvoids
  <2> DEFINE r == client.route
             s == client.search
             old == client.old
  <2> SUFFICES ASSUME Routed, client.pc = "planned", old # Absent, r # Absent,
                      NEW e \in EdgesOf(r), EdgeData[e].road \in client.affected,
                      EdgeData[e].road \notin touched
               PROVE  r.req.private /\ \E d \in EdgesOf(old) :
                        EdgeData[d].road = EdgeData[e].road /\ EdgeData[d].private
    BY DEF RerouteAvoids
  <2>1. /\ SearchHolds(s, twin.overlay, touched) /\ s.status = "found" /\ r = RouteOf(s)
        /\ OldHolds(client, twin.overlay, touched)
    BY DEF Routed, CInv, Plans, Idle
  <2>2. /\ r.req = s.req /\ r.path = Path(s) /\ e \in Edge
        /\ \A i \in 1..Len(Path(s)) : Allowed(Path(s)[i], s, twin.overlay, touched)
        /\ IsRoute(r)
    BY <2>1, RouteIsRoute
  <2>3. Traversable(e, twin.overlay, PolicyOf(s.req), s.req.vehicle)
    <3>1. PICK i \in DOMAIN r.path : e = r.path[i]
      BY DEF EdgesOf
    <3>2. i \in 1..Len(r.path)
      BY <2>2, <3>1 DEF IsRoute
    <3> QED BY <2>2, <3>1, <3>2 DEF Allowed
  <2>4. PICK d \in EdgesOf(old) :
          /\ EdgeData[d].road = EdgeData[e].road
          /\ ~Traversable(d, twin.overlay, DefaultPolicy, old.req.vehicle)
    BY <2>1 DEF OldHolds
  <2>5. d \in Edge /\ old.req = s.req /\ (EdgeData[d].private => old.req.private)
    BY <2>1 DEF OldHolds
  <2>6. EdgeData[d].private
    BY <2>2, <2>3, <2>4, <2>5, ForbiddenByRoad
  <2> QED BY <2>2, <2>4, <2>5, <2>6
<1> QED BY <1>1, RoutedInvariant, PTL

\* The cost of a way sums up the costs of its edges.
LEMMA CostSumsUp ==
  ASSUME NEW p \in Seq(Edge), NEW mode
  PROVE  \E S : SumsUp(S, p, Len(p), mode) /\ CostOf(p, mode) = S[Len(p)]
<1> DEFINE N == Len(p)
           Rec(h) == h = [n \in 0..N |-> IF n = 0 THEN 0 ELSE h[n - 1] + Cost(p[n], mode)]
           F == [x \in (1..N) \X Nat |-> x[2] + Cost(p[x[1]], mode)]
<1>1. N \in Nat /\ \A n \in 1..N : Cost(p[n], mode) \in Nat
  BY CostIsNat
<1>2. F \in [(1..N) \X Nat -> Nat]
  <2>1. ASSUME NEW x \in (1..N) \X Nat PROVE x[2] + Cost(p[x[1]], mode) \in Nat
    <3>1. x[1] \in 1..N /\ x[2] \in Nat
      OBVIOUS
    <3>2. Cost(p[x[1]], mode) \in Nat
      BY <1>1, <3>1
    <3> HIDE DEF N
    <3> QED BY <3>1, <3>2
  <2> HIDE DEF N
  <2> QED BY <2>1
<1>3. \A n \in 1..N, c \in Nat : F[<<n, c>>] = c + Cost(p[n], mode)
  OBVIOUS
<1> HIDE DEF F, N
<1>4. PICK f : f \in [0..N -> Nat] /\ f[0] = 0 /\ \A n \in 1..N : f[n] = F[<<n, f[n - 1]>>]
  <2>1. \E f : Recursion(f, N, Nat, 0, F)
    BY <1>1, <1>2, RecursiveFunction
  <2> QED BY <2>1 DEF Recursion
<1>5. Rec(f)
  <2>1. ASSUME NEW n \in 0..N
        PROVE  f[n] = IF n = 0 THEN 0 ELSE f[n - 1] + Cost(p[n], mode)
    <3>1. CASE n = 0
      BY <1>4, <3>1
    <3>2. CASE n # 0
      <4>1. n \in 1..N /\ n - 1 \in 0..N
        BY <1>1, <3>2
      <4>2. f[n - 1] \in Nat
        BY <1>4, <4>1
      <4> QED BY <1>3, <1>4, <3>2, <4>1, <4>2
    <3> QED BY <3>1, <3>2
  <2> QED BY <1>4, <2>1
<1>6. PICK h : Rec(h) /\ CostOf(p, mode) = h[N]
  <2>1. CostOf(p, mode) = (CHOOSE h : Rec(h))[N]
    BY DEF CostOf, N
  <2> HIDE DEF Rec
  <2> QED BY <1>5, <2>1
<1>7. h[0] = 0 /\ \A n \in 1..N : h[n] = h[n - 1] + Cost(p[n], mode)
  BY <1>1, <1>6
<1>8. 0..N \subseteq {n \in 0..N : h[n] \in Nat}
  <2> DEFINE Q == {n \in 0..N : h[n] \in Nat}
  <2>1. 0 \in Q
    BY <1>1, <1>7
  <2>2. ASSUME NEW n \in 0..(N - 1), n \in Q PROVE n + 1 \in Q
    <3>1. n + 1 \in 1..N /\ n + 1 \in 0..N /\ (n + 1) - 1 = n
      BY <1>1
    <3>2. h[n + 1] = h[n] + Cost(p[n + 1], mode)
      BY <1>7, <3>1
    <3>3. Cost(p[n + 1], mode) \in Nat /\ h[n] \in Nat
      BY <1>1, <2>2, <3>1
    <3> QED BY <3>1, <3>2, <3>3
  <2> HIDE DEF Q
  <2>3. 0..N \subseteq Q
    BY <1>1, <2>1, <2>2, InductUpTo
  <2> QED BY <2>3 DEF Q
<1>9. h \in [0..N -> Nat]
  BY <1>6, <1>8
<1> QED BY <1>6, <1>7, <1>9 DEF SumsUp, N

\* A way of the graph's, as the searches know it.
LEMMA WaysAreWays ==
  ASSUME NEW s, NEW over,
         NEW p \in Ways(Source(s), Goal(s), over, s.req)
  PROVE  p \in Seq(Edge) /\ IsWay(s, p, Len(p), over)
<1>1. PICK n \in 1..(Cardinality(Node) - 1) : p \in [1..n -> Edge]
  BY DEF Ways
<1>2. n \in Nat /\ n # 0
  <2>1. Cardinality(Node) \in Nat
    BY GraphTyped, FS_CardinalityType
  <2> QED BY <2>1
<1>3. p \in Seq(Edge) /\ Len(p) = n /\ DOMAIN p = 1..n
  BY <1>1, <1>2, SeqDef
<1> QED BY <1>1, <1>2, <1>3 DEF Ways, IsWay

\* Dijkstra, and A* where its heuristic is consistent, for every graph and request: a
\* search that no override has disturbed finds a route if and only if the request
\* allows one, and then a cheapest.
THEOREM RoutesShortest ==
  ASSUME \A req \in Request : Consistent(req, Nearest(req.to))
  PROVE  Spec => []RouteShortest
<1>1. Routed => RouteShortest
  <2> DEFINE s    == client.search
             r    == client.route
             over == twin.overlay
             all  == Ways(Source(s), Goal(s), over, s.req)
  <2> SUFFICES ASSUME Routed, client.pc = "planned", touched = {}, Snaps(s.req)
               PROVE  IF Source(s) = Goal(s) THEN r.path = <<>>
                      ELSE IF r = Absent THEN all = {}
                      ELSE /\ r.path \in all
                           /\ \A p \in all : CostOf(r.path, s.req.mode) <= CostOf(p, s.req.mode)
    BY DEF RouteShortest, Source, Goal
  <2>1. /\ SearchHolds(s, over, {}) /\ s.status # "searching"
        /\ r = IF s.status = "found" THEN RouteOf(s) ELSE Absent
        /\ s.req \in Request
    BY DEF Routed, CInv, Plans, Idle, SearchHolds
  <2>2. SoundSearch(s, over, {}) /\ Consistent(s.req, Goal(s))
    BY <2>1 DEF SearchHolds, Goal
  <2>3. /\ Open(s, over, {}) /\ Final(s, over) /\ Tree(s, over, {}) /\ Acyclic(s)
        /\ s.status \in {"searching", "found", "none"}
    BY <2>2 DEF SoundSearch, Open, SearchTyped
  <2> HIDE DEF s, r, over
  <2>4. CASE s.status = "none"
    <3>1. Source(s) # Goal(s) /\ r = Absent /\ s.heap = {}
      BY <2>1, <2>2, <2>4 DEF SoundSearch
    <3>2. ASSUME NEW p \in all PROVE FALSE
      <4>1. IsWay(s, p, Len(p), over)
        BY <3>2, WaysAreWays
      <4> QED BY <2>3, <3>1, <4>1, NoWayLeft
    <3> QED BY <3>1, <3>2
  <2>5. CASE s.status = "found"
    <3>1. /\ r # Absent /\ r.path = Path(s) /\ IsWayBack(s, r.path)
          /\ \A i \in 1..Len(r.path) : Allowed(r.path[i], s, over, {})
      BY <2>1, <2>5, RouteIsRoute
    <3> DEFINE p == r.path
    <3>2. /\ p \in Seq(Edge) /\ Len(p) < Cardinality(Node)
          /\ (p = <<>> <=> Source(s) = Goal(s))
          /\ p # <<>> => EdgeData[p[1]].from = Source(s) /\ EdgeData[p[Len(p)]].to = Goal(s)
          /\ \A i \in 1..(Len(p) - 1) : EdgeData[p[i]].to = EdgeData[p[i + 1]].from
          /\ \A i, j \in 1..Len(p) : EdgeData[p[i]].from = EdgeData[p[j]].from => i = j
      BY <2>3, <3>1, WayBackReads
    <3> HIDE DEF p
    <3>3. CASE Source(s) # Goal(s)
      <4>1. p \in all
        <5>1. /\ Len(p) \in 1..(Cardinality(Node) - 1) /\ p \in [1..Len(p) -> Edge]
              /\ DOMAIN p = 1..Len(p) /\ p # <<>>
          <6>1. Cardinality(Node) \in Nat /\ Len(p) \in Nat /\ p # <<>> /\ Len(p) # 0
            BY <3>2, <3>3, GraphTyped, FS_CardinalityType
          <6> QED BY <3>2, <6>1
        <5>2. \A i \in 1..Len(p) : Traversable(p[i], over, PolicyOf(s.req), s.req.vehicle)
          BY <3>1 DEF Allowed, p
        <5> QED BY <3>2, <5>1, <5>2 DEF Ways
      <4>2. ASSUME NEW q \in all
            PROVE  CostOf(p, s.req.mode) <= CostOf(q, s.req.mode)
        <5>1. q \in Seq(Edge) /\ IsWay(s, q, Len(q), over)
          BY <4>2, WaysAreWays
        <5>2. PICK S : SumsUp(S, p, Len(p), s.req.mode) /\ CostOf(p, s.req.mode) = S[Len(p)]
          BY <3>2, CostSumsUp
        <5>3. PICK Z : SumsUp(Z, q, Len(q), s.req.mode) /\ CostOf(q, s.req.mode) = Z[Len(q)]
          BY <5>1, CostSumsUp
        <5>4. S[Len(p)] <= s.g[Goal(s)]
          BY <2>3, <3>1, <3>2, <3>3, <5>2, WayBackCost DEF p
        <5>5. /\ Goal(s) \in Reached(s)
              /\ \A y \in s.heap : s.g[Goal(s)] + Heuristic(Goal(s), Goal(s), s.req) <= y.f
          BY <2>2, <2>5 DEF SoundSearch
        <5>6. s.g[Goal(s)] <= Z[Len(q)]
          BY <2>2, <2>3, <5>1, <5>3, <5>5, NoneCheaper
        <5>7. S[Len(p)] \in Nat /\ Z[Len(q)] \in Nat /\ s.g[Goal(s)] \in Nat
          BY <2>3, <3>2, <5>1, <5>2, <5>3, <5>5, SearchTypes DEF SumsUp
        <5> QED BY <5>2, <5>3, <5>4, <5>6, <5>7
      <4> QED BY <3>1, <3>3, <4>1, <4>2 DEF p
    <3> QED BY <3>1, <3>2, <3>3 DEF p
  <2> QED BY <2>1, <2>3, <2>4, <2>5
<1> QED BY <1>1, RoutedInvariant, PTL

\* The same from the map: geodesic lengths make the heuristic consistent, for times
\* where no road is faster than its 120 km/h.
THEOREM ShortestOnMaps ==
  ASSUME Geodesic,
         \A req \in Request : \/ req.algorithm = "dijkstra" \/ req.mode # "TRAVEL_TIME"
                              \/ \A e \in Edge : Speed(e) <= 1200
  PROVE  Spec => []RouteShortest
<1>1. ASSUME NEW req \in Request PROVE Consistent(req, Nearest(req.to))
  <2>1. req.to \in Place
    BY InputsTyped DEF RouteRequest
  <2>2. CASE Node = {}
    <3>1. Edge = {}
      BY <2>2, EdgeFacts
    <3> QED BY <3>1 DEF Consistent
  <2>3. CASE Node # {}
    <3>1. Nearest(req.to) \in Node
      BY <2>1, <2>3, NearestIsNode
    <3> QED BY <3>1, GeodesicIsConsistent
  <2> QED BY <2>2, <2>3
<1> QED BY <1>1, RoutesShortest

--------------------------------------------------------------------------------
(* Type correctness *)

\* The facilities whose beds the scenario still has to change are known.
BedsKnown(mods, ent) ==
  \A i \in DOMAIN mods : mods[i].kind = "capacity" => ent[mods[i].key] # Absent

PTyped(q) ==
  /\ q.pc = "fork" => BedsKnown(q.scenario.mods, twin.ent)
  /\ q.pc = "baseline" => BedsKnown(q.scenario.mods, twin.ent) /\ DT!IsManager(q.fork)
  /\ q.pc = "modify" =>
       /\ BedsKnown(q.todo, q.base) /\ DT!IsManager(q.fork)
       /\ \A k \in Key : q.base[k] \in DT!EntityOf(k) \cup {Absent}
  /\ q.pc = "done" => DT!IsManager(q.fork) /\ q.teams \subseteq Available

Typed ==
  DT!IsManager(twin) /\ twin.overlay \in Overlay /\ changes \in 0..MaxChanges /\ PTyped(preview)

\* A handler loses no entity, nor does an event.
LEMMA HandleLosesNone ==
  ASSUME NEW t, DT!IsManager(t), NEW id, NEW p \in DT!AnyPayload, NEW k \in DT!Key,
         t.ent[k] # Absent
  PROVE  DT!Handle(t, id, p).ent[k] # Absent
<1>1. CASE DT!Applies(t, id, p)
  <2>1. DT!Handle(t, id, p).ent = [t.ent EXCEPT ![p.key] = DT!Target(t, p)]
    BY <1>1 DEF DT!Handle, DT!Commit, DT!Manager
  <2>2. DT!Target(t, p) \in DT!EntityOf(p.key)
    BY <1>1, TargetType DEF DT!IsManager, DT!Applies
  <2>3. DT!Target(t, p) # Absent
    BY <2>2, PayloadKey, KeysApart
  <2> QED BY <2>1, <2>3 DEF DT!IsManager
<1>2. CASE ~DT!Applies(t, id, p) /\ (id \in t.seen \/ DT!Rejected(t, p))
  BY <1>2 DEF DT!Handle
<1>3. CASE ~DT!Applies(t, id, p) /\ ~(id \in t.seen \/ DT!Rejected(t, p))
  <2>1. DT!Handle(t, id, p).ent = [t.ent EXCEPT ![p.key] = DT!Current(t, p)]
    BY <1>3 DEF DT!Handle, DT!Ignore, DT!Manager
  <2>2. p.key = k => DT!Current(t, p) = t.ent[k]
    BY DEF DT!Current
  <2> QED BY <2>1, <2>2 DEF DT!IsManager
<1> QED BY <1>1, <1>2, <1>3

LEMMA EventLosesNone ==
  ASSUME NEW t, DT!IsManager(t), NEW id \in AnyId, NEW p \in DT!AnyPayload, NEW k \in DT!Key,
         t.ent[k] # Absent
  PROVE  DT!ApplyEvent(t, id, p).ent[k] # Absent
<1>1. DT!IsManager(DT!Handle(t, id, p)) /\ DT!Handle(t, id, p).ent[k] # Absent
  BY HandleType, HandleLosesNone DEF DT!AnyEventId
<1>2. CASE DT!Cascades(t, id, p)
  BY <1>1, <1>2, CascadeType, HandleLosesNone DEF DT!ApplyEvent
<1>3. CASE ~DT!Cascades(t, id, p)
  BY <1>1, <1>3 DEF DT!ApplyEvent
<1> QED BY <1>2, <1>3

\* The live overlay stays one.
LEMMA HandleOverlay ==
  ASSUME NEW t, DT!IsManager(t), t.overlay \in Overlay, NEW id, NEW p \in DT!AnyPayload
  PROVE  DT!Handle(t, id, p).overlay \in Overlay
<1>1. CASE DT!Applies(t, id, p)
  <2> DEFINE e == DT!Target(t, p)
  <2>1. DT!Handle(t, id, p).overlay = DT!OverlayWith(t, p.key, e)
    BY <1>1 DEF DT!Handle, DT!Commit, DT!Manager
  <2>2. e \in DT!EntityOf(p.key) /\ p.key \in DT!Key
    BY <1>1, TargetType, PayloadKey DEF DT!IsManager, DT!Applies
  <2> HIDE DEF e
  <2>3. t.overlay # Absent
    BY KeysApart
  <2>4. CASE p.key \in Road
    <3>1. e \in DT!RoadStatus
      BY <2>2, <2>4, EntityOfKinds
    <3>2. DT!OverlayWith(t, p.key, e) = [t.overlay EXCEPT ![p.key] = e]
      BY <2>3, <2>4 DEF DT!OverlayWith
    <3> QED BY <2>1, <3>1, <3>2, SameKeys
  <2>5. CASE p.key \in Bridge /\ p.key \notin Road
    <3>1. DT!OverlayWith(t, p.key, e)
            = [t.overlay EXCEPT ![OverlayRoad[p.key]] = DT!RoadStatusUnder(e.status)]
      BY <2>3, <2>5 DEF DT!OverlayWith
    <3>2. DT!RoadStatusUnder(e.status) \in DT!RoadStatus
      BY RoadStatusUnderType
    <3> QED BY <2>1, <3>1, <3>2, SameKeys
  <2>6. CASE p.key \notin Road /\ p.key \notin Bridge
    BY <2>1, <2>6 DEF DT!OverlayWith
  <2> QED BY <2>4, <2>5, <2>6
<1>2. CASE ~DT!Applies(t, id, p)
  BY <1>2 DEF DT!Handle, DT!Ignore, DT!Manager
<1> QED BY <1>1, <1>2

LEMMA EventOverlay ==
  ASSUME NEW t, DT!IsManager(t), t.overlay \in Overlay, NEW id \in AnyId,
         NEW p \in DT!AnyPayload
  PROVE  DT!ApplyEvent(t, id, p).overlay \in Overlay
<1>1. DT!IsManager(DT!Handle(t, id, p)) /\ DT!Handle(t, id, p).overlay \in Overlay
  BY HandleType, HandleOverlay DEF DT!AnyEventId
<1>2. CASE DT!Cascades(t, id, p)
  BY <1>1, <1>2, CascadeType, HandleOverlay DEF DT!ApplyEvent
<1>3. CASE ~DT!Cascades(t, id, p)
  BY <1>1, <1>3 DEF DT!ApplyEvent
<1> QED BY <1>2, <1>3

\* The live twin's steps.
LEMMA LiveTypes ==
  ASSUME Typed, IInv, UNCHANGED preview, changes < MaxChanges, changes' = changes + 1,
         DT!IsManager(twin'), twin'.overlay \in Overlay,
         \A k \in DT!Key : twin.ent[k] # Absent => twin'.ent[k] # Absent
  PROVE  Typed'
<1>1. changes' \in 0..MaxChanges
  BY InputsTyped DEF Typed
<1>2. ASSUME preview.pc \in {"fork", "baseline"} PROVE BedsKnown(preview.scenario.mods, twin'.ent)
  <2>1. BedsKnown(preview.scenario.mods, twin.ent) /\ preview.scenario \in Scenario
    BY <1>2 DEF Typed, PTyped, IInv, PInv
  <2>2. preview.scenario.mods \in Seq(Modification)
    BY <2>1, InputsTyped
  <2>3. ASSUME NEW i \in DOMAIN preview.scenario.mods,
               preview.scenario.mods[i].kind = "capacity"
        PROVE  preview.scenario.mods[i].key \in DT!Key
    <3>1. preview.scenario.mods[i] \in Modification
      BY <2>2, <2>3
    <3>2. preview.scenario.mods[i].key \in Facility
      BY <2>3, <3>1 DEF Modification
    <3> QED BY <3>2 DEF DT!Key
  <2> QED BY <2>1, <2>3 DEF BedsKnown
<1> QED BY <1>1, <1>2 DEF Typed, PTyped, BedsKnown

\* An override leaves a manager one.
LEMMA OverrideTypes ==
  ASSUME DT!IsManager(twin), NEW o \in Overlay, twin' = [twin EXCEPT !.overlay = o]
  PROVE  DT!IsManager(twin') /\ twin'.overlay \in Overlay /\ twin'.ent = twin.ent
<1>1. twin' = DT!Manager(twin.version, twin.ent, twin.seen, twin.log, o)
  BY DEF DT!IsManager, DT!Manager
<1>2. o \in [Road -> DT!RoadStatus \cup {Absent}]
  BY SameKeys
<1> QED BY <1>1, <1>2 DEF DT!IsManager, DT!Manager

LEMMA LiveUpdateTypes ==
  ASSUME Typed, IInv, NEW x \in LiveEvent, LiveUpdate(x[1], x[2])
  PROVE  Typed'
<1>1. x[1] \in AnyId /\ x[2] \in DT!AnyPayload
  BY LiveTyped DEF AnyId
<1>2. /\ twin' = DT!ApplyEvent(twin, x[1], x[2]) /\ UNCHANGED preview
      /\ changes < MaxChanges /\ changes' = changes + 1
  BY DEF LiveUpdate, Overridden
<1>3. DT!IsManager(twin') /\ twin'.overlay \in Overlay
  BY <1>1, <1>2, ApplyEventType, EventOverlay DEF Typed
<1>4. \A k \in DT!Key : twin.ent[k] # Absent => twin'.ent[k] # Absent
  BY <1>1, <1>2, EventLosesNone DEF Typed
<1> QED BY <1>2, <1>3, <1>4, LiveTypes

\* Overrides, of a road or of all.
LEMMA OverridesType ==
  ASSUME Typed, IInv, NEW o \in Overlay, twin' = [twin EXCEPT !.overlay = o],
         Overridden(twin'.overlay)
  PROVE  Typed'
<1>1. DT!IsManager(twin') /\ twin'.overlay \in Overlay /\ twin'.ent = twin.ent
  BY OverrideTypes DEF Typed
<1>2. UNCHANGED preview /\ changes < MaxChanges /\ changes' = changes + 1
  BY DEF Overridden
<1> QED BY <1>1, <1>2, LiveTypes

\* The preview's steps up to its modifications.
LEMMA ValidateTypes ==
  ASSUME Typed, NEW sc \in Scenario, Validate(sc)
  PROVE  Typed'
<1>1. UNCHANGED <<twin, changes>>
  BY DEF Validate
<1>2. CASE Valid(sc)
  <2>1. preview'.pc = "fork" /\ preview'.scenario = sc
    BY <1>2 DEF Validate
  <2>2. BedsKnown(sc.mods, twin.ent)
    BY <1>2 DEF Valid, BedsKnown
  <2> QED BY <1>1, <2>1, <2>2 DEF Typed, PTyped
<1>3. CASE ~Valid(sc)
  BY <1>1, <1>3 DEF Validate, Typed, PTyped
<1> QED BY <1>2, <1>3

LEMMA ForkTypes ==
  ASSUME Typed, Fork
  PROVE  Typed'
<1>1. PICK f \in DT!Forks(twin) :
        preview' = [pc |-> "baseline", scenario |-> preview.scenario, route |-> preview.route,
                    start |-> f.ent, fork |-> f, teams |-> Available]
  BY DEF Fork
<1>2. UNCHANGED <<twin, changes>> /\ BedsKnown(preview.scenario.mods, twin.ent)
  BY DEF Fork, Typed, PTyped
<1>3. PICK o \in DT!Resynced(twin, twin.overlay) :
        f = DT!Manager(twin.version, twin.ent, twin.seen, twin.log, o)
  BY KeysApart DEF DT!Forks, Typed
<1>4. o \in [Road -> DT!RoadStatus \cup {Absent}]
  BY ResyncedType, SameKeys DEF Typed
<1>5. DT!IsManager(f)
  BY <1>3, <1>4 DEF Typed, DT!IsManager, DT!Manager
<1>6. /\ preview'.pc = "baseline" /\ preview'.scenario = preview.scenario
      /\ preview'.fork = f
  BY <1>1
<1> QED BY <1>2, <1>5, <1>6 DEF Typed, PTyped

LEMMA BaselineTypes ==
  ASSUME Typed, ReadBaseline
  PROVE  Typed'
<1>1. /\ BedsKnown(preview.scenario.mods, twin.ent) /\ DT!IsManager(preview.fork)
      /\ UNCHANGED <<twin, changes>>
  BY DEF ReadBaseline, Typed, PTyped
<1>2. /\ preview'.pc = "modify" /\ preview'.todo = preview.scenario.mods
      /\ preview'.base = twin.ent /\ preview'.fork = preview.fork
  BY DEF ReadBaseline
<1>3. \A k \in Key : twin.ent[k] \in DT!EntityOf(k) \cup {Absent}
  BY SameKeys DEF Typed, DT!IsManager
<1> QED BY <1>1, <1>2, <1>3 DEF Typed, PTyped

\* A step of the modifications, with the next event on the fork or without one.
LEMMA ModificationTypes ==
  ASSUME Typed, preview.pc = "modify", UNCHANGED <<twin, changes>>,
         preview'.pc = "modify", preview'.base = preview.base,
         BedsKnown(preview'.todo, preview.base),
         \/ preview'.fork = preview.fork
         \/ \E id \in AnyId, p \in DT!AnyPayload :
              preview'.fork = DT!ApplyEvent(preview.fork, id, p)
  PROVE  Typed'
<1>1. DT!IsManager(preview'.fork)
  BY ApplyEventType DEF Typed, PTyped
<1> QED BY <1>1 DEF Typed, PTyped, BedsKnown

\* What is left to do after the next modification.
LEMMA BedsToDo ==
  ASSUME Typed, IInv, NEW kind, Modifying(kind)
  PROVE  /\ Modifies(preview) /\ Head(preview.todo) \in Modification
         /\ Head(preview.todo).kind = kind
         /\ BedsKnown(Tail(preview.todo), preview.base)
         /\ kind = "capacity" => preview.base[Head(preview.todo).key] # Absent
<1>1. /\ Modifies(preview) /\ preview.todo \in Seq(Modification) /\ preview.todo # <<>>
      /\ BedsKnown(preview.todo, preview.base)
  BY DEF Modifying, IInv, PInv, Modifies, Typed, PTyped
<1>2. /\ Head(preview.todo) = preview.todo[1] /\ 1 \in DOMAIN preview.todo
      /\ \A i \in DOMAIN Tail(preview.todo) :
           i + 1 \in DOMAIN preview.todo /\ Tail(preview.todo)[i] = preview.todo[i + 1]
  BY <1>1
<1>3. Head(preview.todo).kind = kind
  BY DEF Modifying
<1>4. Head(preview.todo) \in Modification
  BY <1>1
<1> QED BY <1>1, <1>2, <1>3, <1>4 DEF BedsKnown

LEMMA FailBridgeTypes ==
  ASSUME Typed, IInv, FailBridge
  PROVE  Typed'
<1> DEFINE m == Head(preview.todo)
           p == [kind |-> "bridge", key |-> m.key, status |-> "BLOCKED", propagate |-> m.propagate]
           w == DT!ApplyEvent(preview.fork, Scenario_(m.key), p)
<1>1. /\ Modifies(preview) /\ m \in Modification /\ m.kind = "bridge"
      /\ BedsKnown(Tail(preview.todo), preview.base)
  BY BedsToDo DEF FailBridge
<1>2. m.key \in Bridge /\ m.propagate \in BOOLEAN
  BY <1>1 DEF Modification
<1>3. p \in DT!AnyPayload
  BY <1>2 DEF DT!AnyPayload, DT!BridgePayload, DT!BridgeStatus
<1>4. Scenario_(m.key) \in AnyId
  BY <1>2 DEF AnyId
<1>5. /\ preview'.pc = "modify" /\ preview'.base = preview.base
      /\ preview'.todo = Tail(preview.todo) /\ preview'.fork = w
  BY <1>1 DEF FailBridge, Event, Modifying, Modifies, IsModifying
<1> HIDE DEF m, p
<1>6. UNCHANGED <<twin, changes>> /\ preview.pc = "modify"
  BY DEF FailBridge, Modifying
<1> QED BY <1>1, <1>3, <1>4, <1>5, <1>6, ModificationTypes

\* The capacity is one the baseline has, and no more beds are free.
LEMMA ChangeCapacityTypes ==
  ASSUME Typed, IInv, ChangeCapacity
  PROVE  Typed'
<1> DEFINE m == Head(preview.todo)
           p == [kind |-> "capacity", key |-> m.key, cap |-> preview.base[m.key].cap,
                 avail |-> m.avail]
           w == DT!ApplyEvent(preview.fork, Scenario_(m.key), p)
<1>1. /\ Modifies(preview) /\ m \in Modification /\ m.kind = "capacity"
      /\ BedsKnown(Tail(preview.todo), preview.base) /\ preview.base[m.key] # Absent
  BY BedsToDo DEF ChangeCapacity
<1>2. UNCHANGED <<twin, changes>> /\ preview.pc = "modify"
  BY DEF ChangeCapacity, Modifying
<1>3. CASE Refused(m.key, p)
  <2>1. preview' = [pc |-> "failed"]
    BY <1>3 DEF ChangeCapacity
  <2> QED BY <1>2, <2>1 DEF Typed, PTyped
<1>4. CASE ~Refused(m.key, p)
  <2>1. m.key \in Facility /\ m.avail \in Nat
    BY <1>1 DEF Modification
  <2>2. preview.base[m.key] \in DT!FacilityEntity
    BY <1>1, <1>2, <2>1, EntityOfKinds DEF Typed, PTyped, Key
  <2>3. p.cap \in 0..MaxCapacity /\ p.avail = m.avail
    BY <2>2 DEF DT!FacilityEntity
  <2>4. ~(p.avail > p.cap)
    BY <1>4 DEF Refused
  <2>5. p.avail \in 0..MaxCapacity /\ p.avail <= p.cap
    BY <2>1, <2>3, <2>4, InputsTyped
  <2>6. p \in DT!CapacityPayload
    BY <2>1, <2>3, <2>5 DEF DT!CapacityPayload
  <2>7. p \in DT!AnyPayload /\ Scenario_(m.key) \in AnyId
    BY <2>1, <2>6 DEF DT!AnyPayload, AnyId
  <2>8. /\ preview'.pc = "modify" /\ preview'.base = preview.base
        /\ preview'.todo = Tail(preview.todo) /\ preview'.fork = w
    BY <1>1, <1>2, <1>4 DEF ChangeCapacity, Event, Modifies, IsModifying
  <2> HIDE DEF m, p
  <2> QED BY <1>1, <1>2, <2>7, <2>8, ModificationTypes
<1> QED BY <1>3, <1>4

LEMMA ShortenTeamsTypes ==
  ASSUME Typed, IInv, ShortenTeams
  PROVE  Typed'
<1>1. Modifies(preview) /\ BedsKnown(Tail(preview.todo), preview.base)
  BY BedsToDo DEF ShortenTeams
<1>2. /\ preview'.pc = "modify" /\ preview'.base = preview.base
      /\ preview'.todo = Tail(preview.todo) /\ preview'.fork = preview.fork
      /\ preview.pc = "modify" /\ UNCHANGED <<twin, changes>>
  BY <1>1 DEF ShortenTeams, Modifying, Modifies, IsModifying
<1> QED BY <1>1, <1>2, ModificationTypes

LEMMA RaiseFloodTypes ==
  ASSUME Typed, IInv, RaiseFlood
  PROVE  Typed'
<1> DEFINE p == [kind |-> "area", key |-> FloodZone,
                 datum |-> SeverityOf(Depth(Head(preview.todo)))]
           w == DT!ApplyEvent(preview.fork, Scenario_(FloodZone), p)
<1>1. Modifies(preview) /\ BedsKnown(Tail(preview.todo), preview.base)
  BY BedsToDo DEF RaiseFlood
<1>2. p \in DT!AnyPayload
  BY DEF DT!AnyPayload, DT!AreaPayload, SeverityOf, Severity
<1>3. Scenario_(FloodZone) \in AnyId
  BY DEF AnyId
<1>4. /\ preview'.pc = "modify" /\ preview'.base = preview.base
      /\ preview'.todo = Tail(preview.todo) /\ preview'.fork = w
      /\ preview.pc = "modify" /\ UNCHANGED <<twin, changes>>
  BY <1>1 DEF RaiseFlood, Event, Modifying, Modifies, IsModifying
<1> HIDE DEF p
<1> QED BY <1>1, <1>2, <1>3, <1>4, ModificationTypes

LEMMA CloseRoadTypes ==
  ASSUME Typed, IInv, NEW r \in Road, CloseRoad(r)
  PROVE  Typed'
<1> DEFINE p == [kind |-> "road", key |-> r, status |-> "BLOCKED"]
           w == DT!ApplyEvent(preview.fork, Scenario_(r), p)
<1>1. Modifies(preview) /\ BedsKnown(preview.todo, preview.base)
  BY DEF CloseRoad, IInv, PInv, Typed, PTyped
<1>2. p \in DT!AnyPayload
  BY DEF DT!AnyPayload, DT!RoadPayload, DT!RoadStatus
<1>3. Scenario_(r) \in AnyId
  BY DEF AnyId
<1>4. /\ preview'.pc = "modify" /\ preview'.base = preview.base
      /\ preview'.todo = preview.todo /\ preview'.fork = w
      /\ preview.pc = "modify" /\ UNCHANGED <<twin, changes>>
  BY <1>1 DEF CloseRoad, Event, Modifies, IsModifying
<1> HIDE DEF p
<1> QED BY <1>1, <1>2, <1>3, <1>4, ModificationTypes

LEMMA ConcludeTypes ==
  ASSUME Typed, IInv, Conclude
  PROVE  Typed'
<1>1. /\ Modifies(preview) /\ DT!IsManager(preview.fork) /\ UNCHANGED <<twin, changes>>
  BY DEF Conclude, IInv, PInv, Typed, PTyped
<1>2. CASE preview'.pc = "failed"
  BY <1>1, <1>2 DEF Typed, PTyped
<1>3. CASE preview'.pc # "failed"
  <2>1. preview'.pc = "done" /\ preview'.fork = preview.fork /\ preview'.teams = preview.teams
    BY <1>3 DEF Conclude
  <2>2. preview.teams \subseteq Available
    BY <1>1 DEF Modifies, InFork
  <2> QED BY <1>1, <2>1, <2>2 DEF Typed, PTyped
<1> QED BY <1>2, <1>3

\* The live twin starts with what is registered.
LEMMA StartsTyped == Init => Typed
<1> SUFFICES ASSUME Init PROVE Typed
  OBVIOUS
<1> DEFINE t == DT!Manager(0, Registered, {}, <<>>, Absent)
<1>1. DT!IsManager(t)
  BY LiveTyped DEF DT!IsManager, DT!Manager
<1>2. DT!EmptyOverlay \in Overlay
  BY DEF DT!EmptyOverlay, Overlay
<1>3. PICK o \in DT!Resynced(t, DT!EmptyOverlay) :
        twin = DT!Manager(0, Registered, {}, <<>>, o)
  BY DEF Init
<1>4. o \in Overlay
  BY <1>1, <1>2, ResyncedType
<1>5. DT!IsManager(twin) /\ twin.overlay = o
  BY <1>1, <1>3, <1>4, SameKeys DEF DT!IsManager, DT!Manager
<1>6. changes = 0 /\ preview.pc = "idle"
  BY DEF Init, Idle
<1> QED BY <1>4, <1>5, <1>6, InputsTyped DEF Typed, PTyped

LEMMA TypedInvariant == Spec => []Typed
<1>1. Typed /\ IInv /\ [Next]_vars => Typed'
  <2> SUFFICES ASSUME Typed, IInv, [Next]_vars PROVE Typed'
    OBVIOUS
  <2>1. CASE \E x \in LiveEvent : LiveUpdate(x[1], x[2])
    BY <2>1, LiveUpdateTypes
  <2>2. ASSUME NEW x \in Override, SetRoadOverride(x[1], x[2]) PROVE Typed'
    <3>1. [twin.overlay EXCEPT ![x[1]] = x[2]] \in Overlay
      BY LiveTyped DEF Typed, Overlay
    <3>2. twin' = [twin EXCEPT !.overlay = [twin.overlay EXCEPT ![x[1]] = x[2]]]
      BY <2>2 DEF SetRoadOverride
    <3> QED BY <2>2, <3>1, <3>2, OverridesType DEF SetRoadOverride
  <2>3. ASSUME NEW r \in Road, ClearRoadOverride(r) PROVE Typed'
    <3>1. [twin.overlay EXCEPT ![r] = Absent] \in Overlay
      BY DEF Typed, Overlay
    <3>2. twin' = [twin EXCEPT !.overlay = [twin.overlay EXCEPT ![r] = Absent]]
      BY <2>3 DEF ClearRoadOverride
    <3> QED BY <2>3, <3>1, <3>2, OverridesType DEF ClearRoadOverride
  <2>4. CASE ClearAllOverrides
    <3>1. DT!EmptyOverlay \in Overlay
      BY DEF DT!EmptyOverlay, Overlay
    <3> QED BY <2>4, <3>1, OverridesType DEF ClearAllOverrides
  <2>5. ASSUME UNCHANGED <<twin, preview, changes>> PROVE Typed'
    BY <2>5 DEF Typed, PTyped, BedsKnown
  <2>6. CASE (\E req \in Request : AskRoute(req)) \/ SearchRound \/ SearchDone \/ EvaluateAndReroute
    BY <2>5, <2>6 DEF AskRoute, SearchRound, SearchDone, EvaluateAndReroute
  <2>7. CASE \E sc \in Scenario : Validate(sc)
    BY <2>7, ValidateTypes
  <2>8. CASE Fork
    BY <2>8, ForkTypes
  <2>9. CASE ReadBaseline
    BY <2>9, BaselineTypes
  <2>10. CASE FailBridge
    BY <2>10, FailBridgeTypes
  <2>11. CASE ChangeCapacity
    BY <2>11, ChangeCapacityTypes
  <2>12. CASE ShortenTeams
    BY <2>12, ShortenTeamsTypes
  <2>13. CASE RaiseFlood
    BY <2>13, RaiseFloodTypes
  <2>14. CASE \E r \in Road : CloseRoad(r)
    BY <2>14, CloseRoadTypes
  <2>15. CASE Conclude
    BY <2>15, ConcludeTypes
  <2>16. CASE UNCHANGED vars
    BY <2>5, <2>16 DEF vars
  <2> QED BY <2>1, <2>2, <2>3, <2>4, <2>6, <2>7, <2>8, <2>9, <2>10, <2>11, <2>12, <2>13, <2>14,
             <2>15, <2>16 DEF Next
<1> QED BY <1>1, StartsTyped, PreviewInvariant, PTL DEF Spec

\* Type correctness of the twins, the client's search and route and the preview, for
\* every graph, scenario and history of the live twin.
THEOREM TypeCorrect == Spec => []TypeOK
<1>1. Typed /\ IInv /\ Routed => TypeOK
  <2> SUFFICES ASSUME Typed, IInv, Routed PROVE TypeOK
    OBVIOUS
  <2>1. /\ preview.pc \in {"idle", "fork", "baseline", "modify", "done", "failed"}
        /\ preview.pc \in {"baseline", "modify", "done"} =>
             DT!IsManager(preview.fork) /\ preview.teams \subseteq Team
    BY InputsTyped DEF Typed, PTyped, IInv, PInv, InFork, Modifies
  <2>2. ASSUME client # Idle
        PROVE  /\ client.pc \in {"search", "planned"}
               /\ IsSearch(client.search) /\ client.affected \subseteq Road
               /\ client.old = Absent \/ IsRoute(client.old)
               /\ client.pc = "planned" => client.route = Absent \/ IsRoute(client.route)
    <3> DEFINE s == client.search
    <3>1. SearchHolds(s, twin.overlay, touched) /\ s.req \in Request
      BY <2>2 DEF Routed, CInv, SearchHolds
    <3>2. IsSearch(s)
      <4>1. CASE Snaps(s.req)
        BY <3>1, <4>1 DEF SearchHolds, SoundSearch, Open, SearchTyped, IsSearch
      <4>2. CASE ~Snaps(s.req)
        <5>1. s = Search("none", s.req, Nowhere, Nowhere, {}, {})
          BY <3>1, <4>2 DEF SearchHolds, Begin
        <5> HIDE DEF s
        <5>2. Nowhere \in [Node -> Nat \cup {Absent}] /\ Nowhere \in [Node -> Edge \cup {Absent}]
          BY DEF Nowhere
        <5> QED BY <3>1, <5>1, <5>2 DEF Search, IsSearch
      <4> QED BY <4>1, <4>2
    <3>3. client.pc = "planned" => client.route = Absent \/ IsRoute(client.route)
      BY <2>2, <3>1, RouteIsRoute DEF Routed, CInv, Plans
    <3> QED BY <2>2, <3>2, <3>3 DEF Routed, CInv, OldHolds
  <2> QED BY <2>1, <2>2 DEF TypeOK, Typed, Routed
<1> QED BY <1>1, TypedInvariant, PreviewInvariant, RoutedInvariant, PTL
================================================================================
