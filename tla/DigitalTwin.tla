------------------------------ MODULE DigitalTwin ------------------------------
(***************************************************************************)
(* DigitalTwinStateManager (digital_twin/state/state_manager.py): the      *)
(* versioned registry of emergency entities, its idempotent event          *)
(* handlers, its append-only event log and the routing overlay it keeps    *)
(* in step with roads and bridges.                                         *)
(*                                                                         *)
(* One manager is driven by one caller at a time here; what concurrent     *)
(* HTTP threads make of it belongs to the modules of the services.         *)
(* A manager is a record and every handler a function on such records, so  *)
(* that a fork, a replay or a cascade is an expression over them.          *)
(*                                                                         *)
(* Definitions commented "Slip" are errors such code could well contain:   *)
(* no specification uses them, and each breaks a property stated below.    *)
(***************************************************************************)
EXTENDS Integers, Sequences

CONSTANTS
  Road, Bridge, Facility, Incident, Area,   \* ids of each kind of entity
  Status,        \* operational statuses of hospitals and shelters
  Datum,         \* contents of a flood zone, population or vulnerable group
  MaxCapacity,   \* largest capacity a facility is given
  EventId,       \* ids the callers put on events
  Payload,       \* what the callers' events say
  Registration,  \* pairs <<id, entity>> passed to the register_* methods
  OverlayRoad,   \* the overlay's own bridge index (register_road_edge)
  Absent         \* no entry, None

RoadStatus == {"OPEN", "RESTRICTED", "BLOCKED", "UNKNOWN"}
BridgeStatus == {"OPEN", "RESTRICTED", "BLOCKED", "COLLAPSED", "SUBMERGED", "CLOSED"}
IncidentStatus == {"OPEN", "ACKNOWLEDGED", "IN_PROGRESS", "RESOLVED", "CANCELLED"}

\* VALID_INCIDENT_TRANSITIONS
Successors ==
  [OPEN         |-> {"ACKNOWLEDGED", "CANCELLED"},
   ACKNOWLEDGED |-> {"IN_PROGRESS", "CANCELLED"},
   IN_PROGRESS  |-> {"RESOLVED", "CANCELLED"},
   RESOLVED     |-> {},
   CANCELLED    |-> {}]

Key == Road \cup Bridge \cup Facility \cup Incident \cup Area

\* A road's and an incident's entity is its status: accessibility and speed
\* travel with a road's status, the report's text with an incident's.
BridgeEntity == [status : BridgeStatus, road : Road \cup {Absent}]
FacilityEntity ==
  {f \in [status : Status, cap : 0..MaxCapacity, avail : 0..MaxCapacity] : f.avail <= f.cap}

EntityOf(k) ==
  CASE k \in Road     -> RoadStatus
    [] k \in Bridge   -> BridgeEntity
    [] k \in Facility -> FacilityEntity
    [] k \in Incident -> IncidentStatus
    [] OTHER          -> Datum

RoadPayload == [kind : {"road"}, key : Road, status : RoadStatus]
BridgePayload ==
  [kind : {"bridge"}, key : Bridge, status : BridgeStatus, propagate : BOOLEAN]
CapacityPayload ==
  {p \in [kind : {"capacity"}, key : Facility, cap : 0..MaxCapacity,
          avail : 0..MaxCapacity] : p.avail <= p.cap}
FacilityPayload == [kind : {"facility"}, key : Facility, status : Status]
IncidentPayload ==
  [kind : {"created", "incident"}, key : Incident, status : IncidentStatus]
AreaPayload == [kind : {"area"}, key : Area, datum : Datum]

AnyPayload == RoadPayload \cup BridgePayload \cup CapacityPayload
                \cup FacilityPayload \cup IncidentPayload \cup AreaPayload

\* The id of the road event a bridge event causes: CAUSED-<event>-<road>.
Caused(id, r) == <<"CAUSED", id, r>>
AnyEventId == EventId \cup {Caused(id, r) : id \in EventId, r \in Road}

\* The manager's fields: _version, the nine registries as one, _seen_event_ids,
\* _event_log and _routing_overlay.
Manager(version, ent, seen, log, overlay) ==
  [version |-> version, ent |-> ent, seen |-> seen, log |-> log, overlay |-> overlay]

LogEntry == [id : AnyEventId, body : AnyPayload, version : Nat]

ASSUME KeysDisjoint ==
  /\ Road \cap (Bridge \cup Facility \cup Incident \cup Area) = {}
  /\ Bridge \cap (Facility \cup Incident \cup Area) = {}
  /\ Facility \cap (Incident \cup Area) = {}
  /\ Incident \cap Area = {}
ASSUME AbsentIsNoEntity == \A k \in Key : Absent \notin EntityOf(k)
ASSUME AbsentIsNoRoad == Absent \notin Road
ASSUME AbsentIsNoOverlay == Absent \notin [Road -> RoadStatus \cup {Absent}]
\* No caller names its event as if another had caused it: theirs begin with EVT or SCEN-EVT.
ASSUME CausesAreOwn == \A id \in EventId, r \in Road : Caused(id, r) \notin EventId
ASSUME InputsTyped ==
  /\ MaxCapacity \in Nat
  /\ Payload \subseteq AnyPayload
  /\ \A g \in Registration : g = <<g[1], g[2]>> /\ g[1] \in Key /\ g[2] \in EntityOf(g[1])
  /\ OverlayRoad \in [Bridge -> Road]

VARIABLES
  twin,        \* the manager: version, entities, seen ids, log, overlay
  snapshot,    \* the last TwinSnapshot taken of it
  registered   \* history: ids registered since that snapshot

vars == <<twin, snapshot, registered>>

--------------------------------------------------------------------------------
(* Transition rules (digital_twin/state/transitions.py) *)

\* Slip: the bridge's status is written through untranslated.
RoadStatusUntranslated(s) == s

\* What a bridge's status means for the road it carries.
RoadStatusUnder(s) ==
  CASE s \in {"BLOCKED", "COLLAPSED", "CLOSED"} -> "BLOCKED"
    [] s \in {"RESTRICTED", "SUBMERGED"}        -> "RESTRICTED"
    [] OTHER                                    -> "OPEN"

\* The entity a handler starts from: an unknown road or bridge is created open.
Current(t, p) ==
  IF t.ent[p.key] # Absent THEN t.ent[p.key]
  ELSE CASE p.kind = "road"   -> "OPEN"
         [] p.kind = "bridge" -> [status |-> "OPEN", road |-> Absent]
         [] OTHER             -> Absent

\* The entity after the event.
Target(t, p) ==
  CASE p.kind = "bridge"   -> [Current(t, p) EXCEPT !.status = p.status]
    [] p.kind = "capacity" -> [Current(t, p) EXCEPT !.cap = p.cap, !.avail = p.avail]
    [] p.kind = "facility" -> [Current(t, p) EXCEPT !.status = p.status]
    [] p.kind = "area"     -> p.datum
    [] OTHER               -> p.status

\* The entities validate every assignment, and capacity is assigned before
\* available_capacity: the new total meets the old availability.
ShrinksBelowAvailability(f, p) == p.cap < f.avail

\* Slip: an incident takes any status it is sent.
RejectedWithoutLifecycle(t, p) ==
  \/ p.kind \in {"capacity", "facility", "incident"} /\ t.ent[p.key] = Absent
  \/ p.kind = "capacity" /\ ShrinksBelowAvailability(t.ent[p.key], p)

Rejected(t, p) ==
  \/ p.kind \in {"capacity", "facility", "incident"} /\ t.ent[p.key] = Absent
  \/ p.kind = "capacity" /\ ShrinksBelowAvailability(t.ent[p.key], p)
  \/ /\ p.kind = "incident"
     /\ p.status # t.ent[p.key]
     /\ p.status \notin Successors[t.ent[p.key]]

\* IncidentCreated upserts and never counts as a no-op.
NoOp(t, p) == p.kind # "created" /\ Target(t, p) = Current(t, p)

--------------------------------------------------------------------------------
(* Event application: apply_event, its handlers, _commit_event, overlay sync *)

\* Slip: only closures reach the overlay, reopened roads keep their override.
OverlayWithClosures(t, k, e) ==
  IF t.overlay # Absent /\ k \in Road /\ e # "OPEN"
  THEN [t.overlay EXCEPT ![k] = e] ELSE t.overlay

\* The override an entity puts into the overlay: a bridge's goes to the road
\* the overlay has indexed for it.
OverlayWith(t, k, e) ==
  IF t.overlay = Absent THEN Absent
  ELSE IF k \in Road THEN [t.overlay EXCEPT ![k] = e]
  ELSE IF k \in Bridge THEN [t.overlay EXCEPT ![OverlayRoad[k]] = RoadStatusUnder(e.status)]
  ELSE t.overlay

\* Slip: the entry carries the version before the event.
CommitStaleVersion(t, id, p) ==
  Manager(t.version + 1,
          [t.ent EXCEPT ![p.key] = Target(t, p)],
          t.seen \cup {id},
          Append(t.log, [id |-> id, body |-> p, version |-> t.version]),
          OverlayWith(t, p.key, Target(t, p)))

Commit(t, id, p) ==
  Manager(t.version + 1,
          [t.ent EXCEPT ![p.key] = Target(t, p)],
          t.seen \cup {id},
          Append(t.log, [id |-> id, body |-> p, version |-> t.version + 1]),
          OverlayWith(t, p.key, Target(t, p)))

\* Slip: a no-op takes a version, too.
IgnoreWithVersion(t, id, p) ==
  Manager(t.version + 1, [t.ent EXCEPT ![p.key] = Current(t, p)], t.seen \cup {id},
          t.log, t.overlay)

\* A no-op is remembered but not logged; the entity it auto-created stays.
Ignore(t, id, p) ==
  Manager(t.version, [t.ent EXCEPT ![p.key] = Current(t, p)], t.seen \cup {id},
          t.log, t.overlay)

\* Slip: the seen ids are not consulted.
AppliesAgain(t, id, p) == ~Rejected(t, p) /\ ~NoOp(t, p)

Applies(t, id, p) == id \notin t.seen /\ ~Rejected(t, p) /\ ~NoOp(t, p)

Handle(t, id, p) ==
  IF Applies(t, id, p) THEN Commit(t, id, p)
  ELSE IF id \in t.seen \/ Rejected(t, p) THEN t
  ELSE Ignore(t, id, p)

\* Bridge -> road propagation: the road to tell, if the bridge names one.
CascadeTo(t, p) == Current(t, p).road

\* Slip: reopening a bridge does not reopen its road.
CascadesClosuresOnly(t, id, p) ==
  /\ p.kind = "bridge" /\ p.propagate /\ Applies(t, id, p)
  /\ CascadeTo(t, p) # Absent /\ RoadStatusUnder(p.status) # "OPEN"

Cascades(t, id, p) ==
  p.kind = "bridge" /\ p.propagate /\ Applies(t, id, p) /\ CascadeTo(t, p) # Absent

CascadePayload(r, s) == [kind |-> "road", key |-> r, status |-> RoadStatusUnder(s)]

\* Slip: the road is closed before the bridge event is committed.
ApplyEventCascadeFirst(t, id, p) ==
  IF Cascades(t, id, p)
  THEN LET r == CascadeTo(t, p)
       IN  Handle(Handle(t, Caused(id, r), CascadePayload(r, p.status)), id, p)
  ELSE Handle(t, id, p)

ApplyEvent(t, id, p) ==
  IF Cascades(t, id, p)
  THEN LET r == CascadeTo(t, p)
       IN  Handle(Handle(t, id, p), Caused(id, r), CascadePayload(r, p.status))
  ELSE Handle(t, id, p)

\* _sync_all_roads_to_overlay: all roads, then all bridges in dict order, so of
\* several bridges on one road any may come last.
KnownBridgesOn(t, r) == {b \in Bridge : OverlayRoad[b] = r /\ t.ent[b] # Absent}
ResyncedRoad(t, ov, r) ==
  IF KnownBridgesOn(t, r) # {}
  THEN {RoadStatusUnder(t.ent[b].status) : b \in KnownBridgesOn(t, r)}
  ELSE IF t.ent[r] # Absent THEN {t.ent[r]} ELSE {ov[r]}
Resynced(t, ov) ==
  {o \in [Road -> UNION {ResyncedRoad(t, ov, r) : r \in Road}] :
     \A r \in Road : o[r] \in ResyncedRoad(t, ov, r)}

--------------------------------------------------------------------------------
(* Snapshots: state and version, but neither log nor seen ids *)

SnapshotOf(t) == [version |-> t.version, ent |-> t.ent]

EmptyOverlay == [r \in Road |-> Absent]

\* A new manager restored from a snapshot, without an overlay (replay's default).
Restored(s) == Manager(s.version, s.ent, {}, <<>>, Absent)

\* fork: the snapshot, the log and the seen ids, over a resynchronised clone of
\* the overlay.
Forks(t) ==
  {Manager(t.version, t.ent, t.seen, t.log, o) :
     o \in IF t.overlay = Absent THEN {Absent} ELSE Resynced(t, t.overlay)}

--------------------------------------------------------------------------------

NewManager == Manager(0, [k \in Key |-> Absent], {}, <<>>, Absent)

Init ==
  /\ twin = NewManager
  /\ snapshot = SnapshotOf(NewManager)
  /\ registered = {}

\* register_road ... register_vulnerable_group: no version, no log entry.
Register(k, e) ==
  /\ twin' = Manager(twin.version, [twin.ent EXCEPT ![k] = e], twin.seen, twin.log,
                     OverlayWith(twin, k, e))
  /\ registered' = registered \cup {k}
  /\ UNCHANGED snapshot

Apply(id, p) ==
  /\ twin' = ApplyEvent(twin, id, p)
  /\ UNCHANGED <<snapshot, registered>>

\* set_routing_overlay with a new overlay.
SetRoutingOverlay ==
  /\ \E o \in Resynced(twin, EmptyOverlay) :
       twin' = Manager(twin.version, twin.ent, twin.seen, twin.log, o)
  /\ UNCHANGED <<snapshot, registered>>

CreateSnapshot ==
  /\ snapshot' = SnapshotOf(twin)
  /\ registered' = {}
  /\ UNCHANGED twin

Next ==
  \/ \E g \in Registration : Register(g[1], g[2])
  \/ \E id \in EventId, p \in Payload : Apply(id, p)
  \/ SetRoutingOverlay
  \/ CreateSnapshot

Spec == Init /\ [][Next]_vars

--------------------------------------------------------------------------------

\* A manager is a record whose registries hold nothing but entities of their
\* kind, and whose log nothing but well-formed events.
IsManager(t) ==
  /\ t = Manager(t.version, t.ent, t.seen, t.log, t.overlay)
  /\ t.version \in Nat
  /\ t.ent = [k \in Key |-> t.ent[k]]
  /\ \A k \in Key : t.ent[k] \in EntityOf(k) \cup {Absent}
  /\ t.seen \subseteq AnyEventId
  /\ t.log \in Seq(LogEntry)
  /\ t.overlay \in [Road -> RoadStatus \cup {Absent}] \cup {Absent}

\* Types of the live manager and of the history of registrations.
TypeOK == IsManager(twin) /\ registered \subseteq Key

\* Idempotency (apply_event, _seen_event_ids): however often an event id is
\* delivered, it is in the audit log at most once, cascaded ids included.
LoggedOnce ==
  \A i, j \in DOMAIN twin.log : twin.log[i].id = twin.log[j].id => i = j

\* Audit (_commit_event): the version counts the log, and the i-th entry carries
\* version i, so no state change goes unlogged and none is logged twice.
VersionCountsLog ==
  /\ twin.version = Len(twin.log)
  /\ \A i \in DOMAIN twin.log : twin.log[i].version = i

\* Causality (_handle_bridge_status_changed): a cascaded road event stands in the
\* log right behind the bridge event that caused it.
CauseLoggedFirst ==
  \A i \in DOMAIN twin.log, id \in EventId, r \in Road :
    twin.log[i].id = Caused(id, r) =>
      i > 1 /\ twin.log[i - 1].id = id /\ twin.log[i - 1].body.kind = "bridge"

\* Each override is the status of its road or of a bridge indexed to it.
Backed(t) ==
  t.overlay # Absent =>
    \A r \in Road : t.overlay[r] # Absent =>
      \/ t.overlay[r] = t.ent[r]
      \/ \E b \in KnownBridgesOn(t, r) : t.overlay[r] = RoadStatusUnder(t.ent[b].status)

\* Routing never sees a status that nothing in the twin has (the class comment's
\* synchronous coordination with StateOverlay): no override outlives its cause.
OverlayBacked == Backed(twin)

\* When an event changes a bridge and propagates to a road the overlay has
\* indexed for it, road entity and overlay agree on the bridge's status.
PropagationAgrees ==
  [][\A i \in (Len(twin.log) + 1)..Len(twin'.log) :
       LET p == twin'.log[i].body
           r == OverlayRoad[p.key]
       IN  p.kind = "bridge" /\ p.propagate /\ twin'.ent[p.key].road = r
           => /\ twin'.ent[r] = RoadStatusUnder(p.status)
              /\ twin'.overlay = Absent \/ twin'.overlay[r] = twin'.ent[r]]_vars

\* An incident's status only moves along VALID_INCIDENT_TRANSITIONS, unless its
\* id is created anew (IncidentCreated upserts) or registered over.
LifecycleStep ==
  \A k \in Incident :
    \/ twin.ent[k] = Absent
    \/ twin'.ent[k] = twin.ent[k]
    \/ twin'.ent[k] \in Successors[twin.ent[k]]
    \/ twin'.log = twin.log /\ <<k, twin'.ent[k]>> \in Registration
    \/ /\ Len(twin'.log) = Len(twin.log) + 1
       /\ twin'.log[Len(twin'.log)].body.kind = "created"
       /\ twin'.log[Len(twin'.log)].body.key = k

LifecycleKept == [][LifecycleStep]_vars

================================================================================
