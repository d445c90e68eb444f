--------------------------- MODULE DigitalTwinProofs ---------------------------
(***************************************************************************)
(* Proofs about DigitalTwin, for every set of entities, events and ids.    *)
(* Each property of a manager is shown to survive Handle, then a cascade   *)
(* (Handle twice), then every action.                                      *)
(***************************************************************************)
EXTENDS DigitalTwinProps, Induction

--------------------------------------------------------------------------------
(* Types *)

\* A bridge status always translates to a road status.
LEMMA RoadStatusUnderType == \A s : RoadStatusUnder(s) \in RoadStatus
BY DEF RoadStatusUnder, RoadStatus

\* The kinds of entities do not overlap.
LEMMA EntityOfKinds ==
  /\ \A k \in Road : EntityOf(k) = RoadStatus
  /\ \A k \in Bridge : EntityOf(k) = BridgeEntity
  /\ \A k \in Facility : EntityOf(k) = FacilityEntity
  /\ \A k \in Incident : EntityOf(k) = IncidentStatus
  /\ \A k \in Area : EntityOf(k) = Datum
BY KeysDisjoint DEF EntityOf

\* The handlers leave every entity within its kind.
LEMMA TargetType ==
  ASSUME NEW t, NEW p \in AnyPayload, ~Rejected(t, p),
         \A k \in Key : t.ent[k] \in EntityOf(k) \cup {Absent}
  PROVE  Target(t, p) \in EntityOf(p.key)
<1> DEFINE cur == t.ent[p.key]
<1>1. CASE p \in RoadPayload
  BY <1>1, EntityOfKinds DEF RoadPayload, Target
<1>2. CASE p \in BridgePayload
  <2>1. p.kind = "bridge" /\ p.key \in Bridge /\ p.status \in BridgeStatus
    BY <1>2 DEF BridgePayload
  <2>2. cur \in BridgeEntity \cup {Absent}
    BY <2>1, EntityOfKinds DEF Key
  <2>3. Current(t, p) \in BridgeEntity
    BY <2>1, <2>2 DEF Current, BridgeEntity, BridgeStatus
  <2>4. Target(t, p) \in BridgeEntity
    BY <2>1, <2>3 DEF Target, BridgeEntity
  <2> QED BY <2>1, <2>4, EntityOfKinds
<1>3. CASE p \in CapacityPayload
  <2>1. /\ p.kind = "capacity" /\ p.key \in Facility /\ p.avail <= p.cap
        /\ p.cap \in 0..MaxCapacity /\ p.avail \in 0..MaxCapacity
    BY <1>3 DEF CapacityPayload
  <2>2. cur \in FacilityEntity
    BY <2>1, EntityOfKinds DEF Key, Rejected
  <2>3. Current(t, p) = cur
    BY <2>1 DEF Current, Rejected
  <2>4. Target(t, p) \in FacilityEntity
    BY <2>1, <2>2, <2>3 DEF Target, FacilityEntity
  <2> QED BY <2>1, <2>4, EntityOfKinds
<1>4. CASE p \in FacilityPayload
  <2>1. p.kind = "facility" /\ p.key \in Facility /\ p.status \in Status
    BY <1>4 DEF FacilityPayload
  <2>2. cur \in FacilityEntity
    BY <2>1, EntityOfKinds DEF Key, Rejected
  <2>3. Current(t, p) = cur
    BY <2>1 DEF Current, Rejected
  <2>4. Target(t, p) \in FacilityEntity
    BY <2>1, <2>2, <2>3 DEF Target, FacilityEntity
  <2> QED BY <2>1, <2>4, EntityOfKinds
<1>5. CASE p \in IncidentPayload
  BY <1>5, EntityOfKinds DEF IncidentPayload, Target
<1>6. CASE p \in AreaPayload
  BY <1>6, EntityOfKinds DEF AreaPayload, Target
<1> QED BY <1>1, <1>2, <1>3, <1>4, <1>5, <1>6 DEF AnyPayload

\* Every payload names a key.
LEMMA PayloadKey == \A p \in AnyPayload : p.key \in Key
BY DEF AnyPayload, RoadPayload, BridgePayload, CapacityPayload, FacilityPayload,
       IncidentPayload, AreaPayload, Key

\* Resynchronising gives a road a status or leaves it without.
LEMMA ResyncedRoadType ==
  ASSUME NEW t, IsManager(t), NEW ov \in [Road -> RoadStatus \cup {Absent}], NEW r \in Road
  PROVE  ResyncedRoad(t, ov, r) \subseteq RoadStatus \cup {Absent}
<1>1. t.ent[r] \in RoadStatus \cup {Absent}
  BY EntityOfKinds DEF IsManager, Key
<1> QED BY <1>1, RoadStatusUnderType DEF ResyncedRoad

\* An override written for an entity keeps the overlay one of road statuses.
LEMMA OverlayWithType ==
  ASSUME NEW t, t.overlay \in [Road -> RoadStatus \cup {Absent}] \cup {Absent},
         NEW k \in Key, NEW e \in EntityOf(k)
  PROVE  OverlayWith(t, k, e) \in [Road -> RoadStatus \cup {Absent}] \cup {Absent}
<1>1. CASE k \in Road
  BY <1>1, EntityOfKinds DEF OverlayWith
<1>2. CASE k \in Bridge /\ k \notin Road
  BY <1>2, RoadStatusUnderType, InputsTyped DEF OverlayWith
<1>3. CASE k \notin Road /\ k \notin Bridge
  BY <1>3 DEF OverlayWith
<1> QED BY <1>1, <1>2, <1>3

\* One handler keeps a manager a manager.
LEMMA HandleType ==
  ASSUME NEW t, IsManager(t), NEW id \in AnyEventId, NEW p \in AnyPayload
  PROVE  IsManager(Handle(t, id, p))
<1>0. p.key \in Key
  BY PayloadKey
<1>1. CASE Applies(t, id, p)
  <2>1. Target(t, p) \in EntityOf(p.key)
    BY <1>1, TargetType DEF IsManager, Applies
  <2>2. OverlayWith(t, p.key, Target(t, p)) \in [Road -> RoadStatus \cup {Absent}] \cup {Absent}
    BY <1>0, <2>1, OverlayWithType DEF IsManager
  <2>3. [id |-> id, body |-> p, version |-> t.version + 1] \in LogEntry
    BY DEF LogEntry, IsManager
  <2>4. Append(t.log, [id |-> id, body |-> p, version |-> t.version + 1]) \in Seq(LogEntry)
    BY <2>3 DEF IsManager
  <2>5. /\ [t.ent EXCEPT ![p.key] = Target(t, p)]
            = [k \in Key |-> [t.ent EXCEPT ![p.key] = Target(t, p)][k]]
        /\ \A k \in Key : [t.ent EXCEPT ![p.key] = Target(t, p)][k] \in EntityOf(k) \cup {Absent}
    BY <1>0, <2>1 DEF IsManager
  <2> QED BY <1>1, <2>2, <2>4, <2>5 DEF Handle, Commit, Manager, IsManager
<1>2. CASE ~Applies(t, id, p) /\ (id \in t.seen \/ Rejected(t, p))
  BY <1>2 DEF Handle
<1>3. CASE ~Applies(t, id, p) /\ ~(id \in t.seen \/ Rejected(t, p))
  <2>1. Current(t, p) \in EntityOf(p.key)
    BY <1>3, TargetType DEF IsManager, Applies, NoOp
  <2>2. /\ [t.ent EXCEPT ![p.key] = Current(t, p)]
            = [k \in Key |-> [t.ent EXCEPT ![p.key] = Current(t, p)][k]]
        /\ \A k \in Key : [t.ent EXCEPT ![p.key] = Current(t, p)][k] \in EntityOf(k) \cup {Absent}
    BY <1>0, <2>1 DEF IsManager
  <2> QED BY <1>3, <2>2 DEF Handle, Ignore, Manager, IsManager
<1> QED BY <1>1, <1>2, <1>3

\* A cascade is a road event with an id of its own.
LEMMA CascadeType ==
  ASSUME NEW t, IsManager(t), NEW id \in EventId, NEW p \in AnyPayload,
         Cascades(t, id, p)
  PROVE  /\ CascadeTo(t, p) \in Road
         /\ Caused(id, CascadeTo(t, p)) \in AnyEventId
         /\ CascadePayload(CascadeTo(t, p), p.status) \in AnyPayload
<1>1. p \in BridgePayload
  BY DEF Cascades, AnyPayload, RoadPayload, BridgePayload, CapacityPayload,
         FacilityPayload, IncidentPayload, AreaPayload
<1>2. t.ent[p.key] \in BridgeEntity \cup {Absent}
  BY <1>1, EntityOfKinds DEF BridgePayload, IsManager, Key
<1>3. CascadeTo(t, p) \in Road
  BY <1>1, <1>2 DEF Cascades, CascadeTo, Current, BridgePayload, BridgeEntity
<1>4. CascadePayload(CascadeTo(t, p), p.status) \in RoadPayload
  BY <1>3, RoadStatusUnderType DEF CascadePayload, RoadPayload
<1> QED BY <1>3, <1>4 DEF AnyPayload, AnyEventId

LEMMA ApplyEventType ==
  ASSUME NEW t, IsManager(t), NEW id \in EventId, NEW p \in AnyPayload
  PROVE  IsManager(ApplyEvent(t, id, p))
<1>1. IsManager(Handle(t, id, p))
  BY HandleType DEF AnyEventId
<1>2. CASE Cascades(t, id, p)
  BY <1>1, <1>2, CascadeType, HandleType DEF ApplyEvent
<1>3. CASE ~Cascades(t, id, p)
  BY <1>1, <1>3 DEF ApplyEvent
<1> QED BY <1>2, <1>3

\* The steps that are no events keep a manager a manager.
LEMMA RegisterType ==
  ASSUME TypeOK, NEW g \in Registration, Register(g[1], g[2])
  PROVE  TypeOK'
<1>1. g[1] \in Key /\ g[2] \in EntityOf(g[1])
  BY InputsTyped
<1>2. OverlayWith(twin, g[1], g[2]) \in [Road -> RoadStatus \cup {Absent}] \cup {Absent}
  BY <1>1, OverlayWithType DEF TypeOK, IsManager
<1>3. /\ [twin.ent EXCEPT ![g[1]] = g[2]] = [k \in Key |-> [twin.ent EXCEPT ![g[1]] = g[2]][k]]
      /\ \A k \in Key : [twin.ent EXCEPT ![g[1]] = g[2]][k] \in EntityOf(k) \cup {Absent}
  BY <1>1 DEF TypeOK, IsManager
<1> QED BY <1>1, <1>2, <1>3 DEF TypeOK, IsManager, Register, Manager

\* Type correctness of the twin, whatever events and registrations it receives.
THEOREM TypeCorrect == Spec => []TypeOK
<1>1. Init => TypeOK
  BY DEF Init, TypeOK, IsManager, NewManager, Manager
<1>2. TypeOK /\ [Next]_vars => TypeOK'
  <2> SUFFICES ASSUME TypeOK, [Next]_vars PROVE TypeOK'
    OBVIOUS
  <2>1. CASE \E g \in Registration : Register(g[1], g[2])
    BY <2>1, RegisterType
  <2>2. ASSUME NEW id \in EventId, NEW p \in Payload, Apply(id, p) PROVE TypeOK'
    <3>1. IsManager(ApplyEvent(twin, id, p))
      BY ApplyEventType, InputsTyped DEF TypeOK
    <3> QED BY <2>2, <3>1 DEF Apply, TypeOK
  <2>3. CASE SetRoutingOverlay
    <3>1. PICK o \in Resynced(twin, EmptyOverlay) :
            twin' = Manager(twin.version, twin.ent, twin.seen, twin.log, o)
      BY <2>3 DEF SetRoutingOverlay
    <3>2. o \in [Road -> RoadStatus \cup {Absent}]
      <4>1. EmptyOverlay \in [Road -> RoadStatus \cup {Absent}]
        BY DEF EmptyOverlay
      <4>2. \A r \in Road : o[r] \in ResyncedRoad(twin, EmptyOverlay, r)
        BY DEF Resynced
      <4>3. \A r \in Road : o[r] \in RoadStatus \cup {Absent}
        BY <4>1, <4>2, ResyncedRoadType DEF TypeOK
      <4>4. o = [r \in Road |-> o[r]]
        BY DEF Resynced
      <4> QED BY <4>3, <4>4
    <3> QED BY <2>3, <3>1, <3>2 DEF SetRoutingOverlay, Manager, TypeOK, IsManager
  <2>4. CASE CreateSnapshot
    BY <2>4 DEF CreateSnapshot, TypeOK
  <2>5. CASE UNCHANGED vars
    BY <2>5 DEF vars, TypeOK
  <2> QED BY <2>1, <2>2, <2>3, <2>4, <2>5 DEF Next
<1> QED BY <1>1, <1>2, PTL DEF Spec

--------------------------------------------------------------------------------
(* The audit log *)

\* The inductive form of LoggedOnce and VersionCountsLog: what is logged has
\* been seen, so an id that applies cannot be in the log yet.
Audited(t) ==
  /\ t.version = Len(t.log)
  /\ \A i \in DOMAIN t.log : t.log[i].version = i /\ t.log[i].id \in t.seen
  /\ \A i, j \in DOMAIN t.log : t.log[i].id = t.log[j].id => i = j

LEMMA HandleAudited ==
  ASSUME NEW t, IsManager(t), Audited(t), NEW id \in AnyEventId, NEW p \in AnyPayload
  PROVE  Audited(Handle(t, id, p))
<1>1. CASE Applies(t, id, p)
  <2> DEFINE entry == [id |-> id, body |-> p, version |-> t.version + 1]
             u == Handle(t, id, p)
  <2>1. u.version = t.version + 1 /\ u.seen = t.seen \cup {id} /\ u.log = Append(t.log, entry)
    BY <1>1 DEF Handle, Commit, Manager
  <2>2. entry \in LogEntry /\ t.log \in Seq(LogEntry)
    BY DEF LogEntry, IsManager
  <2>3. /\ Len(u.log) = Len(t.log) + 1
        /\ DOMAIN u.log = 1..Len(t.log) + 1 /\ DOMAIN t.log = 1..Len(t.log)
        /\ \A i \in DOMAIN t.log : u.log[i] = t.log[i]
        /\ u.log[Len(t.log) + 1] = entry
    BY <2>1, <2>2
  <2>4. id \notin t.seen
    BY <1>1 DEF Applies
  <2> HIDE DEF u
  <2>5. \A i \in DOMAIN u.log : i \in DOMAIN t.log \/ i = Len(t.log) + 1
    BY <2>2, <2>3
  <2>6. \A i \in DOMAIN u.log : u.log[i].version = i /\ u.log[i].id \in u.seen
    <3>1. \A i \in DOMAIN t.log : u.log[i].version = i /\ u.log[i].id \in u.seen
      BY <2>1, <2>3 DEF Audited
    <3>2. entry.version = Len(t.log) + 1 /\ entry.id \in u.seen
      BY <2>1 DEF Audited
    <3> HIDE DEF entry
    <3>3. u.log[Len(t.log) + 1].version = Len(t.log) + 1 /\ u.log[Len(t.log) + 1].id \in u.seen
      BY <2>3, <3>2
    <3> QED BY <2>5, <3>1, <3>3
  <2>7. \A i, j \in DOMAIN u.log : u.log[i].id = u.log[j].id => i = j
    <3>1. u.log[Len(t.log) + 1].id = id
      BY <2>3
    <3>2. \A i \in DOMAIN t.log : u.log[i].id = t.log[i].id /\ u.log[i].id # id
      BY <2>3, <2>4 DEF Audited
    <3>3. \A i, j \in DOMAIN t.log : u.log[i].id = u.log[j].id => i = j
      BY <3>2 DEF Audited
    <3> QED BY <2>5, <3>1, <3>2, <3>3
  <2>8. u.version = Len(u.log)
    BY <2>1, <2>3 DEF Audited
  <2>9. Audited(u)
    BY <2>6, <2>7, <2>8 DEF Audited
  <2> QED BY <2>9 DEF u
<1>2. CASE ~Applies(t, id, p)
  BY <1>2 DEF Handle, Ignore, Manager, Audited
<1> QED BY <1>1, <1>2

LEMMA ApplyEventAudited ==
  ASSUME NEW t, IsManager(t), Audited(t), NEW id \in EventId, NEW p \in AnyPayload
  PROVE  Audited(ApplyEvent(t, id, p))
<1>1. IsManager(Handle(t, id, p)) /\ Audited(Handle(t, id, p))
  BY HandleType, HandleAudited DEF AnyEventId
<1>2. CASE Cascades(t, id, p)
  BY <1>1, <1>2, CascadeType, HandleAudited DEF ApplyEvent
<1>3. CASE ~Cascades(t, id, p)
  BY <1>1, <1>3 DEF ApplyEvent
<1> QED BY <1>2, <1>3

LEMMA AuditInvariant == Spec => []Audited(twin)
<1>1. Init => Audited(twin)
  BY DEF Init, NewManager, Manager, Audited
<1>2. TypeOK /\ Audited(twin) /\ [Next]_vars => Audited(twin)'
  <2> SUFFICES ASSUME TypeOK, Audited(twin), [Next]_vars PROVE Audited(twin)'
    OBVIOUS
  <2>1. ASSUME NEW g \in Registration, Register(g[1], g[2]) PROVE Audited(twin)'
    BY <2>1 DEF Register, Manager, Audited
  <2>2. ASSUME NEW id \in EventId, NEW p \in Payload, Apply(id, p) PROVE Audited(twin)'
    <3>1. Audited(ApplyEvent(twin, id, p))
      BY ApplyEventAudited, InputsTyped DEF TypeOK
    <3> QED BY <2>2, <3>1 DEF Apply, Audited
  <2>3. CASE SetRoutingOverlay
    BY <2>3 DEF SetRoutingOverlay, Manager, Audited
  <2>4. CASE CreateSnapshot
    BY <2>4 DEF CreateSnapshot, Audited
  <2>5. CASE UNCHANGED vars
    BY <2>5 DEF vars, Audited
  <2> QED BY <2>1, <2>2, <2>3, <2>4, <2>5 DEF Next
<1> QED BY <1>1, <1>2, TypeCorrect, PTL DEF Spec

\* Idempotency: an event id, cascaded ids included, is in the audit log of
\* DigitalTwinStateManager at most once, however often it is delivered.
THEOREM Idempotent == Spec => []LoggedOnce
<1>1. Audited(twin) => LoggedOnce
  BY DEF Audited, LoggedOnce
<1> QED BY <1>1, AuditInvariant, PTL

\* _commit_event: version and log advance together, entry i carries version i.
THEOREM VersionIsLogLength == Spec => []VersionCountsLog
<1>1. Audited(twin) => VersionCountsLog
  BY DEF Audited, VersionCountsLog
<1> QED BY <1>1, AuditInvariant, PTL

--------------------------------------------------------------------------------
(* The routing overlay *)

\* Writing an entity together with its override keeps every override backed.
LEMMA WriteBacked ==
  ASSUME NEW t, IsManager(t), Backed(t), NEW k \in Key, NEW e \in EntityOf(k),
         NEW v, NEW s, NEW l
  PROVE  Backed(Manager(v, [t.ent EXCEPT ![k] = e], s, l, OverlayWith(t, k, e)))
<1> DEFINE u == Manager(v, [t.ent EXCEPT ![k] = e], s, l, OverlayWith(t, k, e))
<1>1. u.ent = [t.ent EXCEPT ![k] = e] /\ u.overlay = OverlayWith(t, k, e)
  BY DEF Manager
<1>2. u.ent[k] = e /\ e # Absent /\ \A j \in Key \ {k} : u.ent[j] = t.ent[j]
  BY <1>1, AbsentIsNoEntity DEF IsManager
<1> HIDE DEF u
<1> SUFFICES ASSUME u.overlay # Absent, NEW r \in Road, u.overlay[r] # Absent
             PROVE  \/ u.overlay[r] = u.ent[r]
                    \/ \E b \in KnownBridgesOn(u, r) :
                         u.overlay[r] = RoadStatusUnder(u.ent[b].status)
  BY DEF Backed, u
<1>3. t.overlay # Absent /\ t.overlay \in [Road -> RoadStatus \cup {Absent}]
  BY <1>1 DEF OverlayWith, IsManager
<1>4. CASE k = r
  BY <1>1, <1>2, <1>3, <1>4 DEF OverlayWith
<1>5. CASE k \in Bridge /\ OverlayRoad[k] = r
  <2>1. u.overlay[r] = RoadStatusUnder(e.status)
    BY <1>1, <1>3, <1>5, KeysDisjoint DEF OverlayWith
  <2>2. k \in KnownBridgesOn(u, r)
    BY <1>2, <1>5 DEF KnownBridgesOn
  <2> QED BY <1>2, <2>1, <2>2
<1>6. CASE k # r /\ ~(k \in Bridge /\ OverlayRoad[k] = r)
  <2>1. u.overlay[r] = t.overlay[r]
    BY <1>1, <1>3, <1>6, InputsTyped DEF OverlayWith
  <2>2. u.ent[r] = t.ent[r]
    BY <1>2, <1>6 DEF Key
  <2>3. \A b \in KnownBridgesOn(t, r) :
          b \in KnownBridgesOn(u, r) /\ u.ent[b] = t.ent[b]
    BY <1>2, <1>6 DEF KnownBridgesOn, Key
  <2> QED BY <1>3, <2>1, <2>2, <2>3 DEF Backed
<1> QED BY <1>4, <1>5, <1>6

LEMMA HandleBacked ==
  ASSUME NEW t, IsManager(t), Backed(t), NEW id \in AnyEventId, NEW p \in AnyPayload
  PROVE  Backed(Handle(t, id, p))
<1>0. p.key \in Key
  BY PayloadKey
<1>1. CASE Applies(t, id, p)
  <2>1. Target(t, p) \in EntityOf(p.key)
    BY <1>1, TargetType DEF IsManager, Applies
  <2> QED BY <1>0, <1>1, <2>1, WriteBacked DEF Handle, Commit
<1>2. CASE ~Applies(t, id, p) /\ (id \in t.seen \/ Rejected(t, p))
  BY <1>2 DEF Handle
<1>3. CASE ~Applies(t, id, p) /\ ~(id \in t.seen \/ Rejected(t, p))
  <2> DEFINE u == Ignore(t, id, p)
  <2>1. u.overlay = t.overlay /\ u.ent = [t.ent EXCEPT ![p.key] = Current(t, p)]
    BY DEF Ignore, Manager
  <2>2. \A j \in Key : t.ent[j] # Absent => u.ent[j] = t.ent[j]
    BY <1>0, <2>1 DEF Current, IsManager
  <2> HIDE DEF u
  <2>3. \A r \in Road : \A b \in KnownBridgesOn(t, r) :
          b \in KnownBridgesOn(u, r) /\ u.ent[b] = t.ent[b]
    BY <2>2 DEF KnownBridgesOn, Key
  <2>4. Backed(u)
    BY <2>1, <2>2, <2>3 DEF Backed, Key
  <2> QED BY <1>3, <2>4 DEF Handle, u
<1> QED BY <1>1, <1>2, <1>3

\* No override outlives its cause: the overlay only holds statuses that the
\* twin's own roads and bridges have (_sync_road_to_overlay and its kin).
THEOREM OverlayIsBacked == Spec => []OverlayBacked
<1>1. Init => OverlayBacked
  BY DEF Init, NewManager, Manager, OverlayBacked, Backed
<1>2. TypeOK /\ OverlayBacked /\ [Next]_vars => OverlayBacked'
  <2> SUFFICES ASSUME TypeOK, Backed(twin), [Next]_vars PROVE Backed(twin)'
    BY DEF OverlayBacked
  <2>1. ASSUME NEW g \in Registration, Register(g[1], g[2]) PROVE Backed(twin)'
    <3>1. Backed(Manager(twin.version, [twin.ent EXCEPT ![g[1]] = g[2]], twin.seen,
                         twin.log, OverlayWith(twin, g[1], g[2])))
      BY InputsTyped, WriteBacked DEF TypeOK
    <3> QED BY <2>1, <3>1 DEF Register, Backed, KnownBridgesOn
  <2>2. ASSUME NEW id \in EventId, NEW p \in Payload, Apply(id, p) PROVE Backed(twin)'
    <3>1. p \in AnyPayload /\ id \in AnyEventId /\ IsManager(twin)
      BY InputsTyped DEF AnyEventId, TypeOK
    <3>2. IsManager(Handle(twin, id, p)) /\ Backed(Handle(twin, id, p))
      BY <3>1, HandleType, HandleBacked
    <3>3. Backed(ApplyEvent(twin, id, p))
      BY <3>1, <3>2, CascadeType, HandleBacked DEF ApplyEvent
    <3> QED BY <2>2, <3>3 DEF Apply, Backed, KnownBridgesOn
  <2>3. CASE SetRoutingOverlay
    <3>1. PICK o \in Resynced(twin, EmptyOverlay) :
            twin' = Manager(twin.version, twin.ent, twin.seen, twin.log, o)
      BY <2>3 DEF SetRoutingOverlay
    <3>2. twin'.overlay = o /\ twin'.ent = twin.ent
      BY <3>1 DEF Manager
    <3>3. \A r \in Road : o[r] \in ResyncedRoad(twin, EmptyOverlay, r)
      BY DEF Resynced
    <3>4. \A r \in Road : o[r] # Absent =>
            \/ o[r] = twin.ent[r]
            \/ \E b \in KnownBridgesOn(twin, r) : o[r] = RoadStatusUnder(twin.ent[b].status)
      BY <3>3 DEF ResyncedRoad, EmptyOverlay
    <3> QED BY <3>2, <3>4 DEF Backed, KnownBridgesOn
  <2>4. CASE CreateSnapshot
    BY <2>4 DEF CreateSnapshot, Backed, KnownBridgesOn
  <2>5. CASE UNCHANGED vars
    BY <2>5 DEF vars, Backed, KnownBridgesOn
  <2> QED BY <2>1, <2>2, <2>3, <2>4, <2>5 DEF Next
<1> QED BY <1>1, <1>2, TypeCorrect, PTL DEF Spec

--------------------------------------------------------------------------------
(* Incident lifecycle *)

\* What one handler may do to an incident's entity in registry t.ent.
LEMMA HandleLifecycle ==
  ASSUME NEW t, IsManager(t), NEW id \in AnyEventId, NEW p \in AnyPayload,
         NEW k \in Incident, t.ent[k] # Absent
  PROVE  LET u == Handle(t, id, p)
         IN  \/ u.ent[k] = t.ent[k]
             \/ u.ent[k] \in Successors[t.ent[k]]
             \/ /\ Len(u.log) = Len(t.log) + 1 /\ p.key = k
                /\ u.log[Len(u.log)].body = p /\ p.kind = "created"
<1>0. p.key \in Key /\ k \in Key
  BY PayloadKey DEF Key
<1>1. CASE Applies(t, id, p)
  <2> DEFINE entry == [id |-> id, body |-> p, version |-> t.version + 1]
             u == Handle(t, id, p)
  <2>1. u.ent = [t.ent EXCEPT ![p.key] = Target(t, p)] /\ u.log = Append(t.log, entry)
    BY <1>1 DEF Handle, Commit, Manager
  <2>2. CASE p.key # k
    BY <1>0, <2>1, <2>2 DEF IsManager
  <2>3. CASE p.key = k
    <3>1. p.kind \in {"created", "incident"}
      BY <2>3, KeysDisjoint
      DEF AnyPayload, RoadPayload, BridgePayload, CapacityPayload, FacilityPayload,
          IncidentPayload, AreaPayload
    <3>2. CASE p.kind = "created"
      <4>1. entry \in LogEntry /\ t.log \in Seq(LogEntry)
        BY DEF LogEntry, IsManager
      <4>2. Len(u.log) = Len(t.log) + 1 /\ u.log[Len(u.log)] = entry
        BY <2>1, <4>1
      <4> QED BY <2>3, <3>2, <4>2
    <3>3. CASE p.kind = "incident"
      <4>1. u.ent[k] = p.status
        BY <1>0, <2>1, <2>3, <3>3 DEF Target, IsManager
      <4> QED BY <1>1, <2>3, <3>3, <4>1 DEF Applies, Rejected
    <3> QED BY <3>1, <3>2, <3>3
  <2> QED BY <2>2, <2>3
<1>2. CASE ~Applies(t, id, p)
  BY <1>0, <1>2 DEF Handle, Ignore, Manager, Current, IsManager
<1> QED BY <1>1, <1>2

\* apply_incident_status_transition: no event moves an incident off the lifecycle.
THEOREM LifecycleHolds == Spec => LifecycleKept
<1>1. TypeOK /\ [Next]_vars => [LifecycleStep]_vars
  <2> SUFFICES ASSUME TypeOK, Next, NEW k \in Incident, twin.ent[k] # Absent
               PROVE  \/ twin'.ent[k] = twin.ent[k]
                      \/ twin'.ent[k] \in Successors[twin.ent[k]]
                      \/ twin'.log = twin.log /\ <<k, twin'.ent[k]>> \in Registration
                      \/ /\ Len(twin'.log) = Len(twin.log) + 1
                         /\ twin'.log[Len(twin'.log)].body.kind = "created"
                         /\ twin'.log[Len(twin'.log)].body.key = k
    BY DEF LifecycleStep
  <2>0. k \in Key
    BY DEF Key
  <2>1. ASSUME NEW g \in Registration, Register(g[1], g[2])
        PROVE  \/ twin'.ent[k] = twin.ent[k]
               \/ twin'.log = twin.log /\ <<k, twin'.ent[k]>> \in Registration
    <3>1. /\ twin'.ent = [twin.ent EXCEPT ![g[1]] = g[2]] /\ twin'.log = twin.log
      BY <2>1 DEF Register, Manager
    <3>2. CASE g[1] = k
      <4>1. twin'.ent[k] = g[2]
        BY <2>0, <3>1, <3>2 DEF TypeOK, IsManager
      <4>2. <<g[1], g[2]>> = g
        BY InputsTyped
      <4> QED BY <3>1, <3>2, <4>1, <4>2
    <3> QED BY <2>0, <3>1, <3>2 DEF TypeOK, IsManager
  <2>2. ASSUME NEW id \in EventId, NEW p \in Payload, Apply(id, p)
        PROVE  \/ twin'.ent[k] = twin.ent[k]
               \/ twin'.ent[k] \in Successors[twin.ent[k]]
               \/ /\ Len(twin'.log) = Len(twin.log) + 1
                  /\ twin'.log[Len(twin'.log)].body.kind = "created"
                  /\ twin'.log[Len(twin'.log)].body.key = k
    <3> DEFINE u == Handle(twin, id, p)
    <3>1. p \in AnyPayload /\ id \in AnyEventId /\ IsManager(twin)
      BY InputsTyped DEF AnyEventId, TypeOK
    <3>2. \/ u.ent[k] = twin.ent[k]
          \/ u.ent[k] \in Successors[twin.ent[k]]
          \/ /\ Len(u.log) = Len(twin.log) + 1 /\ p.key = k
             /\ u.log[Len(u.log)].body = p /\ p.kind = "created"
      BY <3>1, HandleLifecycle
    <3>3. CASE ~Cascades(twin, id, p)
      BY <2>2, <3>2, <3>3 DEF Apply, ApplyEvent
    <3>4. CASE Cascades(twin, id, p)
      <4> DEFINE c == CascadePayload(CascadeTo(twin, p), p.status)
                 w == Handle(u, Caused(id, CascadeTo(twin, p)), c)
      <4>1. p.kind = "bridge"
        BY <3>4 DEF Cascades
      <4>2. IsManager(u) /\ IsManager(w)
        BY <3>1, <3>4, HandleType, CascadeType
      <4>3. c.key \in Road /\ c.key # k
        BY <3>1, <3>4, CascadeType, KeysDisjoint DEF CascadePayload
      <4>4. w.ent[k] = u.ent[k]
        BY <2>0, <4>2, <4>3 DEF Handle, Commit, Ignore, Manager, IsManager
      <4>5. p.key # k
        BY <3>1, <4>1, KeysDisjoint
        DEF AnyPayload, RoadPayload, BridgePayload, CapacityPayload, FacilityPayload,
            IncidentPayload, AreaPayload
      <4>6. twin' = w
        BY <2>2, <3>4 DEF Apply, ApplyEvent
      <4> QED BY <3>2, <4>4, <4>5, <4>6
    <3> QED BY <3>3, <3>4
  <2>3. CASE SetRoutingOverlay
    BY <2>3 DEF SetRoutingOverlay, Manager
  <2>4. CASE CreateSnapshot
    BY <2>4 DEF CreateSnapshot
  <2> QED BY <2>1, <2>2, <2>3, <2>4 DEF Next
<1> QED BY <1>1, TypeCorrect, PTL DEF Spec, LifecycleKept

--------------------------------------------------------------------------------
(* Causes and cascades *)

\* An id of a cascaded event tells its cause and its road.
LEMMA CausedInjective ==
  ASSUME NEW id, NEW r, NEW jd, NEW q, Caused(id, r) = Caused(jd, q)
  PROVE  id = jd /\ r = q
BY DEF Caused

\* The inductive form of CauseLoggedFirst, with where the seen ids of cascaded
\* events come from: an id is not seen before its cause's.
Traced(t) ==
  /\ \A i \in DOMAIN t.log, id \in EventId, r \in Road :
       t.log[i].id = Caused(id, r) =>
         i > 1 /\ t.log[i - 1].id = id /\ t.log[i - 1].body.kind = "bridge"
  /\ \A id \in EventId, r \in Road : Caused(id, r) \in t.seen => id \in t.seen

\* One handler appends its event, or nothing.
LEMMA HandleLog ==
  ASSUME NEW t, IsManager(t), NEW id \in AnyEventId, NEW p \in AnyPayload
  PROVE  LET u == Handle(t, id, p)
         IN  /\ Applies(t, id, p) =>
                  /\ u.log \in Seq(LogEntry) /\ Len(u.log) = Len(t.log) + 1
                  /\ \A i \in DOMAIN t.log : i \in DOMAIN u.log /\ u.log[i] = t.log[i]
                  /\ u.log[Len(t.log) + 1].id = id /\ u.log[Len(t.log) + 1].body = p
             /\ ~Applies(t, id, p) => u.log = t.log
             /\ t.seen \subseteq u.seen /\ u.seen \subseteq t.seen \cup {id}
<1>1. CASE Applies(t, id, p)
  <2> DEFINE entry == [id |-> id, body |-> p, version |-> t.version + 1]
             u == Handle(t, id, p)
  <2>1. u.log = Append(t.log, entry) /\ u.seen = t.seen \cup {id}
    BY <1>1 DEF Handle, Commit, Manager
  <2>2. entry \in LogEntry /\ t.log \in Seq(LogEntry)
    BY DEF LogEntry, IsManager
  <2>3. entry.id = id /\ entry.body = p
    OBVIOUS
  <2> HIDE DEF entry
  <2>4. /\ u.log \in Seq(LogEntry) /\ Len(u.log) = Len(t.log) + 1
        /\ \A i \in DOMAIN t.log : i \in DOMAIN u.log /\ u.log[i] = t.log[i]
        /\ u.log[Len(t.log) + 1] = entry
    BY <2>1, <2>2
  <2> QED BY <1>1, <2>1, <2>3, <2>4
<1>2. CASE ~Applies(t, id, p)
  BY <1>2 DEF Handle, Ignore, Manager
<1> QED BY <1>1, <1>2

\* An event of a caller's own is never taken for a cascaded one.
LEMMA HandleOwn ==
  ASSUME NEW t, IsManager(t), Traced(t), NEW id \in EventId, NEW p \in AnyPayload
  PROVE  Traced(Handle(t, id, p))
<1> DEFINE u == Handle(t, id, p)
<1>1. /\ Applies(t, id, p) =>
           /\ u.log \in Seq(LogEntry) /\ Len(u.log) = Len(t.log) + 1
           /\ \A i \in DOMAIN t.log : i \in DOMAIN u.log /\ u.log[i] = t.log[i]
           /\ u.log[Len(t.log) + 1].id = id /\ u.log[Len(t.log) + 1].body = p
      /\ ~Applies(t, id, p) => u.log = t.log
      /\ t.seen \subseteq u.seen /\ u.seen \subseteq t.seen \cup {id}
  BY HandleLog DEF AnyEventId
<1> HIDE DEF u
<1>2. t.log \in Seq(LogEntry)
  BY DEF IsManager
<1>3. ASSUME NEW i \in DOMAIN u.log, NEW jd \in EventId, NEW r \in Road,
             u.log[i].id = Caused(jd, r)
      PROVE  i > 1 /\ u.log[i - 1].id = jd /\ u.log[i - 1].body.kind = "bridge"
  <2>1. CASE ~Applies(t, id, p)
    BY <1>1, <1>3, <2>1 DEF Traced
  <2>2. CASE Applies(t, id, p)
    <3>1. i # Len(t.log) + 1
      BY <1>1, <1>3, <2>2, CausesAreOwn
    <3>2. i \in DOMAIN t.log
      BY <1>1, <1>2, <2>2, <3>1
    <3>3. t.log[i].id = Caused(jd, r)
      BY <1>1, <1>3, <2>2, <3>2
    <3>4. i > 1 /\ t.log[i - 1].id = jd /\ t.log[i - 1].body.kind = "bridge"
      BY <3>2, <3>3 DEF Traced
    <3>5. i - 1 \in DOMAIN t.log
      BY <1>2, <3>2, <3>4
    <3> QED BY <1>1, <2>2, <3>4, <3>5
  <2> QED BY <2>1, <2>2
<1>4. \A jd \in EventId, r \in Road : Caused(jd, r) \in u.seen => jd \in u.seen
  BY <1>1, CausesAreOwn DEF Traced
<1> QED BY <1>3, <1>4 DEF Traced, u

\* A cascaded event comes right behind the bridge event that causes it.
LEMMA HandleCascade ==
  ASSUME NEW t, IsManager(t), Traced(t), NEW id \in EventId, NEW r \in Road,
         NEW p \in AnyPayload, id \in t.seen,
         Len(t.log) > 0, t.log[Len(t.log)].id = id, t.log[Len(t.log)].body.kind = "bridge"
  PROVE  Traced(Handle(t, Caused(id, r), p))
<1> DEFINE u == Handle(t, Caused(id, r), p)
           a == Applies(t, Caused(id, r), p)
<1>0. Caused(id, r) \in AnyEventId
  BY DEF AnyEventId
<1>1. /\ a =>
           /\ u.log \in Seq(LogEntry) /\ Len(u.log) = Len(t.log) + 1
           /\ \A i \in DOMAIN t.log : i \in DOMAIN u.log /\ u.log[i] = t.log[i]
           /\ u.log[Len(t.log) + 1].id = Caused(id, r)
      /\ ~a => u.log = t.log
      /\ t.seen \subseteq u.seen /\ u.seen \subseteq t.seen \cup {Caused(id, r)}
  BY <1>0, HandleLog
<1> HIDE DEF u, a
<1>2. t.log \in Seq(LogEntry)
  BY DEF IsManager
<1>3. ASSUME NEW i \in DOMAIN u.log, NEW jd \in EventId, NEW q \in Road,
             u.log[i].id = Caused(jd, q)
      PROVE  i > 1 /\ u.log[i - 1].id = jd /\ u.log[i - 1].body.kind = "bridge"
  <2>1. CASE ~a
    BY <1>1, <1>3, <2>1 DEF Traced
  <2>2. CASE a /\ i = Len(t.log) + 1
    <3>1. jd = id
      <4>1. Caused(jd, q) = Caused(id, r)
        BY <1>1, <1>3, <2>2
      <4> QED BY <4>1, CausedInjective
    <3>2. Len(t.log) \in DOMAIN t.log /\ i - 1 = Len(t.log) /\ i > 1
      BY <1>2, <2>2
    <3> QED BY <1>1, <2>2, <3>1, <3>2
  <2>3. CASE a /\ i # Len(t.log) + 1
    <3>1. i \in DOMAIN t.log
      BY <1>1, <1>2, <2>3
    <3>2. t.log[i].id = Caused(jd, q)
      BY <1>1, <1>3, <2>3, <3>1
    <3>3. i > 1 /\ t.log[i - 1].id = jd /\ t.log[i - 1].body.kind = "bridge"
      BY <3>1, <3>2 DEF Traced
    <3>4. i - 1 \in DOMAIN t.log
      BY <1>2, <3>1, <3>3
    <3> QED BY <1>1, <2>3, <3>3, <3>4
  <2> QED BY <2>1, <2>2, <2>3
<1>4. ASSUME NEW jd \in EventId, NEW q \in Road, Caused(jd, q) \in u.seen
      PROVE  jd \in u.seen
  <2>1. CASE Caused(jd, q) \in t.seen
    BY <1>1, <2>1 DEF Traced
  <2>2. CASE Caused(jd, q) = Caused(id, r)
    <3>1. jd = id
      BY <2>2, CausedInjective
    <3> QED BY <1>1, <3>1
  <2> QED BY <1>1, <1>4, <2>1, <2>2
<1> QED BY <1>3, <1>4 DEF Traced, u

LEMMA ApplyEventCaused ==
  ASSUME NEW t, IsManager(t), Traced(t), NEW id \in EventId, NEW p \in AnyPayload
  PROVE  Traced(ApplyEvent(t, id, p))
<1> DEFINE u == Handle(t, id, p)
<1>1. IsManager(u) /\ Traced(u)
  BY HandleType, HandleOwn DEF AnyEventId
<1>2. CASE Cascades(t, id, p)
  <2>1. Applies(t, id, p) /\ p.kind = "bridge"
    BY <1>2 DEF Cascades
  <2>2. /\ Len(u.log) = Len(t.log) + 1
        /\ u.log[Len(t.log) + 1].id = id /\ u.log[Len(t.log) + 1].body = p
    BY <2>1, HandleLog DEF AnyEventId
  <2>3. id \in u.seen
    BY <2>1 DEF Handle, Commit, Manager
  <2>4. Len(t.log) \in Nat
    BY DEF IsManager
  <2>5. /\ CascadeTo(t, p) \in Road
        /\ CascadePayload(CascadeTo(t, p), p.status) \in AnyPayload
    BY <1>2, CascadeType
  <2> HIDE DEF u
  <2>6. Traced(Handle(u, Caused(id, CascadeTo(t, p)), CascadePayload(CascadeTo(t, p), p.status)))
    BY <1>1, <2>1, <2>2, <2>3, <2>4, <2>5, HandleCascade
  <2> QED BY <1>2, <2>6 DEF ApplyEvent, u
<1>3. CASE ~Cascades(t, id, p)
  BY <1>1, <1>3 DEF ApplyEvent
<1> QED BY <1>2, <1>3

LEMMA CausedInvariant == Spec => []Traced(twin)
<1>1. Init => Traced(twin)
  BY DEF Init, NewManager, Manager, Traced
<1>2. TypeOK /\ Traced(twin) /\ [Next]_vars => Traced(twin)'
  <2> SUFFICES ASSUME TypeOK, Traced(twin), [Next]_vars PROVE Traced(twin)'
    OBVIOUS
  <2>1. ASSUME NEW g \in Registration, Register(g[1], g[2]) PROVE Traced(twin)'
    BY <2>1 DEF Register, Manager, Traced
  <2>2. ASSUME NEW id \in EventId, NEW p \in Payload, Apply(id, p) PROVE Traced(twin)'
    <3>1. Traced(ApplyEvent(twin, id, p))
      BY ApplyEventCaused, InputsTyped DEF TypeOK
    <3> QED BY <2>2, <3>1 DEF Apply, Traced
  <2>3. CASE SetRoutingOverlay
    BY <2>3 DEF SetRoutingOverlay, Manager, Traced
  <2>4. CASE CreateSnapshot
    BY <2>4 DEF CreateSnapshot, Traced
  <2>5. CASE UNCHANGED vars
    BY <2>5 DEF vars, Traced
  <2> QED BY <2>1, <2>2, <2>3, <2>4, <2>5 DEF Next
<1> QED BY <1>1, <1>2, TypeCorrect, PTL DEF Spec

\* Causality (_handle_bridge_status_changed): a cascaded road event stands in the
\* log right behind the bridge event that caused it.
THEOREM CausesFirst == Spec => []CauseLoggedFirst
<1>1. Traced(twin) => CauseLoggedFirst
  BY DEF Traced, CauseLoggedFirst
<1> QED BY <1>1, CausedInvariant, PTL

\* A bridge event that propagates leaves road and overlay with the bridge's status:
\* its cascade has never been seen before, and where it changes nothing the road
\* already has that status and the bridge has written the override.
LEMMA CascadeAgrees ==
  ASSUME NEW t, IsManager(t), Traced(t), NEW id \in EventId, NEW p \in AnyPayload,
         Cascades(t, id, p), OverlayRoad[p.key] = CascadeTo(t, p)
  PROVE  LET w == ApplyEvent(t, id, p)
             r == OverlayRoad[p.key]
         IN  /\ w.ent[r] = RoadStatusUnder(p.status)
             /\ w.overlay = Absent \/ w.overlay[r] = w.ent[r]
<1> DEFINE u == Handle(t, id, p)
           r == CascadeTo(t, p)
           c == CascadePayload(r, p.status)
           w == Handle(u, Caused(id, r), c)
<1>1. /\ r \in Road /\ c \in AnyPayload /\ Caused(id, r) \in AnyEventId
      /\ Applies(t, id, p) /\ p.kind = "bridge"
  BY CascadeType DEF Cascades
<1>2. IsManager(u) /\ p.key \in Bridge
  BY <1>1, HandleType
  DEF AnyEventId, AnyPayload, RoadPayload, BridgePayload, CapacityPayload, FacilityPayload,
      IncidentPayload, AreaPayload
<1>3. Caused(id, r) \notin u.seen
  <2>1. u.seen = t.seen \cup {id} /\ id \notin t.seen
    BY <1>1 DEF Applies, Handle, Commit, Manager
  <2> QED BY <1>1, <2>1, CausesAreOwn DEF Traced
<1>4. c.kind = "road" /\ c.key = r /\ c.status = RoadStatusUnder(p.status)
  BY DEF CascadePayload
<1>5. u.overlay = Absent \/ u.overlay[r] = RoadStatusUnder(p.status)
  <2>1. u.overlay = OverlayWith(t, p.key, Target(t, p))
    BY <1>1 DEF Handle, Commit, Manager
  <2>2. Target(t, p).status = p.status
    <3>1. Current(t, p) \in BridgeEntity
      <4>1. t.ent[p.key] \in BridgeEntity \cup {Absent}
        <5>1. p.key \in Bridge /\ p.key \in Key
          BY <1>2 DEF Key
        <5> HIDE DEF u
        <5> QED BY <5>1, EntityOfKinds DEF IsManager
      <4> QED BY <1>1, <4>1 DEF Current, BridgeEntity, BridgeStatus
    <3> QED BY <1>1, <3>1 DEF Target, BridgeEntity
  <2>3. p.key \notin Road /\ OverlayRoad[p.key] = r
    BY <1>2, KeysDisjoint
  <2>4. t.overlay = Absent \/ t.overlay \in [Road -> RoadStatus \cup {Absent}]
    BY DEF IsManager
  <2> DEFINE e == Target(t, p)
  <2>5. u.overlay = OverlayWith(t, p.key, e) /\ e.status = p.status
    BY <2>1, <2>2
  <2> HIDE DEF u, r, e
  <2> QED BY <1>1, <1>2, <2>3, <2>4, <2>5 DEF OverlayWith
<1>6. u.ent = [k \in Key |-> u.ent[k]] /\ r \in Key
  <2>1. r \in Key
    BY <1>1 DEF Key
  <2> HIDE DEF u
  <2> QED BY <1>2, <2>1 DEF IsManager
<1>7. u.overlay = Absent \/ u.overlay \in [Road -> RoadStatus \cup {Absent}]
  BY <1>2 DEF IsManager
<1>8. ~Rejected(u, c) /\ Target(u, c) = RoadStatusUnder(p.status)
  <2> HIDE DEF u, c
  <2> QED BY <1>4 DEF Rejected, Target
<1>9. w.ent[r] = RoadStatusUnder(p.status) /\ (w.overlay = Absent \/ w.overlay[r] = w.ent[r])
  <2> HIDE DEF u, c, r
  <2>1. CASE NoOp(u, c)
    <3>1. Current(u, c) = RoadStatusUnder(p.status)
      BY <1>8, <2>1 DEF NoOp
    <3> QED BY <1>3, <1>4, <1>5, <1>6, <1>8, <2>1, <3>1
            DEF Handle, Applies, Ignore, Manager
  <2>2. CASE ~NoOp(u, c)
    <3>1. w = Commit(u, Caused(id, r), c)
      BY <1>3, <1>8, <2>2 DEF Handle, Applies
    <3>2. w.ent[r] = RoadStatusUnder(p.status)
      BY <1>4, <1>6, <1>8, <3>1 DEF Commit, Manager
    <3>3. w.overlay = OverlayWith(u, r, RoadStatusUnder(p.status))
      BY <1>4, <1>8, <3>1 DEF Commit, Manager
    <3> QED BY <1>1, <1>7, <3>2, <3>3 DEF OverlayWith
  <2> QED BY <2>1, <2>2
<1> QED BY <1>9 DEF ApplyEvent

\* What an application adds to the log: the event, if it applies, and its cascade.
LEMMA ApplyEventLog ==
  ASSUME NEW t, IsManager(t), NEW id \in EventId, NEW p \in AnyPayload,
         NEW i \in (Len(t.log) + 1)..Len(ApplyEvent(t, id, p).log),
         ApplyEvent(t, id, p).log[i].body.kind = "bridge"
  PROVE  Applies(t, id, p) /\ ApplyEvent(t, id, p).log[i].body = p
<1> DEFINE u == Handle(t, id, p)
           r == CascadeTo(t, p)
           c == CascadePayload(r, p.status)
           w == Handle(u, Caused(id, r), c)
<1>1. IsManager(u)
  BY HandleType DEF AnyEventId
<1>2. Len(t.log) \in Nat /\ Len(u.log) \in Nat
  BY <1>1 DEF IsManager
<1>3. /\ Applies(t, id, p) =>
           /\ Len(u.log) = Len(t.log) + 1
           /\ u.log[Len(t.log) + 1].body = p
      /\ ~Applies(t, id, p) => u.log = t.log
  BY HandleLog DEF AnyEventId
<1>4. CASE ~Cascades(t, id, p)
  <2>1. ApplyEvent(t, id, p) = u
    BY <1>4 DEF ApplyEvent
  <2> HIDE DEF u
  <2> QED BY <1>2, <1>3, <2>1
<1>5. CASE Cascades(t, id, p)
  <2>1. ApplyEvent(t, id, p) = w /\ Applies(t, id, p)
    BY <1>5 DEF ApplyEvent, Cascades
  <2>2. Caused(id, r) \in AnyEventId /\ c \in AnyPayload
    BY <1>5, CascadeType
  <2>3. c.kind = "road"
    BY DEF CascadePayload
  <2> HIDE DEF u, c
  <2>4. /\ Applies(u, Caused(id, r), c) =>
             /\ Len(w.log) = Len(u.log) + 1
             /\ \A j \in DOMAIN u.log : w.log[j] = u.log[j]
             /\ w.log[Len(u.log) + 1].body = c
        /\ ~Applies(u, Caused(id, r), c) => w.log = u.log
    BY <1>1, <2>2, HandleLog
  <2> HIDE DEF w
  <2>5. w.log[i].body.kind = "bridge" /\ i \in (Len(t.log) + 1)..Len(w.log)
    BY <2>1
  <2>6. i # Len(t.log) + 2
    BY <1>2, <1>3, <2>1, <2>3, <2>4, <2>5
  <2>7. i = Len(t.log) + 1
    BY <1>2, <1>3, <2>1, <2>4, <2>5, <2>6
  <2>8. i \in DOMAIN u.log
    BY <1>1, <1>3, <2>1, <2>7 DEF IsManager
  <2>9. w.log[i] = u.log[i]
    BY <2>4, <2>8
  <2> QED BY <1>3, <2>1, <2>7, <2>9
<1> QED BY <1>4, <1>5

\* When an event changes a bridge and propagates to a road the overlay has
\* indexed for it, road entity and overlay agree on the bridge's status.
THEOREM PropagationHolds == Spec => PropagationAgrees
<1> DEFINE Agrees ==
      \A i \in (Len(twin.log) + 1)..Len(twin'.log) :
        LET p == twin'.log[i].body
            r == OverlayRoad[p.key]
        IN  p.kind = "bridge" /\ p.propagate /\ twin'.ent[p.key].road = r
            => /\ twin'.ent[r] = RoadStatusUnder(p.status)
               /\ twin'.overlay = Absent \/ twin'.overlay[r] = twin'.ent[r]
<1>1. TypeOK /\ Traced(twin) /\ [Next]_vars => [Agrees]_vars
  <2> SUFFICES ASSUME TypeOK, Traced(twin), Next PROVE Agrees
    OBVIOUS
  <2>0. Len(twin.log) \in Nat
    BY DEF TypeOK, IsManager
  <2>1. ASSUME NEW id \in EventId, NEW p \in Payload, Apply(id, p) PROVE Agrees
    <3> SUFFICES ASSUME NEW i \in (Len(twin.log) + 1)..Len(twin'.log),
                        twin'.log[i].body.kind = "bridge",
                        twin'.log[i].body.propagate,
                        twin'.ent[twin'.log[i].body.key].road = OverlayRoad[twin'.log[i].body.key]
                 PROVE  LET r == OverlayRoad[twin'.log[i].body.key]
                        IN  /\ twin'.ent[r] = RoadStatusUnder(twin'.log[i].body.status)
                            /\ twin'.overlay = Absent \/ twin'.overlay[r] = twin'.ent[r]
      OBVIOUS
    <3>1. p \in AnyPayload /\ id \in AnyEventId /\ IsManager(twin)
      BY InputsTyped DEF TypeOK, AnyEventId
    <3>2. twin' = ApplyEvent(twin, id, p)
      BY <2>1 DEF Apply
    <3>3. Applies(twin, id, p) /\ twin'.log[i].body = p
      BY <3>1, <3>2, ApplyEventLog
    <3>4. p.kind = "bridge" /\ p.propagate /\ p.key \in Bridge /\ p.key \in Key
      BY <3>1, <3>3
      DEF AnyPayload, RoadPayload, BridgePayload, CapacityPayload, FacilityPayload,
          IncidentPayload, AreaPayload, Key
    <3> DEFINE u == Handle(twin, id, p)
    <3>5. u.ent[p.key].road = CascadeTo(twin, p)
      <4>1. twin.ent[p.key] \in BridgeEntity \cup {Absent}
        BY <3>1, <3>4, EntityOfKinds DEF IsManager
      <4>2. Current(twin, p) \in [status : BridgeStatus, road : Road \cup {Absent}]
        BY <3>4, <4>1 DEF Current, BridgeEntity, BridgeStatus
      <4>3. Target(twin, p).road = Current(twin, p).road
        BY <3>4, <4>2 DEF Target
      <4>4. u.ent[p.key] = Target(twin, p)
        BY <3>1, <3>3, <3>4 DEF Handle, Commit, Manager, IsManager
      <4> QED BY <4>3, <4>4 DEF CascadeTo
    <3>6. OverlayRoad[p.key] \in Road /\ OverlayRoad[p.key] # Absent
      BY <3>4, InputsTyped, AbsentIsNoRoad
    <3>7. Cascades(twin, id, p)
      <4>1. CASE CascadeTo(twin, p) = Absent
        <5>1. ~Cascades(twin, id, p)
          BY <4>1 DEF Cascades
        <5>2. twin' = u
          BY <3>2, <5>1 DEF ApplyEvent
        <5> QED BY <3>3, <3>5, <3>6, <4>1, <5>2
      <4>2. CASE CascadeTo(twin, p) # Absent
        BY <3>3, <3>4, <4>2 DEF Cascades
      <4> QED BY <4>1, <4>2
    <3>8. twin'.ent[p.key] = u.ent[p.key]
      <4> DEFINE c == CascadePayload(CascadeTo(twin, p), p.status)
      <4>1. IsManager(u) /\ c.key \in Road /\ p.key \notin Road
        BY <3>1, <3>4, <3>7, HandleType, CascadeType, KeysDisjoint DEF CascadePayload
      <4>2. twin' = Handle(u, Caused(id, CascadeTo(twin, p)), c)
        BY <3>2, <3>7 DEF ApplyEvent
      <4> HIDE DEF u, c
      <4> QED BY <3>4, <4>1, <4>2 DEF Handle, Commit, Ignore, Manager, IsManager
    <3>9. OverlayRoad[p.key] = CascadeTo(twin, p)
      BY <3>3, <3>5, <3>8
    <3> QED BY <3>1, <3>2, <3>3, <3>7, <3>9, CascadeAgrees
  <2>2. ASSUME twin'.log = twin.log PROVE Agrees
    BY <2>0, <2>2
  <2>3. CASE \E g \in Registration : Register(g[1], g[2])
    <3>1. twin'.log = twin.log
      BY <2>3 DEF Register, Manager
    <3> HIDE DEF Agrees
    <3> QED BY <2>2, <3>1
  <2>4. CASE SetRoutingOverlay
    <3>1. twin'.log = twin.log
      BY <2>4 DEF SetRoutingOverlay, Manager
    <3> HIDE DEF Agrees
    <3> QED BY <2>2, <3>1
  <2>5. CASE CreateSnapshot
    <3>1. twin'.log = twin.log
      BY <2>5 DEF CreateSnapshot
    <3> HIDE DEF Agrees
    <3> QED BY <2>2, <3>1
  <2> HIDE DEF Agrees
  <2> QED BY <2>1, <2>3, <2>4, <2>5 DEF Next
<1> QED BY <1>1, TypeCorrect, CausedInvariant, PTL DEF Spec, PropagationAgrees

--------------------------------------------------------------------------------
(* Replay: two managers that agree up to auto-created open roads and bridges *)
(* go on agreeing, so a replay keeps up with the live manager event by event *)

\* The entity a handler starts from is the one WithDefaults shows.
LEMMA CurrentIsDefault ==
  ASSUME NEW t, NEW p \in AnyPayload
  PROVE  /\ Current(t, p) = WithDefaults(t)[p.key]
         /\ p.kind \notin {"road", "bridge"} => t.ent[p.key] = WithDefaults(t)[p.key]
<1>1. p.key \in Key
  BY PayloadKey
<1>2. CASE p \in RoadPayload
  BY <1>1, <1>2 DEF RoadPayload, Current, WithDefaults
<1>3. CASE p \in BridgePayload
  <2>1. p.kind = "bridge" /\ p.key \in Bridge /\ p.key \notin Road
    BY <1>3, KeysDisjoint DEF BridgePayload
  <2> QED BY <1>1, <2>1 DEF Current, WithDefaults
<1>4. CASE p \in CapacityPayload \cup FacilityPayload \cup IncidentPayload \cup AreaPayload
  <2>1. p.kind \notin {"road", "bridge"} /\ p.key \in Facility \cup Incident \cup Area
    BY <1>4 DEF CapacityPayload, FacilityPayload, IncidentPayload, AreaPayload
  <2>2. p.key \notin Road /\ p.key \notin Bridge
    BY <2>1, KeysDisjoint
  <2> QED BY <1>1, <2>1, <2>2 DEF Current, WithDefaults
<1> QED BY <1>2, <1>3, <1>4 DEF AnyPayload

\* Auto-creating the default entity shows nowhere.
LEMMA DefaultHidden ==
  ASSUME NEW t, t.ent = [k \in Key |-> t.ent[k]], NEW k \in Key,
         NEW u, u.ent = [t.ent EXCEPT ![k] = WithDefaults(t)[k]]
  PROVE  WithDefaults(u) = WithDefaults(t)
<1>1. u.ent[k] = WithDefaults(t)[k] /\ \A j \in Key : j # k => u.ent[j] = t.ent[j]
  OBVIOUS
<1>2. \A j \in Key : WithDefaults(u)[j] = WithDefaults(t)[j]
  BY <1>1 DEF WithDefaults
<1> QED BY <1>2 DEF WithDefaults

\* A manager m that has kept up with t: same version, the same entities up to the
\* auto-created ones, and nothing seen that t has not.
KeptUp(m, t) ==
  /\ m.version = t.version
  /\ m.ent = [k \in Key |-> m.ent[k]]
  /\ WithDefaults(m) = WithDefaults(t)
  /\ m.seen \subseteq t.seen

\* Both decide alike about an event the live manager has not seen.
LEMMA DecideAlike ==
  ASSUME NEW m, NEW t, KeptUp(m, t), NEW id, id \notin t.seen, NEW p \in AnyPayload
  PROVE  /\ Target(m, p) = Target(t, p)
         /\ Rejected(m, p) <=> Rejected(t, p)
         /\ Applies(m, id, p) <=> Applies(t, id, p)
         /\ Cascades(m, id, p) <=> Cascades(t, id, p)
         /\ CascadeTo(m, p) = CascadeTo(t, p)
<1>1. /\ Current(m, p) = Current(t, p)
      /\ p.kind \notin {"road", "bridge"} => m.ent[p.key] = t.ent[p.key]
  BY CurrentIsDefault DEF KeptUp
<1>2. Target(m, p) = Target(t, p)
  BY <1>1 DEF Target
<1>3. Rejected(m, p) <=> Rejected(t, p)
  BY <1>1 DEF Rejected
<1>4. NoOp(m, p) <=> NoOp(t, p)
  BY <1>1, <1>2 DEF NoOp
<1>5. id \notin m.seen
  BY DEF KeptUp
<1>6. Applies(m, id, p) <=> Applies(t, id, p)
  BY <1>3, <1>4, <1>5 DEF Applies
<1>7. CascadeTo(m, p) = CascadeTo(t, p)
  BY <1>1 DEF CascadeTo
<1> QED BY <1>2, <1>3, <1>6, <1>7 DEF Cascades

\* One handler, run by both on such an event, keeps them together.
LEMMA HandleKeepsUp ==
  ASSUME NEW m, NEW t, KeptUp(m, t), IsManager(t), NEW id, id \notin t.seen,
         NEW p \in AnyPayload
  PROVE  KeptUp(Handle(m, id, p), Handle(t, id, p))
<1> DEFINE x == Handle(m, id, p)
           y == Handle(t, id, p)
<1>1. p.key \in Key
  BY PayloadKey
<1>2. id \notin m.seen /\ m.ent = [k \in Key |-> m.ent[k]] /\ t.ent = [k \in Key |-> t.ent[k]]
  BY DEF KeptUp, IsManager
<1>3. CASE Applies(t, id, p)
  <2> DEFINE e == Target(t, p)
  <2>1. Applies(m, id, p) /\ Target(m, p) = e
    BY <1>3, DecideAlike
  <2>2. /\ x.version = m.version + 1 /\ x.seen = m.seen \cup {id}
        /\ x.ent = [m.ent EXCEPT ![p.key] = e]
    BY <2>1 DEF Handle, Commit, Manager
  <2>3. /\ y.version = t.version + 1 /\ y.seen = t.seen \cup {id}
        /\ y.ent = [t.ent EXCEPT ![p.key] = e]
    BY <1>3 DEF Handle, Commit, Manager
  <2>4. e # Absent
    <3>1. e \in EntityOf(p.key)
      BY <1>3, TargetType DEF Applies, IsManager
    <3> QED BY <1>1, <3>1, AbsentIsNoEntity
  <2> HIDE DEF e, x, y
  <2>5. x.ent[p.key] = e /\ \A j \in Key : j # p.key => x.ent[j] = m.ent[j]
    BY <1>1, <1>2, <2>2
  <2>6. y.ent[p.key] = e /\ \A j \in Key : j # p.key => y.ent[j] = t.ent[j]
    BY <1>1, <1>2, <2>3
  <2>7. x.ent = [k \in Key |-> x.ent[k]]
    BY <1>2, <2>2
  <2>8. /\ WithDefaults(x) = [WithDefaults(m) EXCEPT ![p.key] = e]
        /\ WithDefaults(y) = [WithDefaults(t) EXCEPT ![p.key] = e]
    <3>1. WithDefaults(x) = [WithDefaults(m) EXCEPT ![p.key] = x.ent[p.key]]
      <4>1. x.ent[p.key] # Absent
        BY <2>4, <2>5
      <4>2. \A j \in Key : j # p.key => x.ent[j] = m.ent[j]
        BY <2>5
      <4> QED BY <1>1, <4>1, <4>2 DEF WithDefaults
    <3>2. WithDefaults(y) = [WithDefaults(t) EXCEPT ![p.key] = y.ent[p.key]]
      <4>1. y.ent[p.key] # Absent
        BY <2>4, <2>6
      <4>2. \A j \in Key : j # p.key => y.ent[j] = t.ent[j]
        BY <2>6
      <4> QED BY <1>1, <4>1, <4>2 DEF WithDefaults
    <3> QED BY <2>5, <2>6, <3>1, <3>2
  <2>9. KeptUp(x, y)
    BY <2>2, <2>3, <2>7, <2>8 DEF KeptUp
  <2> QED BY <2>9 DEF x, y
<1>4. CASE ~Applies(t, id, p) /\ Rejected(t, p)
  <2>1. ~Applies(m, id, p) /\ Rejected(m, p)
    BY <1>4, DecideAlike
  <2> QED BY <1>4, <2>1 DEF Handle
<1>5. CASE ~Applies(t, id, p) /\ ~Rejected(t, p)
  <2>1. ~Applies(m, id, p) /\ ~Rejected(m, p)
    BY <1>5, DecideAlike
  <2>2. /\ x.version = m.version /\ x.seen = m.seen \cup {id}
        /\ x.ent = [m.ent EXCEPT ![p.key] = WithDefaults(m)[p.key]]
    BY <1>2, <2>1, CurrentIsDefault DEF Handle, Ignore, Manager
  <2>3. /\ y.version = t.version /\ y.seen = t.seen \cup {id}
        /\ y.ent = [t.ent EXCEPT ![p.key] = WithDefaults(t)[p.key]]
    BY <1>5, CurrentIsDefault DEF Handle, Ignore, Manager
  <2> HIDE DEF x, y
  <2>4. WithDefaults(x) = WithDefaults(m) /\ WithDefaults(y) = WithDefaults(t)
    BY <1>1, <1>2, <2>2, <2>3, DefaultHidden
  <2>5. x.ent = [k \in Key |-> x.ent[k]]
    BY <1>2, <2>2
  <2>6. KeptUp(x, y)
    BY <2>2, <2>3, <2>4, <2>5 DEF KeptUp
  <2> QED BY <2>6 DEF x, y
<1> QED BY <1>3, <1>4, <1>5

\* An event that changes nothing leaves a manager that had kept up as it was.
LEMMA IdleKeepsUp ==
  ASSUME NEW m, NEW t, KeptUp(m, t), IsManager(t), NEW id, NEW p \in AnyPayload,
         ~Applies(t, id, p)
  PROVE  KeptUp(m, Handle(t, id, p))
<1>1. CASE id \in t.seen \/ Rejected(t, p)
  BY <1>1 DEF Handle
<1>2. CASE ~(id \in t.seen \/ Rejected(t, p))
  <2> DEFINE y == Handle(t, id, p)
  <2>1. /\ y.version = t.version /\ y.seen = t.seen \cup {id}
        /\ y.ent = [t.ent EXCEPT ![p.key] = WithDefaults(t)[p.key]]
    BY <1>2, CurrentIsDefault DEF Handle, Ignore, Manager
  <2>2. p.key \in Key /\ t.ent = [k \in Key |-> t.ent[k]]
    BY PayloadKey DEF IsManager
  <2> HIDE DEF y
  <2>3. WithDefaults(y) = WithDefaults(t)
    BY <2>1, <2>2, DefaultHidden
  <2>4. KeptUp(m, y)
    BY <2>1, <2>3 DEF KeptUp
  <2> QED BY <2>4 DEF y
<1> QED BY <1>1, <1>2

\* f[n] is the replay's manager after the first n entries: the function Replay
\* defines recursively.
Feeds(f, s, log) ==
  f = [n \in 0..Len(log) |->
         IF n = 0 THEN Restored(s)
         ELSE IF Since(s, log[n]) THEN ApplyEvent(f[n - 1], log[n].id, log[n].body)
         ELSE f[n - 1]]

\* There is one such function.
LEMMA FeedsOnce ==
  ASSUME NEW s, NEW log, Len(log) \in Nat, NEW f, Feeds(f, s, log), NEW g, Feeds(g, s, log)
  PROVE  f[Len(log)] = g[Len(log)]
<1> DEFINE P == {n \in 0..Len(log) : f[n] = g[n]}
<1>1. 0 \in P
  BY DEF Feeds
<1>2. ASSUME NEW n \in 0..(Len(log) - 1), n \in P PROVE n + 1 \in P
  <2>1. n + 1 \in 0..Len(log) /\ n + 1 # 0 /\ (n + 1) - 1 = n
    OBVIOUS
  <2>2. f[n + 1] = IF Since(s, log[n + 1])
                   THEN ApplyEvent(f[n], log[n + 1].id, log[n + 1].body) ELSE f[n]
    BY <2>1 DEF Feeds
  <2>3. g[n + 1] = IF Since(s, log[n + 1])
                   THEN ApplyEvent(g[n], log[n + 1].id, log[n + 1].body) ELSE g[n]
    BY <2>1 DEF Feeds
  <2> QED BY <1>2, <2>1, <2>2, <2>3
<1>3. 0..Len(log) \subseteq P
  <2> HIDE DEF P
  <2> QED BY <1>1, <1>2, InductUpTo
<1> QED BY <1>3

\* Where there is one, Replay's result is its last value.
LEMMA ReplayIsLast ==
  ASSUME NEW s, NEW log, Len(log) \in Nat, NEW f, Feeds(f, s, log)
  PROVE  Replay(s, log) = f[Len(log)]
<1>1. Replay(s, log) = (CHOOSE h : Feeds(h, s, log))[Len(log)]
  BY DEF Replay, Feeds
<1>2. Feeds(CHOOSE h : Feeds(h, s, log), s, log)
  OBVIOUS
<1> QED BY <1>1, <1>2, FeedsOnce

\* One more entry is one more step of the feeding.
LEMMA FeedsMore ==
  ASSUME NEW s, NEW log \in Seq(LogEntry), NEW e \in LogEntry, NEW f, Feeds(f, s, log)
  PROVE  \E g : /\ Feeds(g, s, Append(log, e))
                /\ g[Len(Append(log, e))] =
                     IF Since(s, e) THEN ApplyEvent(f[Len(log)], e.id, e.body) ELSE f[Len(log)]
<1> DEFINE N == Len(log)
           l == Append(log, e)
           z == IF Since(s, e) THEN ApplyEvent(f[N], e.id, e.body) ELSE f[N]
           g == [n \in 0..(N + 1) |-> IF n <= N THEN f[n] ELSE z]
<1>1. N \in Nat /\ Len(l) = N + 1 /\ l[N + 1] = e /\ \A n \in 1..N : l[n] = log[n]
  BY AppendProperties, LenProperties
<1> HIDE DEF z, l, N
<1>2. g[N + 1] = z /\ \A n \in 0..N : g[n] = f[n]
  BY <1>1
<1>3. ASSUME NEW n \in 0..(N + 1)
      PROVE  g[n] = IF n = 0 THEN Restored(s)
                    ELSE IF Since(s, l[n]) THEN ApplyEvent(g[n - 1], l[n].id, l[n].body)
                    ELSE g[n - 1]
  <2> HIDE DEF g
  <2>1. CASE n = 0
    BY <1>1, <1>2, <2>1 DEF Feeds, N
  <2>2. CASE n \in 1..N
    <3>1. l[n] = log[n] /\ g[n] = f[n] /\ g[n - 1] = f[n - 1] /\ n # 0 /\ n \in 0..Len(log)
      BY <1>1, <1>2, <2>2 DEF N
    <3>2. f[n] = IF Since(s, log[n]) THEN ApplyEvent(f[n - 1], log[n].id, log[n].body)
                 ELSE f[n - 1]
      BY <3>1 DEF Feeds
    <3> QED BY <3>1, <3>2
  <2>3. CASE n = N + 1
    <3>1. n # 0 /\ g[n] = z /\ g[n - 1] = f[N] /\ l[n] = e
      BY <1>1, <1>2, <2>3
    <3> QED BY <3>1 DEF z
  <2> QED BY <1>1, <2>1, <2>2, <2>3
<1>4. Feeds(g, s, l)
  BY <1>1, <1>3 DEF Feeds
<1>5. g[Len(l)] = z
  BY <1>1, <1>2
<1> QED BY <1>4, <1>5 DEF z, l, N

\* Feeding t's log to what is restored from s keeps up with t.
Fed(s, t) ==
  /\ s.version \in Nat /\ s.version <= t.version
  /\ \E f : Feeds(f, s, t.log) /\ KeptUp(f[Len(t.log)], t)

\* What Handle appends to the log, as one entry.
LEMMA HandleEntry ==
  ASSUME NEW t, IsManager(t), NEW id \in AnyEventId, NEW p \in AnyPayload, Applies(t, id, p)
  PROVE  \E e \in LogEntry :
           /\ Handle(t, id, p).log = Append(t.log, e) /\ Handle(t, id, p).version = t.version + 1
           /\ e.id = id /\ e.body = p /\ e.version = t.version + 1
<1> DEFINE e == [id |-> id, body |-> p, version |-> t.version + 1]
<1>1. e \in LogEntry
  BY DEF LogEntry, IsManager
<1>2. Handle(t, id, p).log = Append(t.log, e) /\ Handle(t, id, p).version = t.version + 1
  BY DEF Handle, Commit, Manager
<1> QED BY <1>1, <1>2

\* An event without a cascade: the replay handles the one entry it leaves.
LEMMA HandleFed ==
  ASSUME NEW t, IsManager(t), NEW s, Fed(s, t), NEW id \in EventId, NEW p \in AnyPayload,
         ~Cascades(t, id, p)
  PROVE  Fed(s, Handle(t, id, p))
<1> DEFINE u == Handle(t, id, p)
<1>1. PICK f : Feeds(f, s, t.log) /\ KeptUp(f[Len(t.log)], t)
  BY DEF Fed
<1> DEFINE m == f[Len(t.log)]
<1>2. t.log \in Seq(LogEntry) /\ id \in AnyEventId /\ t.version \in Nat
  BY DEF IsManager, AnyEventId
<1>3. CASE Applies(t, id, p)
  <2>1. PICK e \in LogEntry : /\ u.log = Append(t.log, e) /\ u.version = t.version + 1
                              /\ e.id = id /\ e.body = p /\ e.version = t.version + 1
    BY <1>2, <1>3, HandleEntry
  <2>2. Since(s, e)
    BY <1>2, <2>1 DEF Fed, Since
  <2>3. PICK g : /\ Feeds(g, s, u.log)
                 /\ g[Len(u.log)] = ApplyEvent(m, id, p)
    BY <1>1, <1>2, <2>1, <2>2, FeedsMore
  <2>4. id \notin t.seen
    BY <1>3 DEF Applies
  <2>5. ApplyEvent(m, id, p) = Handle(m, id, p)
    BY <1>1, <2>4, DecideAlike DEF ApplyEvent
  <2>6. KeptUp(Handle(m, id, p), u)
    BY <1>1, <2>4, HandleKeepsUp
  <2>7. s.version <= u.version
    BY <1>2, <2>1 DEF Fed
  <2> HIDE DEF u, m
  <2>8. Fed(s, u)
    BY <2>3, <2>5, <2>6, <2>7 DEF Fed
  <2> QED BY <2>8 DEF u
<1>4. CASE ~Applies(t, id, p)
  <2>1. u.log = t.log /\ u.version = t.version
    BY <1>4 DEF Handle, Ignore, Manager
  <2>2. KeptUp(m, u)
    BY <1>1, <1>4, IdleKeepsUp
  <2> HIDE DEF u, m
  <2>3. Fed(s, u)
    BY <1>1, <2>1, <2>2 DEF Fed, m
  <2> QED BY <2>3 DEF u
<1> QED BY <1>3, <1>4

\* A cascade: the replay repeats it when it handles the bridge's entry, and drops
\* the road's entry behind it, whose id it has seen by then.
LEMMA CascadeFed ==
  ASSUME NEW t, IsManager(t), Traced(t), NEW s, Fed(s, t), NEW id \in EventId,
         NEW p \in AnyPayload, Cascades(t, id, p)
  PROVE  Fed(s, ApplyEvent(t, id, p))
<1> DEFINE u == Handle(t, id, p)
           r == CascadeTo(t, p)
           c == CascadePayload(r, p.status)
           w == Handle(u, Caused(id, r), c)
<1>1. PICK f : Feeds(f, s, t.log) /\ KeptUp(f[Len(t.log)], t)
  BY DEF Fed
<1> DEFINE m == f[Len(t.log)]
           mu == Handle(m, id, p)
           mw == Handle(mu, Caused(id, r), c)
<1>2. /\ t.log \in Seq(LogEntry) /\ id \in AnyEventId /\ t.version \in Nat
      /\ Applies(t, id, p) /\ id \notin t.seen
  BY DEF IsManager, AnyEventId, Cascades, Applies
<1>3. IsManager(u) /\ u.log \in Seq(LogEntry)
  BY <1>2, HandleType DEF IsManager
<1>4. r \in Road /\ Caused(id, r) \in AnyEventId /\ c \in AnyPayload
  BY CascadeType
<1>5. Caused(id, r) \notin u.seen
  <2>1. u.seen = t.seen \cup {id}
    BY <1>2 DEF Handle, Commit, Manager
  <2> QED BY <1>2, <1>4, <2>1, CausesAreOwn DEF Traced
<1>6. ApplyEvent(t, id, p) = w
  BY DEF ApplyEvent
<1>7. ApplyEvent(m, id, p) = mw
  <2>1. Cascades(m, id, p) /\ CascadeTo(m, p) = r
    BY <1>1, <1>2, DecideAlike
  <2> QED BY <2>1 DEF ApplyEvent
<1>8. KeptUp(mu, u)
  BY <1>1, <1>2, HandleKeepsUp
<1>9. KeptUp(mw, w)
  BY <1>3, <1>4, <1>5, <1>8, HandleKeepsUp
<1>10. PICK e \in LogEntry : /\ u.log = Append(t.log, e) /\ u.version = t.version + 1
                             /\ e.id = id /\ e.body = p /\ e.version = t.version + 1
  BY <1>2, HandleEntry
<1>11. PICK g : Feeds(g, s, u.log) /\ g[Len(u.log)] = mw
  <2>1. Since(s, e)
    BY <1>2, <1>10 DEF Fed, Since
  <2> QED BY <1>1, <1>2, <1>7, <1>10, <2>1, FeedsMore
<1>12. s.version <= u.version /\ u.version \in Nat
  BY <1>2, <1>10 DEF Fed
<1>13. CASE Applies(u, Caused(id, r), c)
  <2>1. PICK d \in LogEntry : /\ w.log = Append(u.log, d) /\ w.version = u.version + 1
                              /\ d.id = Caused(id, r) /\ d.body = c
                              /\ d.version = u.version + 1
    BY <1>3, <1>4, <1>13, HandleEntry
  <2>2. Applies(mu, Caused(id, r), c)
    BY <1>4, <1>5, <1>8, <1>13, DecideAlike
  <2>3. Caused(id, r) \in mw.seen
    BY <2>2 DEF Handle, Commit, Manager
  <2>4. ApplyEvent(mw, Caused(id, r), c) = mw
    <3>1. ~Applies(mw, Caused(id, r), c)
      BY <2>3 DEF Applies
    <3>2. ~Cascades(mw, Caused(id, r), c)
      BY <3>1 DEF Cascades
    <3> HIDE DEF mw
    <3> QED BY <2>3, <3>1, <3>2 DEF ApplyEvent, Handle
  <2>5. Since(s, d)
    BY <1>12, <2>1 DEF Fed, Since
  <2> HIDE DEF u, w, mw, r, c
  <2>6. PICK h : Feeds(h, s, w.log) /\ h[Len(w.log)] = mw
    BY <1>3, <1>11, <2>1, <2>4, <2>5, FeedsMore
  <2>7. s.version <= w.version
    BY <1>12, <2>1 DEF Fed
  <2>8. Fed(s, w)
    BY <1>9, <2>6, <2>7 DEF Fed
  <2> QED BY <1>6, <2>8
<1>14. CASE ~Applies(u, Caused(id, r), c)
  <2>1. w.log = u.log /\ w.version = u.version
    BY <1>14 DEF Handle, Ignore, Manager
  <2> HIDE DEF u, w, mw, r, c
  <2>2. Fed(s, w)
    BY <1>9, <1>11, <1>12, <2>1 DEF Fed
  <2> QED BY <1>6, <2>2
<1> QED BY <1>13, <1>14

\* A fresh snapshot is what the whole log, all of it older, leaves as it is.
LEMMA SnapshotFed ==
  ASSUME NEW t, IsManager(t), Audited(t)
  PROVE  Fed(SnapshotOf(t), t)
<1> DEFINE s == SnapshotOf(t)
           f == [n \in 0..Len(t.log) |-> Restored(s)]
<1>1. /\ t.version \in Nat /\ Len(t.log) \in Nat /\ s.version = t.version /\ s.ent = t.ent
      /\ t.version = Len(t.log) /\ \A i \in 1..Len(t.log) : t.log[i].version = i
  BY DEF IsManager, Audited, SnapshotOf
<1>2. \A n \in 1..Len(t.log) : ~Since(s, t.log[n])
  BY <1>1 DEF Since
<1> HIDE DEF s
<1>3. ASSUME NEW n \in 0..Len(t.log)
      PROVE  Restored(s) = IF n = 0 THEN Restored(s)
                           ELSE IF Since(s, t.log[n])
                           THEN ApplyEvent(f[n - 1], t.log[n].id, t.log[n].body)
                           ELSE f[n - 1]
  <2>1. CASE n = 0
    BY <2>1
  <2>2. CASE n # 0
    <3>1. n \in 1..Len(t.log) /\ n - 1 \in 0..Len(t.log)
      BY <1>1, <2>2
    <3>2. f[n - 1] = Restored(s)
      BY <3>1
    <3> QED BY <1>2, <2>2, <3>1, <3>2
  <2> QED BY <2>1, <2>2
<1>4. Feeds(f, s, t.log)
  BY <1>3 DEF Feeds
<1>5. f[Len(t.log)] = Restored(s)
  BY <1>1
<1>6. KeptUp(Restored(s), t)
  <2>1. /\ Restored(s).version = t.version /\ Restored(s).ent = t.ent
        /\ Restored(s).seen = {}
    BY <1>1 DEF Restored, Manager
  <2> QED BY <2>1 DEF KeptUp, IsManager, WithDefaults
<1> HIDE DEF f
<1>7. Fed(s, t)
  BY <1>1, <1>4, <1>5, <1>6 DEF Fed
<1> QED BY <1>7 DEF s

\* Nothing but the log, the version, the entities and the seen ids matters.
LEMMA FedAlike ==
  ASSUME NEW t, NEW u, NEW s, Fed(s, t),
         u.version = t.version, u.ent = t.ent, u.seen = t.seen, u.log = t.log
  PROVE  Fed(s, u)
<1>1. WithDefaults(u) = WithDefaults(t)
  BY DEF WithDefaults
<1>2. ASSUME NEW m, KeptUp(m, t) PROVE KeptUp(m, u)
  BY <1>1, <1>2 DEF KeptUp
<1> QED BY <1>2 DEF Fed

\* The inductive form of ReplayRebuilds: while nothing is registered, feeding the
\* log to the restored snapshot keeps up with the live manager.
Rebuilding == registered = {} => Fed(snapshot, twin)

LEMMA RebuildingInvariant == Spec => []Rebuilding
<1>1. Init => Rebuilding
  <2> SUFFICES ASSUME Init PROVE Fed(snapshot, twin)
    BY DEF Rebuilding
  <2>1. IsManager(twin) /\ Audited(twin)
    BY DEF Init, IsManager, NewManager, Manager, Audited
  <2>2. snapshot = SnapshotOf(twin)
    BY DEF Init
  <2> QED BY <2>1, <2>2, SnapshotFed
<1>2. TypeOK /\ Audited(twin) /\ Traced(twin) /\ Rebuilding /\ [Next]_vars => Rebuilding'
  <2> SUFFICES ASSUME TypeOK, Audited(twin), Traced(twin), Rebuilding, [Next]_vars,
                      registered' = {}
               PROVE  Fed(snapshot', twin')
    BY DEF Rebuilding, Fed
  <2>1. CASE \E g \in Registration : Register(g[1], g[2])
    BY <2>1 DEF Register
  <2>2. ASSUME NEW id \in EventId, NEW p \in Payload, Apply(id, p) PROVE Fed(snapshot', twin')
    <3>1. /\ p \in AnyPayload /\ IsManager(twin) /\ Fed(snapshot, twin)
          /\ twin' = ApplyEvent(twin, id, p) /\ snapshot' = snapshot
      BY <2>2, InputsTyped DEF TypeOK, Rebuilding, Apply
    <3>2. CASE Cascades(twin, id, p)
      BY <3>1, <3>2, CascadeFed
    <3>3. CASE ~Cascades(twin, id, p)
      <4>1. Fed(snapshot, Handle(twin, id, p))
        BY <3>1, <3>3, HandleFed
      <4> QED BY <3>1, <3>3, <4>1 DEF ApplyEvent
    <3> QED BY <3>2, <3>3
  <2>3. CASE SetRoutingOverlay
    <3>1. /\ twin'.version = twin.version /\ twin'.ent = twin.ent /\ twin'.seen = twin.seen
          /\ twin'.log = twin.log /\ snapshot' = snapshot /\ registered' = registered
      BY <2>3 DEF SetRoutingOverlay, Manager
    <3> QED BY <3>1, FedAlike DEF Rebuilding
  <2>4. CASE CreateSnapshot
    <3>1. twin' = twin /\ snapshot' = SnapshotOf(twin)
      BY <2>4 DEF CreateSnapshot
    <3> QED BY <3>1, SnapshotFed DEF TypeOK
  <2>5. CASE UNCHANGED vars
    BY <2>5 DEF vars, Rebuilding
  <2> QED BY <2>1, <2>2, <2>3, <2>4, <2>5 DEF Next
<1> QED BY <1>1, <1>2, TypeCorrect, AuditInvariant, CausedInvariant, PTL DEF Spec

\* replay, TwinSnapshot: a manager restored from the last snapshot and fed the log's
\* later events, cascades included, arrives at the live version and entities.
THEOREM ReplayWorks == Spec => []ReplayRebuilds
<1>1. TypeOK /\ Rebuilding => ReplayRebuilds
  <2> SUFFICES ASSUME TypeOK, Rebuilding, registered = {}
               PROVE  LET m == Replay(snapshot, twin.log)
                      IN  /\ m.version = twin.version
                          /\ WithDefaults(m) = WithDefaults(twin)
    BY DEF ReplayRebuilds
  <2>1. PICK f : Feeds(f, snapshot, twin.log) /\ KeptUp(f[Len(twin.log)], twin)
    BY DEF Rebuilding, Fed
  <2>2. Len(twin.log) \in Nat
    BY DEF TypeOK, IsManager
  <2>3. Replay(snapshot, twin.log) = f[Len(twin.log)]
    BY <2>1, <2>2, ReplayIsLast
  <2> QED BY <2>1, <2>3 DEF KeptUp
<1> QED BY <1>1, TypeCorrect, RebuildingInvariant, PTL

--------------------------------------------------------------------------------
(* Forks *)

\* A road without an override is open, as far as its entity and its bridges say.
Complete(t) ==
  t.overlay # Absent =>
    \A r \in Road : t.overlay[r] = Absent =>
      /\ WithDefaults(t)[r] = "OPEN"
      /\ \A b \in KnownBridgesOn(t, r) : RoadStatusUnder(t.ent[b].status) = "OPEN"

LEMMA AbsentIsNoStatus == Road # {} => Absent \notin RoadStatus
BY AbsentIsNoEntity, EntityOfKinds DEF Key

\* Writing an entity together with its override keeps the overlay complete.
LEMMA WriteComplete ==
  ASSUME NEW t, IsManager(t), Complete(t), NEW k \in Key, NEW e \in EntityOf(k),
         NEW v, NEW s, NEW l
  PROVE  Complete(Manager(v, [t.ent EXCEPT ![k] = e], s, l, OverlayWith(t, k, e)))
<1> DEFINE u == Manager(v, [t.ent EXCEPT ![k] = e], s, l, OverlayWith(t, k, e))
<1>1. u.ent = [t.ent EXCEPT ![k] = e] /\ u.overlay = OverlayWith(t, k, e)
  BY DEF Manager
<1>2. u.ent[k] = e /\ e # Absent /\ \A j \in Key \ {k} : u.ent[j] = t.ent[j]
  BY <1>1, AbsentIsNoEntity DEF IsManager
<1> HIDE DEF u
<1> SUFFICES ASSUME u.overlay # Absent, NEW r \in Road, u.overlay[r] = Absent
             PROVE  /\ WithDefaults(u)[r] = "OPEN"
                    /\ \A b \in KnownBridgesOn(u, r) : RoadStatusUnder(u.ent[b].status) = "OPEN"
  BY DEF Complete, u
<1>3. t.overlay # Absent /\ t.overlay \in [Road -> RoadStatus \cup {Absent}]
  BY <1>1 DEF OverlayWith, IsManager
<1>4. k # r
  <2>1. CASE k = r
    BY <1>1, <1>2, <1>3, <2>1 DEF OverlayWith
  <2> QED BY <2>1
<1>5. ~(k \in Bridge /\ OverlayRoad[k] = r)
  <2>1. CASE k \in Bridge /\ OverlayRoad[k] = r
    <3>1. u.overlay[r] = RoadStatusUnder(e.status)
      BY <1>1, <1>3, <2>1, KeysDisjoint DEF OverlayWith
    <3> QED BY <3>1, RoadStatusUnderType, AbsentIsNoStatus
  <2> QED BY <2>1
<1>6. u.overlay[r] = t.overlay[r]
  BY <1>1, <1>3, <1>4, <1>5, InputsTyped DEF OverlayWith
<1>7. u.ent[r] = t.ent[r] /\ r \in Key
  BY <1>2, <1>4 DEF Key
<1>8. \A b \in KnownBridgesOn(u, r) : b \in KnownBridgesOn(t, r) /\ u.ent[b] = t.ent[b]
  BY <1>2, <1>5 DEF KnownBridgesOn, Key
<1>9. WithDefaults(u)[r] = WithDefaults(t)[r]
  BY <1>7 DEF WithDefaults
<1> QED BY <1>3, <1>6, <1>8, <1>9 DEF Complete

\* A handler keeps it so; what an ignored event creates is open.
LEMMA HandleComplete ==
  ASSUME NEW t, IsManager(t), Complete(t), NEW id \in AnyEventId, NEW p \in AnyPayload
  PROVE  Complete(Handle(t, id, p))
<1>0. p.key \in Key
  BY PayloadKey
<1>1. CASE Applies(t, id, p)
  <2>1. Target(t, p) \in EntityOf(p.key)
    BY <1>1, TargetType DEF IsManager, Applies
  <2> QED BY <1>0, <1>1, <2>1, WriteComplete DEF Handle, Commit
<1>2. CASE ~Applies(t, id, p) /\ (id \in t.seen \/ Rejected(t, p))
  BY <1>2 DEF Handle
<1>3. CASE ~Applies(t, id, p) /\ ~(id \in t.seen \/ Rejected(t, p))
  <2> DEFINE u == Ignore(t, id, p)
  <2>1. /\ u.overlay = t.overlay
        /\ u.ent = [t.ent EXCEPT ![p.key] = WithDefaults(t)[p.key]]
        /\ t.ent = [k \in Key |-> t.ent[k]]
    BY CurrentIsDefault DEF Ignore, Manager, IsManager
  <2> HIDE DEF u
  <2>2. WithDefaults(u) = WithDefaults(t)
    BY <1>0, <2>1, DefaultHidden
  <2>3. ASSUME NEW r \in Road, NEW b \in KnownBridgesOn(u, r)
        PROVE  \/ b \in KnownBridgesOn(t, r) /\ u.ent[b] = t.ent[b]
               \/ RoadStatusUnder(u.ent[b].status) = "OPEN"
    <3>1. b \in Bridge /\ b \in Key /\ OverlayRoad[b] = r /\ u.ent[b] # Absent /\ b \notin Road
      BY <2>3, KeysDisjoint DEF KnownBridgesOn, Key
    <3>2. u.ent[b] = WithDefaults(t)[b]
      BY <2>2, <3>1 DEF WithDefaults
    <3>3. CASE t.ent[b] # Absent
      BY <3>1, <3>2, <3>3 DEF KnownBridgesOn, WithDefaults
    <3>4. CASE t.ent[b] = Absent
      <4>1. u.ent[b] = [status |-> "OPEN", road |-> Absent]
        BY <3>1, <3>2, <3>4 DEF WithDefaults
      <4> QED BY <4>1 DEF RoadStatusUnder
    <3> QED BY <3>3, <3>4
  <2>4. Complete(u)
    BY <2>1, <2>2, <2>3 DEF Complete
  <2> QED BY <1>3, <2>4 DEF Handle, u
<1> QED BY <1>1, <1>2, <1>3

\* The inductive form of ForkRoutesAgreed, beside OverlayBacked.
LEMMA CompleteInvariant == Spec => []Complete(twin)
<1>1. Init => Complete(twin)
  BY DEF Init, NewManager, Manager, Complete
<1>2. TypeOK /\ Complete(twin) /\ [Next]_vars => Complete(twin)'
  <2> SUFFICES ASSUME TypeOK, Complete(twin), [Next]_vars PROVE Complete(twin)'
    OBVIOUS
  <2>0. ASSUME NEW m, Complete(m), twin' = m PROVE Complete(twin)'
    BY <2>0 DEF Complete, KnownBridgesOn, WithDefaults
  <2>1. ASSUME NEW g \in Registration, Register(g[1], g[2]) PROVE Complete(twin)'
    <3>1. Complete(Manager(twin.version, [twin.ent EXCEPT ![g[1]] = g[2]], twin.seen,
                           twin.log, OverlayWith(twin, g[1], g[2])))
      BY InputsTyped, WriteComplete DEF TypeOK
    <3> QED BY <2>0, <2>1, <3>1 DEF Register
  <2>2. ASSUME NEW id \in EventId, NEW p \in Payload, Apply(id, p) PROVE Complete(twin)'
    <3>1. p \in AnyPayload /\ id \in AnyEventId /\ IsManager(twin)
      BY InputsTyped DEF AnyEventId, TypeOK
    <3>2. IsManager(Handle(twin, id, p)) /\ Complete(Handle(twin, id, p))
      BY <3>1, HandleType, HandleComplete
    <3>3. Complete(ApplyEvent(twin, id, p))
      BY <3>1, <3>2, CascadeType, HandleComplete DEF ApplyEvent
    <3> QED BY <2>0, <2>2, <3>3 DEF Apply
  <2>3. CASE SetRoutingOverlay
    <3>1. PICK o \in Resynced(twin, EmptyOverlay) :
            twin' = Manager(twin.version, twin.ent, twin.seen, twin.log, o)
      BY <2>3 DEF SetRoutingOverlay
    <3> DEFINE m == Manager(twin.version, twin.ent, twin.seen, twin.log, o)
    <3>2. m.overlay = o /\ m.ent = twin.ent
      BY DEF Manager
    <3> HIDE DEF m
    <3>3. ASSUME NEW r \in Road, o[r] = Absent
          PROVE  KnownBridgesOn(twin, r) = {} /\ twin.ent[r] = Absent
      <4>1. o[r] \in ResyncedRoad(twin, EmptyOverlay, r)
        BY DEF Resynced
      <4> QED BY <3>3, <4>1, RoadStatusUnderType, AbsentIsNoStatus DEF ResyncedRoad
    <3>4. Complete(m)
      BY <3>2, <3>3 DEF Complete, KnownBridgesOn, WithDefaults, Key
    <3> QED BY <2>0, <3>1, <3>4 DEF m
  <2>4. CASE CreateSnapshot
    BY <2>4 DEF CreateSnapshot, Complete, KnownBridgesOn, WithDefaults
  <2>5. CASE UNCHANGED vars
    BY <2>5 DEF vars, Complete, KnownBridgesOn, WithDefaults
  <2> QED BY <2>1, <2>2, <2>3, <2>4, <2>5 DEF Next
<1> QED BY <1>1, <1>2, TypeCorrect, PTL DEF Spec

\* fork, _sync_all_roads_to_overlay: where a road and its bridges say the same, a
\* fork routes it as the live overlay does, in whatever order it resynchronises.
THEOREM ForksAgree == Spec => []ForkRoutesAgreed
<1>1. TypeOK /\ Backed(twin) /\ Complete(twin) => ForkRoutesAgreed
  <2> SUFFICES ASSUME TypeOK, Backed(twin), Complete(twin), NEW r \in Road,
                      BridgesAgree(twin, r), NEW f \in Forks(twin)
               PROVE  Routed(f.overlay)[r] = Routed(twin.overlay)[r]
    BY DEF ForkRoutesAgreed
  <2> DEFINE ov == twin.overlay
             d  == WithDefaults(twin)[r]
  <2>1. CASE ov = Absent
    BY <2>1 DEF Forks, Manager
  <2>2. CASE ov # Absent
    <3>1. PICK o \in Resynced(twin, ov) : f.overlay = o
      BY <2>2 DEF Forks, Manager
    <3>2. o[r] \in ResyncedRoad(twin, ov, r)
      BY DEF Resynced
    <3>3. /\ twin.ent[r] # Absent => d = twin.ent[r]
          /\ twin.ent[r] = Absent => d = "OPEN"
      BY DEF WithDefaults, Key
    <3>4. o # Absent /\ ov # Absent
      <4>1. o \in [Road -> RoadStatus \cup {Absent}]
        <5>1. ov \in [Road -> RoadStatus \cup {Absent}] /\ IsManager(twin)
          BY <2>2 DEF TypeOK, IsManager
        <5>2. \A q \in Road : o[q] \in RoadStatus \cup {Absent}
          BY <5>1, ResyncedRoadType DEF Resynced
        <5>3. o = [q \in Road |-> o[q]]
          BY DEF Resynced
        <5> QED BY <5>2, <5>3
      <4> QED BY <2>2, <4>1, AbsentIsNoOverlay
    <3>5. /\ Routed(o)[r] = IF o[r] = Absent THEN "OPEN" ELSE o[r]
          /\ Routed(ov)[r] = IF ov[r] = Absent THEN "OPEN" ELSE ov[r]
      BY <3>4 DEF Routed
    <3>6. Routed(ov)[r] = d
      <4>1. CASE ov[r] = Absent
        BY <2>2, <3>5, <4>1 DEF Complete
      <4>2. CASE ov[r] # Absent
        BY <2>2, <3>3, <3>5, <4>2 DEF Backed, BridgesAgree
      <4> QED BY <4>1, <4>2
    <3>7. Routed(o)[r] = d
      <4>1. CASE KnownBridgesOn(twin, r) # {}
        <5>1. o[r] = d
          BY <3>2, <4>1 DEF ResyncedRoad, BridgesAgree
        <5> QED BY <3>5, <5>1, <3>6
      <4>2. CASE KnownBridgesOn(twin, r) = {} /\ twin.ent[r] # Absent
        BY <3>2, <3>3, <3>5, <4>2 DEF ResyncedRoad
      <4>3. CASE KnownBridgesOn(twin, r) = {} /\ twin.ent[r] = Absent
        <5>1. o[r] = ov[r]
          BY <3>2, <4>3 DEF ResyncedRoad
        <5> QED BY <3>5, <3>6, <5>1
      <4> QED BY <4>1, <4>2, <4>3
    <3> QED BY <3>1, <3>6, <3>7
  <2> QED BY <2>1, <2>2
<1> QED BY <1>1, TypeCorrect, OverlayIsBacked, CompleteInvariant, PTL DEF OverlayBacked
================================================================================
