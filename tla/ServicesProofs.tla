----------------------------- MODULE ServicesProofs -----------------------------
(* Theorems about the facility, incident and SMS services around their twin, for *)
(* any number of workers, records, requests and messages: types, and what of the *)
(* lifecycle, the audit trails, the agreement with the twin and the promise to   *)
(* the senders of messages survives without locks.                               *)
EXTENDS Services, SequenceTheorems, TLAPS

--------------------------------------------------------------------------------
(* Types *)

Task == [pc : {"emit", "store", "audit"}, req : AllRequest, read : Record \cup {Absent}]

\* What the checks have established of a request and of the copy it has read.
Checked(q, r) ==
  /\ Creates(q) => r = Absent /\ q.body \in BodyOf(q.key)
  /\ q.op = "sms" => q.body.status = "OPEN"
  /\ ~Creates(q) => /\ r \in Record /\ r.body \in BodyOf(q.key)
                    /\ q.expect # Absent => q.expect = r.version
  /\ q.op = "capacity" => WithinBounds(q, r.body)
  /\ q.op = "status" /\ q.key \in IncidentKey => MovesAlong(r.body.status, q.status)
  /\ q.op = "details" => q.text \in Text

\* The versions are bounded by the requests that have been taken.
Bounded ==
  /\ \A k \in Key : store[k] # Absent => store[k].version <= taken
  /\ \A t \in Busy : /\ taken >= 1
                     /\ ~Creates(thread[t].req) => thread[t].read.version < taken
CheckedAll ==
  \A t \in Busy : /\ Checked(thread[t].req, thread[t].read)
                  /\ thread[t].pc = "emit" => thread[t].req.op # "details"

LEMMA KeyKinds ==
  /\ \A k \in FacilityKey : k[1] \in {"hospital", "shelter"} /\ k[2] \in Name /\ k \notin IncidentKey
  /\ \A k \in IncidentKey : k[1] = "incident" /\ k[2] \in Name \cup SmsName /\ k \notin FacilityKey
BY DEF FacilityKey, IncidentKey

LEMMA BusyTyped ==
  ASSUME TypeOK, NEW t \in Thread
  PROVE  /\ thread[t].pc # "idle" => thread[t] \in Task
         /\ thread[t].pc = "idle" => thread[t] = Idle
BY DEF TypeOK, Idle, Task

\* The kinds of requests, and what is known of each.
LEMMA RequestTyped ==
  ASSUME NEW q \in AllRequest
  PROVE  /\ q.op \in {"create", "sms", "capacity", "status", "details"}
         /\ q.key \in Key
         /\ q.op = "create" => q.body \in BodyOf(q.key) /\ q.key[2] \notin SmsName /\ q \in CreateRequest
         /\ q.op = "sms" => q.key \in IncidentKey /\ q.body \in IncidentBody
         /\ q.op = "capacity" =>
              /\ q \in CapacityRequest /\ q.key \in FacilityKey /\ q.avail \in Int /\ q.avail <= MaxCapacity
              /\ q.cap \in Int \cup {Absent}
              /\ q.cap # Absent => q.cap <= MaxCapacity
         /\ q.op = "status" => q \in StatusRequest /\ q.status \in StatusOf(q.key)
         /\ q.op = "details" => q \in DetailsRequest /\ q.key \in IncidentKey /\ q.text \in Text
<1>1. CASE q \in Request
  <2>1. /\ q \in AnyRequest
        /\ q.op = "create" => q.body \in BodyOf(q.key) /\ q.key[2] \notin SmsName
        /\ q.op = "status" => q.status \in StatusOf(q.key)
        /\ q.op = "capacity" =>
             /\ q.avail <= MaxCapacity
             /\ q.cap # Absent => q.cap <= MaxCapacity
    BY <1>1, RequestsTyped
  <2>2. CASE q \in CreateRequest
    BY <2>1, <2>2 DEF CreateRequest
  <2>3. CASE q \in CapacityRequest
    BY <2>1, <2>3 DEF CapacityRequest, Key
  <2>4. CASE q \in StatusRequest
    BY <2>1, <2>4 DEF StatusRequest
  <2>5. CASE q \in DetailsRequest
    BY <2>1, <2>5 DEF DetailsRequest, Key
  <2> QED BY <2>1, <2>2, <2>3, <2>4, <2>5 DEF AnyRequest
<1>2. CASE q \in SmsRequest
  BY <1>2 DEF SmsRequest, Key
<1> QED BY <1>1, <1>2 DEF AllRequest

\* The twin's kinds of entities are the services' bodies.
LEMMA TwinKinds ==
  /\ DT!Key = Key
  /\ DT!FacilityEntity = FacilityBody
  /\ DT!IncidentStatus = IncidentStatus
  /\ \A k \in FacilityKey : DT!EntityOf(k) = FacilityBody
  /\ \A k \in IncidentKey : DT!EntityOf(k) = IncidentStatus
  /\ DT!AnyEventId = AllEventId
<1>1. DT!Key = Key
  BY DEF DT!Key, Key
<1>2. DT!FacilityEntity = FacilityBody
  BY DEF DT!FacilityEntity, FacilityBody
<1>3. DT!IncidentStatus = IncidentStatus
  BY DEF DT!IncidentStatus, IncidentStatus
<1>4. DT!AnyEventId = AllEventId
  BY DEF DT!AnyEventId
<1> QED BY <1>1, <1>2, <1>3, <1>4, KeyKinds DEF DT!EntityOf

--------------------------------------------------------------------------------
(* Requests: the records and events they make *)

WithCapacity(b, c, a) == [b EXCEPT !.cap = c, !.avail = a]
WithStatus(b, s) == [b EXCEPT !.status = s]

LEMMA FacilityBodyChanged ==
  ASSUME NEW b \in FacilityBody
  PROVE  /\ \A c, a \in 0..MaxCapacity :
              a <= c => WithCapacity(b, c, a) \in FacilityBody /\ WithCapacity(b, c, a).status = b.status
         /\ \A s \in HospitalStatus \cup ShelterStatus :
              WithStatus(b, s) \in FacilityBody /\ WithStatus(b, s).status = s
<1>1. /\ b \in [status : HospitalStatus \cup ShelterStatus,
                cap : 0..MaxCapacity, avail : 0..MaxCapacity]
      /\ b.avail <= b.cap
  BY DEF FacilityBody
<1>2. ASSUME NEW c \in 0..MaxCapacity, NEW a \in 0..MaxCapacity, a <= c
      PROVE  WithCapacity(b, c, a) \in FacilityBody /\ WithCapacity(b, c, a).status = b.status
  BY <1>1, <1>2 DEF FacilityBody, WithCapacity
<1>3. ASSUME NEW s \in HospitalStatus \cup ShelterStatus
      PROVE  WithStatus(b, s) \in FacilityBody /\ WithStatus(b, s).status = s
  BY <1>1, <1>3 DEF FacilityBody, WithStatus
<1> QED BY <1>1, <1>2, <1>3

\* What a request writes is a record of its key's kind.
LEMMA NewTyped ==
  ASSUME NEW q \in AllRequest, NEW r \in Record \cup {Absent}, Checked(q, r),
         NEW n \in Nat, n <= MaxRequests, ~Creates(q) => r.version < n
  PROVE  /\ New(q, r) \in Record /\ New(q, r).body \in BodyOf(q.key)
         /\ New(q, r).version = IF Creates(q) THEN 1 ELSE r.version + 1
<1>1. BodyOf(q.key) \subseteq Body
  BY DEF BodyOf, Body
<1>2. CASE Creates(q)
  BY <1>1, <1>2, BoundsTyped DEF Checked, New, Record
<1>3. CASE ~Creates(q)
  <2> DEFINE b == r.body
  <2>1. /\ b \in BodyOf(q.key) /\ r.version \in 1..(MaxRequests + 1) /\ r.version + 1 <= MaxRequests
        /\ New(q, r) = [version |-> r.version + 1, body |-> Changed(q, b)]
    BY <1>3, BoundsTyped DEF Checked, Record, New
  <2>2. Changed(q, b) \in BodyOf(q.key)
    <3>1. CASE q.op = "capacity"
      <4>1. b \in FacilityBody /\ b.status \in StatusOf(q.key) /\ q.key \notin IncidentKey
        BY <2>1, <3>1, RequestTyped, KeyKinds DEF BodyOf
      <4>2. TotalFor(q, b) \in 0..MaxCapacity /\ q.avail \in 0..TotalFor(q, b)
        <5>1. TotalFor(q, b) \in Int /\ TotalFor(q, b) <= MaxCapacity
          BY <3>1, <4>1, RequestTyped, BoundsTyped DEF TotalFor, FacilityBody
        <5> QED BY <3>1, <5>1, BoundsTyped DEF Checked, WithinBounds
      <4>3. q.avail \in 0..MaxCapacity
        BY <4>2, BoundsTyped
      <4>4. Changed(q, b) = WithCapacity(b, TotalFor(q, b), q.avail)
        BY <3>1 DEF Changed, WithCapacity
      <4> HIDE DEF b
      <4>5. Changed(q, b) \in FacilityBody /\ Changed(q, b).status = b.status
        <5>1. q.avail <= TotalFor(q, b)
          BY <4>2, BoundsTyped
        <5> QED BY <4>1, <4>2, <4>3, <4>4, <5>1, FacilityBodyChanged
      <4> QED BY <4>1, <4>5 DEF BodyOf
    <3>2. CASE q.op = "status"
      <4>1. q.status \in StatusOf(q.key)
        BY <3>2, RequestTyped
      <4>2. Changed(q, b) = [b EXCEPT !.status = q.status]
        BY <3>2 DEF Changed
      <4>3. CASE q.key \in IncidentKey
        BY <2>1, <4>1, <4>2, <4>3, KeyKinds DEF BodyOf, IncidentBody, StatusOf
      <4>4. CASE q.key \notin IncidentKey
        <5>1. q.key \in FacilityKey
          BY <4>4, RequestTyped DEF Key
        <5>2. q.status \in HospitalStatus \cup ShelterStatus
          BY <4>1, <5>1, KeyKinds DEF StatusOf
        <5>3. b \in FacilityBody
          BY <2>1, <4>4 DEF BodyOf
        <5>5. Changed(q, b) = WithStatus(b, q.status)
          BY <4>2 DEF WithStatus
        <5> HIDE DEF b
        <5>4. Changed(q, b) \in FacilityBody /\ Changed(q, b).status = q.status
          BY <5>5, <5>2, <5>3, FacilityBodyChanged
        <5> QED BY <4>1, <4>4, <5>4 DEF BodyOf
      <4> QED BY <4>3, <4>4
    <3>3. CASE q.op = "details"
      <4>1. q.key \in IncidentKey /\ q.text \in Text
        BY <3>3, RequestTyped
      <4>2. Changed(q, b) = [b EXCEPT !.text = q.text]
        BY <3>3 DEF Changed
      <4> QED BY <2>1, <4>1, <4>2 DEF BodyOf, IncidentBody
    <3> QED BY <1>3, <3>1, <3>2, <3>3, RequestTyped DEF Creates
  <2>3. New(q, r) \in Record
    <3>1. r.version + 1 \in 1..(MaxRequests + 1) /\ Changed(q, b) \in Body
      BY <1>1, <2>1, <2>2, BoundsTyped
    <3> HIDE DEF b
    <3> QED BY <2>1, <3>1 DEF Record
  <2> QED BY <1>3, <2>1, <2>2, <2>3
<1> QED BY <1>2, <1>3

\* Not every request has an event: a facility is registered, details stay here.
Tellable(q) == q.op # "details" /\ ~(q.op = "create" /\ q.key \in FacilityKey)

LEMMA EventTyped ==
  ASSUME NEW q \in AllRequest, NEW r \in Record \cup {Absent}, Checked(q, r), Tellable(q),
         NEW n \in Nat, n <= MaxRequests, ~Creates(q) => r.version < n
  PROVE  /\ EventOf(q, r) \in AllEventId
         /\ PayloadOf(q, r) \in DT!AnyPayload
         /\ PayloadOf(q, r).key = q.key
<1>1. q.key \in Key /\ q.key[2] \in Name \cup SmsName
  BY RequestTyped, KeyKinds DEF Key
<1>2. CASE Creates(q)
  <2>1. q.key \in IncidentKey
    BY <1>2, RequestTyped DEF Creates, Tellable, Key
  <2>2. q.body.status \in IncidentStatus
    BY <1>2, <2>1 DEF Checked, BodyOf, IncidentBody
  <2>3. PayloadOf(q, r) \in DT!IncidentPayload /\ PayloadOf(q, r).key = q.key
    BY <1>2, <2>1, <2>2, TwinKinds DEF PayloadOf, Creates, DT!IncidentPayload
  <2>4. EventOf(q, r) = <<"CREATE", q.key[2], 1>>
    BY <1>2 DEF EventOf, EventName, Creates
  <2> QED BY <1>1, <2>3, <2>4, BoundsTyped DEF DT!AnyPayload, AllEventId
<1>3. CASE q.op = "capacity"
  <2>1. ~Creates(q) /\ q.key \in FacilityKey
    BY <1>3, RequestTyped DEF Creates
  <2>2. r \in Record /\ r.body \in FacilityBody
    BY <2>1, KeyKinds DEF Checked, BodyOf
  <2>3. TotalFor(q, r.body) \in 0..MaxCapacity /\ q.avail \in 0..TotalFor(q, r.body)
    <3>1. TotalFor(q, r.body) \in Int /\ TotalFor(q, r.body) <= MaxCapacity
      BY <1>3, <2>2, RequestTyped, BoundsTyped DEF TotalFor, FacilityBody
    <3> QED BY <1>3, <3>1, BoundsTyped DEF Checked, WithinBounds
  <2>4. q.avail \in 0..MaxCapacity
    BY <2>3, BoundsTyped
  <2>5. PayloadOf(q, r) =
          [kind |-> "capacity", key |-> q.key, cap |-> TotalFor(q, r.body), avail |-> q.avail]
    BY <1>3, <2>1 DEF PayloadOf
  <2>6. PayloadOf(q, r) \in DT!CapacityPayload
    BY <2>1, <2>3, <2>4, <2>5 DEF DT!CapacityPayload
  <2>7. EventOf(q, r) = <<"CAP", q.key[2], r.version + 1>>
    BY <1>3, <2>1 DEF EventOf, EventName
  <2>8. r.version + 1 \in 1..(MaxRequests + 1)
    BY <2>1, <2>2, BoundsTyped DEF Record
  <2> QED BY <1>1, <2>5, <2>6, <2>7, <2>8 DEF DT!AnyPayload, AllEventId
<1>4. CASE q.op = "status"
  <2>1. ~Creates(q) /\ q.status \in StatusOf(q.key) /\ r \in Record
    BY <1>4, RequestTyped DEF Creates, Checked
  <2>2. EventOf(q, r) = <<"STATUS", q.key[2], r.version + 1>>
    BY <1>4, <2>1 DEF EventOf, EventName
  <2>3. r.version + 1 \in 1..(MaxRequests + 1)
    BY <2>1, BoundsTyped DEF Record
  <2>4. PayloadOf(q, r) = [kind |-> IF q.key \in IncidentKey THEN "incident" ELSE "facility",
                           key |-> q.key, status |-> q.status]
    BY <1>4, <2>1 DEF PayloadOf
  <2>5. PayloadOf(q, r) \in DT!AnyPayload
    <3>1. CASE q.key \in IncidentKey
      BY <2>1, <2>4, <3>1, KeyKinds, TwinKinds
      DEF StatusOf, DT!AnyPayload, DT!IncidentPayload
    <3>2. CASE q.key \in FacilityKey
      BY <2>1, <2>4, <3>2, KeyKinds DEF StatusOf, DT!AnyPayload, DT!FacilityPayload
    <3> QED BY <1>1, <3>1, <3>2 DEF Key
  <2> QED BY <1>1, <2>2, <2>3, <2>4, <2>5 DEF AllEventId
<1> QED BY <1>2, <1>3, <1>4, RequestTyped DEF Tellable, Creates

--------------------------------------------------------------------------------
(* What an event does to the twin *)

\* The entity after an event the twin does not raise on.
LEMMA TargetTyped ==
  ASSUME NEW m, DT!IsManager(m), NEW p \in DT!AnyPayload, ~DT!Rejected(m, p)
  PROVE  p.key \in Key /\ DT!Target(m, p) \in DT!EntityOf(p.key)
<1>1. \/ p \in DT!CapacityPayload \/ p \in DT!FacilityPayload \/ p \in DT!IncidentPayload
  BY DEF DT!AnyPayload, DT!RoadPayload, DT!BridgePayload, DT!AreaPayload
<1>2. \A k \in Key : m.ent[k] \in DT!EntityOf(k) \cup {Absent}
  BY TwinKinds DEF DT!IsManager
<1>3. CASE p \in DT!CapacityPayload
  <2>1. /\ p.kind = "capacity" /\ p.key \in FacilityKey
        /\ p.cap \in 0..MaxCapacity /\ p.avail \in 0..MaxCapacity /\ p.avail <= p.cap
    BY <1>3 DEF DT!CapacityPayload
  <2>2. m.ent[p.key] # Absent /\ m.ent[p.key] \in FacilityBody
    BY <1>2, <2>1, TwinKinds DEF DT!Rejected, Key
  <2>3. DT!Target(m, p) = WithCapacity(m.ent[p.key], p.cap, p.avail)
    BY <2>1, <2>2 DEF DT!Target, DT!Current, WithCapacity
  <2> QED BY <2>1, <2>2, <2>3, FacilityBodyChanged, TwinKinds DEF Key
<1>4. CASE p \in DT!FacilityPayload
  <2>1. p.kind = "facility" /\ p.key \in FacilityKey /\ p.status \in HospitalStatus \cup ShelterStatus
    BY <1>4 DEF DT!FacilityPayload
  <2>2. m.ent[p.key] # Absent /\ m.ent[p.key] \in FacilityBody
    BY <1>2, <2>1, TwinKinds DEF DT!Rejected, Key
  <2>3. DT!Target(m, p) = WithStatus(m.ent[p.key], p.status)
    BY <2>1, <2>2 DEF DT!Target, DT!Current, WithStatus
  <2> QED BY <2>1, <2>2, <2>3, FacilityBodyChanged, TwinKinds DEF Key
<1>5. CASE p \in DT!IncidentPayload
  <2>1. p.kind \in {"created", "incident"} /\ p.key \in IncidentKey /\ p.status \in IncidentStatus
    BY <1>5, TwinKinds DEF DT!IncidentPayload
  <2> QED BY <2>1, TwinKinds DEF DT!Target, Key
<1> QED BY <1>1, <1>3, <1>4, <1>5

\* The twin leaves an event it has seen or raises on, and otherwise takes the entity
\* to its target; what it logs, it logs once.
LEMMA EmitEffect ==
  ASSUME NEW m, DT!IsManager(m), NEW id \in AllEventId, NEW p \in DT!AnyPayload
  PROVE  LET u == DT!ApplyEvent(m, id, p)
             e == [id |-> id, body |-> p, version |-> m.version + 1]
         IN  /\ DT!IsManager(u)
             /\ id \in m.seen \/ DT!Rejected(m, p) => u = m
             /\ id \notin m.seen /\ ~DT!Rejected(m, p) =>
                  /\ u.seen = m.seen \cup {id}
                  /\ u.ent = [m.ent EXCEPT ![p.key] = DT!Target(m, p)]
                  /\ u.log = m.log \/ u.log = Append(m.log, e)
<1> DEFINE u == DT!ApplyEvent(m, id, p)
           e == [id |-> id, body |-> p, version |-> m.version + 1]
<1>1. u = DT!Handle(m, id, p)
  BY DEF DT!ApplyEvent, DT!Cascades, DT!AnyPayload, DT!BridgePayload, DT!RoadPayload, DT!CapacityPayload,
         DT!FacilityPayload, DT!IncidentPayload, DT!AreaPayload
<1>2. CASE id \in m.seen \/ DT!Rejected(m, p)
  BY <1>1, <1>2 DEF DT!Handle, DT!Applies
<1>3. CASE id \notin m.seen /\ ~DT!Rejected(m, p)
  <2> DEFINE x == DT!Target(m, p)
  <2>1. p.key \in Key /\ x \in DT!EntityOf(p.key)
    BY <1>3, TargetTyped
  <2>2. m = DT!Manager(m.version, m.ent, m.seen, m.log, m.overlay) /\ m.version \in Nat
    BY DEF DT!IsManager
  <2>3. PICK v \in Nat, l \in Seq(DT!LogEntry) :
          /\ u = DT!Manager(v, [m.ent EXCEPT ![p.key] = x], m.seen \cup {id}, l, m.overlay)
          /\ l = m.log \/ l = Append(m.log, e)
    <3>1. e \in DT!LogEntry /\ m.log \in Seq(DT!LogEntry) /\ m.version \in Nat
      BY TwinKinds DEF DT!LogEntry, DT!IsManager
    <3>2. CASE DT!NoOp(m, p)
      <4>1. x = DT!Current(m, p)
        BY <3>2 DEF DT!NoOp
      <4>2. u = DT!Ignore(m, id, p)
        BY <1>1, <1>3, <3>2 DEF DT!Handle, DT!Applies
      <4> HIDE DEF x
      <4>3. u = DT!Manager(m.version, [m.ent EXCEPT ![p.key] = x], m.seen \cup {id},
                           m.log, m.overlay)
        BY <4>1, <4>2 DEF DT!Ignore, x
      <4> HIDE DEF u, e
      <4> QED BY <3>1, <4>3
    <3>3. CASE ~DT!NoOp(m, p)
      <4>1. u = DT!Commit(m, id, p)
        BY <1>1, <1>3, <3>3 DEF DT!Handle, DT!Applies
      <4>2. DT!OverlayWith(m, p.key, x) = m.overlay
        BY DEF DT!OverlayWith
      <4> HIDE DEF x
      <4>3. u = DT!Manager(m.version + 1, [m.ent EXCEPT ![p.key] = x], m.seen \cup {id},
                           Append(m.log, e), m.overlay)
        BY <4>1, <4>2 DEF DT!Commit, x
      <4>4. Append(m.log, e) \in Seq(DT!LogEntry) /\ m.version + 1 \in Nat
        BY <3>1
      <4> HIDE DEF u, e
      <4> QED BY <4>3, <4>4
    <3> QED BY <3>2, <3>3
  <2>4. /\ u.version = v /\ u.ent = [m.ent EXCEPT ![p.key] = x]
        /\ u.seen = m.seen \cup {id} /\ u.log = l /\ u.overlay = m.overlay
    BY <2>3 DEF DT!Manager
  <2> HIDE DEF u, x, e
  <2>5. DT!IsManager(u)
    BY <2>1, <2>3, <2>4, TwinKinds DEF DT!IsManager
  <2> QED BY <1>3, <2>3, <2>4, <2>5 DEF u, x, e
<1> QED BY <1>2, <1>3

--------------------------------------------------------------------------------
(* Steps *)

\* A request that passes its checks and is not done with that.
Opens(t, q) ==
  /\ thread[t].pc = "idle" /\ taken < MaxRequests
  /\ Checked(q, store[q.key])
  /\ Start(t, q, store[q.key])
  /\ taken' = taken + 1
  /\ UNCHANGED <<store, twin, trail>>

\* Whose request it is.
FromClient(q) == q \in Request /\ UNCHANGED <<seen, refused>>
FromGateway(t, q) ==
  \E m \in Message, i \in SmsName :
    IngestSms(t, m, i) /\ q = FromSms(m, i) /\ store[q.key] = Absent /\ UNCHANGED refused

\* A message that becomes no request.
TurnedAway(t) ==
  \E m \in Message, i \in SmsName :
    /\ IngestSms(t, m, i) /\ UNCHANGED <<thread, raced>>
    /\ \/ ~Constructs(m) /\ UNCHANGED refused
       \/ store[<<"incident", i>>] # Absent /\ refused' = refused \cup {m.text}

LEMMA BeginOpens ==
  ASSUME TypeOK, NEW t \in Thread, NEW q \in Request, Begin(t, q), Checked(q, store[q.key])
  PROVE  q \in AllRequest /\ Opens(t, q) /\ FromClient(q)
BY DEF Begin, Opens, FromClient, AllRequest

LEMMA ChecksPass ==
  ASSUME TypeOK, NEW q \in Request
  PROVE  /\ q.op = "create" /\ store[q.key] = Absent => Checked(q, store[q.key])
         /\ q.op = "capacity" /\ Current(q) /\ WithinBounds(q, store[q.key].body)
              => Checked(q, store[q.key])
         /\ q.op = "status" /\ Current(q)
              /\ (q.key \in IncidentKey => MovesAlong(store[q.key].body.status, q.status))
              => Checked(q, store[q.key])
         /\ q.op = "details" /\ Current(q) => Checked(q, store[q.key])
<1>1. q \in AllRequest
  BY DEF AllRequest
<1>2. q.key \in Key
  BY <1>1, RequestTyped
<1>3. store[q.key] # Absent => store[q.key] \in Record /\ store[q.key].body \in BodyOf(q.key)
  BY <1>2 DEF TypeOK
<1>4. CASE q.op = "create"
  BY <1>1, <1>4, RequestTyped DEF Checked, Creates
<1>5. CASE q.op = "capacity"
  BY <1>3, <1>5 DEF Checked, Creates, Current
<1>6. CASE q.op = "status"
  BY <1>3, <1>6 DEF Checked, Creates, Current
<1>7. CASE q.op = "details"
  BY <1>1, <1>3, <1>7, RequestTyped DEF Checked, Creates, Current
<1> QED BY <1>1, <1>4, <1>5, <1>6, <1>7, RequestTyped

LEMMA StepCases ==
  ASSUME TypeOK, [Next]_vars
  PROVE  \/ \E t \in Thread, q \in AllRequest :
              Opens(t, q) /\ (FromClient(q) \/ FromGateway(t, q))
         \/ \E t \in Thread : TurnedAway(t)
         \/ \E t \in Thread : Emit(t) \/ Store(t) \/ Audit(t)
         \/ UNCHANGED vars
<1> DEFINE Goal == \E t \in Thread, q \in AllRequest :
                     Opens(t, q) /\ (FromClient(q) \/ FromGateway(t, q))
<1>1. ASSUME NEW t \in Thread, NEW q \in Request,
             \/ CreateHospital(t, q) \/ CreateShelter(t, q) \/ CreateIncident(t, q)
             \/ UpdateHospitalCapacity(t, q) \/ UpdateShelterCapacity(t, q)
             \/ UpdateHospitalStatus(t, q) \/ UpdateShelterStatus(t, q)
             \/ UpdateIncidentStatus(t, q) \/ UpdateIncidentDetails(t, q)
      PROVE  Goal
  <2>1. q \in AllRequest /\ q.key \in Key
    BY RequestTyped DEF AllRequest
  <2>2. q.key[1] # "incident" => q.key \notin IncidentKey
    BY KeyKinds
  <2>3. Begin(t, q) /\ Checked(q, store[q.key])
    <3>1. CASE CreateHospital(t, q) \/ CreateShelter(t, q) \/ CreateIncident(t, q)
      BY <3>1, ChecksPass DEF CreateHospital, CreateShelter, CreateIncident
    <3>2. CASE UpdateHospitalCapacity(t, q) \/ UpdateShelterCapacity(t, q)
      BY <3>2, ChecksPass DEF UpdateHospitalCapacity, UpdateShelterCapacity
    <3>3. CASE UpdateHospitalStatus(t, q) \/ UpdateShelterStatus(t, q)
      BY <2>2, <3>3, ChecksPass DEF UpdateHospitalStatus, UpdateShelterStatus
    <3>4. CASE UpdateIncidentStatus(t, q)
      BY <3>4, ChecksPass DEF UpdateIncidentStatus
    <3>5. CASE UpdateIncidentDetails(t, q)
      BY <3>5, ChecksPass DEF UpdateIncidentDetails
    <3> QED BY <1>1, <3>1, <3>2, <3>3, <3>4, <3>5
  <2> QED BY <2>1, <2>3, BeginOpens
<1>2. ASSUME NEW t \in Thread, NEW m \in Message, NEW i \in SmsName, IngestSms(t, m, i)
      PROVE  Goal \/ TurnedAway(t)
  <2> DEFINE q == FromSms(m, i)
  <2>1. m.text \in Text
    BY MessagesTyped DEF MessageType
  <2>2. q.key = <<"incident", i>> /\ q.key \in IncidentKey /\ q.op = "sms"
    BY DEF FromSms, IncidentKey
  <2>3. q \in AllRequest /\ q.body \in BodyOf(q.key)
    BY <2>1, <2>2 DEF FromSms, AllRequest, SmsRequest, IncidentBody, IncidentStatus, BodyOf
  <2>4. CASE UNCHANGED <<thread, raced>> /\ ~Constructs(m) /\ UNCHANGED refused
    BY <1>2, <2>4 DEF TurnedAway
  <2>5. CASE /\ UNCHANGED <<thread, raced>> /\ store[<<"incident", i>>] # Absent
             /\ refused' = refused \cup {m.text}
    BY <1>2, <2>5 DEF TurnedAway
  <2>6. CASE /\ Start(t, q, Absent) /\ store[<<"incident", i>>] = Absent /\ UNCHANGED refused
    <3>1. Checked(q, store[q.key])
      BY <2>2, <2>3, <2>6 DEF Checked, Creates, FromSms
    <3>2. Opens(t, q)
      BY <1>2, <2>2, <2>6, <3>1 DEF Opens, IngestSms
    <3>3. FromGateway(t, q)
      BY <1>2, <2>2, <2>6 DEF FromGateway
    <3> QED BY <2>3, <3>2, <3>3
  <2> QED
    <3>1. \/ ~Constructs(m) /\ UNCHANGED <<thread, raced, refused>>
          \/ /\ Constructs(m) /\ store[<<"incident", i>>] # Absent
             /\ refused' = refused \cup {m.text} /\ UNCHANGED <<thread, raced>>
          \/ /\ Constructs(m) /\ store[<<"incident", i>>] = Absent
             /\ Start(t, FromSms(m, i), Absent) /\ UNCHANGED refused
      BY <1>2 DEF IngestSms
    <3> QED BY <2>4, <2>5, <2>6, <3>1
<1> HIDE DEF Goal
<1> QED BY <1>1, <1>2 DEF Next, Goal

--------------------------------------------------------------------------------
(* Type correctness *)

IInv == TypeOK /\ Bounded /\ CheckedAll

LEMMA InitIInv == Init => IInv
<1> SUFFICES ASSUME Init PROVE IInv
  OBVIOUS
<1>1. DT!IsManager(twin)
  BY DEF Init, DT!NewManager, DT!Manager, DT!IsManager
<1>2. \A t \in Thread : thread[t].pc = "idle"
  BY DEF Init, Idle
<1>3. TypeOK
  BY <1>1, BoundsTyped DEF Init, TypeOK
<1>4. Busy = {}
  BY <1>2 DEF Busy
<1> QED BY <1>3, <1>4 DEF Init, IInv, Bounded, CheckedAll

\* What the invariant says of a worker on its way.
LEMMA OnItsWay ==
  ASSUME IInv, NEW t \in Thread, thread[t].pc # "idle"
  PROVE  /\ thread[t] \in Task /\ thread[t].req \in AllRequest
         /\ thread[t].req.key \in Key
         /\ thread[t].read \in Record \cup {Absent}
         /\ Checked(thread[t].req, thread[t].read)
         /\ taken \in Nat /\ taken >= 1 /\ taken <= MaxRequests
         /\ ~Creates(thread[t].req) => thread[t].read.version < taken
         /\ New(thread[t].req, thread[t].read) \in Record
         /\ New(thread[t].req, thread[t].read).body \in BodyOf(thread[t].req.key)
         /\ New(thread[t].req, thread[t].read).version =
              IF Creates(thread[t].req) THEN 1 ELSE thread[t].read.version + 1
         /\ New(thread[t].req, thread[t].read).version <= taken
<1> DEFINE q == thread[t].req
           r == thread[t].read
<1>1. thread[t] \in Task /\ t \in Busy
  BY BusyTyped DEF IInv, Busy
<1>2. q \in AllRequest /\ r \in Record \cup {Absent}
  BY <1>1 DEF Task
<1>3. /\ Checked(q, r) /\ taken >= 1
      /\ ~Creates(q) => r.version < taken
  BY <1>1 DEF IInv, Bounded, CheckedAll
<1>4. taken \in Nat /\ taken <= MaxRequests
  BY BoundsTyped DEF IInv, TypeOK
<1>5. ~Creates(q) => r.version \in Nat
  BY <1>3, BoundsTyped DEF Checked, Record
<1>6. /\ New(q, r) \in Record /\ New(q, r).body \in BodyOf(q.key)
      /\ New(q, r).version = IF Creates(q) THEN 1 ELSE r.version + 1
  BY <1>2, <1>3, <1>4, NewTyped
<1>7. New(q, r).version <= taken
  BY <1>3, <1>4, <1>5, <1>6
<1> QED BY <1>1, <1>2, <1>3, <1>4, <1>6, <1>7, RequestTyped

\* What one step does to the worker that takes it and to nobody else.
LEMMA ThreadStep ==
  ASSUME IInv, NEW t \in Thread, NEW x, thread' = [thread EXCEPT ![t] = x]
  PROVE  thread'[t] = x /\ \A u \in Thread \ {t} : thread'[u] = thread[u]
BY DEF IInv, TypeOK

LEMMA GoStep ==
  ASSUME IInv, NEW t \in Thread, NEW pc \in {"store", "audit"}, thread[t].pc # "idle", Go(t, pc)
  PROVE  /\ thread' = [thread EXCEPT ![t] = [pc |-> pc, req |-> thread[t].req, read |-> thread[t].read]]
         /\ thread'[t] \in Task
         /\ thread'[t].pc = pc /\ thread'[t].req = thread[t].req /\ thread'[t].read = thread[t].read
         /\ \A u \in Thread \ {t} : thread'[u] = thread[u]
         /\ Busy' = Busy
<1>1. thread[t] \in Task
  BY BusyTyped DEF IInv
<1>2. thread' = [thread EXCEPT ![t] = [pc |-> pc, req |-> thread[t].req, read |-> thread[t].read]]
  <2>1. [thread[t] EXCEPT !.pc = pc] = [pc |-> pc, req |-> thread[t].req, read |-> thread[t].read]
    BY <1>1 DEF Task
  <2> QED BY <2>1 DEF Go
<1>3. /\ thread'[t] = [pc |-> pc, req |-> thread[t].req, read |-> thread[t].read]
      /\ \A u \in Thread \ {t} : thread'[u] = thread[u]
  BY <1>2, ThreadStep
<1>4. thread'[t] \in Task
  BY <1>1, <1>3 DEF Task
<1>5. thread'[t].pc # "idle"
  BY <1>3
<1>6. Busy' = Busy
  BY <1>3, <1>5 DEF Busy
<1> QED BY <1>2, <1>3, <1>4, <1>6

LEMMA FinishStep ==
  ASSUME IInv, NEW t \in Thread, Finish(t)
  PROVE  /\ thread'[t] = Idle /\ \A u \in Thread \ {t} : thread'[u] = thread[u]
         /\ Busy' = Busy \ {t}
<1>1. thread'[t] = Idle /\ \A u \in Thread \ {t} : thread'[u] = thread[u]
  BY ThreadStep DEF Finish
<1>2. thread'[t].pc = "idle"
  BY <1>1 DEF Idle
<1> QED BY <1>1, <1>2 DEF Busy

LEMMA OpensStep ==
  ASSUME IInv, NEW t \in Thread, NEW q \in AllRequest, Opens(t, q)
  PROVE  /\ thread'[t] \in Task
         /\ thread'[t].pc = IF q.op = "details" THEN "store" ELSE "emit"
         /\ thread'[t].req = q /\ thread'[t].read = store[q.key]
         /\ \A u \in Thread \ {t} : thread'[u] = thread[u]
         /\ Busy' = Busy \cup {t} /\ t \notin Busy
         /\ raced' = raced \cup Overlap(q)
<1> DEFINE x == [pc |-> IF q.op = "details" THEN "store" ELSE "emit", req |-> q, read |-> store[q.key]]
<1>1. thread' = [thread EXCEPT ![t] = x] /\ raced' = raced \cup Overlap(q)
  BY DEF Opens, Start
<1>2. thread'[t] = x /\ \A u \in Thread \ {t} : thread'[u] = thread[u]
  <2>1. thread \in [Thread -> {Idle} \cup Task]
    BY DEF IInv, TypeOK, Task
  <2> HIDE DEF x
  <2> QED BY <1>1, <2>1
<1>3. q.key \in Key
  BY RequestTyped
<1>4. x \in Task
  BY <1>3 DEF Task, IInv, TypeOK
<1>5. thread'[t].pc # "idle" /\ thread[t].pc = "idle"
  BY <1>2 DEF Opens
<1>6. Busy' = Busy \cup {t} /\ t \notin Busy
  BY <1>2, <1>5 DEF Busy
<1> QED BY <1>1, <1>2, <1>4, <1>6

\* The step in which the twin is told: a facility is put there, an event is dropped
\* as seen, raised on, or applied.
Put(t) ==
  /\ twin'.ent = [twin.ent EXCEPT ![thread[t].req.key] = thread[t].req.body]
  /\ twin'.seen = twin.seen /\ twin'.log = twin.log
Applied(id, p) ==
  /\ id \notin twin.seen /\ ~DT!Rejected(twin, p)
  /\ twin'.seen = twin.seen \cup {id}
  /\ twin'.ent = [twin.ent EXCEPT ![p.key] = DT!Target(twin, p)]
  /\ \/ twin'.log = twin.log
     \/ twin'.log = Append(twin.log, [id |-> id, body |-> p, version |-> twin.version + 1])

LEMMA EmitStep ==
  ASSUME IInv, NEW t \in Thread, Emit(t)
  PROVE  LET q == thread[t].req
             id == EventOf(q, thread[t].read)
             p == PayloadOf(q, thread[t].read)
         IN  /\ thread[t].pc = "emit" /\ t \in Busy
             /\ UNCHANGED <<store, trail, seen, taken, refused, raced>>
             /\ DT!IsManager(twin')
             /\ ~Tellable(q) => q.op = "create" /\ q.key \in FacilityKey /\ Put(t) /\ Go(t, "store")
             /\ Tellable(q) =>
                  /\ id \in AllEventId /\ p \in DT!AnyPayload /\ p.key = q.key
                  /\ \/ id \in twin.seen /\ twin' = twin /\ Go(t, "store")
                     \/ id \notin twin.seen /\ DT!Rejected(twin, p) /\ twin' = twin /\ Finish(t)
                     \/ Applied(id, p) /\ Go(t, "store")
<1> DEFINE q == thread[t].req
           r == thread[t].read
           id == EventOf(q, r)
           p == PayloadOf(q, r)
<1>1. /\ thread[t].pc = "emit" /\ t \in Busy
      /\ UNCHANGED <<store, trail, seen, taken, refused, raced>>
  BY DEF Emit, Busy
<1>2. q \in AllRequest /\ r \in Record \cup {Absent} /\ Checked(q, r) /\ q.op # "details"
  BY <1>1, OnItsWay DEF IInv, CheckedAll
<1>3. q.key \in Key
  BY <1>2, RequestTyped
<1>4. DT!IsManager(twin)
  BY DEF IInv, TypeOK
<1>5. CASE ~Tellable(q)
  <2>1. q.op = "create" /\ q.key \in FacilityKey
    BY <1>2, <1>5 DEF Tellable
  <2> DEFINE ent == [twin.ent EXCEPT ![q.key] = q.body]
  <2>2. twin' = DT!Manager(twin.version, ent, twin.seen, twin.log, twin.overlay) /\ Go(t, "store")
    BY <2>1 DEF Emit
  <2>3. q.body \in FacilityBody
    BY <1>2, <2>1, RequestTyped, KeyKinds DEF BodyOf
  <2>4. ent = [k \in Key |-> ent[k]] /\ \A k \in Key : ent[k] \in DT!EntityOf(k) \cup {Absent}
    BY <1>4, <2>1, <2>3, TwinKinds DEF DT!IsManager, Key
  <2>5. PICK u : u = twin'
    OBVIOUS
  <2> HIDE DEF ent
  <2>6. /\ u.version = twin.version /\ u.ent = ent /\ u.seen = twin.seen /\ u.log = twin.log
        /\ u.overlay = twin.overlay
        /\ u = DT!Manager(u.version, u.ent, u.seen, u.log, u.overlay)
    BY <2>2, <2>5 DEF DT!Manager
  <2>7. DT!IsManager(u)
    BY <1>4, <2>4, <2>6, TwinKinds DEF DT!IsManager
  <2>8. DT!IsManager(twin')
    BY <2>5, <2>7
  <2>9. Put(t)
    BY <2>5, <2>6 DEF Put, ent
  <2> QED BY <1>1, <1>5, <2>1, <2>2, <2>8, <2>9
<1>6. CASE Tellable(q)
  <2>1. taken \in Nat /\ taken <= MaxRequests /\ (~Creates(q) => r.version < taken)
    BY <1>1, OnItsWay
  <2>2. id \in AllEventId /\ p \in DT!AnyPayload /\ p.key = q.key
    BY <1>2, <1>6, <2>1, EventTyped
  <2>3. twin' = DT!ApplyEvent(twin, id, p)
        /\ IF id \notin twin.seen /\ DT!Rejected(twin, p) THEN Finish(t) ELSE Go(t, "store")
    BY <1>2, <1>6 DEF Emit, Tellable
  <2> HIDE DEF q, r, id, p
  <2>4. PICK u : u = twin'
    OBVIOUS
  <2>5. /\ DT!IsManager(u)
        /\ id \in twin.seen \/ DT!Rejected(twin, p) => u = twin
        /\ id \notin twin.seen /\ ~DT!Rejected(twin, p) =>
             /\ u.seen = twin.seen \cup {id}
             /\ u.ent = [twin.ent EXCEPT ![p.key] = DT!Target(twin, p)]
             /\ \/ u.log = twin.log
                \/ u.log = Append(twin.log, [id |-> id, body |-> p, version |-> twin.version + 1])
    BY <1>4, <2>2, <2>3, <2>4, EmitEffect
  <2>6. DT!IsManager(twin')
    BY <2>4, <2>5
  <2>7. id \notin twin.seen /\ ~DT!Rejected(twin, p) => Applied(id, p)
    BY <2>4, <2>5 DEF Applied
  <2>8. \/ id \in twin.seen /\ twin' = twin /\ Go(t, "store")
        \/ id \notin twin.seen /\ DT!Rejected(twin, p) /\ twin' = twin /\ Finish(t)
        \/ Applied(id, p) /\ Go(t, "store")
    BY <2>3, <2>4, <2>5, <2>7
  <2> QED BY <1>1, <1>6, <2>2, <2>6, <2>8 DEF q, r, id, p
<1> QED BY <1>5, <1>6

\* Where the step leaves its worker.
LEMMA EmitThread ==
  ASSUME IInv, NEW t \in Thread, Emit(t)
  PROVE  Go(t, "store") \/ (Finish(t) /\ twin' = twin)
BY EmitStep

LEMMA StoreStep ==
  ASSUME IInv, NEW t \in Thread, Store(t)
  PROVE  LET q == thread[t].req
             n == New(q, thread[t].read)
         IN  /\ thread[t].pc = "store" /\ t \in Busy /\ q.key \in Key
             /\ store'[q.key] = n /\ \A k \in Key \ {q.key} : store'[k] = store[k]
             /\ Go(t, "audit") /\ UNCHANGED <<twin, trail, seen, taken, refused, raced>>
<1>1. thread[t].pc = "store" /\ t \in Busy /\ thread[t].req.key \in Key
  BY OnItsWay DEF Store, Busy
<1> QED BY <1>1 DEF Store, IInv, TypeOK

\* The entry a request adds.
EntryOf(t) ==
  [req |-> thread[t].req, prev |-> thread[t].read, new |-> New(thread[t].req, thread[t].read)]

LEMMA AuditStep ==
  ASSUME IInv, NEW t \in Thread, Audit(t)
  PROVE  LET b == Book(thread[t].req.key)
         IN  /\ thread[t].pc = "audit" /\ t \in Busy /\ thread[t].req.key \in Key /\ b \in Books
             /\ EntryOf(t) \in Entry
             /\ \A c \in Books \ {b} : trail'[c] = trail[c]
             /\ trail' \in [Books -> Seq(Entry) \cup {Absent}]
             /\ \/ Creates(thread[t].req) /\ trail'[b] = <<EntryOf(t)>>
                \/ ~Creates(thread[t].req) /\ trail[b] = Absent /\ trail' = trail
                \/ /\ ~Creates(thread[t].req) /\ trail[b] # Absent
                   /\ trail[b] \in Seq(Entry) /\ trail'[b] = Append(trail[b], EntryOf(t))
             /\ Finish(t) /\ UNCHANGED <<store, twin, seen, taken, refused, raced>>
<1> DEFINE b == Book(thread[t].req.key)
           e == EntryOf(t)
<1>1. thread[t].pc = "audit" /\ t \in Busy /\ thread[t].req.key \in Key
  BY OnItsWay DEF Audit, Busy
<1>2. b \in Books
  BY <1>1 DEF Books
<1>3. e \in Entry
  BY <1>1, OnItsWay DEF Entry, EntryOf
<1>4. trail' = IF Creates(thread[t].req) THEN [trail EXCEPT ![b] = <<e>>]
               ELSE IF trail[b] = Absent THEN trail
               ELSE [trail EXCEPT ![b] = Append(trail[b], e)]
  BY DEF Audit, EntryOf
<1>5. trail \in [Books -> Seq(Entry) \cup {Absent}]
  BY DEF IInv, TypeOK
<1>6. Finish(t) /\ UNCHANGED <<store, twin, seen, taken, refused, raced>>
  BY DEF Audit
<1> HIDE DEF b, e
<1>7. <<e>> \in Seq(Entry) /\ (trail[b] # Absent => Append(trail[b], e) \in Seq(Entry))
  BY <1>2, <1>3, <1>5
<1>8. /\ \A c \in Books \ {b} : trail'[c] = trail[c]
      /\ trail' \in [Books -> Seq(Entry) \cup {Absent}]
      /\ \/ Creates(thread[t].req) /\ trail'[b] = <<e>>
         \/ ~Creates(thread[t].req) /\ trail[b] = Absent /\ trail' = trail
         \/ /\ ~Creates(thread[t].req) /\ trail[b] # Absent
            /\ trail[b] \in Seq(Entry) /\ trail'[b] = Append(trail[b], e)
  BY <1>2, <1>4, <1>5, <1>7
<1> QED BY <1>1, <1>2, <1>3, <1>6, <1>8 DEF b, e

\* The part of the invariant about the workers, and how a step that moves one of
\* them keeps it.
WorkersOk ==
  /\ thread \in [Thread -> {Idle} \cup Task]
  /\ CheckedAll
  /\ \A u \in Busy : taken >= 1 /\ (~Creates(thread[u].req) => thread[u].read.version < taken)
Becomes(t, x) == thread' = [thread EXCEPT ![t] = x]

LEMMA BecomesOk ==
  ASSUME IInv, NEW t \in Thread, NEW x \in {Idle} \cup Task, Becomes(t, x),
         taken' \in Nat, taken <= taken', taken' <= MaxRequests,
         x # Idle => /\ Checked(x.req, x.read) /\ taken' >= 1
                     /\ x.pc = "emit" => x.req.op # "details"
                     /\ ~Creates(x.req) => x.read.version < taken'
  PROVE  WorkersOk'
<1>1. thread'[t] = x /\ \A u \in Thread \ {t} : thread'[u] = thread[u]
  BY ThreadStep DEF Becomes
<1>2. thread' \in [Thread -> {Idle} \cup Task]
  BY DEF IInv, TypeOK, Task, Becomes
<1>3. taken \in Nat
  BY DEF IInv, TypeOK
<1>4. ASSUME NEW u \in Thread, thread'[u].pc # "idle"
      PROVE  /\ Checked(thread'[u].req, thread'[u].read) /\ taken' >= 1
             /\ thread'[u].pc = "emit" => thread'[u].req.op # "details"
             /\ ~Creates(thread'[u].req) => thread'[u].read.version < taken'
  <2>1. CASE u = t
    <3>1. x # Idle
      BY <1>1, <1>4, <2>1 DEF Idle
    <3> QED BY <1>1, <2>1, <3>1
  <2>2. CASE u # t
    <3>1. thread'[u] = thread[u] /\ u \in Busy
      BY <1>1, <1>4, <2>2 DEF Busy
    <3>2. thread[u].read.version \in Int \/ Creates(thread[u].req)
      BY <1>4, <3>1, OnItsWay DEF Checked, Record
    <3> QED BY <1>3, <3>1, <3>2 DEF IInv, Bounded, CheckedAll
  <2> QED BY <2>1, <2>2
<1> QED BY <1>2, <1>4 DEF WorkersOk, CheckedAll, Busy

LEMMA GoOk ==
  ASSUME IInv, NEW t \in Thread, NEW pc \in {"store", "audit"}, thread[t].pc # "idle", Go(t, pc),
         UNCHANGED taken
  PROVE  WorkersOk'
<1> DEFINE y == [pc |-> pc, req |-> thread[t].req, read |-> thread[t].read]
<1>1. taken \in Nat /\ taken <= MaxRequests
  BY BoundsTyped DEF IInv, TypeOK
<1>2. PICK x : x = y
  OBVIOUS
<1>3. Becomes(t, x) /\ x \in Task
  BY <1>2, GoStep, ThreadStep DEF Becomes
<1>4. /\ Checked(x.req, x.read) /\ taken >= 1
      /\ ~Creates(x.req) => x.read.version < taken
  BY <1>2, OnItsWay
<1>5. x.pc # "emit"
  BY <1>2
<1> HIDE DEF y
<1> QED BY <1>1, <1>3, <1>4, <1>5, BecomesOk

LEMMA FinishOk ==
  ASSUME IInv, NEW t \in Thread, Finish(t), UNCHANGED taken
  PROVE  WorkersOk'
<1>1. taken \in Nat /\ taken <= MaxRequests
  BY BoundsTyped DEF IInv, TypeOK
<1>2. Becomes(t, Idle)
  BY DEF Becomes, Finish
<1> QED BY <1>1, <1>2, BecomesOk

LEMMA StepIInv ==
  ASSUME IInv, [Next]_vars
  PROVE  IInv'
<1>1. taken \in Nat /\ taken <= MaxRequests
  BY BoundsTyped DEF IInv, TypeOK
<1>2. thread \in [Thread -> {Idle} \cup Task] /\ DT!IsManager(twin)
  BY DEF IInv, TypeOK, Task
<1>6. CASE \E t \in Thread, q \in AllRequest : Opens(t, q) /\ (FromClient(q) \/ FromGateway(t, q))
  <2>1. PICK t \in Thread, q \in AllRequest : Opens(t, q) /\ (FromClient(q) \/ FromGateway(t, q))
    BY <1>6
  <2>11. PICK x : x = [pc |-> IF q.op = "details" THEN "store" ELSE "emit", req |-> q, read |-> store[q.key]]
    OBVIOUS
  <2>2. q.key \in Key
    BY RequestTyped
  <2>3. x \in Task
    BY <2>11, <2>2 DEF Task, IInv, TypeOK
  <2>4. /\ Becomes(t, x) /\ raced' = raced \cup Overlap(q)
        /\ taken' = taken + 1 /\ taken < MaxRequests /\ Checked(q, store[q.key])
        /\ UNCHANGED <<store, twin, trail>>
    BY <2>1, <2>11 DEF Opens, Start, Becomes
  <2>5. ~Creates(q) => store[q.key].version <= taken /\ store[q.key].version \in Int
    <3> SUFFICES ASSUME ~Creates(q) PROVE store[q.key].version <= taken /\ store[q.key].version \in Int
      OBVIOUS
    <3>1. store[q.key] \in Record
      BY <2>4 DEF Checked
    <3>2. store[q.key] # Absent
      BY <3>1, AbsentIsNew
    <3> QED BY <2>2, <3>1, <3>2 DEF Record, IInv, Bounded
  <2>6. WorkersOk'
    <3>1. /\ x.req = q /\ x.read = store[q.key]
          /\ x.pc = "emit" => q.op # "details"
      BY <2>11
    <3> QED BY <1>1, <2>3, <2>4, <2>5, <3>1, BoundsTyped, BecomesOk
  <2>7. seen' \in [Text -> SmsName \cup {Absent}] /\ refused' \subseteq Text
    BY <2>1 DEF FromClient, FromGateway, IngestSms, IInv, TypeOK
  <2>8. raced' \subseteq Key \X {"create", "update"}
    BY <2>2, <2>4 DEF Overlap, IInv, TypeOK
  <2>9. \A k \in Key : store[k] # Absent => store[k].version <= taken'
    BY <1>1, <2>4, BoundsTyped DEF IInv, Bounded, TypeOK, Record
  <2>10. DT!IsManager(twin)'
    BY <1>2, <2>4 DEF DT!IsManager, DT!Manager
  <2> QED BY <1>1, <2>4, <2>6, <2>7, <2>8, <2>9, <2>10, BoundsTyped
      DEF WorkersOk, IInv, TypeOK, Bounded, Task
<1>7. CASE \E t \in Thread : TurnedAway(t)
  <2>1. PICK t \in Thread, m \in Message, i \in SmsName :
          /\ IngestSms(t, m, i) /\ UNCHANGED <<thread, raced>>
          /\ refused' = refused \/ refused' = refused \cup {m.text}
    BY <1>7 DEF TurnedAway
  <2>2. m.text \in Text
    BY MessagesTyped DEF MessageType
  <2>3. /\ seen' = [seen EXCEPT ![m.text] = i] /\ taken' = taken + 1 /\ taken < MaxRequests
        /\ UNCHANGED <<store, twin, trail, thread, raced>>
    BY <2>1 DEF IngestSms
  <2>4. Busy' = Busy /\ CheckedAll'
    BY <2>3 DEF Busy, CheckedAll, IInv
  <2>5. \A k \in Key : store[k] # Absent => store[k].version <= taken'
    BY <1>1, <2>3, BoundsTyped DEF IInv, Bounded, TypeOK, Record
  <2>6. \A u \in Busy : taken' >= 1 /\ (~Creates(thread[u].req) => thread[u].read.version < taken')
    <3> SUFFICES ASSUME NEW u \in Busy
                 PROVE  taken' >= 1 /\ (~Creates(thread[u].req) => thread[u].read.version < taken')
      OBVIOUS
    <3>1. u \in Thread /\ thread[u].pc # "idle"
      BY DEF Busy
    <3>2. ~Creates(thread[u].req) => thread[u].read.version \in Int
      BY <3>1, OnItsWay DEF Checked, Record
    <3> QED BY <1>1, <2>3, <3>1, <3>2, OnItsWay
  <2>7. DT!IsManager(twin)'
    BY <1>2, <2>3 DEF DT!IsManager, DT!Manager
  <2> QED BY <1>1, <2>1, <2>2, <2>3, <2>4, <2>5, <2>6, <2>7, BoundsTyped
      DEF IInv, TypeOK, Bounded
<1>8. ASSUME NEW t \in Thread, Emit(t) PROVE IInv'
  <2>1. /\ thread[t].pc = "emit" /\ DT!IsManager(twin')
        /\ UNCHANGED <<store, trail, seen, taken, refused, raced>>
    BY <1>8, EmitStep
  <2>2. DT!IsManager(twin)'
    BY <2>1 DEF DT!IsManager, DT!Manager
  <2>3. WorkersOk'
    BY <1>8, <2>1, EmitThread, GoOk, FinishOk
  <2> QED BY <2>1, <2>2, <2>3 DEF WorkersOk, IInv, TypeOK, Bounded, Task
<1>9. ASSUME NEW t \in Thread, Store(t) PROVE IInv'
  <2> DEFINE q == thread[t].req
             n == New(q, thread[t].read)
  <2>1. /\ thread[t].pc = "store" /\ q.key \in Key
        /\ store'[q.key] = n /\ \A k \in Key \ {q.key} : store'[k] = store[k]
        /\ Go(t, "audit") /\ UNCHANGED <<twin, trail, seen, taken, refused, raced>>
        /\ store' = [store EXCEPT ![q.key] = n]
    BY <1>9, StoreStep DEF Store
  <2>2. n \in Record /\ n.body \in BodyOf(q.key) /\ n.version <= taken
    BY <2>1, OnItsWay
  <2> HIDE DEF q, n
  <2>3. /\ store' \in [Key -> Record \cup {Absent}]
        /\ \A k \in Key : store'[k] # Absent => store'[k].body \in BodyOf(k) /\ store'[k].version <= taken'
    BY <2>1, <2>2 DEF IInv, TypeOK, Bounded
  <2>4. DT!IsManager(twin)'
    BY <1>2, <2>1 DEF DT!IsManager, DT!Manager
  <2>5. WorkersOk'
    BY <2>1, GoOk
  <2> QED BY <2>1, <2>3, <2>4, <2>5 DEF WorkersOk, IInv, TypeOK, Bounded, Task
<1>10. ASSUME NEW t \in Thread, Audit(t) PROVE IInv'
  <2>1. /\ trail' \in [Books -> Seq(Entry) \cup {Absent}]
        /\ Finish(t) /\ UNCHANGED <<store, twin, seen, taken, refused, raced>>
    BY <1>10, AuditStep
  <2>2. DT!IsManager(twin)'
    BY <1>2, <2>1 DEF DT!IsManager, DT!Manager
  <2>3. WorkersOk'
    BY <2>1, FinishOk
  <2> QED BY <2>1, <2>2, <2>3 DEF WorkersOk, IInv, TypeOK, Bounded, Task
<1>11. CASE UNCHANGED vars
  <2>1. DT!IsManager(twin)'
    BY <1>2, <1>11 DEF vars, DT!IsManager, DT!Manager
  <2> QED BY <1>11, <2>1 DEF vars, IInv, TypeOK, Bounded, CheckedAll, Busy
<1> QED BY <1>6, <1>7, <1>8, <1>9, <1>10, <1>11, StepCases DEF IInv

\* The inductive invariant: the types, the versions' bound, and what each request's
\* checks established about the copy it read.
THEOREM InvariantHolds == Spec => []IInv
<1>1. IInv /\ [Next]_vars => IInv'
  BY StepIInv
<1> QED BY <1>1, InitIInv, PTL DEF Spec

\* Stores, twin, trails and workers keep their types: in particular every stored
\* record is of its kind, available capacity never exceeds the total, and no event
\* or entity of the wrong kind reaches the twin (facility_service.py,
\* incident_service.py, sms/ingestion.py).
THEOREM TypeCorrect == Spec => []TypeOK
<1>1. IInv => TypeOK
  BY DEF IInv
<1> QED BY <1>1, InvariantHolds, PTL

--------------------------------------------------------------------------------
(* Overlapping requests *)

\* Two workers on one record have raced; one creating it makes it a "create" race.
Alone ==
  \A t, u \in Busy :
    t # u /\ thread[t].req.key = thread[u].req.key =>
      LET k == thread[t].req.key
      IN  Raced(k) /\ (Creates(thread[t].req) => <<k, "create">> \in raced)

\* Without a race, a worker's copy is still the record until it has stored.
Reads ==
  \A t \in Busy, k \in Key :
    thread[t].req.key = k /\ ~Raced(k) =>
      IF thread[t].pc = "audit" THEN store[k] = New(thread[t].req, thread[t].read)
      ELSE store[k] = thread[t].read

RInv == IInv /\ Alone /\ Reads

LEMMA RacedGrows ==
  ASSUME IInv, [Next]_vars
  PROVE  raced \subseteq raced' /\ \A k \in Key : Raced(k) => Raced(k)'
<1>1. raced \subseteq raced'
  <2>1. CASE \E t \in Thread, q \in AllRequest : Opens(t, q) /\ (FromClient(q) \/ FromGateway(t, q))
    BY <2>1, OpensStep
  <2>2. CASE \E t \in Thread : TurnedAway(t)
    BY <2>2 DEF TurnedAway
  <2>3. CASE \E t \in Thread : Emit(t) \/ Store(t) \/ Audit(t)
    BY <2>3 DEF Emit, Store, Audit
  <2>4. CASE UNCHANGED vars
    BY <2>4 DEF vars
  <2> QED BY <2>1, <2>2, <2>3, <2>4, StepCases DEF IInv
<1> QED BY <1>1 DEF Raced

\* A worker that goes on keeps its request, and others do not notice.
LEMMA WorkersKept ==
  ASSUME IInv, NEW t \in Thread, thread[t].pc # "idle",
         (\E pc \in {"store", "audit"} : Go(t, pc)) \/ Finish(t)
  PROVE  /\ Busy' \subseteq Busy
         /\ \A u \in Busy' : thread'[u].req = thread[u].req /\ thread'[u].read = thread[u].read
         /\ \A u \in Busy \ {t} : u \in Busy' /\ thread'[u] = thread[u]
<1>1. ASSUME NEW pc \in {"store", "audit"}, Go(t, pc)
      PROVE  /\ Busy' \subseteq Busy
             /\ \A u \in Busy' : thread'[u].req = thread[u].req /\ thread'[u].read = thread[u].read
             /\ \A u \in Busy \ {t} : u \in Busy' /\ thread'[u] = thread[u]
  <2>1. /\ thread'[t].req = thread[t].req /\ thread'[t].read = thread[t].read
        /\ \A u \in Thread \ {t} : thread'[u] = thread[u]
        /\ Busy' = Busy
    BY <1>1, GoStep
  <2> QED BY <2>1 DEF Busy
<1>2. CASE Finish(t)
  <2>1. Busy' = Busy \ {t} /\ \A u \in Thread \ {t} : thread'[u] = thread[u]
    BY <1>2, FinishStep
  <2> QED BY <2>1 DEF Busy
<1> QED BY <1>1, <1>2

LEMMA MoveKind ==
  ASSUME IInv, NEW t \in Thread, Emit(t) \/ Store(t) \/ Audit(t)
  PROVE  /\ thread[t].pc # "idle" /\ t \in Busy
         /\ (\E pc \in {"store", "audit"} : Go(t, pc)) \/ Finish(t)
         /\ UNCHANGED <<seen, taken, refused, raced>>
<1>1. CASE Emit(t)
  BY <1>1, EmitThread DEF Emit, Busy
<1>2. CASE Store(t)
  BY <1>2 DEF Store, Busy
<1>3. CASE Audit(t)
  BY <1>3 DEF Audit, Busy
<1> QED BY <1>1, <1>2, <1>3

LEMMA AloneStep ==
  ASSUME IInv, Alone, [Next]_vars
  PROVE  Alone'
<1>1. CASE \E t \in Thread, q \in AllRequest : Opens(t, q) /\ (FromClient(q) \/ FromGateway(t, q))
  <2>1. PICK t \in Thread, q \in AllRequest : Opens(t, q)
    BY <1>1
  <2>2. /\ thread'[t].req = q /\ \A u \in Thread \ {t} : thread'[u] = thread[u]
        /\ Busy' = Busy \cup {t} /\ t \notin Busy /\ raced' = raced \cup Overlap(q)
    BY <2>1, OpensStep
  <2>3. q.key \in Key
    BY RequestTyped
  <2>4. ASSUME NEW u \in Busy, thread[u].req.key = q.key
        PROVE  /\ Raced(q.key)'
               /\ Creates(q) \/ Creates(thread[u].req) => <<q.key, "create">> \in raced'
    <3>1. u \in On(q.key)
      BY <2>4 DEF On
    <3> QED BY <2>2, <2>3, <3>1 DEF Overlap, Raced
  <2>5. \A u \in Busy : u \in Thread /\ thread'[u] = thread[u]
    BY <2>2 DEF Busy
  <2>6. \A k : Raced(k) => Raced(k)'
    BY <2>2 DEF Raced
  <2> QED BY <2>2, <2>4, <2>5, <2>6 DEF Alone
<1>2. CASE \E t \in Thread : TurnedAway(t)
  BY <1>2 DEF TurnedAway, Alone, Busy, Raced
<1>3. CASE \E t \in Thread : Emit(t) \/ Store(t) \/ Audit(t)
  <2>1. PICK t \in Thread : Emit(t) \/ Store(t) \/ Audit(t)
    BY <1>3
  <2>2. /\ Busy' \subseteq Busy /\ raced' = raced
        /\ \A u \in Busy' : thread'[u].req = thread[u].req
    BY <2>1, MoveKind, WorkersKept
  <2> QED BY <2>2 DEF Alone, Raced
<1>4. CASE UNCHANGED vars
  BY <1>4 DEF vars, Alone, Busy, Raced
<1> QED BY <1>1, <1>2, <1>3, <1>4, StepCases DEF IInv

LEMMA ReadsStep ==
  ASSUME IInv, Alone, Reads, [Next]_vars
  PROVE  Reads'
<1> SUFFICES ASSUME NEW u \in Busy', NEW k \in Key, thread'[u].req.key = k, ~Raced(k)'
             PROVE  IF thread'[u].pc = "audit"
                    THEN store'[k] = New(thread'[u].req, thread'[u].read)
                    ELSE store'[k] = thread'[u].read
  BY DEF Reads
<1>1. CASE \E t \in Thread, q \in AllRequest : Opens(t, q) /\ (FromClient(q) \/ FromGateway(t, q))
  <2>1. PICK t \in Thread, q \in AllRequest : Opens(t, q)
    BY <1>1
  <2>2. /\ thread'[t].req = q /\ \A v \in Thread \ {t} : thread'[v] = thread[v]
        /\ thread'[t].read = store[q.key] /\ thread'[t].pc # "audit"
        /\ Busy' = Busy \cup {t} /\ raced \subseteq raced' /\ store' = store
    BY <2>1, OpensStep DEF Opens
  <2>3. CASE u = t
    BY <2>2, <2>3
  <2>4. CASE u # t
    <3>1. thread'[u] = thread[u] /\ u \in Busy
      BY <2>2, <2>4 DEF Busy
    <3>2. ~Raced(k)
      BY <2>2, <3>1 DEF Raced
    <3> QED BY <2>2, <3>1, <3>2 DEF Reads
  <2> QED BY <2>3, <2>4
<1>2. CASE \E t \in Thread : TurnedAway(t)
  BY <1>2 DEF TurnedAway, IngestSms, Reads, Busy, Raced
<1>3. ASSUME NEW t \in Thread, Emit(t) \/ Audit(t)
      PROVE  IF thread'[u].pc = "audit"
             THEN store'[k] = New(thread'[u].req, thread'[u].read)
             ELSE store'[k] = thread'[u].read
  <2>1. /\ u \in Busy /\ raced' = raced /\ thread'[u].req = thread[u].req
        /\ thread'[u].read = thread[u].read /\ (u # t => thread'[u] = thread[u])
        /\ thread[t].pc # "idle"
    BY <1>3, MoveKind, WorkersKept
  <2>2. store' = store
    BY <1>3 DEF Emit, Audit
  <2>3. u = t => thread'[u].pc # "audit" /\ thread[u].pc # "audit"
    <3>1. CASE Audit(t)
      <4>1. thread'[t].pc = "idle"
        BY <3>1, FinishStep DEF Audit, Idle
      <4> QED BY <4>1 DEF Busy
    <3>2. CASE Emit(t)
      <4>1. thread[t].pc = "emit"
        BY <3>2 DEF Emit
      <4>2. CASE Go(t, "store")
        BY <2>1, <4>1, <4>2, GoStep
      <4>3. CASE Finish(t)
        <5>1. thread'[t].pc = "idle"
          BY <4>3, FinishStep DEF Idle
        <5> QED BY <5>1 DEF Busy
      <4> QED BY <3>2, <4>2, <4>3, EmitThread
    <3> QED BY <1>3, <3>1, <3>2
  <2>4. ~Raced(k)
    BY <2>1 DEF Raced
  <2> QED BY <2>1, <2>2, <2>3, <2>4 DEF Reads
<1>4. ASSUME NEW t \in Thread, Store(t)
      PROVE  IF thread'[u].pc = "audit"
             THEN store'[k] = New(thread'[u].req, thread'[u].read)
             ELSE store'[k] = thread'[u].read
  <2>1. /\ u \in Busy /\ raced' = raced /\ thread'[u].req = thread[u].req
        /\ thread'[u].read = thread[u].read /\ (u # t => thread'[u] = thread[u])
        /\ thread[t].pc # "idle" /\ t \in Busy
    BY <1>4, MoveKind, WorkersKept
  <2>2. ~Raced(k)
    BY <2>1 DEF Raced
  <2>3. /\ store'[thread[t].req.key] = New(thread[t].req, thread[t].read)
        /\ \A j \in Key \ {thread[t].req.key} : store'[j] = store[j]
        /\ Go(t, "audit")
    BY <1>4, StoreStep
  <2>4. CASE u = t
    <3>1. thread'[t].pc = "audit"
      BY <2>1, <2>3, GoStep
    <3> QED BY <2>1, <2>3, <2>4, <3>1
  <2>5. CASE u # t
    <3>1. k # thread[t].req.key
      BY <2>1, <2>2, <2>5 DEF Alone
    <3> QED BY <2>1, <2>2, <2>3, <2>5, <3>1 DEF Reads
  <2> QED BY <2>4, <2>5
<1>5. CASE UNCHANGED vars
  BY <1>5 DEF vars, Reads, Busy, Raced
<1> QED BY <1>1, <1>2, <1>3, <1>4, <1>5, StepCases DEF IInv

LEMMA RInvHolds == Spec => []RInv
<1>1. Init => RInv
  <2> SUFFICES ASSUME Init PROVE RInv
    OBVIOUS
  <2>1. Busy = {}
    BY DEF Init, Idle, Busy
  <2> QED BY <2>1, InitIInv DEF RInv, Alone, Reads
<1>2. RInv /\ [Next]_vars => RInv'
  BY StepIInv, AloneStep, ReadsStep DEF RInv
<1> QED BY <1>1, <1>2, PTL DEF Spec

--------------------------------------------------------------------------------
(* The incidents' lifecycle *)

LEMMA LifecycleKept ==
  ASSUME RInv, [Next]_vars
  PROVE  LifecycleStep
<1> SUFFICES ASSUME NEW k \in IncidentKey, store[k] # Absent, ~Raced(k)
             PROVE  MovesAlong(store[k].body.status, store'[k].body.status)
  BY DEF LifecycleStep, Raced
<1>1. IInv /\ k \in Key
  BY DEF RInv, Key
<1>2. CASE store'[k] = store[k]
  BY <1>2 DEF MovesAlong
<1>3. CASE store'[k] # store[k]
  <2>1. PICK t \in Thread : Store(t)
    <3>1. ~UNCHANGED store
      BY <1>3
    <3> QED BY <1>1, <3>1, StepCases DEF IInv, Opens, TurnedAway, IngestSms, Emit, Audit, vars
  <2> DEFINE q == thread[t].req
             r == thread[t].read
  <2>2. /\ thread[t].pc = "store" /\ t \in Busy /\ q.key = k /\ store'[k] = New(q, r)
    BY <1>1, <1>3, <2>1, StoreStep
  <2>3. store[k] = r
    BY <1>1, <2>2 DEF RInv, Reads
  <2>4. Checked(q, r) /\ q \in AllRequest
    BY <1>1, <2>2, OnItsWay
  <2>5. ~Creates(q)
    BY <2>3, <2>4 DEF Checked
  <2>6. New(q, r).body = Changed(q, r.body) /\ r.body \in IncidentBody
    BY <2>2, <2>4, <2>5 DEF New, Checked, BodyOf
  <2>7. CASE q.op = "status"
    <3>1. MovesAlong(r.body.status, q.status)
      BY <2>2, <2>4, <2>7 DEF Checked
    <3>2. Changed(q, r.body).status = q.status
      BY <2>6, <2>7 DEF Changed, IncidentBody
    <3> QED BY <2>2, <2>3, <2>6, <3>1, <3>2
  <2>8. CASE q.op = "details"
    <3>1. Changed(q, r.body).status = r.body.status
      BY <2>6, <2>8 DEF Changed, IncidentBody
    <3> QED BY <2>2, <2>3, <2>6, <3>1 DEF MovesAlong
  <2>9. q.op # "capacity"
    <3>1. q.op = "capacity" => q.key \in FacilityKey
      BY <2>4, RequestTyped
    <3> QED BY <2>2, <3>1, KeyKinds
  <2> QED BY <2>4, <2>5, <2>7, <2>8, <2>9, RequestTyped DEF Creates
<1> QED BY <1>2, <1>3

\* Whoever's requests are interleaved on whatever records: an incident leaves
\* VALID_INCIDENT_TRANSITIONS only when two requests for it have overlapped
\* (IncidentService.update_incident_status and _details).
THEOREM LifecycleHolds == Spec => LifecycleUnlessRaced
<1>1. RInv /\ [Next]_vars => [LifecycleStep]_vars
  BY LifecycleKept
<1> QED BY <1>1, RInvHolds, PTL DEF Spec, LifecycleUnlessRaced

--------------------------------------------------------------------------------
(* Messages: a text that counts as seen is on its way to the trail *)

\* Records do not go away.
LEMMA StoreGrows ==
  ASSUME IInv, [Next]_vars, NEW k \in Key, store[k] # Absent
  PROVE  store'[k] # Absent
<1>1. CASE UNCHANGED store
  BY <1>1
<1>2. ASSUME NEW t \in Thread, Store(t) PROVE store'[k] # Absent
  <2>1. /\ thread[t].pc # "idle"
        /\ store'[thread[t].req.key] = New(thread[t].req, thread[t].read)
        /\ \A j \in Key \ {thread[t].req.key} : store'[j] = store[j]
    BY <1>2, StoreStep
  <2>2. New(thread[t].req, thread[t].read) \in Record
    BY <2>1, OnItsWay
  <2> QED BY <2>1, <2>2, AbsentIsNew
<1> QED
  BY <1>1, <1>2, StepCases DEF IInv, Opens, TurnedAway, IngestSms, Emit, Audit, vars

\* Only what is stored is updated or audited.
Existing ==
  \A t \in Busy :
    ~Creates(thread[t].req) \/ thread[t].pc = "audit" => store[thread[t].req.key] # Absent
Audited == \A k \in IncidentKey : trail[Book(k)] # Absent => store[k] # Absent
\* The gateway's lock lets one message through at a time, and to a new incident.
OneMessage ==
  \A t \in Busy : thread[t].req.op = "sms" =>
    /\ thread[t].req.key[2] \in SmsName /\ trail[Book(thread[t].req.key)] = Absent
    /\ \A u \in Busy : thread[u].req.op = "sms" => u = t

SInv == IInv /\ Existing /\ Audited /\ OneMessage

LEMMA BookOfIncident ==
  ASSUME NEW k \in IncidentKey, NEW j \in Key, Book(j) = Book(k)
  PROVE  j = k
BY KeyKinds DEF Book, Key, IncidentKey, FacilityKey

LEMMA ExistingStep ==
  ASSUME IInv, Existing, [Next]_vars
  PROVE  Existing'
<1> SUFFICES ASSUME NEW u \in Busy', ~Creates(thread'[u].req) \/ thread'[u].pc = "audit"
             PROVE  store'[thread'[u].req.key] # Absent
  BY DEF Existing, Creates
<1>1. CASE \E t \in Thread, q \in AllRequest : Opens(t, q) /\ (FromClient(q) \/ FromGateway(t, q))
  <2>1. PICK t \in Thread, q \in AllRequest : Opens(t, q)
    BY <1>1
  <2>2. /\ thread'[t].req = q /\ \A v \in Thread \ {t} : thread'[v] = thread[v]
        /\ thread'[t].pc # "audit"
        /\ Busy' = Busy \cup {t} /\ store' = store /\ Checked(q, store[q.key])
    BY <2>1, OpensStep DEF Opens
  <2>3. CASE u = t
    BY <2>2, <2>3, AbsentIsNew DEF Checked
  <2>4. CASE u # t
    BY <2>2, <2>4 DEF Existing, Busy
  <2> QED BY <2>3, <2>4
<1>2. CASE \E t \in Thread : TurnedAway(t)
  BY <1>2 DEF TurnedAway, IngestSms, Existing, Busy
<1>3. ASSUME NEW t \in Thread, Emit(t) \/ Store(t) \/ Audit(t)
      PROVE  store'[thread'[u].req.key] # Absent
  <2>1. /\ u \in Busy /\ thread'[u].req = thread[u].req /\ (u # t => thread'[u] = thread[u])
        /\ thread[t].pc # "idle" /\ t \in Busy /\ u \in Thread
    BY <1>3, MoveKind, WorkersKept DEF Busy
  <2>2. thread[u].req.key \in Key
    BY <2>1, OnItsWay DEF Busy
  <2>3. CASE store[thread[u].req.key] # Absent
    BY <2>1, <2>2, <2>3, StoreGrows
  <2>4. CASE store[thread[u].req.key] = Absent
    <3>1. Creates(thread[u].req) /\ thread[u].pc # "audit"
      BY <2>1, <2>4 DEF Existing
    <3>2. u = t /\ thread'[t].pc = "audit"
      BY <2>1, <3>1
    <3>3. Store(t)
      <4>1. CASE Audit(t)
        <5>1. thread'[t].pc = "idle"
          BY <4>1, FinishStep DEF Audit, Idle
        <5> QED BY <3>2, <5>1
      <4>2. CASE Emit(t)
        <5>1. thread'[t].pc \in {"store", "idle"}
          <6>1. CASE Go(t, "store")
            BY <2>1, <6>1, GoStep
          <6>2. CASE Finish(t)
            BY <6>2, FinishStep DEF Idle
          <6> QED BY <4>2, <6>1, <6>2, EmitThread
        <5> QED BY <3>2, <5>1
      <4> QED BY <1>3, <4>1, <4>2
    <3>4. store'[thread[t].req.key] = New(thread[t].req, thread[t].read)
      BY <3>3, StoreStep
    <3> QED BY <2>1, <3>2, <3>4, OnItsWay, AbsentIsNew
  <2> QED BY <2>3, <2>4
<1>4. CASE UNCHANGED vars
  BY <1>4 DEF vars, Existing, Busy
<1> QED BY <1>1, <1>2, <1>3, <1>4, StepCases DEF IInv

LEMMA AuditedStep ==
  ASSUME IInv, Existing, Audited, [Next]_vars
  PROVE  Audited'
<1> SUFFICES ASSUME NEW k \in IncidentKey, trail'[Book(k)] # Absent PROVE store'[k] # Absent
  BY DEF Audited, Book
<1>1. k \in Key
  BY DEF Key
<1>2. CASE trail[Book(k)] # Absent
  BY <1>1, <1>2, StoreGrows DEF Audited
<1>3. CASE trail[Book(k)] = Absent
  <2>1. PICK t \in Thread : Audit(t)
    <3>1. ~UNCHANGED trail
      BY <1>3
    <3> QED BY <3>1, StepCases DEF IInv, Opens, TurnedAway, IngestSms, Emit, Store, vars
  <2>2. /\ thread[t].pc = "audit" /\ t \in Busy /\ thread[t].req.key \in Key /\ store' = store
        /\ \A c \in Books \ {Book(thread[t].req.key)} : trail'[c] = trail[c]
    BY <2>1, AuditStep
  <2>3. Book(k) = Book(thread[t].req.key)
    BY <1>1, <1>3, <2>2 DEF Books
  <2>4. thread[t].req.key = k
    BY <2>2, <2>3, BookOfIncident
  <2> QED BY <2>2, <2>4 DEF Existing
<1> QED BY <1>2, <1>3

LEMMA OneMessageStep ==
  ASSUME SInv, [Next]_vars
  PROVE  OneMessage'
<1>1. IInv /\ OneMessage
  BY DEF SInv
<1>2. CASE \E t \in Thread, q \in AllRequest : Opens(t, q) /\ (FromClient(q) \/ FromGateway(t, q))
  <2>1. PICK t \in Thread, q \in AllRequest : Opens(t, q) /\ (FromClient(q) \/ FromGateway(t, q))
    BY <1>2
  <2>2. /\ thread'[t].req = q /\ \A v \in Thread \ {t} : thread'[v] = thread[v]
        /\ Busy' = Busy \cup {t} /\ t \notin Busy /\ trail' = trail
    BY <1>1, <2>1, OpensStep DEF Opens
  <2>3. \A v \in Busy : v \in Thread /\ v # t /\ thread'[v] = thread[v]
    BY <2>2 DEF Busy
  <2>4. CASE FromClient(q)
    <3>1. q.op # "sms"
      BY <2>4, RequestsTyped DEF FromClient, AnyRequest, CreateRequest, CapacityRequest, StatusRequest,
                                DetailsRequest
    <3> QED BY <1>1, <2>2, <2>3, <3>1 DEF OneMessage, Book
  <2>5. CASE FromGateway(t, q)
    <3>1. PICK m \in Message, i \in SmsName :
            IngestSms(t, m, i) /\ q = FromSms(m, i) /\ store[q.key] = Absent
      BY <2>5 DEF FromGateway
    <3>2. Ingesting = {} /\ q.key = <<"incident", i>> /\ q.key \in IncidentKey
      BY <3>1 DEF IngestSms, FromSms, IncidentKey
    <3>3. \A v \in Busy : thread[v].req.op # "sms"
      BY <3>2 DEF Ingesting
    <3>4. trail[Book(q.key)] = Absent
      BY <3>1, <3>2 DEF SInv, Audited
    <3>5. q.key[2] \in SmsName
      BY <3>2
    <3> QED BY <2>2, <2>3, <3>3, <3>4, <3>5 DEF OneMessage, Book
  <2> QED BY <2>1, <2>4, <2>5
<1>3. CASE \E t \in Thread : TurnedAway(t)
  BY <1>1, <1>3 DEF TurnedAway, IngestSms, OneMessage, Busy, Book
<1>4. ASSUME NEW t \in Thread, Emit(t) \/ Store(t) \/ Audit(t) PROVE OneMessage'
  <2>1. /\ Busy' \subseteq Busy /\ thread[t].pc # "idle" /\ t \in Busy
        /\ \A u \in Busy' : thread'[u].req = thread[u].req
    BY <1>1, <1>4, MoveKind, WorkersKept
  <2>2. ASSUME NEW u \in Busy', thread[u].req.op = "sms"
        PROVE  trail'[Book(thread[u].req.key)] = Absent
    <3>1. u \in Busy /\ trail[Book(thread[u].req.key)] = Absent /\ thread[u].req.key[2] \in SmsName
      BY <1>1, <2>1, <2>2 DEF OneMessage
    <3>2. thread[u].req \in AllRequest /\ thread[u].req.key \in IncidentKey
      BY <1>1, <2>2, <3>1, OnItsWay, RequestTyped DEF Busy
    <3>3. CASE ~Audit(t)
      BY <1>4, <3>1, <3>3 DEF Emit, Store
    <3>4. CASE Audit(t)
      <4>1. t # u
        <5>1. Busy' = Busy \ {t}
          BY <1>1, <3>4, AuditStep, FinishStep
        <5> QED BY <5>1
      <4>2. thread[t].req.op # "sms"
        BY <1>1, <2>1, <2>2, <3>1, <4>1 DEF OneMessage
      <4>3. CASE Book(thread[t].req.key) # Book(thread[u].req.key)
        <5>1. Book(thread[u].req.key) \in Books
          BY <3>2 DEF Books, Key
        <5> QED BY <1>1, <3>1, <3>4, <4>3, <5>1, AuditStep
      <4>4. CASE Book(thread[t].req.key) = Book(thread[u].req.key)
        <5>1. thread[t].req.key = thread[u].req.key /\ thread[t].req \in AllRequest
          BY <1>1, <2>1, <3>2, <4>4, BookOfIncident, OnItsWay DEF Busy
        <5>2. ~Creates(thread[t].req)
          BY <3>1, <4>2, <5>1, RequestTyped DEF Creates
        <5> QED BY <1>1, <3>1, <3>4, <4>4, <5>2, AuditStep
      <4> QED BY <4>3, <4>4
    <3> QED BY <3>3, <3>4
  <2> QED BY <1>1, <2>1, <2>2 DEF OneMessage, Book
<1>5. CASE UNCHANGED vars
  BY <1>1, <1>5 DEF vars, OneMessage, Busy, Book
<1> QED BY <1>1, <1>2, <1>3, <1>4, <1>5, StepCases DEF IInv

\* A text's message is refused, on its way to incident k, or in k's trail.
OnItsWayTo(x, k) ==
  \E t \in Busy : /\ thread[t].req.key = k /\ thread[t].req.op = "sms"
                  /\ thread[t].req.body.text = x
Recorded(x, k) == \E e \in Entries(Book(k)) : e.req.op = "sms" /\ e.new.body.text = x
Answered(x, k) == x \in refused \/ OnItsWayTo(x, k) \/ Recorded(x, k)
SeenAnswered == \A x \in Text, k \in Key : seen[x] # Absent /\ k = <<"incident", seen[x]>> => Answered(x, k)

LEMMA SeenMeans ==
  ASSUME TypeOK, SeenAnswered
  PROVE  SeenIsTaken
<1> SUFFICES ASSUME NEW x \in Text, seen[x] # Absent, NEW k, k = <<"incident", seen[x]>>
             PROVE  \/ x \in refused
                    \/ \E t \in On(k) : thread[t].req.op = "sms" /\ thread[t].req.body.text = x
                    \/ \E e \in Entries(Book(k)) : e.req.op = "sms" /\ e.new.body.text = x
  BY DEF SeenIsTaken
<1>1. seen[x] \in SmsName
  BY DEF TypeOK
<1>2. k \in Key
  BY <1>1 DEF Key, IncidentKey
<1>3. Answered(x, k)
  BY <1>2 DEF SeenAnswered
<1> QED BY <1>3 DEF Answered, OnItsWayTo, Recorded, On

\* An answer is not taken back.
LEMMA AnswerKept ==
  ASSUME SInv, [Next]_vars, NEW x \in Text, NEW k \in IncidentKey, k[2] \in SmsName, Answered(x, k)
  PROVE  Answered(x, k)'
<1>1. IInv /\ OneMessage /\ k \in Key /\ Book(k) \in Books
  BY DEF SInv, Key, Books
<1>2. CASE x \in refused
  <2>1. refused \subseteq refused'
    BY <1>1, StepCases
    DEF IInv, Opens, FromClient, FromGateway, TurnedAway, Emit, Store, Audit, vars
  <2> QED BY <1>2, <2>1 DEF Answered
<1>3. CASE OnItsWayTo(x, k)
  <2>1. PICK u \in Busy : /\ thread[u].req.key = k /\ thread[u].req.op = "sms"
                          /\ thread[u].req.body.text = x
    BY <1>3 DEF OnItsWayTo
  <2>2. u \in Thread /\ thread[u].pc # "idle"
    BY DEF Busy
  <2>3. CASE u \in Busy' /\ thread'[u].req = thread[u].req
    BY <2>1, <2>3 DEF Answered, OnItsWayTo
  <2>4. CASE \E t \in Thread, q \in AllRequest : Opens(t, q) /\ (FromClient(q) \/ FromGateway(t, q))
    <3>1. PICK t \in Thread, q \in AllRequest : Opens(t, q)
      BY <2>4
    <3>2. \A v \in Thread \ {t} : thread'[v] = thread[v]
      BY <1>1, <3>1, OpensStep
    <3>3. Busy' = Busy \cup {t} /\ t \notin Busy
      BY <1>1, <3>1, OpensStep
    <3> QED BY <2>2, <2>3, <3>2, <3>3
  <2>5. CASE \E t \in Thread : TurnedAway(t)
    BY <2>3, <2>5 DEF TurnedAway, Busy
  <2>6. CASE UNCHANGED vars
    BY <2>3, <2>6 DEF vars, Busy
  <2>7. ASSUME NEW t \in Thread, t # u, Emit(t) \/ Store(t) \/ Audit(t) PROVE Answered(x, k)'
    <3>1. u \in Busy' /\ thread'[u] = thread[u]
      BY <1>1, <2>7, MoveKind, WorkersKept
    <3> QED BY <2>3, <3>1
  <2>8. CASE Go(u, "store")
    BY <1>1, <2>2, <2>3, <2>8, GoStep
  <2>9. CASE Store(u)
    <3>1. Go(u, "audit")
      BY <2>9 DEF Store
    <3> QED BY <1>1, <2>2, <2>3, <3>1, GoStep
  <2>10. CASE Emit(u)
    <3>1. ~DT!Rejected(twin, PayloadOf(thread[u].req, thread[u].read))
      BY <2>1 DEF DT!Rejected, PayloadOf, Creates
    <3>2. Go(u, "store")
      BY <2>1, <2>10, <3>1 DEF Emit
    <3> QED BY <2>8, <3>2
  <2>11. CASE Audit(u)
    <3>1. Creates(thread[u].req) /\ New(thread[u].req, thread[u].read).body = thread[u].req.body
      BY <2>1 DEF Creates, New
    <3>2. trail'[Book(k)] = <<EntryOf(u)>>
      BY <1>1, <2>1, <2>2, <2>11, <3>1, AuditStep
    <3>3. EntryOf(u).req.op = "sms" /\ EntryOf(u).new.body.text = x
      BY <2>1, <3>1 DEF EntryOf
    <3>4. trail'[Book(k)] # Absent
      <4>1. EntryOf(u) \in Entry
        BY <1>1, <2>2, <2>11, AuditStep
      <4>2. <<EntryOf(u)>> \in Seq(Entry)
        BY <4>1
      <4> QED BY <3>2, <4>2, AbsentIsNoTrail
    <3>5. 1 \in DOMAIN trail'[Book(k)] /\ trail'[Book(k)][1] = EntryOf(u)
      BY <3>2
    <3> QED BY <3>3, <3>4, <3>5 DEF Answered, Recorded, Entries, Book
  <2> QED BY <1>1, <2>4, <2>5, <2>6, <2>7, <2>9, <2>10, <2>11, StepCases DEF IInv
<1>4. CASE Recorded(x, k)
  <2>1. trail[Book(k)] # Absent /\ trail[Book(k)] \in Seq(Entry)
    BY <1>1, <1>4 DEF Recorded, Entries, IInv, TypeOK
  <2>2. PICK n \in DOMAIN trail[Book(k)] :
          trail[Book(k)][n].req.op = "sms" /\ trail[Book(k)][n].new.body.text = x
    BY <1>4 DEF Recorded, Entries
  <2>3. CASE trail'[Book(k)] = trail[Book(k)]
    BY <1>4, <2>3 DEF Answered, Recorded, Entries, Book
  <2>4. CASE trail'[Book(k)] # trail[Book(k)]
    <3>1. PICK t \in Thread : Audit(t)
      <4>1. ~UNCHANGED trail
        BY <2>4
      <4> QED BY <1>1, <4>1, StepCases DEF IInv, Opens, TurnedAway, IngestSms, Emit, Store, vars
    <3>2. Book(thread[t].req.key) = Book(k) /\ thread[t].req.key \in Key
      BY <1>1, <2>4, <3>1, AuditStep
    <3>3. thread[t].req.key = k
      BY <3>2, BookOfIncident
    <3>4. ~Creates(thread[t].req)
      <4>1. t \in Busy /\ thread[t].req \in AllRequest
        BY <1>1, <3>1, AuditStep, OnItsWay
      <4>2. thread[t].req.op # "sms"
        BY <1>1, <2>1, <3>3, <4>1 DEF OneMessage
      <4>3. thread[t].req.op # "create"
        BY <3>3, <4>1, RequestTyped
      <4> QED BY <4>2, <4>3 DEF Creates
    <3>5. trail'[Book(k)] = Append(trail[Book(k)], EntryOf(t)) /\ EntryOf(t) \in Entry
      BY <1>1, <2>4, <3>1, <3>2, <3>4, AuditStep
    <3>6. trail'[Book(k)] \in Seq(Entry)
      BY <2>1, <3>5
    <3>7. trail'[Book(k)] # Absent
      BY <3>6, AbsentIsNoTrail
    <3>8. n \in DOMAIN trail'[Book(k)] /\ trail'[Book(k)][n] = trail[Book(k)][n]
      BY <2>1, <2>2, <3>5
    <3> QED BY <2>2, <3>7, <3>8 DEF Answered, Recorded, Entries, Book
  <2> QED BY <2>3, <2>4
<1> QED BY <1>2, <1>3, <1>4 DEF Answered

LEMMA SeenStep ==
  ASSUME SInv, SeenAnswered, [Next]_vars
  PROVE  SeenAnswered'
<1> SUFFICES ASSUME NEW x \in Text, NEW k \in Key, seen'[x] # Absent, k = <<"incident", seen'[x]>>
             PROVE  Answered(x, k)'
  BY DEF SeenAnswered
<1>1. IInv /\ seen \in [Text -> SmsName \cup {Absent}]
  BY DEF SInv, IInv, TypeOK
<1>2. CASE seen'[x] = seen[x]
  <2>1. k \in IncidentKey /\ k[2] \in SmsName
    BY <1>1, <1>2 DEF IncidentKey
  <2>2. Answered(x, k)
    BY <1>2 DEF SeenAnswered
  <2> QED BY <2>1, <2>2, AnswerKept
<1>3. CASE seen'[x] # seen[x]
  <2>1. PICK t \in Thread, m \in Message, i \in SmsName : IngestSms(t, m, i)
    <3>1. ~UNCHANGED seen
      BY <1>3
    <3> QED BY <1>1, <3>1, StepCases
        DEF IInv, Opens, FromClient, FromGateway, TurnedAway, Emit, Store, Audit, vars
  <2>2. m.text = x /\ seen'[x] = i /\ k = <<"incident", i>>
    BY <1>1, <1>3, <2>1 DEF IngestSms
  <2>3. Constructs(m)
    BY <2>1 DEF IngestSms, Parses, Constructs
  <2>4. CASE refused' = refused \cup {m.text}
    BY <2>2, <2>4 DEF Answered
  <2>5. CASE Start(t, FromSms(m, i), Absent)
    <3>1. thread'[t] = [pc |-> "emit", req |-> FromSms(m, i), read |-> Absent]
      BY <1>1, <2>5, ThreadStep DEF Start, FromSms
    <3>2. /\ t \in Busy' /\ thread'[t].req.key = k /\ thread'[t].req.op = "sms"
          /\ thread'[t].req.body.text = x
      BY <2>2, <3>1 DEF Busy, FromSms
    <3> QED BY <3>2 DEF Answered, OnItsWayTo
  <2> QED BY <2>1, <2>3, <2>4, <2>5 DEF IngestSms
<1> QED BY <1>2, <1>3

\* "Replay rejected to protect state integrity": no retransmission is ever turned away
\* for a message that came to nothing (SMSIngestionService.ingest_sms).
THEOREM SeenHolds == Spec => []SeenIsTaken
<1> DEFINE Inv == SInv /\ SeenAnswered
<1>1. Init => Inv
  <2> SUFFICES ASSUME Init PROVE Inv
    OBVIOUS
  <2>1. Busy = {} /\ \A x \in Text : seen[x] = Absent
    BY DEF Init, Idle, Busy
  <2>2. \A k \in IncidentKey : trail[Book(k)] = Absent
    BY DEF Init, Books, Key
  <2> QED BY <2>1, <2>2, InitIInv DEF SInv, Existing, Audited, OneMessage, SeenAnswered
<1>2. Inv /\ [Next]_vars => Inv'
  BY StepIInv, ExistingStep, AuditedStep, OneMessageStep, SeenStep DEF SInv
<1>3. Inv => SeenIsTaken
  BY SeenMeans DEF SInv, IInv
<1> QED BY <1>1, <1>2, <1>3, PTL DEF Spec

--------------------------------------------------------------------------------
(* Audit trails *)

\* No other facility writes into k's trail.
Sole(k) == Namesakes(k) \cap FacilityKey = {}
AuditOn(k) == {t \in Busy : thread[t].req.key = k /\ thread[t].pc = "audit"}

Chain(s) ==
  \A n \in DOMAIN s :
    /\ s[n].new.version = n
    /\ s[n].prev = IF n = 1 THEN Absent ELSE s[n - 1].new
    /\ ~Creates(s[n].req) /\ s[n].req.expect # Absent => s[n].req.expect = n - 1
Ends(s, r) == s # Absent /\ s \in Seq(Entry) /\ Len(s) >= 1 /\ s[Len(s)].new = r

\* The trail of k is a chain up to the record, but for the entry a worker is about
\* to write.
TrailOk(k) ==
  LET s == trail[Book(k)]
  IN  /\ store[k] = Absent => s = Absent
      /\ s # Absent => Chain(s)
      /\ store[k] # Absent /\ AuditOn(k) = {} => Ends(s, store[k])
      /\ \A t \in AuditOn(k) :
           IF Creates(thread[t].req) THEN s = Absent ELSE Ends(s, thread[t].read)
TrailsOk == \A k \in Key : ~Raced(k) /\ Sole(k) => TrailOk(k)

LEMMA SoleBook ==
  ASSUME NEW k \in Key, NEW j \in Key, Sole(k), store[j] # Absent, Book(j) = Book(k)
  PROVE  j = k
<1>1. CASE k \in IncidentKey \/ j \in IncidentKey
  BY <1>1, BookOfIncident
<1>2. CASE k \in FacilityKey /\ j \in FacilityKey
  <2>1. j[2] = k[2]
    BY <1>2, KeyKinds DEF Book
  <2> QED BY <1>2, <2>1 DEF Sole, Namesakes
<1> QED BY <1>1, <1>2 DEF Key

LEMMA SoleBefore ==
  ASSUME IInv, [Next]_vars, NEW k \in Key, Sole(k)'
  PROVE  Sole(k)
<1> SUFFICES ASSUME NEW j \in Key \ {k}, j[2] = k[2], store[j] # Absent, j \in FacilityKey
             PROVE  FALSE
  BY DEF Sole, Namesakes
<1>1. store'[j] # Absent
  BY StoreGrows
<1> QED BY <1>1 DEF Sole, Namesakes

\* Who is at the audit step on k changes only when a worker enters or leaves it there.
LEMMA AuditOnKept ==
  ASSUME IInv, NEW k \in Key,
         \/ \E t \in Thread, q \in AllRequest : Opens(t, q)
         \/ \E t \in Thread : TurnedAway(t)
         \/ \E t \in Thread : Emit(t)
         \/ \E t \in Thread : (Store(t) \/ Audit(t)) /\ thread[t].req.key # k
         \/ UNCHANGED vars
  PROVE  /\ AuditOn(k)' = AuditOn(k)
         /\ \A t \in AuditOn(k) : thread'[t] = thread[t]
<1>1. ASSUME NEW t \in Thread, \A u \in Thread \ {t} : thread'[u] = thread[u],
             ~(thread[t].pc = "audit" /\ thread[t].req.key = k),
             ~(thread'[t].pc = "audit" /\ thread'[t].req.key = k)
      PROVE  AuditOn(k)' = AuditOn(k) /\ \A u \in AuditOn(k) : thread'[u] = thread[u]
  BY <1>1 DEF AuditOn, Busy
<1>2. ASSUME NEW t \in Thread, NEW q \in AllRequest, Opens(t, q)
      PROVE  AuditOn(k)' = AuditOn(k) /\ \A u \in AuditOn(k) : thread'[u] = thread[u]
  <2>1. thread'[t].pc # "audit" /\ thread[t].pc # "audit" /\ \A u \in Thread \ {t} : thread'[u] = thread[u]
    BY <1>2, OpensStep DEF Opens
  <2> QED BY <1>1, <2>1
<1>3. CASE (\E t \in Thread : TurnedAway(t)) \/ UNCHANGED vars
  BY <1>3 DEF TurnedAway, vars, AuditOn, Busy
<1>4. ASSUME NEW t \in Thread, Emit(t)
      PROVE  AuditOn(k)' = AuditOn(k) /\ \A u \in AuditOn(k) : thread'[u] = thread[u]
  <2>1. thread[t].pc = "emit"
    BY <1>4 DEF Emit
  <2>2. thread'[t].pc # "audit" /\ \A u \in Thread \ {t} : thread'[u] = thread[u]
    <3>1. CASE Go(t, "store")
      BY <2>1, <3>1, GoStep
    <3>2. CASE Finish(t)
      BY <3>2, FinishStep DEF Idle
    <3> QED BY <1>4, <3>1, <3>2, EmitThread
  <2> QED BY <1>1, <2>1, <2>2
<1>5. ASSUME NEW t \in Thread, Store(t) \/ Audit(t), thread[t].req.key # k
      PROVE  AuditOn(k)' = AuditOn(k) /\ \A u \in AuditOn(k) : thread'[u] = thread[u]
  <2>1. CASE Store(t)
    <3>1. thread'[t].req.key # k /\ \A u \in Thread \ {t} : thread'[u] = thread[u]
      BY <1>5, <2>1, StoreStep, GoStep DEF Store
    <3> QED BY <1>1, <1>5, <3>1
  <2>2. CASE Audit(t)
    <3>1. thread'[t].pc # "audit" /\ \A u \in Thread \ {t} : thread'[u] = thread[u]
      <4>1. Finish(t)
        BY <2>2 DEF Audit
      <4>2. thread'[t] = Idle /\ \A u \in Thread \ {t} : thread'[u] = thread[u]
        BY <4>1, FinishStep
      <4> QED BY <4>2 DEF Idle
    <3> QED BY <1>1, <1>5, <3>1
  <2> QED BY <1>5, <2>1, <2>2
<1> QED BY <1>2, <1>3, <1>4, <1>5

LEMMA TrailsStep ==
  ASSUME RInv, Existing, TrailsOk, [Next]_vars
  PROVE  TrailsOk'
<1> SUFFICES ASSUME NEW k \in Key, ~Raced(k)', Sole(k)'
             PROVE  TrailOk(k)'
  BY DEF TrailsOk
<1>1. IInv /\ Alone /\ Reads
  BY DEF RInv
<1>2. ~Raced(k) /\ Sole(k) /\ TrailOk(k) /\ Book(k) \in Books
  BY <1>1, RacedGrows, SoleBefore DEF TrailsOk, Books
<1>3. ASSUME store'[k] = store[k], trail'[Book(k)] = trail[Book(k)],
             AuditOn(k)' = AuditOn(k), \A t \in AuditOn(k) : thread'[t] = thread[t]
      PROVE  TrailOk(k)'
  BY <1>2, <1>3 DEF TrailOk, Book
<1>4. CASE \E t \in Thread, q \in AllRequest : Opens(t, q)
  <2>1. store' = store /\ trail' = trail
    BY <1>4 DEF Opens
  <2> QED BY <1>1, <1>3, <1>4, <2>1, AuditOnKept
<1>5. CASE (\E t \in Thread : TurnedAway(t) \/ Emit(t)) \/ UNCHANGED vars
  <2>1. store' = store /\ trail' = trail
    BY <1>5 DEF TurnedAway, IngestSms, Emit, vars
  <2> QED BY <1>1, <1>3, <1>5, <2>1, AuditOnKept
<1>6. ASSUME NEW t \in Thread, Store(t) PROVE TrailOk(k)'
  <2> DEFINE q == thread[t].req
             r == thread[t].read
  <2>1. /\ thread[t].pc = "store" /\ t \in Busy /\ q.key \in Key /\ trail' = trail
        /\ store'[q.key] = New(q, r) /\ \A j \in Key \ {q.key} : store'[j] = store[j]
        /\ Go(t, "audit") /\ New(q, r) # Absent
    BY <1>1, <1>6, StoreStep, OnItsWay, AbsentIsNew
  <2>2. CASE q.key # k
    BY <1>1, <1>3, <1>6, <2>1, <2>2, AuditOnKept
  <2>3. CASE q.key = k
    <3>1. store[k] = r /\ Checked(q, r)
      BY <1>1, <1>2, <2>1, <2>3, OnItsWay DEF Reads
    <3>2. AuditOn(k) = {}
      BY <1>1, <1>2, <2>1, <2>3 DEF AuditOn, Alone
    <3>3. /\ thread'[t].pc = "audit" /\ thread'[t].req = q /\ thread'[t].read = r
          /\ Busy' = Busy /\ \A u \in Thread \ {t} : thread'[u] = thread[u]
      BY <1>1, <2>1, GoStep
    <3>4. AuditOn(k)' = {t}
      BY <2>1, <2>3, <3>2, <3>3 DEF AuditOn, Busy
    <3>5. IF Creates(q) THEN trail[Book(k)] = Absent ELSE Ends(trail[Book(k)], r)
      BY <1>2, <3>1, <3>2, AbsentIsNew DEF TrailOk, Checked
    <3>6. store'[k] # Absent
      BY <2>1, <2>3
    <3> HIDE DEF q, r
    <3> QED BY <1>2, <2>1, <3>3, <3>4, <3>5, <3>6 DEF TrailOk, Book
  <2> QED BY <2>2, <2>3
<1>7. ASSUME NEW t \in Thread, Audit(t) PROVE TrailOk(k)'
  <2> DEFINE q == thread[t].req
             r == thread[t].read
             e == EntryOf(t)
             s == trail[Book(k)]
  <2>1. /\ thread[t].pc = "audit" /\ t \in Busy /\ q.key \in Key /\ store' = store
        /\ e \in Entry /\ Finish(t) /\ t \in Thread
        /\ \A c \in Books \ {Book(q.key)} : trail'[c] = trail[c]
        /\ \/ Creates(q) /\ trail'[Book(q.key)] = <<e>>
           \/ ~Creates(q) /\ trail[Book(q.key)] = Absent /\ trail' = trail
           \/ /\ ~Creates(q) /\ trail[Book(q.key)] # Absent
              /\ trail[Book(q.key)] \in Seq(Entry)
              /\ trail'[Book(q.key)] = Append(trail[Book(q.key)], e)
    BY <1>1, <1>7, AuditStep
  <2>2. CASE q.key # k
    <3>1. Book(q.key) # Book(k)
      BY <1>2, <2>1, <2>2, SoleBook DEF Existing
    <3> QED BY <1>1, <1>2, <1>3, <1>7, <2>1, <2>2, <3>1, AuditOnKept
  <2>3. CASE q.key = k
    <3>1. store[k] = New(q, r) /\ t \in AuditOn(k) /\ Checked(q, r)
      BY <1>1, <1>2, <2>1, <2>3, OnItsWay DEF Reads, AuditOn
    <3>2. AuditOn(k)' = {}
      <4>1. Busy' = Busy \ {t} /\ \A u \in Thread \ {t} : thread'[u] = thread[u]
        BY <1>1, <2>1, FinishStep
      <4>2. \A u \in Busy \ {t} : thread[u].req.key # k
        BY <1>1, <1>2, <2>1, <2>3 DEF Alone
      <4> QED BY <4>1, <4>2 DEF AuditOn, Busy
    <3>3. e.req = q /\ e.prev = r /\ e.new = store[k]
      BY <3>1 DEF EntryOf
    <3>4. store[k].version = (IF Creates(q) THEN 1 ELSE r.version + 1) /\ store[k] # Absent
      BY <1>1, <2>1, <3>1, OnItsWay, AbsentIsNew
    <3>5. trail'[Book(k)] # Absent /\ Chain(trail'[Book(k)]) /\ Ends(trail'[Book(k)], store[k])
      <4>1. CASE Creates(q)
        <5>1. trail'[Book(k)] = <<e>> /\ <<e>> \in Seq(Entry) /\ Len(<<e>>) = 1 /\ <<e>>[1] = e
          BY <2>1, <2>3, <4>1
        <5>2. <<e>> # Absent
          BY <5>1, AbsentIsNoTrail
        <5>3. r = Absent
          BY <3>1, <4>1 DEF Checked
        <5> HIDE DEF e, q, r
        <5>4. Chain(<<e>>)
          BY <3>3, <3>4, <4>1, <5>1, <5>3 DEF Chain
        <5>5. Ends(<<e>>, store[k])
          BY <3>3, <5>1, <5>2 DEF Ends
        <5> QED BY <5>1, <5>2, <5>4, <5>5
      <4>2. CASE ~Creates(q)
        <5>1. Ends(s, r)
          BY <1>2, <3>1, <4>2 DEF TrailOk
        <5>2. s # Absent /\ s \in Seq(Entry) /\ Len(s) \in Nat /\ Len(s) >= 1 /\ s[Len(s)].new = r
          BY <5>1 DEF Ends
        <5>3. Chain(s)
          BY <1>2, <5>2 DEF TrailOk
        <5>4. r.version = Len(s)
          BY <5>2, <5>3 DEF Chain
        <5> DEFINE z == Append(s, e)
        <5>5. trail'[Book(k)] = z
          BY <2>1, <2>3, <4>2, <5>2
        <5>6. /\ z \in Seq(Entry) /\ Len(z) = Len(s) + 1 /\ z[Len(s) + 1] = e
              /\ \A n \in 1..Len(s) : z[n] = s[n]
          BY <2>1, <5>2
        <5>7. z # Absent
          BY <5>6, AbsentIsNoTrail
        <5>8. q.expect # Absent => q.expect = Len(s)
          BY <3>1, <4>2, <5>4 DEF Checked
        <5> HIDE DEF z, e, q, r, s
        <5>9. ASSUME NEW n \in DOMAIN z
              PROVE  /\ z[n].new.version = n
                     /\ z[n].prev = IF n = 1 THEN Absent ELSE z[n - 1].new
                     /\ ~Creates(z[n].req) /\ z[n].req.expect # Absent => z[n].req.expect = n - 1
          <6>1. n \in 1..(Len(s) + 1)
            BY <5>6, <5>9
          <6>2. CASE n = Len(s) + 1
            <7>1. n # 1 /\ n - 1 = Len(s) /\ z[n - 1] = s[Len(s)]
              BY <5>2, <5>6, <6>2
            <7> QED BY <3>3, <3>4, <4>2, <5>2, <5>4, <5>6, <5>8, <6>2, <7>1
          <6>3. CASE n # Len(s) + 1
            <7>1. n \in DOMAIN s /\ z[n] = s[n] /\ (n # 1 => z[n - 1] = s[n - 1])
              BY <5>2, <5>6, <6>1, <6>3
            <7> QED BY <5>3, <7>1 DEF Chain
          <6> QED BY <6>2, <6>3
        <5>10. Chain(z)
          BY <5>9 DEF Chain
        <5>11. Ends(z, store[k])
          BY <3>3, <5>2, <5>6, <5>7 DEF Ends
        <5> QED BY <5>5, <5>7, <5>10, <5>11
      <4> QED BY <4>1, <4>2
    <3> QED BY <2>1, <3>2, <3>4, <3>5 DEF TrailOk, Book
  <2> QED BY <2>2, <2>3
<1> QED BY <1>1, <1>4, <1>5, <1>6, <1>7, StepCases DEF IInv

\* The trails and what they rest on.
TInv == RInv /\ Existing /\ TrailsOk

LEMMA TInvHolds == Spec => []TInv
<1>1. Init => TInv
  <2> SUFFICES ASSUME Init PROVE TInv
    OBVIOUS
  <2>1. Busy = {}
    BY DEF Init, Idle, Busy
  <2>2. \A k \in Key : store[k] = Absent /\ trail[Book(k)] = Absent
    BY DEF Init, Books
  <2> QED BY <2>1, <2>2, InitIInv
      DEF TInv, RInv, Alone, Reads, Existing, TrailsOk, TrailOk, AuditOn
<1>2. TInv /\ [Next]_vars => TInv'
  BY StepIInv, AloneStep, ReadsStep, ExistingStep, TrailsStep DEF TInv, RInv
<1> QED BY <1>1, <1>2, PTL DEF Spec

\* "Append-Only Audit Trail", "Overwrites are prevented": the trail of a record whose
\* requests have not overlapped is an unbroken chain of versions up to the record, each
\* from the version its client expected (FacilityService, IncidentService).
THEOREM TrailsHold == Spec => []TrailUnbroken
<1>1. TInv => TrailUnbroken
  <2>1. ASSUME TInv, NEW k \in Key, store[k] # Absent, ~Raced(k), Sole(k)
        PROVE  /\ On(k) = {} => Ends(trail[Book(k)], store[k])
               /\ trail[Book(k)] # Absent => Chain(trail[Book(k)])
    <3>1. TrailOk(k)
      BY <2>1 DEF TInv, TrailsOk
    <3>2. On(k) = {} => AuditOn(k) = {}
      BY DEF On, AuditOn
    <3> QED BY <2>1, <3>1, <3>2 DEF TrailOk
  <2> QED BY <2>1 DEF TrailUnbroken, Sole, Ends, Chain
<1> QED BY <1>1, TInvHolds, PTL

--------------------------------------------------------------------------------
(* Events and their audit entries *)

Tells(q, r, x) == EventOf(q, r) = x.id /\ PayloadOf(q, r) = x.body
Logged(x) == \E n \in DOMAIN twin.log : twin.log[n] = x

\* The entry for x stands in k's trail; a worker has told the twin and will write it.
InTrail(x, k) == \E e \in Entries(Book(k)) : e.req.op # "details" /\ Tells(e.req, e.prev, x)
FlightOf(t, x, k) ==
  /\ t \in Busy /\ thread[t].req.key = k /\ thread[t].pc \in {"store", "audit"}
  /\ thread[t].req.op # "details" /\ Tells(thread[t].req, thread[t].read, x)
InFlight(x, k) == \E t \in Thread : FlightOf(t, x, k)

CreatesOn(t, k) == t \in Busy /\ thread[t].req.key = k /\ Creates(thread[t].req)

\* Every event is accounted for; those there are while k is created are its creator's;
\* once it is created k has a trail.
EventsOk(k) ==
  /\ \A x \in DT!LogEntry : Logged(x) /\ x.body.key = k =>
       /\ InTrail(x, k) \/ InFlight(x, k)
       /\ \A t \in Thread : CreatesOn(t, k) => FlightOf(t, x, k)
       /\ store[k] = Absent => InFlight(x, k)
  /\ store[k] # Absent /\ (\A t \in Thread : ~CreatesOn(t, k)) => trail[Book(k)] # Absent
AllEventsOk == \A k \in Key : <<k, "create">> \notin raced /\ Sole(k) => EventsOk(k)

EInv == IInv /\ Alone /\ Existing /\ AllEventsOk

\* A worker creating k without a race is alone there.
LEMMA LoneCreator ==
  ASSUME Alone, NEW t \in Busy, NEW u \in Busy, NEW k, <<k, "create">> \notin raced,
         CreatesOn(t, k), thread[u].req.key = k
  PROVE  u = t
BY DEF Alone, CreatesOn

\* What another worker has in flight stays there.
LEMMA FlightKept ==
  ASSUME NEW u \in Thread, NEW k \in Key, NEW x, u \in Busy <=> u \in Busy', thread'[u] = thread[u]
  PROVE  /\ FlightOf(u, x, k)' <=> FlightOf(u, x, k)
         /\ CreatesOn(u, k)' <=> CreatesOn(u, k)
BY DEF FlightOf, CreatesOn, Tells

\* Nothing of k's changes but for a worker that was not in flight and creates nothing.
LEMMA EventsUndisturbed ==
  ASSUME IInv, NEW k \in Key, EventsOk(k), NEW t \in Thread,
         \A u \in Thread \ {t} : thread'[u] = thread[u] /\ (u \in Busy <=> u \in Busy'),
         store' = store, trail'[Book(k)] = trail[Book(k)], twin'.log = twin.log,
         \A x \in DT!LogEntry : ~FlightOf(t, x, k), ~CreatesOn(t, k), ~CreatesOn(t, k)'
  PROVE  EventsOk(k)'
<1>1. \A x \in DT!LogEntry, u \in Thread : FlightOf(u, x, k) => FlightOf(u, x, k)'
  BY FlightKept
<1>2. \A u \in Thread : CreatesOn(u, k)' <=> CreatesOn(u, k)
  BY FlightKept
<1>3. \A x \in DT!LogEntry : InFlight(x, k) => InFlight(x, k)'
  BY <1>1 DEF InFlight
<1>4. \A x : InTrail(x, k)' <=> InTrail(x, k)
  BY DEF InTrail, Entries, Tells, Book
<1>5. \A x : Logged(x)' <=> Logged(x)
  BY DEF Logged
<1> QED BY <1>1, <1>2, <1>3, <1>4, <1>5 DEF EventsOk, Book

LEMMA EventsOpens ==
  ASSUME EInv, NEW k \in Key, <<k, "create">> \notin raced', EventsOk(k),
         NEW t \in Thread, NEW q \in AllRequest, Opens(t, q)
  PROVE  EventsOk(k)'
<1>1. IInv
  BY DEF EInv
<1>2. /\ thread'[t].req = q /\ \A u \in Thread \ {t} : thread'[u] = thread[u]
      /\ thread'[t].pc \notin {"audit"} /\ (thread'[t].pc = "store" => q.op = "details")
      /\ Busy' = Busy \cup {t} /\ t \notin Busy /\ raced' = raced \cup Overlap(q)
      /\ store' = store /\ trail' = trail /\ twin' = twin /\ Checked(q, store[q.key])
  BY <1>1, OpensStep DEF Opens
<1>3. \A x : ~FlightOf(t, x, k) /\ ~CreatesOn(t, k)
  BY <1>2 DEF FlightOf, CreatesOn
<1>4. CASE ~CreatesOn(t, k)'
  BY <1>1, <1>2, <1>3, <1>4, EventsUndisturbed
<1>5. CASE CreatesOn(t, k)'
  <2>1. q.key = k /\ Creates(q)
    BY <1>2, <1>5 DEF CreatesOn
  <2>2. On(k) = {}
    BY <1>2, <2>1 DEF Overlap
  <2>3. store[k] = Absent
    BY <1>2, <2>1 DEF Checked
  <2>4. ASSUME NEW x \in DT!LogEntry, Logged(x), x.body.key = k PROVE FALSE
    <3>1. PICK u \in Thread : FlightOf(u, x, k)
      BY <2>3, <2>4 DEF EventsOk, InFlight
    <3> QED BY <2>2, <3>1 DEF FlightOf, On
  <2>5. \A x : Logged(x)' <=> Logged(x)
    BY <1>2 DEF Logged
  <2> QED BY <1>2, <1>5, <2>3, <2>4, <2>5 DEF EventsOk
<1> QED BY <1>4, <1>5

LEMMA EventsEmit ==
  ASSUME EInv, NEW k \in Key, <<k, "create">> \notin raced, EventsOk(k),
         NEW t \in Thread, Emit(t)
  PROVE  EventsOk(k)'
<1> DEFINE q == thread[t].req
           r == thread[t].read
           id == EventOf(q, r)
           p == PayloadOf(q, r)
<1>1. IInv /\ Alone
  BY DEF EInv
<1>2. /\ thread[t].pc = "emit" /\ t \in Busy /\ store' = store /\ trail' = trail /\ raced' = raced
      /\ q.op # "details"
  BY <1>1, EmitStep DEF IInv, CheckedAll
<1>3. /\ Busy' \subseteq Busy
      /\ \A u \in Busy' : thread'[u].req = thread[u].req /\ thread'[u].read = thread[u].read
      /\ \A u \in Busy \ {t} : u \in Busy' /\ thread'[u] = thread[u]
      /\ \A u \in Thread \ {t} : thread'[u] = thread[u]
  <2>1. \A u \in Thread \ {t} : thread'[u] = thread[u]
    BY <1>1, <1>2, EmitThread, GoStep, FinishStep
  <2> QED BY <1>1, <2>1, MoveKind, WorkersKept
<1>4. Creates(q) => Go(t, "store")
  <2>1. Creates(q) => ~DT!Rejected(twin, p)
    <3>1. Creates(q) => p.kind = "created"
      BY DEF PayloadOf, Creates
    <3> HIDE DEF p
    <3> QED BY <3>1 DEF DT!Rejected
  <2> QED BY <1>1, <2>1, EmitStep
<1>5. CreatesOn(t, k) => CreatesOn(t, k)'
  BY <1>1, <1>2, <1>3, <1>4, GoStep DEF CreatesOn
<1>6. \A u \in Thread \ {t} : /\ \A x : FlightOf(u, x, k)' <=> FlightOf(u, x, k)
                              /\ CreatesOn(u, k)' <=> CreatesOn(u, k)
  <2>1. \A u \in Thread \ {t} : u \in Busy <=> u \in Busy'
    BY <1>3 DEF Busy
  <2> QED BY <1>3, <2>1, FlightKept
<1>7. \A x : ~FlightOf(t, x, k)
  BY <1>2 DEF FlightOf
<1>8. CreatesOn(t, k)' => CreatesOn(t, k)
  BY <1>3 DEF CreatesOn
<1>9. \A x : InTrail(x, k)' <=> InTrail(x, k)
  BY <1>2 DEF InTrail, Entries, Tells, Book
\* What is logged afterwards was, or is this worker's event.
<1>10. ASSUME NEW x \in DT!LogEntry, Logged(x)', x.body.key = k
       PROVE  Logged(x) \/ FlightOf(t, x, k)'
  <2>1. CASE twin'.log = twin.log
    BY <1>10, <2>1 DEF Logged
  <2>2. CASE twin'.log # twin.log
    <3> DEFINE y == [id |-> id, body |-> p, version |-> twin.version + 1]
    <3>1. /\ twin'.log = Append(twin.log, y) /\ p.key = q.key /\ Go(t, "store")
      BY <1>1, <2>2, EmitStep DEF Applied, Put
    <3>2. twin.log \in Seq(DT!LogEntry)
      BY <1>1 DEF IInv, TypeOK, DT!IsManager
    <3>3. PICK n \in DOMAIN twin'.log : twin'.log[n] = x
      BY <1>10 DEF Logged
    <3>4. CASE x = y
      <4>1. x.id = id /\ x.body = p /\ q.key = k
        BY <1>10, <3>1, <3>4
      <4>2. /\ thread'[t].pc = "store" /\ thread'[t].req = q /\ thread'[t].read = r /\ t \in Busy'
        BY <1>1, <1>2, <3>1, GoStep
      <4> HIDE DEF q, r
      <4>3. Tells(q, r, x)
        BY <4>1 DEF Tells
      <4> QED BY <1>2, <4>1, <4>2, <4>3 DEF FlightOf, Tells
    <3>5. CASE x # y
      <4> HIDE DEF y
      <4>1. n \in DOMAIN twin.log /\ twin.log[n] = x
        BY <3>1, <3>2, <3>3, <3>5
      <4> QED BY <4>1 DEF Logged
    <3> QED BY <3>4, <3>5
  <2> QED BY <2>1, <2>2
<1>11. ASSUME NEW x \in DT!LogEntry, Logged(x)', x.body.key = k
       PROVE  /\ InTrail(x, k)' \/ InFlight(x, k)'
              /\ \A u \in Thread : CreatesOn(u, k)' => FlightOf(u, x, k)'
              /\ store'[k] = Absent => InFlight(x, k)'
  <2>1. CASE Logged(x)
    <3>1. ~CreatesOn(t, k)'
      BY <1>7, <1>8, <1>11, <2>1 DEF EventsOk
    <3>2. InFlight(x, k) => InFlight(x, k)'
      BY <1>6, <1>7 DEF InFlight
    <3>3. \A u \in Thread : CreatesOn(u, k)' => FlightOf(u, x, k)'
      BY <1>6, <1>11, <2>1, <3>1 DEF EventsOk
    <3> QED BY <1>2, <1>9, <1>11, <2>1, <3>2, <3>3 DEF EventsOk
  <2>2. CASE FlightOf(t, x, k)'
    <3>1. InFlight(x, k)'
      BY <2>2 DEF InFlight
    <3>2. ASSUME NEW u \in Thread, u # t, CreatesOn(u, k) PROVE FALSE
      <4>1. u \in Busy
        BY <3>2 DEF CreatesOn
      <4>2. thread[t].req.key = k
        BY <1>3, <2>2 DEF FlightOf
      <4> QED BY <1>1, <1>2, <3>2, <4>1, <4>2, LoneCreator
    <3> QED BY <1>6, <2>2, <3>1, <3>2
  <2> QED BY <1>10, <1>11, <2>1, <2>2
<1>12. store'[k] # Absent /\ (\A u \in Thread : ~CreatesOn(u, k)') => trail'[Book(k)] # Absent
  BY <1>2, <1>5, <1>6 DEF EventsOk
<1> QED BY <1>11, <1>12 DEF EventsOk, Book

LEMMA EventsStore ==
  ASSUME EInv, NEW k \in Key, EventsOk(k), NEW t \in Thread, Store(t)
  PROVE  EventsOk(k)'
<1> DEFINE q == thread[t].req
           r == thread[t].read
<1>1. IInv /\ Existing
  BY DEF EInv
<1>2. /\ thread[t].pc = "store" /\ t \in Busy /\ q.key \in Key
      /\ \A j \in Key \ {q.key} : store'[j] = store[j]
      /\ Go(t, "audit") /\ UNCHANGED <<twin, trail, raced>>
  BY <1>1, StoreStep
<1>3. /\ Busy' = Busy /\ \A u \in Thread \ {t} : thread'[u] = thread[u]
      /\ thread'[t].pc = "audit" /\ thread'[t].req = q /\ thread'[t].read = r
  BY <1>1, <1>2, GoStep
<1> HIDE DEF q, r
<1>4. \A u \in Thread : CreatesOn(u, k)' <=> CreatesOn(u, k)
  BY <1>3 DEF CreatesOn, q
<1>5. \A u \in Thread, x \in DT!LogEntry : FlightOf(u, x, k)' <=> FlightOf(u, x, k)
  BY <1>2, <1>3 DEF FlightOf, Tells, q, r
<1>6. \A x : (InTrail(x, k)' <=> InTrail(x, k)) /\ (Logged(x)' <=> Logged(x))
  BY <1>2 DEF InTrail, Entries, Tells, Book, Logged
<1>7. \A x \in DT!LogEntry : InFlight(x, k)' <=> InFlight(x, k)
  BY <1>5 DEF InFlight
<1>8. store'[k] = Absent => store[k] = Absent
  BY <1>1, StoreGrows DEF Next
<1>9. store[k] = Absent => store'[k] = Absent \/ CreatesOn(t, k)
  BY <1>1, <1>2 DEF Existing, CreatesOn, q
<1> QED BY <1>2, <1>4, <1>5, <1>6, <1>7, <1>8, <1>9 DEF EventsOk, Book

LEMMA EventsAudit ==
  ASSUME EInv, NEW k \in Key, <<k, "create">> \notin raced, Sole(k), EventsOk(k),
         NEW t \in Thread, Audit(t)
  PROVE  EventsOk(k)'
<1> DEFINE q == thread[t].req
           r == thread[t].read
           e == EntryOf(t)
           s == trail[Book(k)]
<1>1. IInv /\ Alone /\ Existing
  BY DEF EInv
<1>2. /\ thread[t].pc = "audit" /\ t \in Busy /\ q.key \in Key
      /\ \A c \in Books \ {Book(q.key)} : trail'[c] = trail[c]
      /\ trail' \in [Books -> Seq(Entry) \cup {Absent}]
      /\ e \in Entry /\ Finish(t) /\ UNCHANGED <<store, twin, raced>>
      /\ \/ Creates(q) /\ trail'[Book(q.key)] = <<e>>
         \/ ~Creates(q) /\ trail[Book(q.key)] = Absent /\ trail' = trail
         \/ /\ ~Creates(q) /\ trail[Book(q.key)] # Absent
            /\ trail[Book(q.key)] \in Seq(Entry)
            /\ trail'[Book(q.key)] = Append(trail[Book(q.key)], e)
  BY <1>1, AuditStep
<1>3. Busy' = Busy \ {t} /\ \A u \in Thread \ {t} : thread'[u] = thread[u]
  BY <1>1, <1>2, FinishStep
<1>4. CASE q.key # k
  <2>1. Book(q.key) # Book(k) /\ Book(k) \in Books
    BY <1>1, <1>2, <1>4, SoleBook DEF Existing, Books
  <2>2. trail'[Book(k)] = trail[Book(k)]
    BY <1>2, <2>1
  <2>3. (\A x : ~FlightOf(t, x, k)) /\ ~CreatesOn(t, k) /\ ~CreatesOn(t, k)'
    BY <1>3, <1>4 DEF FlightOf, CreatesOn
  <2>4. \A u \in Thread \ {t} : thread'[u] = thread[u] /\ (u \in Busy <=> u \in Busy')
    BY <1>3
  <2> QED BY <1>1, <1>2, <2>2, <2>3, <2>4, EventsUndisturbed
<1>5. CASE q.key = k
  <2>1. e.req = q /\ e.prev = r
    BY DEF EntryOf
  <2>2. ~CreatesOn(t, k)' /\ \A u \in Thread \ {t} : CreatesOn(u, k)' <=> CreatesOn(u, k)
    BY <1>3 DEF CreatesOn
  <2>3. \A u \in Thread \ {t} : \A x : FlightOf(u, x, k)' <=> FlightOf(u, x, k)
    <3>1. \A u \in Thread \ {t} : u \in Busy <=> u \in Busy'
      BY <1>3
    <3> QED BY <1>3, <3>1, FlightKept
  <2>4. \A u \in Thread : ~CreatesOn(u, k)'
    <3> SUFFICES ASSUME NEW u \in Thread, u # t, CreatesOn(u, k) PROVE FALSE
      BY <2>2
    <3>1. u \in Busy
      BY DEF CreatesOn
    <3> QED BY <1>1, <1>2, <1>5, <3>1, LoneCreator
  <2>5. Creates(q) \/ s # Absent
    <3>1. store[k] # Absent
      BY <1>1, <1>2, <1>5 DEF Existing
    <3>2. (\E u \in Thread : CreatesOn(u, k)) => Creates(q)
      BY <2>2, <2>4 DEF CreatesOn
    <3> QED BY <3>1, <3>2 DEF EventsOk
  <2>6. /\ trail'[Book(k)] \in Seq(Entry)
        /\ e \in {trail'[Book(k)][n] : n \in DOMAIN trail'[Book(k)]}
        /\ ~Creates(q) => Entries(Book(k)) \subseteq {trail'[Book(k)][n] : n \in DOMAIN trail'[Book(k)]}
    <3> HIDE DEF e, q
    <3>1. CASE Creates(q)
      <4>1. trail'[Book(k)] = <<e>> /\ <<e>> \in Seq(Entry) /\ 1 \in DOMAIN <<e>> /\ <<e>>[1] = e
        BY <1>2, <1>5, <3>1
      <4> QED BY <3>1, <4>1
    <3>2. CASE ~Creates(q)
      <4>1. s \in Seq(Entry) /\ s # Absent /\ trail'[Book(k)] = Append(s, e)
        BY <1>2, <1>5, <2>5, <3>2
      <4> HIDE DEF s
      <4>2. /\ Append(s, e) \in Seq(Entry) /\ Len(s) + 1 \in DOMAIN Append(s, e)
            /\ Append(s, e)[Len(s) + 1] = e
            /\ \A n \in DOMAIN s : n \in DOMAIN Append(s, e) /\ Append(s, e)[n] = s[n]
        BY <1>2, <4>1
      <4>3. Entries(Book(k)) = {s[n] : n \in DOMAIN s}
        BY <4>1 DEF Entries, s
      <4> QED BY <4>1, <4>2, <4>3
    <3> QED BY <3>1, <3>2
  <2>7. trail'[Book(k)] # Absent
    BY <2>6, AbsentIsNoTrail
  <2>8. /\ e \in Entries(Book(k))'
        /\ ~Creates(q) => \A d \in Entries(Book(k)) : d \in Entries(Book(k))'
    BY <2>6, <2>7 DEF Entries, Book
  <2>9. ASSUME NEW x \in DT!LogEntry, Logged(x), x.body.key = k
        PROVE  InTrail(x, k)' \/ InFlight(x, k)'
    <3>1. CASE FlightOf(t, x, k)
      <4>1. e.req.op # "details" /\ Tells(e.req, e.prev, x)
        BY <2>1, <3>1 DEF FlightOf
      <4> HIDE DEF e
      <4> QED BY <2>8, <4>1 DEF InTrail, Tells, Book
    <3>2. CASE ~FlightOf(t, x, k)
      <4>1. ~Creates(q)
        BY <1>2, <1>5, <2>9, <3>2 DEF EventsOk, CreatesOn
      <4>2. CASE InTrail(x, k)
        BY <2>8, <4>1, <4>2 DEF InTrail, Tells, Book
      <4>3. CASE InFlight(x, k)
        BY <2>3, <3>2, <4>3 DEF InFlight
      <4> QED BY <2>9, <4>2, <4>3 DEF EventsOk
    <3> QED BY <3>1, <3>2
  <2>10. \A x : Logged(x)' <=> Logged(x)
    BY <1>2 DEF Logged
  <2>11. store'[k] # Absent
    BY <1>1, <1>2, <1>5 DEF Existing
  <2> QED BY <2>4, <2>7, <2>9, <2>10, <2>11 DEF EventsOk, Book
<1> QED BY <1>4, <1>5

LEMMA EventsStep ==
  ASSUME EInv, [Next]_vars
  PROVE  AllEventsOk'
<1> SUFFICES ASSUME NEW k \in Key, <<k, "create">> \notin raced', Sole(k)'
             PROVE  EventsOk(k)'
  BY DEF AllEventsOk
<1>1. IInv
  BY DEF EInv
<1>2. <<k, "create">> \notin raced /\ Sole(k) /\ EventsOk(k)
  BY <1>1, RacedGrows, SoleBefore DEF EInv, AllEventsOk
<1>3. CASE (\E t \in Thread : TurnedAway(t)) \/ UNCHANGED vars
  <2>1. UNCHANGED <<store, twin, trail, thread>>
    BY <1>3 DEF TurnedAway, IngestSms, vars
  <2>2. /\ \A u \in Thread : CreatesOn(u, k)' <=> CreatesOn(u, k)
        /\ \A u \in Thread : \A x : FlightOf(u, x, k)' <=> FlightOf(u, x, k)
        /\ \A x : (InTrail(x, k)' <=> InTrail(x, k)) /\ (Logged(x)' <=> Logged(x))
    BY <2>1 DEF CreatesOn, FlightOf, InTrail, Logged, Tells, Entries, Book, Busy
  <2>3. \A x : InFlight(x, k)' <=> InFlight(x, k)
    BY <2>2 DEF InFlight
  <2> QED BY <1>2, <2>1, <2>2, <2>3 DEF EventsOk, Book
<1> QED BY <1>1, <1>2, <1>3, EventsOpens, EventsEmit, EventsStore, EventsAudit, StepCases DEF IInv

\* Whoever's updates overlap: no event changes the twin without an audit entry that
\* tells it, written or about to be (FacilityService, IncidentService); only a raced
\* creation or a second facility of that id can lose one.
THEOREM EventsHold == Spec => []EventsAudited
<1>1. Init => EInv
  <2> SUFFICES ASSUME Init PROVE EInv
    OBVIOUS
  <2>1. Busy = {} /\ twin.log = <<>>
    BY DEF Init, Idle, Busy, DT!NewManager, DT!Manager
  <2>2. \A k \in Key : store[k] = Absent
    BY DEF Init
  <2>3. \A k \in Key : EventsOk(k)
    BY <2>1, <2>2 DEF EventsOk, Logged
  <2> QED BY <2>1, <2>3, InitIInv DEF EInv, Alone, Existing, AllEventsOk
<1>2. EInv /\ [Next]_vars => EInv'
  BY StepIInv, AloneStep, ExistingStep, EventsStep DEF EInv
<1>3. EInv => EventsAudited
  <2> SUFFICES ASSUME EInv, NEW n \in DOMAIN twin.log, NEW k, k = twin.log[n].body.key,
                      <<k, "create">> \notin raced, Namesakes(k) \cap FacilityKey = {}
               PROVE  \/ \E e \in Entries(Book(k)) :
                           e.req.op # "details" /\ Tells(e.req, e.prev, twin.log[n])
                      \/ \E t \in On(k) :
                           /\ thread[t].pc \in {"store", "audit"} /\ thread[t].req.op # "details"
                           /\ Tells(thread[t].req, thread[t].read, twin.log[n])
    BY DEF EventsAudited, Tells
  <2>1. twin.log \in Seq(DT!LogEntry)
    BY DEF EInv, IInv, TypeOK, DT!IsManager
  <2>2. twin.log[n] \in DT!LogEntry
    BY <2>1
  <2>3. k \in Key
    <3>1. twin.log[n].body \in DT!AnyPayload
      BY <2>2 DEF DT!LogEntry
    <3>2. \A p \in DT!AnyPayload : p.key \in DT!Key
      BY DEF DT!AnyPayload, DT!RoadPayload, DT!BridgePayload, DT!CapacityPayload, DT!FacilityPayload,
             DT!IncidentPayload, DT!AreaPayload, DT!Key
    <3> QED BY <3>1, <3>2, TwinKinds
  <2>4. EventsOk(k) /\ Logged(twin.log[n])
    BY <2>3 DEF EInv, AllEventsOk, Sole, Logged
  <2> QED BY <2>2, <2>4 DEF EventsOk, InTrail, InFlight, FlightOf, On
<1> QED BY <1>1, <1>2, <1>3, PTL DEF Spec

--------------------------------------------------------------------------------
(* The records and the twin *)

\* At work between the twin and the store.
Telling(t, k) == t \in Busy /\ thread[t].req.key = k /\ thread[t].pc = "store"

\* Where an event id the twin has seen comes from: a CREATE from its incident, any
\* other from some record of its name, in a version not above the record's unless
\* that is about to be stored.
CreatedFrom(k) == store[k] # Absent \/ \E t \in Thread : Telling(t, k) /\ Creates(thread[t].req)
ChangedFrom(id, k) ==
  /\ k[2] = id[2] /\ store[k] # Absent
  /\ \/ Raced(k)
     \/ id[3] <= store[k].version
     \/ \E t \in Thread : /\ Telling(t, k) /\ ~Creates(thread[t].req)
                          /\ id[3] = thread[t].read.version + 1
IdsOk ==
  \A id \in twin.seen :
    /\ id[1] = "CREATE" => \A k \in IncidentKey : k[2] = id[2] => CreatedFrom(k)
    /\ id[1] # "CREATE" => \E k \in Key : ChangedFrom(id, k)

\* What the twin has of k: the record, or what a worker has told it and will store.
View(k, b) == IF k \in IncidentKey THEN b.status ELSE b
AgreeOk(k) ==
  /\ store[k] # Absent /\ (\A t \in Thread : ~Telling(t, k)) => twin.ent[k] = View(k, store[k].body)
  /\ \A t \in Thread : Telling(t, k) =>
       twin.ent[k] = View(k, New(thread[t].req, thread[t].read).body)
AllAgree == \A k \in Key : ~Raced(k) /\ Namesakes(k) = {} => AgreeOk(k)

AInv == RInv /\ Existing /\ IdsOk /\ AllAgree

LEMMA EventParts ==
  ASSUME NEW id \in AllEventId
  PROVE  id[3] \in Nat /\ id[1] \in {"CREATE", "CAP", "STATUS"}
BY BoundsTyped DEF AllEventId

LEMMA EventMade ==
  ASSUME NEW q \in AllRequest, NEW r, Tellable(q)
  PROVE  /\ EventOf(q, r)[2] = q.key[2]
         /\ Creates(q) => EventOf(q, r)[1] = "CREATE" /\ q.key \in IncidentKey
         /\ ~Creates(q) => EventOf(q, r)[1] # "CREATE" /\ EventOf(q, r)[3] = r.version + 1
<1>1. CASE Creates(q)
  <2>1. EventOf(q, r) = <<"CREATE", q.key[2], 1>>
    BY <1>1 DEF EventOf, EventName, Creates
  <2>2. q.key \in IncidentKey
    BY <1>1, RequestTyped DEF Creates, Tellable, Key
  <2> QED BY <1>1, <2>1, <2>2
<1>2. CASE q.op = "capacity"
  <2>1. EventOf(q, r) = <<"CAP", q.key[2], r.version + 1>> /\ ~Creates(q)
    BY <1>2 DEF EventOf, EventName, Creates
  <2> QED BY <2>1
<1>3. CASE q.op = "status"
  <2>1. EventOf(q, r) = <<"STATUS", q.key[2], r.version + 1>> /\ ~Creates(q)
    BY <1>3 DEF EventOf, EventName, Creates
  <2> QED BY <2>1
<1> QED BY <1>1, <1>2, <1>3, RequestTyped DEF Tellable, Creates

\* An applied event takes the twin's entity where the request takes the record.
LEMMA TargetIsNew ==
  ASSUME NEW m, NEW q \in AllRequest, NEW r \in Record \cup {Absent}, Checked(q, r), Tellable(q),
         ~DT!Rejected(m, PayloadOf(q, r)),
         ~Creates(q) => m.ent[q.key] = View(q.key, r.body)
  PROVE  DT!Target(m, PayloadOf(q, r)) = View(q.key, New(q, r).body)
<1> DEFINE p == PayloadOf(q, r)
           b == r.body
<1>1. CASE Creates(q)
  <2>1. q.key \in IncidentKey
    BY <1>1, EventMade
  <2>2. p = [kind |-> "created", key |-> q.key, status |-> q.body.status]
    BY <1>1 DEF PayloadOf, Creates
  <2>3. DT!Target(m, p) = q.body.status
    BY <2>2 DEF DT!Target
  <2>4. New(q, r).body = q.body
    BY <1>1 DEF New
  <2> QED BY <2>1, <2>3, <2>4 DEF View
<1>2. CASE q.op = "capacity"
  <2>1. ~Creates(q) /\ q.key \in FacilityKey /\ q.key \notin IncidentKey
    BY <1>2, RequestTyped, KeyKinds DEF Creates
  <2>2. p = [kind |-> "capacity", key |-> q.key, cap |-> TotalFor(q, b), avail |-> q.avail]
    BY <1>2, <2>1 DEF PayloadOf
  <2>3. m.ent[q.key] = b /\ b # Absent
    BY <2>1, <2>2 DEF View, DT!Rejected
  <2>4. DT!Target(m, p) = [b EXCEPT !.cap = TotalFor(q, b), !.avail = q.avail]
    <3>1. p.kind = "capacity" /\ p.key = q.key /\ p.cap = TotalFor(q, b) /\ p.avail = q.avail
      BY <2>2
    <3> HIDE DEF p, b
    <3> QED BY <2>3, <3>1 DEF DT!Target, DT!Current
  <2>5. New(q, r).body = [b EXCEPT !.cap = TotalFor(q, b), !.avail = q.avail]
    BY <1>2, <2>1 DEF New, Changed
  <2> HIDE DEF b, p
  <2> QED BY <2>1, <2>4, <2>5 DEF View, p
<1>3. CASE q.op = "status"
  <2>1. ~Creates(q) /\ r \in Record /\ b \in BodyOf(q.key)
    BY <1>3 DEF Checked, Creates
  <2>2. New(q, r).body = [b EXCEPT !.status = q.status]
    BY <1>3, <2>1 DEF New, Changed
  <2>3. CASE q.key \in IncidentKey
    <3>1. p = [kind |-> "incident", key |-> q.key, status |-> q.status]
      BY <1>3, <2>1, <2>3 DEF PayloadOf
    <3>2. DT!Target(m, p) = q.status
      BY <3>1 DEF DT!Target
    <3>3. [b EXCEPT !.status = q.status].status = q.status
      BY <2>1, <2>3 DEF BodyOf, IncidentBody
    <3> QED BY <2>2, <2>3, <3>2, <3>3 DEF View
  <2>4. CASE q.key \notin IncidentKey
    <3>1. p = [kind |-> "facility", key |-> q.key, status |-> q.status]
      BY <1>3, <2>1, <2>4 DEF PayloadOf
    <3>2. m.ent[q.key] = b /\ b # Absent
      BY <2>1, <2>4, <3>1 DEF View, DT!Rejected
    <3>3. DT!Target(m, p) = [b EXCEPT !.status = q.status]
      BY <3>1, <3>2 DEF DT!Target, DT!Current
    <3> QED BY <2>2, <2>4, <3>3 DEF View
  <2> QED BY <2>3, <2>4
<1> QED BY <1>1, <1>2, <1>3, RequestTyped DEF Tellable, Creates

\* Details leave what the twin knows of an incident.
LEMMA DetailsUnseen ==
  ASSUME NEW q \in AllRequest, NEW r, Checked(q, r), q.op = "details"
  PROVE  View(q.key, New(q, r).body) = View(q.key, r.body)
<1>1. ~Creates(q) /\ q.key \in IncidentKey
  BY RequestTyped DEF Creates
<1>2. r.body \in IncidentBody
  BY <1>1 DEF Checked, BodyOf
<1>3. New(q, r).body = [r.body EXCEPT !.text = q.text]
  BY <1>1 DEF New, Changed, Creates
<1>4. New(q, r).body.status = r.body.status
  BY <1>2, <1>3 DEF IncidentBody
<1> QED BY <1>1, <1>4 DEF View

LEMMA TellingKept ==
  ASSUME NEW u \in Thread, NEW k \in Key, u \in Busy <=> u \in Busy', thread'[u] = thread[u]
  PROVE  Telling(u, k)' <=> Telling(u, k)
BY DEF Telling

\* A step that stores nothing and tells the twin nothing keeps the origin of its ids.
LEMMA OriginKept ==
  ASSUME IInv, [Next]_vars, store' = store,
         \A u \in Thread, k \in Key : Telling(u, k) =>
           /\ Telling(u, k)' /\ thread'[u].req = thread[u].req /\ thread'[u].read = thread[u].read
  PROVE  /\ \A k \in Key : CreatedFrom(k) => CreatedFrom(k)'
         /\ \A k \in Key, id \in AllEventId : ChangedFrom(id, k) => ChangedFrom(id, k)'
<1>1. ASSUME NEW k \in Key, CreatedFrom(k) PROVE CreatedFrom(k)'
  BY <1>1 DEF CreatedFrom
<1>2. ASSUME NEW k \in Key, NEW id \in AllEventId, ChangedFrom(id, k) PROVE ChangedFrom(id, k)'
  BY <1>2, RacedGrows DEF ChangedFrom
<1> QED BY <1>1, <1>2

LEMMA IdsKept ==
  ASSUME IInv, IdsOk, twin'.seen = twin.seen, twin.seen \subseteq AllEventId,
         \A k \in Key : CreatedFrom(k) => CreatedFrom(k)',
         \A k \in Key, id \in AllEventId : ChangedFrom(id, k) => ChangedFrom(id, k)'
  PROVE  IdsOk'
BY DEF IdsOk, Key

LEMMA IdsStep ==
  ASSUME AInv, [Next]_vars
  PROVE  IdsOk'
<1>1. IInv /\ Alone /\ Reads /\ Existing /\ IdsOk
  BY DEF AInv, RInv
<1>2. twin.seen \subseteq AllEventId
  BY <1>1, TwinKinds DEF IInv, TypeOK, DT!IsManager
<1>3. ASSUME NEW t \in Thread, NEW q \in AllRequest, Opens(t, q) PROVE IdsOk'
  <2>1. /\ store' = store /\ twin' = twin /\ t \notin Busy /\ Busy' = Busy \cup {t}
        /\ \A u \in Thread \ {t} : thread'[u] = thread[u]
    BY <1>1, <1>3, OpensStep DEF Opens
  <2>2. \A u \in Thread, k \in Key : Telling(u, k) =>
          Telling(u, k)' /\ thread'[u].req = thread[u].req /\ thread'[u].read = thread[u].read
    BY <2>1 DEF Telling
  <2> QED BY <1>1, <1>2, <2>1, <2>2, OriginKept, IdsKept
<1>4. CASE (\E t \in Thread : TurnedAway(t)) \/ UNCHANGED vars
  <2>1. UNCHANGED <<store, twin, thread>>
    BY <1>4 DEF TurnedAway, IngestSms, vars
  <2>2. \A u \in Thread, k \in Key : Telling(u, k) =>
          Telling(u, k)' /\ thread'[u].req = thread[u].req /\ thread'[u].read = thread[u].read
    BY <2>1 DEF Telling, Busy
  <2> QED BY <1>1, <1>2, <2>1, <2>2, OriginKept, IdsKept
<1>5. ASSUME NEW t \in Thread, Audit(t) PROVE IdsOk'
  <2>1. thread[t].pc = "audit" /\ store' = store /\ twin' = twin /\ Finish(t)
    BY <1>5 DEF Audit
  <2>2. Busy' = Busy \ {t} /\ \A u \in Thread \ {t} : thread'[u] = thread[u]
    BY <1>1, <2>1, FinishStep
  <2>3. \A u \in Thread, k \in Key : Telling(u, k) =>
          Telling(u, k)' /\ thread'[u].req = thread[u].req /\ thread'[u].read = thread[u].read
    BY <2>1, <2>2 DEF Telling
  <2> QED BY <1>1, <1>2, <2>1, <2>3, OriginKept, IdsKept
<1>6. ASSUME NEW t \in Thread, Emit(t) PROVE IdsOk'
  <2>1. PICK q, r, new : q = thread[t].req /\ r = thread[t].read /\ new = EventOf(q, r)
    OBVIOUS
  <2>2. thread[t].pc = "emit" /\ t \in Busy /\ store' = store /\ q \in AllRequest /\ q.key \in Key
    BY <1>1, <1>6, <2>1, EmitStep, OnItsWay
  <2>3. \A u \in Thread \ {t} : thread'[u] = thread[u]
    BY <1>1, <1>6, <2>2, EmitThread, GoStep, FinishStep
  <2>4. \A u \in Thread, k \in Key : Telling(u, k) =>
          Telling(u, k)' /\ thread'[u].req = thread[u].req /\ thread'[u].read = thread[u].read
    BY <2>2, <2>3 DEF Telling, Busy
  <2>5. /\ \A k \in Key : CreatedFrom(k) => CreatedFrom(k)'
        /\ \A k \in Key, id \in AllEventId : ChangedFrom(id, k) => ChangedFrom(id, k)'
    BY <1>1, <2>2, <2>4, OriginKept
  <2>6. CASE twin'.seen = twin.seen
    BY <1>1, <1>2, <2>5, <2>6, IdsKept
  <2>7. CASE twin'.seen # twin.seen
    <3>1. Tellable(q) /\ twin'.seen = twin.seen \cup {new} /\ Go(t, "store")
      BY <1>1, <1>6, <2>1, <2>7, EmitStep DEF Applied, Put
    <3>2. Telling(t, q.key)' /\ thread'[t].req = q /\ thread'[t].read = r
      BY <1>1, <2>1, <2>2, <3>1, GoStep DEF Telling
    <3>3. new[1] = "CREATE" => \A k \in IncidentKey : k[2] = new[2] => CreatedFrom(k)'
      <4> SUFFICES ASSUME new[1] = "CREATE", NEW k \in IncidentKey, k[2] = new[2]
                   PROVE  CreatedFrom(k)'
        OBVIOUS
      <4>1. Creates(q) /\ q.key \in IncidentKey /\ k[2] = q.key[2]
        BY <2>1, <2>2, <3>1, EventMade
      <4>2. q.key = k
        BY <4>1 DEF IncidentKey
      <4>3. Telling(t, k)' /\ Creates(thread'[t].req)
        BY <3>2, <4>1, <4>2
      <4> QED BY <4>3 DEF CreatedFrom, Creates
    <3>4. new[1] # "CREATE" => ChangedFrom(new, q.key)'
      <4> SUFFICES ASSUME new[1] # "CREATE"
                   PROVE  ChangedFrom(new, q.key)'
        OBVIOUS
      <4>1. ~Creates(q) /\ new[2] = q.key[2] /\ new[3] = r.version + 1
        BY <2>1, <2>2, <3>1, EventMade
      <4>2. store'[q.key] # Absent
        BY <1>1, <2>1, <2>2, <4>1 DEF Existing
      <4>3. ~Creates(thread'[t].req) /\ new[3] = thread'[t].read.version + 1
        BY <3>2, <4>1
      <4> QED BY <3>2, <4>1, <4>2, <4>3 DEF ChangedFrom, Creates
    <3> QED BY <1>1, <1>2, <2>2, <2>5, <3>1, <3>3, <3>4 DEF IdsOk, Key
  <2> QED BY <2>6, <2>7
<1>7. ASSUME NEW t \in Thread, Store(t) PROVE IdsOk'
  <2> DEFINE q == thread[t].req
             r == thread[t].read
  <2>1. /\ thread[t].pc = "store" /\ t \in Busy /\ q.key \in Key /\ twin' = twin
        /\ store'[q.key] = New(q, r) /\ \A k \in Key \ {q.key} : store'[k] = store[k]
        /\ Go(t, "audit")
    BY <1>1, <1>7, StoreStep
  <2>2. \A u \in Thread \ {t} : thread'[u] = thread[u]
    BY <1>1, <2>1, GoStep
  <2>3. /\ New(q, r) # Absent /\ Checked(q, r)
        /\ New(q, r).version = IF Creates(q) THEN 1 ELSE r.version + 1
    BY <1>1, <2>1, OnItsWay, AbsentIsNew
  <2>4. \A u \in Thread \ {t}, k \in Key : Telling(u, k) =>
          Telling(u, k)' /\ thread'[u].req = thread[u].req /\ thread'[u].read = thread[u].read
    BY <2>1, <2>2 DEF Telling, Busy
  <2>5. ASSUME NEW k \in Key, CreatedFrom(k) PROVE CreatedFrom(k)'
    <3>1. CASE store[k] # Absent
      BY <1>1, <3>1, StoreGrows DEF CreatedFrom
    <3>2. CASE Telling(t, k)
      <4>1. store'[k] # Absent
        BY <2>1, <2>3, <3>2 DEF Telling
      <4> QED BY <4>1 DEF CreatedFrom
    <3>3. ASSUME NEW u \in Thread \ {t}, Telling(u, k), Creates(thread[u].req) PROVE CreatedFrom(k)'
      BY <2>4, <3>3 DEF CreatedFrom
    <3> QED BY <2>5, <3>1, <3>2, <3>3 DEF CreatedFrom
  <2>6. ASSUME NEW k \in Key, NEW id \in AllEventId, ChangedFrom(id, k) PROVE ChangedFrom(id, k)'
    <3>1. k[2] = id[2] /\ store'[k] # Absent /\ id[3] \in Nat
      BY <1>1, <2>6, StoreGrows, EventParts DEF ChangedFrom
    <3>2. CASE Raced(k)
      BY <1>1, <3>1, <3>2, RacedGrows DEF ChangedFrom
    <3>3. CASE ~Raced(k) /\ id[3] <= store[k].version
      <4>1. CASE q.key = k
        <5>1. store[k] = r
          BY <1>1, <2>1, <3>3, <4>1 DEF Reads
        <5>2. ~Creates(q) /\ r.version \in Nat
          BY <2>3, <2>6, <5>1, BoundsTyped DEF Checked, ChangedFrom, Record
        <5>3. id[3] <= store'[k].version
          BY <2>1, <2>3, <3>1, <3>3, <4>1, <5>1, <5>2
        <5> QED BY <3>1, <5>3 DEF ChangedFrom
      <4>2. CASE q.key # k
        BY <2>1, <3>1, <3>3, <4>2 DEF ChangedFrom
      <4> QED BY <4>1, <4>2
    <3>4. CASE Telling(t, k) /\ ~Creates(q) /\ id[3] = r.version + 1
      <4>1. store'[k].version = id[3]
        BY <2>1, <2>3, <3>4 DEF Telling
      <4>2. id[3] <= store'[k].version
        BY <3>1, <4>1
      <4> QED BY <3>1, <4>2 DEF ChangedFrom
    <3>5. ASSUME NEW u \in Thread \ {t}, Telling(u, k), ~Creates(thread[u].req),
                 id[3] = thread[u].read.version + 1
          PROVE  ChangedFrom(id, k)'
      BY <2>4, <3>1, <3>5 DEF ChangedFrom
    <3> QED BY <2>6, <3>2, <3>3, <3>4, <3>5 DEF ChangedFrom
  <2> QED BY <1>1, <1>2, <2>1, <2>5, <2>6, IdsKept
<1> QED BY <1>1, <1>3, <1>4, <1>5, <1>6, <1>7, StepCases DEF IInv

LEMMA LoneBefore ==
  ASSUME IInv, [Next]_vars, NEW k \in Key, (Namesakes(k) = {})'
  PROVE  Namesakes(k) = {}
<1>1. \A j \in Key : store[j] # Absent => store'[j] # Absent
  BY StoreGrows
<1> QED BY <1>1 DEF Namesakes

\* Who tells what of k is as before, and so are the record and the twin's entity.
LEMMA AgreeUndisturbed ==
  ASSUME NEW k \in Key, AgreeOk(k), store'[k] = store[k], twin'.ent[k] = twin.ent[k],
         \A u \in Thread : /\ Telling(u, k)' <=> Telling(u, k)
                           /\ Telling(u, k) => /\ thread'[u].req = thread[u].req
                                               /\ thread'[u].read = thread[u].read
  PROVE  AgreeOk(k)'
BY DEF AgreeOk, View

LEMMA AgreeOpens ==
  ASSUME AInv, NEW k \in Key, ~Raced(k)', AgreeOk(k),
         NEW t \in Thread, NEW q \in AllRequest, Opens(t, q)
  PROVE  AgreeOk(k)'
<1>1. IInv
  BY DEF AInv, RInv
<1>2. /\ thread'[t].req = q /\ thread'[t].read = store[q.key]
      /\ thread'[t].pc = (IF q.op = "details" THEN "store" ELSE "emit")
      /\ \A u \in Thread \ {t} : thread'[u] = thread[u]
      /\ Busy' = Busy \cup {t} /\ t \notin Busy /\ raced' = raced \cup Overlap(q)
      /\ store' = store /\ twin' = twin /\ Checked(q, store[q.key])
  BY <1>1, OpensStep DEF Opens
<1>3. \A u \in Thread \ {t} : Telling(u, k)' <=> Telling(u, k)
  BY <1>2 DEF Telling
<1>4. ~Telling(t, k)
  BY <1>2 DEF Telling
<1>5. CASE ~Telling(t, k)'
  BY <1>2, <1>3, <1>4, <1>5, AgreeUndisturbed
<1>6. CASE Telling(t, k)'
  <2>1. q.key = k /\ q.op = "details"
    BY <1>2, <1>6 DEF Telling
  <2>2. On(k) = {}
    BY <1>2, <2>1 DEF Overlap, Raced
  <2>3. \A u \in Thread : ~Telling(u, k)
    BY <2>2 DEF Telling, On
  <2>4. store[k] # Absent
    BY <1>2, <2>1, AbsentIsNew DEF Checked, Creates
  <2>5. twin.ent[k] = View(k, store[k].body)
    BY <2>3, <2>4 DEF AgreeOk
  <2>6. View(k, New(q, store[k]).body) = View(k, store[k].body)
    BY <1>2, <2>1, DetailsUnseen
  <2>7. twin'.ent[k] = View(k, New(thread'[t].req, thread'[t].read).body)
    BY <1>2, <2>1, <2>5, <2>6
  <2>8. \A u \in Thread : Telling(u, k)' => u = t
    BY <1>3, <2>3
  <2> QED BY <1>6, <2>7, <2>8 DEF AgreeOk, View
<1> QED BY <1>5, <1>6

LEMMA AgreeEmit ==
  ASSUME AInv, NEW k \in Key, ~Raced(k), Namesakes(k) = {}, AgreeOk(k),
         NEW t \in Thread, Emit(t)
  PROVE  AgreeOk(k)'
<1>1. IInv /\ Alone /\ Reads /\ Existing /\ IdsOk
  BY DEF AInv, RInv
<1>2. PICK q, r, id, p : /\ q = thread[t].req /\ r = thread[t].read
                         /\ id = EventOf(q, r) /\ p = PayloadOf(q, r)
  OBVIOUS
<1>3. /\ thread[t].pc = "emit" /\ t \in Busy /\ store' = store
      /\ q \in AllRequest /\ q.key \in Key /\ r \in Record \cup {Absent} /\ Checked(q, r)
  BY <1>1, <1>2, EmitStep, OnItsWay
<1>4. \A u \in Thread \ {t} : thread'[u] = thread[u]
  BY <1>1, <1>3, EmitThread, GoStep, FinishStep
<1>5. \A u \in Thread \ {t} : Telling(u, k)' <=> Telling(u, k)
  <2>1. \A u \in Thread \ {t} : u \in Busy <=> u \in Busy'
    BY <1>4 DEF Busy
  <2> QED BY <1>4, <2>1, TellingKept
<1>6. ~Telling(t, k)
  BY <1>3 DEF Telling
<1>7. DT!IsManager(twin)
  BY <1>1 DEF IInv, TypeOK
<1>8. twin.ent = [j \in Key |-> twin.ent[j]]
  BY <1>7, TwinKinds DEF DT!IsManager
<1>9. CASE q.key # k
  <2>1. ~Telling(t, k)'
    <3>1. t \in Busy' => thread'[t].req = q
      BY <1>1, <1>2, <1>3, <1>6, MoveKind, WorkersKept
    <3> QED BY <1>9, <3>1 DEF Telling
  <2>2. twin'.ent[k] = twin.ent[k]
    BY <1>1, <1>2, <1>3, <1>8, <1>9, EmitStep DEF Applied, Put
  <2> QED BY <1>3, <1>4, <1>5, <1>6, <2>1, <2>2, AgreeUndisturbed
<1>10. CASE q.key = k
  <2>1. store[k] = r
    BY <1>1, <1>2, <1>3, <1>10 DEF Reads
  <2>2. \A u \in Thread : ~Telling(u, k)
    <3>1. \A u \in Busy : u # t => thread[u].req.key # k
      BY <1>1, <1>2, <1>3, <1>10 DEF Alone
    <3> QED BY <1>6, <3>1 DEF Telling
  <2>3. ~Creates(q) => r # Absent /\ twin.ent[k] = View(k, r.body)
    BY <1>3, <2>1, <2>2, AbsentIsNew DEF AgreeOk, Checked
  <2>4. ASSUME Go(t, "store"), twin'.ent[k] = View(k, New(q, r).body) PROVE AgreeOk(k)'
    <3>1. /\ Telling(t, k)' /\ thread'[t].req = q /\ thread'[t].read = r
      BY <1>1, <1>2, <1>3, <1>10, <2>4, GoStep DEF Telling
    <3>2. \A u \in Thread : Telling(u, k)' => u = t
      BY <1>5, <2>2
    <3>3. twin'.ent[k] = View(k, New(thread'[t].req, thread'[t].read).body)
      BY <2>4, <3>1
    <3> QED BY <3>1, <3>2, <3>3 DEF AgreeOk, View
  <2>5. CASE ~Tellable(q)
    <3>1. q.op = "create" /\ k \in FacilityKey /\ twin'.ent[k] = q.body /\ Go(t, "store")
      BY <1>1, <1>2, <1>3, <1>8, <1>10, <2>5, EmitStep DEF Put
    <3>2. View(k, New(q, r).body) = q.body
      BY <3>1, KeyKinds DEF View, New, Creates
    <3> QED BY <2>4, <3>1, <3>2
  <2>6. CASE Tellable(q)
    <3>1. /\ id \in AllEventId /\ p.key = k
          /\ \/ id \in twin.seen /\ twin' = twin /\ Go(t, "store")
             \/ id \notin twin.seen /\ DT!Rejected(twin, p) /\ twin' = twin /\ Finish(t)
             \/ Applied(id, p) /\ Go(t, "store")
      BY <1>1, <1>2, <1>10, <2>6, EmitStep
    <3>2. id \notin twin.seen
      <4> SUFFICES ASSUME id \in twin.seen PROVE FALSE
        OBVIOUS
      <4>1. CASE Creates(q)
        <5>1. id[1] = "CREATE" /\ k \in IncidentKey /\ k[2] = id[2]
          BY <1>2, <1>3, <1>10, <2>6, <4>1, EventMade
        <5>2. CreatedFrom(k)
          BY <1>1, <5>1 DEF IdsOk
        <5> QED BY <1>3, <2>1, <2>2, <4>1, <5>2 DEF CreatedFrom, Checked
      <4>2. CASE ~Creates(q)
        <5>1. id[1] # "CREATE" /\ id[2] = k[2] /\ id[3] = r.version + 1
          BY <1>2, <1>3, <1>10, <2>6, <4>2, EventMade
        <5>2. PICK j \in Key : ChangedFrom(id, j)
          BY <1>1, <5>1 DEF IdsOk
        <5>3. j = k
          BY <5>1, <5>2 DEF ChangedFrom, Namesakes
        <5>4. r.version \in Nat
          BY <1>3, <2>3, <4>2, BoundsTyped DEF Record
        <5> QED BY <2>1, <2>2, <5>1, <5>2, <5>3, <5>4 DEF ChangedFrom
      <4> QED BY <4>1, <4>2
    <3>3. CASE DT!Rejected(twin, p) /\ twin' = twin /\ Finish(t)
      <4>1. thread'[t].pc = "idle"
        BY <1>1, <3>3, FinishStep DEF Idle
      <4>2. ~Telling(t, k)'
        BY <4>1 DEF Telling
      <4> QED BY <1>3, <1>4, <1>5, <1>6, <3>3, <4>2, AgreeUndisturbed
    <3>4. CASE Applied(id, p) /\ Go(t, "store")
      <4>1. twin'.ent[k] = DT!Target(twin, p) /\ ~DT!Rejected(twin, p)
        BY <1>8, <3>1, <3>4 DEF Applied
      <4>2. DT!Target(twin, p) = View(k, New(q, r).body)
        BY <1>2, <1>3, <1>10, <2>3, <2>6, <4>1, TargetIsNew
      <4> QED BY <2>4, <3>4, <4>1, <4>2
    <3> QED BY <3>1, <3>2, <3>3, <3>4
  <2> QED BY <2>5, <2>6
<1> QED BY <1>9, <1>10

LEMMA AgreeStep ==
  ASSUME AInv, [Next]_vars
  PROVE  AllAgree'
<1> SUFFICES ASSUME NEW k \in Key, ~Raced(k)', (Namesakes(k) = {})'
             PROVE  AgreeOk(k)'
  BY DEF AllAgree
<1>1. IInv /\ Alone /\ Reads
  BY DEF AInv, RInv
<1>2. ~Raced(k) /\ Namesakes(k) = {} /\ AgreeOk(k)
  BY <1>1, RacedGrows, LoneBefore DEF AInv, AllAgree
<1>3. CASE (\E t \in Thread : TurnedAway(t)) \/ UNCHANGED vars
  <2>1. UNCHANGED <<store, twin, thread>>
    BY <1>3 DEF TurnedAway, IngestSms, vars
  <2>2. \A u \in Thread : Telling(u, k)' <=> Telling(u, k)
    BY <2>1 DEF Telling, Busy
  <2> QED BY <1>2, <2>1, <2>2, AgreeUndisturbed
<1>4. ASSUME NEW t \in Thread, Store(t) PROVE AgreeOk(k)'
  <2>1. PICK q, r : q = thread[t].req /\ r = thread[t].read
    OBVIOUS
  <2>2. /\ thread[t].pc = "store" /\ t \in Busy /\ q.key \in Key /\ twin' = twin
        /\ store'[q.key] = New(q, r) /\ \A j \in Key \ {q.key} : store'[j] = store[j]
        /\ Go(t, "audit")
    BY <1>1, <1>4, <2>1, StoreStep
  <2>3. /\ Busy' = Busy /\ \A u \in Thread \ {t} : thread'[u] = thread[u]
        /\ thread'[t].pc = "audit"
    BY <1>1, <2>2, GoStep
  <2>4. ~Telling(t, k)' /\ \A u \in Thread \ {t} : Telling(u, k)' <=> Telling(u, k)
    BY <2>3 DEF Telling
  <2>5. CASE q.key # k
    <3>1. ~Telling(t, k)
      BY <2>1, <2>5 DEF Telling
    <3> QED BY <1>2, <2>2, <2>3, <2>4, <2>5, <3>1, AgreeUndisturbed
  <2>6. CASE q.key = k
    <3>1. Telling(t, k)
      BY <2>1, <2>2, <2>6 DEF Telling
    <3>2. twin.ent[k] = View(k, New(q, r).body)
      BY <1>2, <2>1, <3>1 DEF AgreeOk
    <3>3. \A u \in Thread : ~Telling(u, k)'
      <4>1. \A u \in Busy : u # t => thread[u].req.key # k
        BY <1>1, <1>2, <2>1, <2>2, <2>6 DEF Alone
      <4> QED BY <2>4, <4>1 DEF Telling
    <3> QED BY <2>2, <2>6, <3>2, <3>3 DEF AgreeOk, View
  <2> QED BY <2>5, <2>6
<1>5. ASSUME NEW t \in Thread, Audit(t) PROVE AgreeOk(k)'
  <2>1. thread[t].pc = "audit" /\ store' = store /\ twin' = twin /\ Finish(t)
    BY <1>5 DEF Audit
  <2>2. Busy' = Busy \ {t} /\ \A u \in Thread \ {t} : thread'[u] = thread[u]
    BY <1>1, <2>1, FinishStep
  <2>3. \A u \in Thread : /\ Telling(u, k)' <=> Telling(u, k)
                          /\ Telling(u, k) => u # t
    BY <2>1, <2>2 DEF Telling
  <2> QED BY <1>2, <2>1, <2>2, <2>3, AgreeUndisturbed
<1> QED BY <1>1, <1>2, <1>3, <1>4, <1>5, AgreeOpens, AgreeEmit, StepCases DEF IInv

\* "Synchronizes directly with the central DigitalTwinStateManager": a record whose
\* requests never overlapped, and whose id no record of another kind has, is in the twin
\* as it is in the store whenever no request is at work on it.
THEOREM AgreementHolds == Spec => []AgreeUnlessRaced
<1>1. Init => AInv
  <2> SUFFICES ASSUME Init PROVE AInv
    OBVIOUS
  <2>1. Busy = {} /\ twin.seen = {}
    BY DEF Init, Idle, Busy, DT!NewManager, DT!Manager
  <2>2. \A k \in Key : store[k] = Absent
    BY DEF Init
  <2> QED BY <2>1, <2>2, InitIInv
      DEF AInv, RInv, Alone, Reads, Existing, IdsOk, AllAgree, AgreeOk, Telling
<1>2. AInv /\ [Next]_vars => AInv'
  BY StepIInv, AloneStep, ReadsStep, ExistingStep, IdsStep, AgreeStep DEF AInv, RInv
<1>3. AInv => AgreeUnlessRaced
  <2> SUFFICES ASSUME AInv, NEW k \in Key, store[k] # Absent, On(k) = {}, ~Raced(k), Namesakes(k) = {}
               PROVE  twin.ent[k] = InTwin(k)
    BY DEF AgreeUnlessRaced
  <2>1. AgreeOk(k)
    BY DEF AInv, AllAgree
  <2>2. \A t \in Thread : ~Telling(t, k)
    BY DEF Telling, On
  <2> QED BY <2>1, <2>2 DEF AgreeOk, View, InTwin
<1> QED BY <1>1, <1>2, <1>3, PTL DEF Spec

--------------------------------------------------------------------------------
(* The services implement the twin's specification *)

LEMMA EventIsPayload ==
  ASSUME NEW p \in DT!AnyPayload
  PROVE  p \in Event
<1>1. \/ p \in DT!CapacityPayload \/ p \in DT!FacilityPayload \/ p \in DT!IncidentPayload
  BY DEF DT!AnyPayload, DT!RoadPayload, DT!BridgePayload, DT!AreaPayload
<1> QED BY <1>1, TwinKinds DEF DT!CapacityPayload, DT!FacilityPayload, DT!IncidentPayload, Event

\* Facilities with an entry in the twin, which is how they were registered.
Registered(ent) == {k \in FacilityKey : ent[k] # Absent}

LEMMA PutIsRegister ==
  ASSUME IInv, NEW t \in Thread, Emit(t), ~Tellable(thread[t].req)
  PROVE  DT!Next
<1> DEFINE q == thread[t].req
           b == q.body
           ent == [twin.ent EXCEPT ![q.key] = b]
<1>1. thread[t].pc = "emit" /\ t \in Busy
  BY DEF Emit, Busy
<1>2. /\ q \in AllRequest /\ Checked(q, thread[t].read) /\ q.op # "details"
  BY <1>1, OnItsWay DEF IInv, CheckedAll
<1>3. q.op = "create" /\ q.key \in FacilityKey
  BY <1>2 DEF Tellable
<1>4. b \in FacilityBody /\ b # Absent
  BY <1>2, <1>3, RequestTyped, KeyKinds, AbsentIsNew DEF BodyOf
<1>5. twin' = DT!Manager(twin.version, ent, twin.seen, twin.log, twin.overlay)
  BY <1>3 DEF Emit
<1>6. DT!OverlayWith(twin, q.key, b) = twin.overlay
  <2>1. twin.overlay \in [{} -> DT!RoadStatus \cup {Absent}] \cup {Absent}
    BY DEF IInv, TypeOK, DT!IsManager
  <2> QED BY <2>1 DEF DT!OverlayWith
<1>7. twin'.ent = ent
  BY <1>5 DEF DT!Manager
<1>8. twin.ent = [k \in Key |-> twin.ent[k]]
  BY TwinKinds DEF IInv, TypeOK, DT!IsManager
<1>9. Registered(ent) = Registered(twin.ent) \cup {q.key}
  BY <1>3, <1>4, <1>8 DEF Registered, Key
<1>10. DT!Register(q.key, b)
  BY <1>5, <1>6, <1>7, <1>9 DEF DT!Register, Registered
<1>11. <<q.key, b>> \in FacilityKey \X FacilityBody
  BY <1>3, <1>4
<1>12. PICK g \in FacilityKey \X FacilityBody : g[1] = q.key /\ g[2] = b
  BY <1>11
<1>13. DT!Register(g[1], g[2])
  BY <1>10, <1>12 DEF DT!Register
<1> QED BY <1>13 DEF DT!Next

LEMMA ToldIsApply ==
  ASSUME IInv, NEW t \in Thread, Emit(t), Tellable(thread[t].req)
  PROVE  DT!Next
<1> DEFINE q == thread[t].req
           r == thread[t].read
           id == EventOf(q, r)
           p == PayloadOf(q, r)
<1>1. /\ id \in AllEventId /\ p \in DT!AnyPayload
      /\ \/ id \in twin.seen /\ twin' = twin /\ Go(t, "store")
         \/ id \notin twin.seen /\ DT!Rejected(twin, p) /\ twin' = twin /\ Finish(t)
         \/ Applied(id, p) /\ Go(t, "store")
  BY EmitStep
<1>2. thread[t].pc = "emit" /\ t \in Busy
  BY DEF Emit, Busy
<1>3. twin' = DT!ApplyEvent(twin, id, p)
  BY <1>2 DEF Emit, Tellable
<1> HIDE DEF q, r, id, p
<1>4. Registered(twin'.ent) = Registered(twin.ent)
  <2>1. CASE twin' = twin
    BY <2>1
  <2>2. CASE Applied(id, p)
    <3>1. DT!IsManager(twin) /\ twin.ent = [k \in Key |-> twin.ent[k]]
      BY TwinKinds DEF IInv, TypeOK, DT!IsManager
    <3>2. /\ twin'.ent = [twin.ent EXCEPT ![p.key] = DT!Target(twin, p)]
          /\ ~DT!Rejected(twin, p)
      BY <2>2 DEF Applied
    <3>3. p.key \in Key /\ DT!Target(twin, p) \in DT!EntityOf(p.key)
      BY <1>1, <3>1, <3>2, TargetTyped
    <3>4. CASE p.key \in FacilityKey
      <4>1. DT!Target(twin, p) # Absent
        BY <3>3, <3>4, TwinKinds, AbsentIsNew
      <4>2. twin.ent[p.key] # Absent
        BY <1>1, <3>2, <3>4, KeyKinds, TwinKinds
        DEF DT!Rejected, DT!AnyPayload, DT!RoadPayload, DT!BridgePayload, DT!AreaPayload,
            DT!CapacityPayload, DT!FacilityPayload, DT!IncidentPayload
      <4> QED BY <3>1, <3>2, <3>3, <4>1, <4>2 DEF Registered, Key
    <3>5. CASE p.key \notin FacilityKey
      BY <3>1, <3>2, <3>5 DEF Registered, Key
    <3> QED BY <3>4, <3>5
  <2> QED BY <1>1, <2>1, <2>2
<1>5. DT!Apply(id, p)
  BY <1>3, <1>4 DEF DT!Apply, Registered
<1> QED BY <1>1, <1>5, EventIsPayload DEF DT!Next

\* The services' twin is a behaviour of module DigitalTwin, however their threads and
\* the gateway's interleave: register_* and apply_event are the only ways to it.
THEOREM TwinDriven == Spec => DrivesTwin
<1>1. Init => DT!Init
  <2> SUFFICES ASSUME Init PROVE DT!Init
    OBVIOUS
  <2>1. twin = DT!NewManager /\ twin.ent = [k \in Key |-> Absent] /\ twin.version = 0
    BY TwinKinds DEF Init, DT!NewManager, DT!Manager
  <2> QED BY <2>1 DEF DT!Init, DT!SnapshotOf, DT!NewManager, DT!Manager, Key
<1>2. IInv /\ [Next]_vars => [DT!Next]_(DT!vars)
  <2> SUFFICES ASSUME IInv, [Next]_vars, twin' # twin PROVE DT!Next
    BY DEF DT!vars
  <2>1. PICK t \in Thread : Emit(t)
    <3>1. \A t \in Thread : Store(t) \/ Audit(t) => twin' = twin
      BY DEF Store, Audit
    <3>2. \A t \in Thread, q \in AllRequest : Opens(t, q) => twin' = twin
      BY DEF Opens
    <3>3. \A t \in Thread : TurnedAway(t) => twin' = twin
      BY DEF TurnedAway, IngestSms
    <3>4. UNCHANGED vars => twin' = twin
      BY DEF vars
    <3> QED BY <3>1, <3>2, <3>3, <3>4, StepCases DEF IInv
  <2> QED BY <2>1, PutIsRegister, ToldIsApply
<1> QED BY <1>1, <1>2, InvariantHolds, PTL DEF Spec, DrivesTwin, DT!Spec

--------------------------------------------------------------------------------
(* What has been proved of the twin, of the services' twin *)

TP == INSTANCE DigitalTwinProofs WITH
  Road <- {}, Bridge <- {}, Facility <- FacilityKey, Area <- {}, Incident <- IncidentKey,
  Status <- HospitalStatus \cup ShelterStatus, Datum <- {}, EventId <- AllEventId,
  Payload <- Event, Registration <- FacilityKey \X FacilityBody, OverlayRoad <- <<>>,
  snapshot <- [version |-> 0, ent |-> [k \in Key |-> Absent]],
  registered <- {k \in FacilityKey : twin.ent[k] # Absent}

\* The twin's assumptions on its constants follow from the services'.
LEMMA TwinAssumptions ==
  /\ TP!KeysDisjoint
  /\ TP!AbsentIsNoEntity /\ TP!AbsentIsNoRoad /\ TP!AbsentIsNoOverlay
  /\ TP!CausesAreOwn
  /\ TP!InputsTyped
<1>1. TP!KeysDisjoint
  BY KeyKinds DEF TP!KeysDisjoint
<1>2. /\ TP!Key = Key
      /\ \A k \in FacilityKey : TP!EntityOf(k) = FacilityBody
      /\ \A k \in IncidentKey : TP!EntityOf(k) = IncidentStatus
  BY KeyKinds DEF TP!Key, Key, TP!EntityOf, TP!FacilityEntity, FacilityBody,
                  TP!IncidentStatus, IncidentStatus
<1>3. TP!AbsentIsNoEntity
  BY <1>2, AbsentIsNew DEF TP!AbsentIsNoEntity, Key
<1>4. TP!AbsentIsNoRoad
  BY DEF TP!AbsentIsNoRoad
<1>5. TP!AbsentIsNoOverlay
  <2>1. ASSUME NEW f \in [{} -> TP!RoadStatus \cup {Absent}] PROVE f = <<>>
    OBVIOUS
  <2>2. <<>> \in Seq(Entry)
    OBVIOUS
  <2> QED BY <2>1, <2>2, AbsentIsNoTrail DEF TP!AbsentIsNoOverlay
<1>6. TP!CausesAreOwn
  BY DEF TP!CausesAreOwn
<1>7. TP!InputsTyped
  <2>1. Event \subseteq TP!AnyPayload
    BY DEF Event, TP!AnyPayload, TP!IncidentPayload, TP!FacilityPayload, TP!CapacityPayload,
           TP!IncidentStatus, IncidentStatus
  <2>2. <<>> \in [{} -> {}]
    OBVIOUS
  <2>3. \A g \in FacilityKey \X FacilityBody :
          g = <<g[1], g[2]>> /\ g[1] \in Key /\ g[2] \in TP!EntityOf(g[1])
    BY <1>2 DEF Key
  <2> QED BY <1>2, <2>1, <2>2, <2>3, BoundsTyped DEF TP!InputsTyped
<1> QED BY <1>1, <1>3, <1>4, <1>5, <1>6, <1>7

\* Both instances are one twin: definition by definition, from the transition rules up.
LEMMA SameEvents ==
  \A t, id, p : TP!ApplyEvent(t, id, p) = DT!ApplyEvent(t, id, p)
<1>1. \A t, p : TP!Current(t, p) = DT!Current(t, p)
  BY DEF TP!Current, DT!Current
<1>2. \A t, p : TP!Target(t, p) = DT!Target(t, p)
  BY <1>1 DEF TP!Target, DT!Target
<1>3. \A t, p : TP!Rejected(t, p) <=> DT!Rejected(t, p)
  BY DEF TP!Rejected, DT!Rejected, TP!ShrinksBelowAvailability, DT!ShrinksBelowAvailability,
         TP!Successors, DT!Successors
<1>4. \A t, p : TP!NoOp(t, p) <=> DT!NoOp(t, p)
  BY <1>1, <1>2 DEF TP!NoOp, DT!NoOp
<1>5. \A t, id, p : TP!Applies(t, id, p) <=> DT!Applies(t, id, p)
  BY <1>3, <1>4 DEF TP!Applies, DT!Applies
<1>6. \A s : TP!RoadStatusUnder(s) = DT!RoadStatusUnder(s)
  BY DEF TP!RoadStatusUnder, DT!RoadStatusUnder
<1>7. \A t, k, e : TP!OverlayWith(t, k, e) = DT!OverlayWith(t, k, e)
  BY <1>6 DEF TP!OverlayWith, DT!OverlayWith
<1>8. \A t, id, p : TP!Commit(t, id, p) = DT!Commit(t, id, p)
  BY <1>2, <1>7 DEF TP!Commit, DT!Commit, TP!Manager, DT!Manager
<1>9. \A t, id, p : TP!Ignore(t, id, p) = DT!Ignore(t, id, p)
  BY <1>1 DEF TP!Ignore, DT!Ignore, TP!Manager, DT!Manager
<1>10. \A t, id, p : TP!Handle(t, id, p) = DT!Handle(t, id, p)
  BY <1>3, <1>5, <1>8, <1>9 DEF TP!Handle, DT!Handle
<1>11. \A t, id, p : TP!Cascades(t, id, p) <=> DT!Cascades(t, id, p)
  BY <1>1, <1>5 DEF TP!Cascades, DT!Cascades, TP!CascadeTo, DT!CascadeTo
<1> QED BY <1>1, <1>6, <1>10, <1>11
        DEF TP!ApplyEvent, DT!ApplyEvent, TP!CascadeTo, DT!CascadeTo, TP!CascadePayload,
            DT!CascadePayload, TP!Caused, DT!Caused
LEMMA SameTwin ==
  TP!Spec <=> DT!Spec
<1>1. TP!Init <=> DT!Init
  BY DEF TP!Init, DT!Init, TP!NewManager, DT!NewManager, TP!Manager, DT!Manager, TP!SnapshotOf,
         DT!SnapshotOf, TP!Key, DT!Key
<1>2. \A k, e : DT!Register(k, e) <=> TP!Register(k, e)
  <2>1. \A t, k, e : TP!OverlayWith(t, k, e) = DT!OverlayWith(t, k, e)
    BY DEF TP!OverlayWith, DT!OverlayWith, TP!RoadStatusUnder, DT!RoadStatusUnder
  <2> QED BY <2>1 DEF TP!Register, DT!Register, TP!Manager, DT!Manager
<1>3. \A id, p : DT!Apply(id, p) <=> TP!Apply(id, p)
  BY SameEvents DEF TP!Apply, DT!Apply
<1>4. DT!SetRoutingOverlay <=> TP!SetRoutingOverlay
  <2>1. \A r : TP!ResyncedRoad(twin, TP!EmptyOverlay, r)
                 = DT!ResyncedRoad(twin, DT!EmptyOverlay, r)
    BY DEF TP!ResyncedRoad, DT!ResyncedRoad, TP!EmptyOverlay, DT!EmptyOverlay,
           TP!RoadStatusUnder, DT!RoadStatusUnder, TP!KnownBridgesOn, DT!KnownBridgesOn
  <2>2. TP!Resynced(twin, TP!EmptyOverlay) = DT!Resynced(twin, DT!EmptyOverlay)
    BY <2>1 DEF TP!Resynced, DT!Resynced
  <2> QED BY <2>2 DEF TP!SetRoutingOverlay, DT!SetRoutingOverlay, TP!Manager, DT!Manager
<1>5. DT!CreateSnapshot <=> TP!CreateSnapshot
  BY DEF TP!CreateSnapshot, DT!CreateSnapshot, TP!SnapshotOf, DT!SnapshotOf
<1>6. [TP!Next]_(TP!vars) <=> [DT!Next]_(DT!vars)
  BY <1>2, <1>3, <1>4, <1>5 DEF TP!Next, DT!Next, TP!vars, DT!vars
<1> QED BY <1>1, <1>6, PTL DEF TP!Spec, DT!Spec

\* However the requests interleave, the services' twin logs an event once, numbers its
\* log, and takes an incident along its lifecycle: module DigitalTwin's theorems, of a
\* manager that facility_service.py, incident_service.py and the gateway share.
THEOREM TwinInOrder == Spec => TwinKeptInOrder
<1>1. TP!Spec => []TP!LoggedOnce
  BY TwinAssumptions, TP!Idempotent
<1>2. TP!Spec => []TP!VersionCountsLog
  BY TwinAssumptions, TP!VersionIsLogLength
<1>3. TP!Spec => TP!LifecycleKept
  BY TwinAssumptions, TP!LifecycleHolds
<1>4. TP!LoggedOnce <=> DT!LoggedOnce
  BY DEF TP!LoggedOnce, DT!LoggedOnce
<1>5. TP!VersionCountsLog <=> DT!VersionCountsLog
  BY DEF TP!VersionCountsLog, DT!VersionCountsLog
<1>6. [TP!LifecycleStep]_(TP!vars) <=> [DT!LifecycleStep]_(DT!vars)
  BY DEF TP!LifecycleStep, DT!LifecycleStep, TP!Successors, DT!Successors, TP!vars, DT!vars
<1> QED BY <1>1, <1>2, <1>3, <1>4, <1>5, <1>6, SameTwin, TwinDriven, PTL
        DEF TwinKeptInOrder, DrivesTwin, TP!LifecycleKept, DT!LifecycleKept

================================================================================
