-------------------------------- MODULE Services ---------------------------------
(***************************************************************************)
(* FacilityService, IncidentService and SMSIngestionService around one     *)
(* Digital Twin (services/api/app/repositories, services/sms), as the      *)
(* REST routes call them.                                                  *)
(*                                                                         *)
(* The endpoints are plain "def"s, so FastAPI runs them on a thread pool;  *)
(* only the SMS gateway holds a lock. A request reads a copy of its record *)
(* and checks it, hands the twin an event, stores the copy and appends to  *)
(* the audit trail: four steps, each touching the shared state once, and   *)
(* other requests run between them. Calls into the twin are one step.      *)
(* A request refused before its first effect (404, 409, 422, 400) changes  *)
(* nothing and is not a step.                                              *)
(***************************************************************************)
EXTENDS Integers, Sequences

CONSTANTS
  Thread,       \* worker threads
  Name,         \* ids the clients put on hospitals, shelters and incidents
  SmsName,      \* incident ids the SMS gateway may draw
  Text,         \* descriptions of incidents, texts of messages
  MaxCapacity,  \* largest capacity a client sends
  Request,      \* what the clients ask for
  Message,      \* inbound SMS messages
  MaxRequests,  \* bound: requests that get past their checks
  Absent        \* no entry, None

HospitalStatus == {"OPERATIONAL", "OVERLOADED", "EVACUATING", "CLOSED"}
ShelterStatus == {"OPEN", "AT_CAPACITY", "STANDBY", "CLOSED"}
IncidentStatus == {"OPEN", "ACKNOWLEDGED", "IN_PROGRESS", "RESOLVED", "CANCELLED"}

\* A record is known by its kind and its id; the kinds do not share a store.
FacilityKey == {"hospital", "shelter"} \X Name
IncidentKey == {"incident"} \X (Name \cup SmsName)
Key == FacilityKey \cup IncidentKey

StatusOf(k) ==
  CASE k[1] = "hospital" -> HospitalStatus
    [] k[1] = "shelter"  -> ShelterStatus
    [] OTHER             -> IncidentStatus

\* Facilities: status and beds or places. Incidents: status and description,
\* which stands for severity and priority, too.
FacilityBody ==
  {b \in [status : HospitalStatus \cup ShelterStatus,
          cap : 0..MaxCapacity, avail : 0..MaxCapacity] : b.avail <= b.cap}
IncidentBody == [status : IncidentStatus, text : Text]
BodyOf(k) ==
  IF k \in IncidentKey THEN IncidentBody ELSE {b \in FacilityBody : b.status \in StatusOf(k)}

Body == FacilityBody \cup IncidentBody
Record == [version : 1..(MaxRequests + 1), body : Body]

\* expect is expected_state_version, which may be left out.
Expectation == Nat \cup {Absent}
CreateRequest == [op : {"create"}, key : Key, body : Body]
CapacityRequest ==
  [op : {"capacity"}, key : FacilityKey, avail : Int, cap : Int \cup {Absent},
   expect : Expectation]
StatusRequest ==
  [op : {"status"}, key : Key, expect : Expectation,
   status : HospitalStatus \cup ShelterStatus \cup IncidentStatus]
DetailsRequest ==
  [op : {"details"}, key : IncidentKey, text : Text, expect : Expectation]
AnyRequest == CreateRequest \cup CapacityRequest \cup StatusRequest \cup DetailsRequest

\* What the gateway asks for when it has taken a message.
SmsRequest == [op : {"sms"}, key : IncidentKey, body : IncidentBody]
AllRequest == Request \cup SmsRequest

\* A stripped text with what the parser finds in it: length, number of tokens and
\* the fields it cannot accept.
Field == {"event_type", "status", "severity", "latitude", "longitude"}
MessageType == [text : Text, chars : Nat, tokens : Nat, bad : SUBSET Field]

ASSUME RequestsTyped ==
  /\ Request \subseteq AnyRequest
  /\ \A q \in Request :
       /\ q.op = "create" => q.body \in BodyOf(q.key) /\ q.key[2] \notin SmsName
       /\ q.op = "status" => q.status \in StatusOf(q.key)
       /\ q.op = "capacity" =>
            /\ q.avail <= MaxCapacity
            /\ q.cap # Absent => q.cap <= MaxCapacity
ASSUME MessagesTyped == Message \subseteq MessageType
ASSUME BoundsTyped == MaxCapacity \in Nat /\ MaxRequests \in Nat
ASSUME NamesApart == Name \cap SmsName = {}
ASSUME AbsentIsNew ==
  /\ Absent \notin Record /\ Absent \notin Int /\ Absent \notin SmsName
  /\ Absent \notin FacilityBody /\ Absent \notin IncidentStatus

VARIABLES
  store,    \* FacilityService._hospitals and _shelters, IncidentService._incidents
  twin,     \* the DigitalTwinStateManager, a manager of module DigitalTwin
  trail,    \* the services' _audit_logs
  seen,     \* SMSIngestionService._seen_message_hashes, with the incident id drawn
  thread,   \* each worker: where it is, its request and the copy it read
  taken,    \* how many requests have passed their checks (for MaxRequests)
  refused,  \* history: messages answered DOMAIN_REJECTED
  raced     \* history: pairs <<key, what>> on which two requests have overlapped

vars == <<store, twin, trail, seen, thread, taken, refused, raced>>

\* Event ids name the facility or incident but not its kind: EVT-CAP-<id>-v<n>,
\* EVT-STATUS-<id>-v<n>, EVT-CREATE-<id>.
EventName(what, name, version) == <<what, name, version>>
AllEventId ==
  {"CREATE", "CAP", "STATUS"} \X (Name \cup SmsName) \X (1..(MaxRequests + 1))

Event ==
  [kind : {"created", "incident"}, key : IncidentKey, status : IncidentStatus]
    \cup [kind : {"facility"}, key : FacilityKey, status : HospitalStatus \cup ShelterStatus]
    \cup {p \in [kind : {"capacity"}, key : FacilityKey,
                 cap : 0..MaxCapacity, avail : 0..MaxCapacity] : p.avail <= p.cap}

\* Nobody takes a snapshot, so every facility in the twin was registered since.
DT == INSTANCE DigitalTwin WITH
  Road <- {}, Bridge <- {}, Facility <- FacilityKey, Area <- {}, Incident <- IncidentKey,
  Status <- HospitalStatus \cup ShelterStatus, Datum <- {}, EventId <- AllEventId,
  Payload <- Event, Registration <- FacilityKey \X FacilityBody, OverlayRoad <- <<>>,
  snapshot <- [version |-> 0, ent |-> [k \in Key |-> Absent]],
  registered <- {k \in FacilityKey : twin.ent[k] # Absent}

\* The two services have an audit log each; in the facilities' one a hospital and
\* a shelter of the same id share a trail.
Book(k) == <<IF k \in IncidentKey THEN "incident" ELSE "facility", k[2]>>
Books == {Book(k) : k \in Key}
Entry == [req : AllRequest, prev : Record \cup {Absent}, new : Record]

ASSUME AbsentIsNoTrail == Absent \notin Seq(Entry)

Idle == [pc |-> "idle", req |-> Absent, read |-> Absent]
Busy == {t \in Thread : thread[t].pc # "idle"}
On(k) == {t \in Busy : thread[t].req.key = k}

Creates(q) == q.op \in {"create", "sms"}

--------------------------------------------------------------------------------
(* What a request asks for *)

\* Slip: an update may come from any version.
CurrentWithoutExpectation(q) == store[q.key] # Absent

\* The record is there (404) and in the version the client expects (409).
Current(q) ==
  /\ store[q.key] # Absent
  /\ q.expect # Absent => q.expect = store[q.key].version

\* validate_incident_transition
MovesAlong(from, to) == from = to \/ to \in DT!Successors[from]

TotalFor(q, b) == IF q.cap # Absent THEN q.cap ELSE b.cap

\* Slip: only the total is checked.
WithinTotal(q, b) == TotalFor(q, b) >= 0 /\ q.avail <= MaxCapacity /\ q.avail >= 0

WithinBounds(q, b) == TotalFor(q, b) >= 0 /\ q.avail \in 0..TotalFor(q, b)

\* Slip: the total is kept whatever the request says.
ChangedAvailability(q, b) ==
  CASE q.op = "capacity" -> [b EXCEPT !.avail = q.avail]
    [] q.op = "status"   -> [b EXCEPT !.status = q.status]
    [] q.op = "details"  -> [b EXCEPT !.text = q.text]

Changed(q, b) ==
  CASE q.op = "capacity" -> [b EXCEPT !.cap = TotalFor(q, b), !.avail = q.avail]
    [] q.op = "status"   -> [b EXCEPT !.status = q.status]
    [] q.op = "details"  -> [b EXCEPT !.text = q.text]

\* The record a request leaves, from the copy it read.
New(q, r) ==
  IF Creates(q) THEN [version |-> 1, body |-> q.body]
  ELSE [version |-> r.version + 1, body |-> Changed(q, r.body)]

\* The id and the content of the event for the twin.
EventOf(q, r) ==
  CASE Creates(q)        -> EventName("CREATE", q.key[2], 1)
    [] q.op = "capacity" -> EventName("CAP", q.key[2], r.version + 1)
    [] q.op = "status"   -> EventName("STATUS", q.key[2], r.version + 1)
PayloadOf(q, r) ==
  CASE Creates(q) -> [kind |-> "created", key |-> q.key, status |-> q.body.status]
    [] q.op = "capacity" ->
         [kind |-> "capacity", key |-> q.key, cap |-> TotalFor(q, r.body), avail |-> q.avail]
    [] q.op = "status" ->
         [kind |-> IF q.key \in IncidentKey THEN "incident" ELSE "facility",
          key |-> q.key, status |-> q.status]

--------------------------------------------------------------------------------
(* The steps of a request *)

Init ==
  /\ store = [k \in Key |-> Absent]
  /\ twin = DT!NewManager
  /\ trail = [b \in Books |-> Absent]
  /\ seen = [x \in Text |-> Absent]
  /\ thread = [t \in Thread |-> Idle]
  /\ taken = 0
  /\ refused = {}
  /\ raced = {}

\* A request starts on a key while others are at work there.
Overlap(q) ==
  IF On(q.key) = {} THEN {}
  ELSE IF Creates(q) \/ \E u \in On(q.key) : Creates(thread[u].req)
  THEN {<<q.key, "create">>} ELSE {<<q.key, "update">>}

Start(t, q, r) ==
  /\ thread' = [thread EXCEPT ![t] =
       [pc |-> IF q.op = "details" THEN "store" ELSE "emit", req |-> q, read |-> r]]
  /\ raced' = raced \cup Overlap(q)

\* A request that passes its checks has read a copy of its record.
Begin(t, q) ==
  /\ thread[t].pc = "idle" /\ taken < MaxRequests
  /\ Start(t, q, store[q.key])
  /\ taken' = taken + 1
  /\ UNCHANGED <<store, twin, trail, seen, refused>>

CreateHospital(t, q) ==
  /\ q.op = "create" /\ q.key[1] = "hospital"
  /\ store[q.key] = Absent
  /\ Begin(t, q)

CreateShelter(t, q) ==
  /\ q.op = "create" /\ q.key[1] = "shelter"
  /\ store[q.key] = Absent
  /\ Begin(t, q)

\* Slip: an incident may be reported again under its id.
CreateIncidentAgain(t, q) ==
  /\ q.op = "create" /\ q.key[1] = "incident"
  /\ Begin(t, q)

CreateIncident(t, q) ==
  /\ q.op = "create" /\ q.key[1] = "incident"
  /\ store[q.key] = Absent
  /\ Begin(t, q)

UpdateHospitalCapacity(t, q) ==
  /\ q.op = "capacity" /\ q.key[1] = "hospital"
  /\ Current(q) /\ WithinBounds(q, store[q.key].body)
  /\ Begin(t, q)

UpdateShelterCapacity(t, q) ==
  /\ q.op = "capacity" /\ q.key[1] = "shelter"
  /\ Current(q) /\ WithinBounds(q, store[q.key].body)
  /\ Begin(t, q)

\* A facility's status moves freely.
UpdateHospitalStatus(t, q) ==
  /\ q.op = "status" /\ q.key[1] = "hospital"
  /\ Current(q)
  /\ Begin(t, q)

UpdateShelterStatus(t, q) ==
  /\ q.op = "status" /\ q.key[1] = "shelter"
  /\ Current(q)
  /\ Begin(t, q)

UpdateIncidentStatus(t, q) ==
  /\ q.op = "status" /\ q.key[1] = "incident"
  /\ Current(q) /\ MovesAlong(store[q.key].body.status, q.status)
  /\ Begin(t, q)

\* Details that say nothing new end the request.
UpdateIncidentDetails(t, q) ==
  /\ q.op = "details"
  /\ Current(q) /\ store[q.key].body.text # q.text
  /\ Begin(t, q)

Go(t, pc) == thread' = [thread EXCEPT ![t].pc = pc]
Finish(t) == thread' = [thread EXCEPT ![t] = Idle]

\* A facility is registered, an incident and every change are events. The twin may
\* raise: the request ends there, with nothing stored.
Emit(t) ==
  LET q == thread[t].req
      r == thread[t].read
  IN  /\ thread[t].pc = "emit"
      /\ IF q.op = "create" /\ q.key \in FacilityKey
         THEN /\ twin' = DT!Manager(twin.version, [twin.ent EXCEPT ![q.key] = q.body],
                                    twin.seen, twin.log, twin.overlay)
              /\ Go(t, "store")
         ELSE /\ twin' = DT!ApplyEvent(twin, EventOf(q, r), PayloadOf(q, r))
              /\ IF EventOf(q, r) \notin twin.seen /\ DT!Rejected(twin, PayloadOf(q, r))
                 THEN Finish(t) ELSE Go(t, "store")
      /\ UNCHANGED <<store, trail, seen, taken, refused, raced>>

\* Slip: the version is compared once more, when the twin has its event.
StoreIfUnchanged(t) ==
  LET q == thread[t].req
  IN  /\ thread[t].pc = "store"
      /\ IF store[q.key] = thread[t].read
         THEN store' = [store EXCEPT ![q.key] = New(q, thread[t].read)] /\ Go(t, "audit")
         ELSE UNCHANGED store /\ Finish(t)
      /\ UNCHANGED <<twin, trail, seen, taken, refused, raced>>

\* The changed copy replaces whatever is there by now.
Store(t) ==
  LET q == thread[t].req
  IN  /\ thread[t].pc = "store"
      /\ store' = [store EXCEPT ![q.key] = New(q, thread[t].read)]
      /\ Go(t, "audit")
      /\ UNCHANGED <<twin, trail, seen, taken, refused, raced>>

\* A creation starts its trail anew; an update finds the trail its record's
\* creation has yet to start missing and fails with everything else done.
Audit(t) ==
  LET q == thread[t].req
      b == Book(q.key)
      e == [req |-> q, prev |-> thread[t].read, new |-> New(q, thread[t].read)]
  IN  /\ thread[t].pc = "audit"
      /\ trail' = IF Creates(q) THEN [trail EXCEPT ![b] = <<e>>]
                  ELSE IF trail[b] = Absent THEN trail
                  ELSE [trail EXCEPT ![b] = Append(@, e)]
      /\ Finish(t)
      /\ UNCHANGED <<store, twin, seen, taken, refused, raced>>

--------------------------------------------------------------------------------
(* The SMS gateway *)

\* Slip: coordinates are parsed but not compared with their ranges.
ParsesUnranged(m) ==
  m.chars \in 1..160 /\ m.tokens >= 6 /\ m.bad \subseteq {"latitude", "longitude"}

\* SMSParser.parse
Parses(m) == m.chars \in 1..160 /\ m.tokens >= 6 /\ m.bad = {}

\* The Incident the message becomes validates its location again.
Constructs(m) == m.bad \cap {"latitude", "longitude"} = {}

FromSms(m, i) ==
  [op |-> "sms", key |-> <<"incident", i>>, body |-> [status |-> "OPEN", text |-> m.text]]

Ingesting == {t \in Busy : thread[t].req.op = "sms"}

\* ingest_sms up to the first effect of create_incident, under its lock: a text
\* that does not parse or was seen is answered at once. The text is marked as
\* seen before the incident exists; a drawn id that is taken is DOMAIN_REJECTED.
IngestSms(t, m, i) ==
  /\ thread[t].pc = "idle" /\ taken < MaxRequests
  /\ Ingesting = {}
  /\ Parses(m) /\ seen[m.text] = Absent
  /\ seen' = [seen EXCEPT ![m.text] = i]
  /\ taken' = taken + 1
  /\ \/ ~Constructs(m) /\ UNCHANGED <<thread, raced, refused>>
     \/ /\ Constructs(m) /\ store[<<"incident", i>>] # Absent
        /\ refused' = refused \cup {m.text} /\ UNCHANGED <<thread, raced>>
     \/ /\ Constructs(m) /\ store[<<"incident", i>>] = Absent
        /\ Start(t, FromSms(m, i), Absent) /\ UNCHANGED refused
  /\ UNCHANGED <<store, twin, trail>>

--------------------------------------------------------------------------------

Next ==
  \E t \in Thread :
    \/ \E q \in Request :
         \/ CreateHospital(t, q) \/ CreateShelter(t, q) \/ CreateIncident(t, q)
         \/ UpdateHospitalCapacity(t, q) \/ UpdateShelterCapacity(t, q)
         \/ UpdateHospitalStatus(t, q) \/ UpdateShelterStatus(t, q)
         \/ UpdateIncidentStatus(t, q) \/ UpdateIncidentDetails(t, q)
    \/ \E m \in Message, i \in SmsName : IngestSms(t, m, i)
    \/ Emit(t) \/ Store(t) \/ Audit(t)

Spec == Init /\ [][Next]_vars

--------------------------------------------------------------------------------

\* Types of the stores, the twin, the trails and the workers.
TypeOK ==
  /\ store \in [Key -> Record \cup {Absent}]
  /\ \A k \in Key : store[k] # Absent => store[k].body \in BodyOf(k)
  /\ DT!IsManager(twin)
  /\ trail \in [Books -> Seq(Entry) \cup {Absent}]
  /\ seen \in [Text -> SmsName \cup {Absent}]
  /\ thread \in [Thread -> {Idle} \cup
       [pc : {"emit", "store", "audit"}, req : AllRequest, read : Record \cup {Absent}]]
  /\ taken \in 0..MaxRequests
  /\ refused \subseteq Text
  /\ raced \subseteq Key \X {"create", "update"}

Raced(k) == \E what \in {"create", "update"} : <<k, what>> \in raced

\* Records of another kind under the same id: they share event ids, and two
\* facilities a trail.
Namesakes(k) == {j \in Key \ {k} : j[2] = k[2] /\ store[j] # Absent}

\* What the twin should have for a record.
InTwin(k) == IF k \in IncidentKey THEN store[k].body.status ELSE store[k].body

\* "Synchronizes directly with the central DigitalTwinStateManager" (both class
\* comments): between requests, the twin has every record's status and capacity,
\* however requests for different records were interleaved and wherever one
\* failed; only overlapping requests for one record can drive the two apart.
AgreeUnlessRaced ==
  \A k \in Key :
    store[k] # Absent /\ On(k) = {} /\ ~Raced(k) /\ Namesakes(k) = {}
      => twin.ent[k] = InTwin(k)

Entries(b) == IF trail[b] = Absent THEN {} ELSE {trail[b][n] : n \in DOMAIN trail[b]}

\* Every event that changed the twin stands in the audit trail with its version and
\* content, or its request is about to put it there; this holds for overlapping
\* updates, too, whose events may drop each other.
EventsAudited ==
  \A n \in DOMAIN twin.log :
    LET k == twin.log[n].body.key
        Tells(q, r) == EventOf(q, r) = twin.log[n].id /\ PayloadOf(q, r) = twin.log[n].body
    IN  <<k, "create">> \notin raced /\ Namesakes(k) \cap FacilityKey = {} =>
          \/ \E e \in Entries(Book(k)) : e.req.op # "details" /\ Tells(e.req, e.prev)
          \/ \E t \in On(k) :
               /\ thread[t].pc \in {"store", "audit"} /\ thread[t].req.op # "details"
               /\ Tells(thread[t].req, thread[t].read)

\* "Append-Only Audit Trail" and "Overwrites are prevented" (facility-management.md
\* section 3): each entry continues the one before, from the version its client
\* expected, and the last is the record, unless requests for it overlapped.
TrailUnbroken ==
  \A k \in Key :
    store[k] # Absent /\ ~Raced(k) /\ Namesakes(k) \cap FacilityKey = {} =>
      LET s == trail[Book(k)]
      IN  /\ On(k) = {} => s # Absent /\ s[Len(s)].new = store[k]
          /\ s # Absent => \A n \in DOMAIN s :
               /\ s[n].new.version = n
               /\ s[n].prev = IF n = 1 THEN Absent ELSE s[n - 1].new
               /\ ~Creates(s[n].req) /\ s[n].req.expect # Absent => s[n].req.expect = n - 1

\* A stored incident moves along VALID_INCIDENT_TRANSITIONS only, so a closed one
\* stays closed, unless a request wrote back a copy read before another's change.
LifecycleStep ==
  \A k \in IncidentKey :
    \/ store[k] = Absent \/ <<k, "create">> \in raced \/ <<k, "update">> \in raced
    \/ MovesAlong(store[k].body.status, store'[k].body.status)

LifecycleUnlessRaced == [][LifecycleStep]_vars

\* "Replay rejected to protect state integrity" (ingestion.py): a text whose
\* retransmission is turned away as a duplicate has become an incident, is on its
\* way there, or its sender has been told DOMAIN_REJECTED.
SeenIsTaken ==
  \A x \in Text : seen[x] # Absent =>
    LET k == <<"incident", seen[x]>>
    IN  \/ x \in refused
        \/ \E t \in On(k) : thread[t].req.op = "sms" /\ thread[t].req.body.text = x
        \/ \E e \in Entries(Book(k)) : e.req.op = "sms" /\ e.new.body.text = x

\* The services drive the twin through register_* and apply_event alone, however
\* their threads interleave: what holds of module DigitalTwin's manager holds of it.
DrivesTwin == DT!Spec

\* What the twin promises of itself, kept with all services on it: an event is logged
\* once, the version counts the log, and an incident's status moves along its lifecycle.
TwinKeptInOrder ==
  /\ [](DT!LoggedOnce /\ DT!VersionCountsLog)
  /\ DT!LifecycleKept
================================================================================
