------------------------------ MODULE SyncServer -------------------------------
(***************************************************************************)
(* SyncQueueProcessor (services/sync/queue/processor.py) with what it      *)
(* works on: the idempotency store, the conflict engine, the incident      *)
(* service, the Digital Twin and the audit ledger.                         *)
(*                                                                         *)
(* FastAPI runs the endpoint, a plain "def", on a thread pool, and only    *)
(* the idempotency store and the ledger have locks. A thread takes one     *)
(* operation through the pipeline in steps that each touch the shared      *)
(* state once; a batch is one thread taking its operations one by one.     *)
(* The clients may send any operation any number of times.                 *)
(***************************************************************************)
EXTENDS Integers, Sequences, FiniteSets

CONSTANTS
  Thread,         \* worker threads
  Id,             \* entity ids
  Text,           \* what an incident's description and priority say
  OpId,           \* operation ids
  Op,             \* operations the clients send
  Role,           \* roles of their actors
  MaxDeliveries,  \* bound: operations delivered over a behaviour
  Absent          \* no entry, None

EntityType == {"INCIDENT", "EVIDENCE", "RESOURCE_REQUEST", "STATUS_UPDATE"}
OperationType == {"CREATE", "UPDATE", "DELETE"}

\* A payload is a whole incident report, a change of description or priority, a
\* change of status or severity, or fields the incident service does not know.
Body ==
  [form : {"report"}, incident : Id, text : Text]
    \cup [form : {"text"}, text : Text] \cup [form : {"enum", "other"}]

Operation ==
  [id : OpId, entity : EntityType, type : OperationType, target : Id,
   base : Nat \cup {Absent}, schema : {"1.0.0", "other"}, body : Body]

IncidentRecord == [version : Nat, text : Text]

Status == {"ACCEPTED", "DUPLICATE", "CONFLICT", "REJECTED"}
LedgerEntry == [op : Op, role : Role, status : Status]

ASSUME OpsTyped == Op \subseteq Operation
ASSUME MaxDeliveriesNat == MaxDeliveries \in Nat
ASSUME ThreadsFinite == IsFiniteSet(Thread)
ASSUME AbsentIsNew ==
  /\ Absent \notin Op /\ Absent \notin IncidentRecord /\ Absent \notin Nat \cup Seq(Nat)
  /\ Absent \notin {"OPEN", "ACKNOWLEDGED", "IN_PROGRESS", "RESOLVED", "CANCELLED"}

VARIABLES
  idem,     \* IdempotencyStore._store: the operation recorded under each id
  inc,      \* IncidentService._incidents
  trail,    \* IncidentService._audit_logs: the versions of its entries
  twin,     \* the DigitalTwinStateManager, a manager of module DigitalTwin
  ledger,   \* SyncEventLedger._events
  thread    \* each worker: where it is, its operation and what it has read

vars == <<idem, inc, trail, twin, ledger, thread>>

CreatedBody(i) == [kind |-> "created", key |-> i, status |-> "OPEN"]

\* The twin this processor has: nothing but incidents, no overlay, and events
\* named EVT-CREATE-<incident>.
DT == INSTANCE DigitalTwin WITH
  Road <- {}, Bridge <- {}, Facility <- {}, Area <- {}, Incident <- Id,
  Status <- {}, Datum <- {}, MaxCapacity <- 0, EventId <- Id,
  Payload <- {CreatedBody(i) : i \in Id}, Registration <- {}, OverlayRoad <- <<>>,
  snapshot <- [version |-> 0, ent |-> [i \in Id |-> Absent]], registered <- {}

Idle == [pc |-> "idle", op |-> Absent, role |-> Absent, version |-> Absent, read |-> Absent]

At(pc, o, r, v, i) == [pc |-> pc, op |-> o, role |-> r, version |-> v, read |-> i]

Go(t, pc, v, i) ==
  thread' = [thread EXCEPT ![t] = At(pc, thread[t].op, thread[t].role, v, i)]

\* Every way out of the pipeline appends one audit event.
Answer(t, s) ==
  /\ ledger' = Append(ledger, [op |-> thread[t].op, role |-> thread[t].role, status |-> s])
  /\ thread' = [thread EXCEPT ![t] = Idle]

--------------------------------------------------------------------------------
(* The questions the pipeline asks *)

AllowedRoles == {"FIELD_OFFICER", "OPERATOR", "COMMANDER", "ADMIN"}

Admissible(o, r) == o.schema = "1.0.0" /\ r \in AllowedRoles

\* check_and_register only looks: the record is saved after the mutation.
\* The request hash covers the payload alone.
SamePayload(o) == idem[o.id].body = o.body

ServerEntity(o) == IF o.entity = "INCIDENT" THEN inc[o.target] ELSE Absent

\* Slip: an operation based on an older version is let through.
ConflictsUnlessFresh(o, version, entity) ==
  \/ o.type \in {"UPDATE", "DELETE"} /\ entity = Absent
  \/ o.type = "CREATE" /\ entity # Absent

\* evaluate_conflict: the base version is the twin's, not the incident's.
Conflicts(o, version, entity) ==
  \/ /\ o.base # Absent /\ version > o.base
     /\ entity # Absent /\ o.type # "CREATE"
  \/ o.type \in {"UPDATE", "DELETE"} /\ entity = Absent
  \/ o.type = "CREATE" /\ entity # Absent

\* The operations that reach the incident service; all others succeed unheard,
\* the deletion of an incident among them.
Creates(o) == o.entity = "INCIDENT" /\ o.type = "CREATE"
Updates(o) == o.entity = "INCIDENT" /\ o.type = "UPDATE"

\* Slip: the expected version is not compared.
UpdatableUnversioned(o) == o.body.form \in {"text", "other"}

\* update_incident_details: the base version must be the incident's own; a status
\* or a severity arrives as a plain string and fails for having no .value.
Updatable(o) ==
  /\ o.base # Absent => inc[o.target].version = o.base
  /\ o.body.form \in {"text", "other"}

\* Slip: a field that was not sent is written as None.
NewTextOrNone(o, r) == IF o.body.form = "text" THEN o.body.text ELSE Absent

NewText(o, r) == IF o.body.form = "text" THEN o.body.text ELSE r.text

--------------------------------------------------------------------------------
(* The steps of a worker *)

Init ==
  /\ idem = [k \in OpId |-> Absent]
  /\ inc = [i \in Id |-> Absent]
  /\ trail = [i \in Id |-> Absent]
  /\ twin = DT!NewManager
  /\ ledger = <<>>
  /\ thread = [t \in Thread |-> Idle]

Busy == {t \in Thread : thread[t].pc # "idle"}

Receive(t, o, r) ==
  /\ thread[t].pc = "idle"
  /\ Len(ledger) + Cardinality(Busy) < MaxDeliveries
  /\ thread' = [thread EXCEPT ![t] = At("check", o, r, Absent, Absent)]
  /\ UNCHANGED <<idem, inc, trail, twin, ledger>>

\* Slip: an operation id is registered when it is checked.
CheckRegisters(t) ==
  LET o == thread[t].op
  IN  /\ thread[t].pc = "check"
      /\ \/ ~Admissible(o, thread[t].role) /\ Answer(t, "REJECTED") /\ UNCHANGED idem
         \/ /\ Admissible(o, thread[t].role) /\ idem[o.id] # Absent
            /\ Answer(t, IF SamePayload(o) THEN "DUPLICATE" ELSE "CONFLICT")
            /\ UNCHANGED idem
         \/ /\ Admissible(o, thread[t].role) /\ idem[o.id] = Absent
            /\ Go(t, "version", Absent, Absent) /\ UNCHANGED ledger
            /\ idem' = [idem EXCEPT ![o.id] = o]
      /\ UNCHANGED <<inc, trail, twin>>

\* Schema version, role, then the idempotency store.
Check(t) ==
  LET o == thread[t].op
  IN  /\ thread[t].pc = "check"
      /\ \/ ~Admissible(o, thread[t].role) /\ Answer(t, "REJECTED")
         \/ /\ Admissible(o, thread[t].role) /\ idem[o.id] # Absent
            /\ Answer(t, IF SamePayload(o) THEN "DUPLICATE" ELSE "CONFLICT")
         \/ /\ Admissible(o, thread[t].role) /\ idem[o.id] = Absent
            /\ Go(t, "version", Absent, Absent) /\ UNCHANGED ledger
      /\ UNCHANGED <<idem, inc, trail, twin>>

ReadVersion(t) ==
  /\ thread[t].pc = "version"
  /\ Go(t, "evaluate", twin.version, Absent)
  /\ UNCHANGED <<idem, inc, trail, twin, ledger>>

Evaluate(t) ==
  LET o == thread[t].op
  IN  /\ thread[t].pc = "evaluate"
      /\ IF Conflicts(o, thread[t].version, ServerEntity(o))
         THEN Answer(t, "CONFLICT")
         ELSE Go(t, "apply", Absent, Absent) /\ UNCHANGED ledger
      /\ UNCHANGED <<idem, inc, trail, twin>>

\* Slip: only the conflict engine asks whether the incident exists.
StartCreateUnchecked(t) ==
  LET o == thread[t].op
  IN  /\ thread[t].pc = "apply" /\ Creates(o)
      /\ IF o.body.form # "report" THEN Answer(t, "REJECTED")
         ELSE Go(t, "emit", Absent, Absent) /\ UNCHANGED ledger
      /\ UNCHANGED <<idem, inc, trail, twin>>

\* create_incident up to its first effect: the payload's own id must be new.
StartCreate(t) ==
  LET o == thread[t].op
  IN  /\ thread[t].pc = "apply" /\ Creates(o)
      /\ IF o.body.form # "report" THEN Answer(t, "REJECTED")
         ELSE IF inc[o.body.incident] # Absent THEN Answer(t, "REJECTED")
         ELSE Go(t, "emit", Absent, Absent) /\ UNCHANGED ledger
      /\ UNCHANGED <<idem, inc, trail, twin>>

Emit(t) ==
  LET i == thread[t].op.body.incident
  IN  /\ thread[t].pc = "emit"
      /\ twin' = DT!ApplyEvent(twin, i, CreatedBody(i))
      /\ Go(t, "store", Absent, Absent)
      /\ UNCHANGED <<idem, inc, trail, ledger>>

\* Slip: filed under the envelope's entity id instead of the report's own.
StoreUnderTarget(t) ==
  LET o == thread[t].op
  IN  /\ thread[t].pc = "store"
      /\ inc' = [inc EXCEPT ![o.target] = [version |-> 1, text |-> o.body.text]]
      /\ Go(t, "trail", Absent, Absent)
      /\ UNCHANGED <<idem, trail, twin, ledger>>

Store(t) ==
  LET o == thread[t].op
  IN  /\ thread[t].pc = "store"
      /\ inc' = [inc EXCEPT ![o.body.incident] = [version |-> 1, text |-> o.body.text]]
      /\ Go(t, "trail", Absent, Absent)
      /\ UNCHANGED <<idem, trail, twin, ledger>>

\* Slip: the trail is kept under the envelope's entity id.
StartTrailUnderTarget(t) ==
  /\ thread[t].pc = "trail"
  /\ trail' = [trail EXCEPT ![thread[t].op.target] = <<1>>]
  /\ Go(t, "save", Absent, Absent)
  /\ UNCHANGED <<idem, inc, twin, ledger>>

\* A new list, whatever stood there.
StartTrail(t) ==
  /\ thread[t].pc = "trail"
  /\ trail' = [trail EXCEPT ![thread[t].op.body.incident] = <<1>>]
  /\ Go(t, "save", Absent, Absent)
  /\ UNCHANGED <<idem, inc, twin, ledger>>

\* Slip: the stored record itself is changed, before the checks.
StartUpdateInPlace(t) ==
  LET o == thread[t].op
      r == inc[o.target]
      v == r.version + 1
  IN  /\ thread[t].pc = "apply" /\ Updates(o)
      /\ inc' = [inc EXCEPT ![o.target] = [version |-> v, text |-> r.text]]
      /\ IF ~Updatable(o) THEN Answer(t, "REJECTED")
         ELSE Go(t, "write", Absent, inc[o.target]) /\ UNCHANGED ledger
      /\ UNCHANGED <<idem, trail, twin>>

\* update_incident_details up to its write: a copy of the record is read.
StartUpdate(t) ==
  LET o == thread[t].op
  IN  /\ thread[t].pc = "apply" /\ Updates(o)
      /\ IF ~Updatable(o) THEN Answer(t, "REJECTED")
         ELSE Go(t, "write", Absent, inc[o.target]) /\ UNCHANGED ledger
      /\ UNCHANGED <<idem, inc, trail, twin>>

\* Slip: the change is not entered in the trail.
WriteUnaudited(t) ==
  LET o == thread[t].op
      r == thread[t].read
      x == NewText(o, r)
  IN  /\ thread[t].pc = "write"
      /\ inc' = IF x = r.text THEN inc
                ELSE [inc EXCEPT ![o.target] = [version |-> r.version + 1, text |-> x]]
      /\ Go(t, "save", Absent, Absent)
      /\ UNCHANGED <<idem, trail, twin, ledger>>

\* A copy that changed is written back over whatever is there by now.
Write(t) ==
  LET o == thread[t].op
      r == thread[t].read
      x == NewText(o, r)
  IN  /\ thread[t].pc = "write"
      /\ \/ x = r.text /\ Go(t, "save", Absent, Absent) /\ UNCHANGED inc
         \/ /\ x # r.text /\ Go(t, "audit", Absent, r)
            /\ inc' = [inc EXCEPT ![o.target] = [version |-> r.version + 1, text |-> x]]
      /\ UNCHANGED <<idem, trail, twin, ledger>>

\* The creation may not have got round to its trail: a KeyError, when the change is
\* already stored.
Audit(t) ==
  LET i == thread[t].op.target
  IN  /\ thread[t].pc = "audit"
      /\ \/ trail[i] = Absent /\ Answer(t, "REJECTED") /\ UNCHANGED trail
         \/ /\ trail[i] # Absent /\ Go(t, "save", Absent, Absent) /\ UNCHANGED ledger
            /\ trail' = [trail EXCEPT ![i] = Append(@, thread[t].read.version + 1)]
      /\ UNCHANGED <<idem, inc, twin>>

\* Supplies, evidence, status updates and deletions are only acknowledged.
Acknowledge(t) ==
  /\ thread[t].pc = "apply"
  /\ ~Creates(thread[t].op) /\ ~Updates(thread[t].op)
  /\ Go(t, "save", Absent, Absent)
  /\ UNCHANGED <<idem, inc, trail, twin, ledger>>

\* Slip: the outcome is not recorded.
SaveNothing(t) ==
  /\ thread[t].pc = "save"
  /\ Go(t, "log", Absent, Absent)
  /\ UNCHANGED <<idem, inc, trail, twin, ledger>>

Save(t) ==
  /\ thread[t].pc = "save"
  /\ idem' = [idem EXCEPT ![thread[t].op.id] = thread[t].op]
  /\ Go(t, "log", Absent, Absent)
  /\ UNCHANGED <<inc, trail, twin, ledger>>

Log(t) ==
  /\ thread[t].pc = "log"
  /\ Answer(t, "ACCEPTED")
  /\ UNCHANGED <<idem, inc, trail, twin>>

Step(t) ==
  \/ Check(t) \/ ReadVersion(t) \/ Evaluate(t)
  \/ StartCreate(t) \/ Emit(t) \/ Store(t) \/ StartTrail(t)
  \/ StartUpdate(t) \/ Write(t) \/ Audit(t) \/ Acknowledge(t)
  \/ Save(t) \/ Log(t)

Next ==
  \E t \in Thread : Step(t) \/ \E o \in Op, r \in Role : Receive(t, o, r)

Spec == Init /\ [][Next]_vars

--------------------------------------------------------------------------------
(* What holds for any number of workers *)

PipelinePc ==
  {"check", "version", "evaluate", "apply", "emit", "store", "trail", "write", "audit",
   "save", "log"}

\* Types of the shared state and of every worker.
TypeOK ==
  /\ idem \in [OpId -> Op \cup {Absent}]
  /\ inc \in [Id -> IncidentRecord \cup {Absent}]
  /\ trail \in [Id -> Seq(Nat) \cup {Absent}]
  /\ DT!IsManager(twin)
  /\ ledger \in Seq(LedgerEntry)
  /\ thread \in [Thread -> {Idle} \cup
       [pc : PipelinePc, op : Op, role : Role, version : Nat \cup {Absent},
        read : IncidentRecord \cup {Absent}]]

\* The incident a creating operation carries is on the server, twin included.
Created(o) ==
  Creates(o) => inc[o.body.incident] # Absent /\ twin.ent[o.body.incident] # Absent

\* No silent data loss (sync_protocol.md section 1): a report that was answered
\* ACCEPTED, or that its retransmission will be answered DUPLICATE, is stored.
AcceptedIsStored ==
  /\ \A n \in DOMAIN ledger : ledger[n].status = "ACCEPTED" => Created(ledger[n].op)
  /\ \A k \in OpId : idem[k] # Absent => Created(idem[k])

\* An operation with this id and payload was carried out and is in the audit
\* ledger or about to be.
CarriedOut(o) ==
  \/ \E n \in DOMAIN ledger :
       /\ ledger[n].status = "ACCEPTED"
       /\ ledger[n].op.id = o.id /\ ledger[n].op.body = o.body
  \/ \E t \in Thread :
       /\ thread[t].pc = "log"
       /\ thread[t].op.id = o.id /\ thread[t].op.body = o.body

\* DUPLICATE tells the client to drop its copy, so it is only answered for a
\* payload that really was accepted under this id.
DuplicateBacked ==
  \A n \in DOMAIN ledger : ledger[n].status = "DUPLICATE" => CarriedOut(ledger[n].op)

\* The two authorities on incidents agree but for creations under way: the twin
\* knows what the service has, and the service what the twin knows.
StoreFollowsTwin ==
  \A i \in Id :
    /\ inc[i] # Absent => twin.ent[i] # Absent
    /\ twin.ent[i] # Absent =>
         \/ inc[i] # Absent
         \/ \E t \in Thread : thread[t].pc = "store" /\ thread[t].op.body.incident = i

\* How many deliveries of these operations were carried out or are about to be.
Taken(ops) ==
  Cardinality({n \in DOMAIN ledger : ledger[n].status = "ACCEPTED" /\ ledger[n].op \in ops})
  + Cardinality({t \in Thread :
                   thread[t].pc \in {"audit", "save", "log"} /\ thread[t].op \in ops})

ReportsOf(i) == {o \in Op : Creates(o) /\ o.body.form = "report" /\ o.body.incident = i}
UpdatesOf(i) == {o \in Op : Updates(o) /\ o.target = i}

\* Every state an incident is in stands in its audit trail, or is about to. It may be
\* missing for good only where two creations raced, the second starting the trail
\* anew, or an update overtook the creation's trail and was told REJECTED for it.
TrailTells ==
  \A i \in Id : inc[i] # Absent =>
    \/ trail[i] # Absent /\ \E n \in DOMAIN trail[i] : trail[i][n] = inc[i].version
    \/ \E t \in Thread :
         \/ thread[t].pc = "trail" /\ thread[t].op.body.incident = i
         \/ thread[t].pc = "audit" /\ thread[t].op.target = i
    \/ Taken(ReportsOf(i)) > 1
    \/ \E n \in DOMAIN ledger :
         /\ ledger[n].status = "REJECTED" /\ ledger[n].op \in UpdatesOf(i)
         /\ ledger[n].op.body.form = "text"

--------------------------------------------------------------------------------
(* What holds when the operations are taken one by one *)

Promise == INSTANCE SyncPromise WITH
  answers <- ledger,
  Entitled <- {d \in Op \X Role : Admissible(d[1], d[2])}

\* Idempotent processing and collision detection (sync_protocol.md sections 1
\* and 3): the answers are those of SyncPromise.
KeepsPromise == Promise!Spec

\* A changed copy of an incident is written back over the record it was copied
\* from, never over another update (sync_protocol.md sections 1 and 6).
NoSilentOverwrite ==
  [][\A t \in Thread :
       thread[t].pc = "write" /\ thread'[t].pc = "audit"
       => inc[thread[t].op.target] = thread[t].read]_vars

\* What is told REJECTED has changed nothing: no version of an incident is there but
\* for the updates accepted, whichever step of an operation fails.
VersionAudited == \A i \in Id : inc[i] # Absent => inc[i].version <= 1 + Taken(UpdatesOf(i))

\* An incident's state_version never falls: a version a client was told of is
\* never given to another content.
VersionsGrow ==
  [][\A i \in Id :
       inc[i] # Absent /\ inc'[i] # inc[i] => inc'[i].version > inc[i].version]_vars

================================================================================
