----------------------------- MODULE Recommendations -----------------------------
(***************************************************************************)
(* RecommendationService and its AuditLedger (services/recommendations):   *)
(* proposals of the engines, saved as PENDING, viewed, approved, rejected  *)
(* or expired, each under the service's lock.                              *)
(*                                                                         *)
(* The lock covers neither the Digital Twin, whose version decides whether *)
(* a proposal is fresh, nor the facility and incident services that say    *)
(* whether its target is still fit, nor the look into the idempotency map  *)
(* that opens every decision. An approval reads the version first and its  *)
(* target's record later; both move meanwhile.                             *)
(*                                                                         *)
(* All proposals here are for one incident, so that a target's name is the *)
(* recommendation's id, too: REC-PRIO-<incident>,                          *)
(* REC-HOSP-<incident>-<hospital>, REC-SHELTER-<incident>-<shelter>.       *)
(***************************************************************************)
EXTENDS Integers, Sequences

CONSTANTS
  Thread,                  \* worker threads
  Hospital, Shelter, Zone, \* targets of recommendations
  Default,                 \* those the route makes up when nothing is registered
  Generation,              \* requests to generate: role and execution mode
  Decide,                  \* requests to approve or reject
  Acting,                  \* roles of the others
  Key,                     \* the clients' idempotency keys
  Status, Places,          \* statuses and free places the services may report
  MaxVersion,              \* bound: version of the twin
  MaxEvents,               \* bound: length of the audit ledger where it still grows
  Absent                   \* no entry, None

Rec == Hospital \cup Shelter \cup Zone

Role == {"VIEWER", "FIELD_OFFICER", "OPERATOR", "APPROVER", "COMMANDER", "ADMIN"}
ApprovalStatus == {"PENDING", "APPROVED", "REJECTED", "EXPIRED"}
EventType == {"CREATED", "VIEWED", "APPROVED", "REJECTED", "EXPIRED", "BLOCKED"}
Mode == {"REAL_DATA", "SIMULATION", "DEMO"}
Simulated == {"SIMULATION", "DEMO"}

HospitalStatus == {"OPERATIONAL", "OVERLOADED", "EVACUATING", "CLOSED"}
ShelterStatus == {"OPEN", "AT_CAPACITY", "STANDBY", "CLOSED"}
IncidentStatus == {"OPEN", "ACKNOWLEDGED", "IN_PROGRESS", "RESOLVED", "CANCELLED"}

\* What the services store of a target.
Condition ==
  [status : HospitalStatus \cup ShelterStatus, free : Places] \cup [status : IncidentStatus]
ConditionOf(r) ==
  IF r \in Hospital THEN [status : HospitalStatus \cap Status, free : Places]
  ELSE IF r \in Shelter THEN [status : ShelterStatus \cap Status, free : Places]
  ELSE [status : IncidentStatus \cap Status]

Version == 0..MaxVersion
Recommendation == [status : ApprovalStatus, source : Version, mode : Mode]
AuditEvent == [type : EventType, rec : Rec, source : Version \cup {Absent}, current : Version,
               mode : Mode \cup {Absent}]
Decision == [rec : Rec, decision : {"APPROVED", "REJECTED"}, key : Key,
             source : Version, current : Version, at : Nat]

\* What a client sends to approve or to reject.
DecisionRequest ==
  [op : {"approve", "reject"}, rec : Rec, role : Role, key : Key \cup {Absent}]

ASSUME TargetsApart ==
  /\ Hospital \cap (Shelter \cup Zone) = {} /\ Shelter \cap Zone = {}
  /\ Default \subseteq Rec
ASSUME InputsTyped ==
  /\ Acting \subseteq Role /\ Places \subseteq Nat
  /\ Generation \subseteq [role : Role, mode : Mode]
  /\ Decide \subseteq DecisionRequest
  /\ MaxVersion \in Nat /\ MaxEvents \in Nat
ASSUME AbsentIsNew ==
  /\ Absent \notin Recommendation /\ Absent \notin Condition /\ Absent \notin Version
  /\ Absent \notin Key /\ Absent \notin Decision /\ Absent \notin Mode
  /\ Absent \notin Thread

VARIABLES
  version,    \* digital_twin.state_version
  condition,  \* the facility and incident services' records of the targets
  recs,       \* RecommendationService._recommendations and _metadata_map
  ledger,     \* AuditLedger._events
  idem,       \* AuditLedger._idempotency_map
  lock,       \* RecommendationService._lock: its holder between two steps
  thread      \* each worker's request and what it has read

vars == <<version, condition, recs, ledger, idem, lock, thread>>

--------------------------------------------------------------------------------
(* Permissions and transitions *)

\* ROLE_PERMISSIONS
Permitted(role) ==
  CASE role = "VIEWER"        -> {"view", "audit"}
    [] role = "FIELD_OFFICER" -> {"view"}
    [] role = "OPERATOR"      -> {"view", "generate", "audit"}
    [] role = "APPROVER"      -> {"view", "approve", "reject", "audit"}
    [] OTHER                  -> {"view", "generate", "approve", "reject", "expire", "audit"}

\* RecommendationStateMachine: everything but PENDING is terminal.
Transitions(status) ==
  IF status = "PENDING" THEN {"APPROVED", "REJECTED", "EXPIRED"} ELSE {}
CanBecome(r, status) == recs[r] # Absent /\ status \in Transitions(recs[r].status)

--------------------------------------------------------------------------------
(* What the engines propose *)

\* validate_hospital_candidate, validate_shelter_candidate (for ten evacuees) and
\* validate_incident_candidate; an evacuating hospital passes.
Selectable(r) ==
  /\ condition[r] # Absent
  /\ r \in Hospital => condition[r].status # "CLOSED" /\ condition[r].free >= 1
  /\ r \in Shelter => condition[r].status # "CLOSED" /\ condition[r].free >= 10
  /\ r \in Zone => condition[r].status \notin {"RESOLVED", "CANCELLED"}

\* The best-scored hospital or shelter (the scores are left out), all incidents.
ReceivingHospital == {{h} : h \in {x \in Hospital : Selectable(x)}}
EvacuationShelter == {{s} : s \in {x \in Shelter : Selectable(x)}}
PrioritizedIncidents == {{z \in Zone : Selectable(z)}} \ {{}}

\* OperationalRecommendationEngine.generate_recommendations
Proposals == ReceivingHospital \cup EvacuationShelter \cup PrioritizedIncidents

\* The route validates the stores' records against schemas that forbid the fields
\* the stores add, so it only gets past that while the stores are empty.
RouteProposals ==
  IF \A r \in Rec : condition[r] = Absent THEN {{r} : r \in Default} ELSE {}

--------------------------------------------------------------------------------
(* The audit ledger *)

Event(type, r, source, current, mode) ==
  [type |-> type, rec |-> r, source |-> source, current |-> current, mode |-> mode]

\* Events of a recommendation carry its source version.
EventFor(type, r) == Event(type, r, recs[r].source, version, Absent)

Blocked(r) ==
  Event("BLOCKED", r, IF recs[r] = Absent THEN Absent ELSE recs[r].source, version, Absent)

\* save_decision_record; the records themselves are read through the map alone.
\* "at" stands for the decision's timestamp: its event's place in the ledger.
Recorded(r, decision, key, current) ==
  IF key = Absent THEN idem
  ELSE [idem EXCEPT ![key] =
         [rec |-> r, decision |-> decision, key |-> key, source |-> recs[r].source,
          current |-> current, at |-> Len(ledger) + 1]]

--------------------------------------------------------------------------------

Idle == [pc |-> "idle"]

Init ==
  /\ version = 0
  /\ condition = [r \in Rec |-> Absent]
  /\ recs = [r \in Rec |-> Absent]
  /\ ledger = <<>>
  /\ idem = [k \in Key |-> Absent]
  /\ lock = Absent
  /\ thread = [t \in Thread |-> Idle]

\* Slip: the service's methods do not exclude each other.
FreeAlways == TRUE

Free == lock = Absent

Room == Len(ledger) < MaxEvents

Become(r, status) == recs' = [recs EXCEPT ![r].status = status]
Log(events) == ledger' = ledger \o events
Go(t, state) == thread' = [thread EXCEPT ![t] = state]

\* Other parts of the system move the twin and the stores.
TwinAdvances ==
  /\ version < MaxVersion /\ Room
  /\ version' = version + 1
  /\ UNCHANGED <<condition, recs, ledger, idem, lock, thread>>

StoreChanges(r, c) ==
  /\ Room
  /\ condition' = [condition EXCEPT ![r] = c]
  /\ UNCHANGED <<version, recs, ledger, idem, lock, thread>>

\* The candidates are read ...
Generate(t, g) ==
  /\ thread[t].pc = "idle" /\ Room
  /\ "generate" \in Permitted(g.role)
  /\ \E batch \in Proposals \cup RouteProposals :
       Go(t, [pc |-> "stamp", batch |-> batch, mode |-> g.mode])
  /\ UNCHANGED <<version, condition, recs, ledger, idem, lock>>

\* ... then the version they are stamped with ...
Stamp(t) ==
  /\ thread[t].pc = "stamp"
  /\ Go(t, [pc |-> "save", batch |-> thread[t].batch, mode |-> thread[t].mode,
            source |-> version])
  /\ UNCHANGED <<version, condition, recs, ledger, idem, lock>>

\* Slip: the stored copy is not stamped.
SaveUnstamped(t, r) ==
  LET x == thread[t]
  IN  /\ x.pc = "save" /\ Free /\ Room /\ r \in x.batch
      /\ recs' = [recs EXCEPT ![r] = [status |-> "PENDING", source |-> Absent, mode |-> x.mode]]
      /\ Log(<<Event("CREATED", r, x.source, version, x.mode)>>)
      /\ Go(t, IF x.batch = {r} THEN Idle ELSE [x EXCEPT !.batch = @ \ {r}])
      /\ UNCHANGED <<version, condition, idem, lock>>

\* ... and each is saved over whatever its id held before, a decision included.
SaveRecommendation(t, r) ==
  LET x == thread[t]
  IN  /\ x.pc = "save" /\ Free /\ Room /\ r \in x.batch
      /\ recs' = [recs EXCEPT ![r] = [status |-> "PENDING", source |-> x.source, mode |-> x.mode]]
      /\ Log(<<Event("CREATED", r, x.source, version, x.mode)>>)
      /\ Go(t, IF x.batch = {r} THEN Idle ELSE [x EXCEPT !.batch = @ \ {r}])
      /\ UNCHANGED <<version, condition, idem, lock>>

\* Slip: whatever is stale expires, decided or not.
StaleAnyhow(r) == recs[r] # Absent /\ recs[r].source # version

Stale(r) == recs[r] # Absent /\ recs[r].status = "PENDING" /\ recs[r].source # version

GetRecommendation(r) ==
  /\ Free /\ Room /\ recs[r] # Absent
  /\ IF Stale(r)
     THEN Become(r, "EXPIRED") /\ Log(<<EventFor("EXPIRED", r), EventFor("VIEWED", r)>>)
     ELSE Log(<<EventFor("VIEWED", r)>>) /\ UNCHANGED recs
  /\ UNCHANGED <<version, condition, idem, lock, thread>>

\* One stale entry after another expires, in the order they were first saved.
ListRecommendations ==
  /\ Free /\ Room
  /\ \E order \in {s \in UNION {[1..n -> Rec] : n \in 1..MaxEvents} :
                     /\ \A i, j \in DOMAIN s : s[i] = s[j] => i = j
                     /\ {s[i] : i \in DOMAIN s} = {r \in Rec : Stale(r)}} :
       /\ recs' = [r \in Rec |-> IF Stale(r) THEN [recs[r] EXCEPT !.status = "EXPIRED"] ELSE recs[r]]
       /\ Log([i \in DOMAIN order |-> EventFor("EXPIRED", order[i])])
  /\ UNCHANGED <<version, condition, idem, lock, thread>>

\* A decision starts outside the lock: one already recorded under its key, for this
\* recommendation, is answered at once.
Ask(t, d) ==
  /\ thread[t].pc = "idle" /\ Room
  /\ ~(d.key # Absent /\ idem[d.key] # Absent /\ idem[d.key].rec = d.rec /\ recs[d.rec] # Absent)
  /\ Go(t, [pc |-> d.op, rec |-> d.rec, role |-> d.role, key |-> d.key])
  /\ UNCHANGED <<version, condition, recs, ledger, idem, lock>>

\* approve_recommendation up to its preconditions: who may not is blocked, what is
\* no longer pending or only simulated refused, what is stale expired.
ApproveRecommendation(t) ==
  LET r == thread[t].rec
  IN  /\ thread[t].pc = "approve" /\ Free /\ Room
      /\ \/ /\ "approve" \notin Permitted(thread[t].role)
            /\ Log(<<Blocked(r)>>) /\ Go(t, Idle) /\ UNCHANGED <<recs, lock>>
         \/ /\ "approve" \in Permitted(thread[t].role)
            /\ ~CanBecome(r, "APPROVED")
            /\ Go(t, Idle) /\ UNCHANGED <<recs, ledger, lock>>
         \/ /\ "approve" \in Permitted(thread[t].role)
            /\ CanBecome(r, "APPROVED") /\ recs[r].source # version
            /\ Become(r, "EXPIRED") /\ Log(<<Blocked(r), EventFor("EXPIRED", r)>>)
            /\ Go(t, Idle) /\ UNCHANGED lock
         \/ /\ "approve" \in Permitted(thread[t].role)
            /\ CanBecome(r, "APPROVED") /\ recs[r].source = version
            /\ recs[r].mode \in Simulated
            /\ Go(t, Idle) /\ UNCHANGED <<recs, ledger, lock>>
         \/ /\ "approve" \in Permitted(thread[t].role)
            /\ CanBecome(r, "APPROVED") /\ recs[r].source = version
            /\ recs[r].mode \notin Simulated
            /\ lock' = t
            /\ Go(t, [pc |-> "commit", rec |-> r, key |-> thread[t].key, current |-> version])
            /\ UNCHANGED <<recs, ledger>>
      /\ UNCHANGED <<version, condition, idem>>

\* _validate_operational_preconditions; what the services do not know passes, and
\* a facility's incident is not asked about.
Unfit(r) ==
  /\ condition[r] # Absent
  /\ \/ r \in Hospital /\ (condition[r].status \in {"CLOSED", "EVACUATING"} \/ condition[r].free <= 0)
     \/ r \in Shelter /\ (condition[r].status \in {"CLOSED", "AT_CAPACITY"} \/ condition[r].free <= 0)
     \/ r \in Zone /\ condition[r].status \in {"RESOLVED", "CANCELLED"}

\* Slip: the event is written before the preconditions are looked at.
CommitLoggedFirst(t) ==
  LET r == thread[t].rec
      e == Event("APPROVED", r, recs[r].source, thread[t].current, Absent)
  IN  /\ thread[t].pc = "commit"
      /\ Log(<<e>>)
      /\ IF Unfit(r)
         THEN Become(r, "EXPIRED") /\ UNCHANGED idem
         ELSE /\ Become(r, "APPROVED")
              /\ idem' = Recorded(r, "APPROVED", thread[t].key, thread[t].current)
      /\ lock' = Absent /\ Go(t, Idle)
      /\ UNCHANGED <<version, condition>>

\* The rest of approve_recommendation. An unfit target expires it unrecorded.
CommitApproval(t) ==
  LET r == thread[t].rec
      e == Event("APPROVED", r, recs[r].source, thread[t].current, Absent)
  IN  /\ thread[t].pc = "commit"
      /\ IF Unfit(r)
         THEN Become(r, "EXPIRED") /\ UNCHANGED <<ledger, idem>>
         ELSE /\ Become(r, "APPROVED") /\ Log(<<e>>)
              /\ idem' = Recorded(r, "APPROVED", thread[t].key, thread[t].current)
      /\ lock' = Absent /\ Go(t, Idle)
      /\ UNCHANGED <<version, condition>>

\* Slip: the transition is not validated.
RejectAnyStatus(t) ==
  LET r == thread[t].rec
  IN  /\ thread[t].pc = "reject" /\ Free /\ Room
      /\ "reject" \in Permitted(thread[t].role) /\ recs[r] # Absent
      /\ Become(r, "REJECTED") /\ Log(<<EventFor("REJECTED", r)>>)
      /\ idem' = Recorded(r, "REJECTED", thread[t].key, version)
      /\ Go(t, Idle)
      /\ UNCHANGED <<version, condition, lock>>

\* A rejection may come at any version and needs no preconditions.
RejectRecommendation(t) ==
  LET r == thread[t].rec
  IN  /\ thread[t].pc = "reject" /\ Free /\ Room
      /\ \/ /\ "reject" \notin Permitted(thread[t].role)
            /\ Log(<<Blocked(r)>>) /\ UNCHANGED <<recs, idem>>
         \/ /\ "reject" \in Permitted(thread[t].role)
            /\ ~CanBecome(r, "REJECTED")
            /\ UNCHANGED <<recs, ledger, idem>>
         \/ /\ "reject" \in Permitted(thread[t].role)
            /\ CanBecome(r, "REJECTED")
            /\ Become(r, "REJECTED") /\ Log(<<EventFor("REJECTED", r)>>)
            /\ idem' = Recorded(r, "REJECTED", thread[t].key, version)
      /\ Go(t, Idle)
      /\ UNCHANGED <<version, condition, lock>>

ExpireRecommendation(r, role) ==
  /\ Free /\ Room
  /\ "expire" \in Permitted(role)
  /\ CanBecome(r, "EXPIRED")
  /\ Become(r, "EXPIRED") /\ Log(<<EventFor("EXPIRED", r)>>)
  /\ UNCHANGED <<version, condition, idem, lock, thread>>

Next ==
  \/ TwinAdvances
  \/ \E r \in Rec : \E c \in ConditionOf(r) : StoreChanges(r, c)
  \/ \E t \in Thread :
       \/ \E g \in Generation : Generate(t, g)
       \/ Stamp(t)
       \/ \E r \in Rec : SaveRecommendation(t, r)
       \/ \E d \in Decide : Ask(t, d)
       \/ ApproveRecommendation(t) \/ CommitApproval(t) \/ RejectRecommendation(t)
  \/ \E r \in Rec : GetRecommendation(r)
  \/ ListRecommendations
  \/ \E r \in Rec, role \in Acting : ExpireRecommendation(r, role)

Spec == Init /\ [][Next]_vars

--------------------------------------------------------------------------------

\* Types of the service's state and of every worker.
TypeOK ==
  /\ version \in Version
  /\ condition \in [Rec -> Condition \cup {Absent}]
  /\ recs \in [Rec -> Recommendation \cup {Absent}]
  /\ ledger \in Seq(AuditEvent)
  /\ idem \in [Key -> Decision \cup {Absent}]
  /\ lock \in Thread \cup {Absent}
  /\ thread \in [Thread ->
       {Idle} \cup [pc : {"stamp"}, batch : SUBSET Rec, mode : Mode]
         \cup [pc : {"save"}, batch : SUBSET Rec, mode : Mode, source : Version]
         \cup [pc : {"approve", "reject"}, rec : Rec, role : Role,
               key : Key \cup {Absent}]
         \cup [pc : {"commit"}, rec : Rec, key : Key \cup {Absent}, current : Version]]

\* The events that say what a recommendation has become.
StatusEvents(r) ==
  {n \in DOMAIN ledger :
     ledger[n].rec = r /\ ledger[n].type \in {"CREATED", "APPROVED", "REJECTED", "EXPIRED"}}

\* n is the last of r's status events, or the last before m.
IsLast(n, r) == n \in StatusEvents(r) /\ \A i \in StatusEvents(r) : i <= n
Precedes(n, m, r) ==
  n \in StatusEvents(r) /\ n < m /\ \A i \in StatusEvents(r) : i <= n \/ i >= m

\* "The system records what happened" (human-approval-audit.md section 1): the last
\* event of a recommendation tells its status; only the expiry of an unfit target
\* goes unrecorded, which leaves CREATED as the last one.
LedgerTellsStatus ==
  \A r \in Rec : recs[r] # Absent =>
    \E n \in DOMAIN ledger :
      /\ IsLast(n, r)
      /\ ledger[n].source = recs[r].source
      /\ CASE recs[r].status = "PENDING" -> ledger[n].type = "CREATED"
           [] recs[r].status = "EXPIRED" -> ledger[n].type \in {"EXPIRED", "CREATED"}
           [] OTHER                      -> ledger[n].type = recs[r].status

\* Every issue is decided once, whoever races for it: the status event before an
\* approval, rejection or expiry is the proposal's creation; and an approval is of a
\* live proposal made at the very version the approver's check has read.
DecisionsAnswerIssues ==
  \A m \in DOMAIN ledger :
    LET e == ledger[m]
    IN  e.type \in {"APPROVED", "REJECTED", "EXPIRED"} =>
          \E n \in DOMAIN ledger :
            /\ Precedes(n, m, e.rec)
            /\ ledger[n].type = "CREATED" /\ ledger[n].source = e.source
            /\ e.type = "APPROVED" => e.current = e.source /\ ledger[n].mode \notin Simulated

\* "Repeated approval requests with the same idempotency_key return the cached
\* RecommendationDecisionRecord" (human-approval-audit.md section 6): what a retry
\* is answered has the status decided then, unless it was proposed anew since.
CachedAnswerTrue ==
  \A k \in Key : idem[k] # Absent =>
    LET d == idem[k]
    IN  \/ recs[d.rec].status = d.decision /\ IsLast(d.at, d.rec)
        \/ \E n \in StatusEvents(d.rec) : n > d.at /\ ledger[n].type = "CREATED"

\* APPROVED, REJECTED and EXPIRED are terminal (state_machine.py) until the same id
\* is proposed anew, which the ledger then shows.
TerminalStep ==
  \A r \in Rec :
    \/ recs[r] = Absent \/ recs[r].status = "PENDING"
    \/ recs'[r] = recs[r]
    \/ /\ Len(ledger') > Len(ledger)
       /\ ledger'[Len(ledger')].type = "CREATED" /\ ledger'[Len(ledger')].rec = r

TerminalUntilReissued == [][TerminalStep]_vars

================================================================================
