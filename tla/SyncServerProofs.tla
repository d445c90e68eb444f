--------------------------- MODULE SyncServerProofs ----------------------------
(* Theorems about the sync server, for any number of workers, operations and   *)
(* incidents: types, what ACCEPTED and DUPLICATE mean, the agreement of the     *)
(* incident service with its twin, what an audit trail tells and, for           *)
(* operations taken one by one, that the server keeps SyncPromise, that         *)
(* versions grow and that each of them was accepted.                            *)
EXTENDS SyncServer, FiniteSetTheorems, SequenceTheorems, TLAPS

--------------------------------------------------------------------------------
(* Types *)

Worker == [pc : PipelinePc, op : Op, role : Role, version : Nat \cup {Absent},
           read : IncidentRecord \cup {Absent}]

\* A worker that is not idle carries an operation.
LEMMA BusyTyped ==
  ASSUME TypeOK, NEW t \in Thread, thread[t].pc # "idle"
  PROVE  /\ thread[t] \in Worker
         /\ thread[t].op \in Op /\ thread[t].role \in Role
         /\ thread[t].op \in Operation
<1>1. thread[t] \in {Idle} \cup Worker
  BY DEF TypeOK, Worker
<1>2. thread[t] \in Worker
  BY <1>1 DEF Idle
<1> QED BY <1>2, OpsTyped DEF Worker

LEMMA OperationTyped ==
  ASSUME NEW o \in Op
  PROVE  /\ o.id \in OpId /\ o.target \in Id /\ o.body \in Body
         /\ o.entity \in EntityType /\ o.type \in OperationType
         /\ o # Absent
BY OpsTyped, AbsentIsNew DEF Operation

\* Only reports name an incident of their own.
LEMMA BodyTyped ==
  ASSUME NEW b \in Body
  PROVE  /\ b.form = "report" => b.incident \in Id /\ b.text \in Text
         /\ b.form = "text" => b.text \in Text
BY DEF Body

\* What emitting IncidentCreated does to the twin: the incident is there
\* afterwards unless its event id had been used before, and nothing else changes.
LEMMA EmitEffect ==
  ASSUME NEW m, DT!IsManager(m), NEW i \in Id
  PROVE  LET u == DT!ApplyEvent(m, i, CreatedBody(i))
         IN  /\ DT!IsManager(u)
             /\ i \in m.seen => u = m
             /\ i \notin m.seen =>
                  u.ent = [m.ent EXCEPT ![i] = "OPEN"] /\ u.seen = m.seen \cup {i}
<1> DEFINE p == CreatedBody(i)
           u == DT!ApplyEvent(m, i, p)
<1>1. p.kind = "created" /\ p.key = i /\ p.status = "OPEN"
  BY DEF CreatedBody
<1>2. u = DT!Handle(m, i, p)
  BY <1>1 DEF DT!ApplyEvent, DT!Cascades
<1>3. ~DT!Rejected(m, p) /\ ~DT!NoOp(m, p)
  BY <1>1 DEF DT!Rejected, DT!NoOp
<1>4. CASE i \in m.seen
  BY <1>2, <1>3, <1>4 DEF DT!Handle, DT!Applies
<1>5. CASE i \notin m.seen
  <2>1. u = DT!Commit(m, i, p)
    BY <1>2, <1>3, <1>5 DEF DT!Handle, DT!Applies
  <2>2. DT!Target(m, p) = "OPEN"
    BY <1>1 DEF DT!Target
  <2> DEFINE e == [id |-> i, body |-> p, version |-> m.version + 1]
  <2>3. u = DT!Manager(m.version + 1, [m.ent EXCEPT ![i] = "OPEN"], m.seen \cup {i},
                       Append(m.log, e), DT!OverlayWith(m, i, "OPEN"))
    BY <1>1, <2>1, <2>2 DEF DT!Commit
  <2>4. /\ u.version = m.version + 1 /\ u.ent = [m.ent EXCEPT ![i] = "OPEN"]
        /\ u.seen = m.seen \cup {i} /\ u.log = Append(m.log, e)
        /\ u.overlay = DT!OverlayWith(m, i, "OPEN")
    BY <2>3 DEF DT!Manager
  <2>5. u = DT!Manager(u.version, u.ent, u.seen, u.log, u.overlay)
    BY <2>3, <2>4
  <2>6. p \in DT!AnyPayload
    BY <1>1 DEF CreatedBody, DT!AnyPayload, DT!IncidentPayload, DT!IncidentStatus
  <2>7. e \in DT!LogEntry
    BY <2>6 DEF DT!LogEntry, DT!AnyEventId, DT!IsManager
  <2>8. u.log \in Seq(DT!LogEntry)
    BY <2>4, <2>7 DEF DT!IsManager
  <2>9. DT!OverlayWith(m, i, "OPEN") = m.overlay
    BY DEF DT!OverlayWith, DT!IsManager
  <2>10. i \in DT!Key /\ DT!Key = Id
    BY DEF DT!Key
  <2>11. u.ent = [k \in DT!Key |-> u.ent[k]]
    BY <2>4 DEF DT!IsManager
  <2>12. \A k \in DT!Key : u.ent[k] \in DT!EntityOf(k) \cup {Absent}
    <3>1. "OPEN" \in DT!EntityOf(i)
      BY DEF DT!EntityOf, DT!IncidentStatus
    <3> QED BY <2>4, <3>1 DEF DT!IsManager
  <2> HIDE DEF u, p
  <2>13. DT!IsManager(u)
    BY <2>4, <2>5, <2>8, <2>9, <2>10, <2>11, <2>12 DEF DT!IsManager, DT!AnyEventId
  <2> QED BY <1>5, <2>4, <2>13 DEF u, p
<1> QED BY <1>4, <1>5

--------------------------------------------------------------------------------
(* Type correctness *)

LEMMA InitTypeOK == Init => TypeOK
<1> SUFFICES ASSUME Init PROVE TypeOK
  OBVIOUS
<1>1. DT!IsManager(twin)
  BY DEF Init, DT!NewManager, DT!Manager, DT!IsManager
<1>2. ledger \in Seq(LedgerEntry)
  BY DEF Init
<1> QED BY <1>1, <1>2 DEF Init, TypeOK, Idle

\* The two ways a step ends.
LEMMA AnswerType ==
  ASSUME TypeOK, NEW t \in Thread, thread[t].pc # "idle", NEW s \in Status, Answer(t, s)
  PROVE  /\ ledger' \in Seq(LedgerEntry)
         /\ thread' \in [Thread -> {Idle} \cup Worker]
<1>1. [op |-> thread[t].op, role |-> thread[t].role, status |-> s] \in LedgerEntry
  BY BusyTyped DEF LedgerEntry
<1>2. ledger \in Seq(LedgerEntry)
  BY DEF TypeOK
<1>3. ledger' \in Seq(LedgerEntry)
  BY <1>1, <1>2 DEF Answer
<1>4. thread \in [Thread -> {Idle} \cup Worker]
  BY DEF TypeOK, Worker
<1> QED BY <1>3, <1>4 DEF Answer

LEMMA GoType ==
  ASSUME TypeOK, NEW t \in Thread, thread[t].pc # "idle", NEW pc \in PipelinePc,
         NEW v \in Nat \cup {Absent}, NEW i \in IncidentRecord \cup {Absent}, Go(t, pc, v, i)
  PROVE  thread' \in [Thread -> {Idle} \cup Worker]
<1>1. At(pc, thread[t].op, thread[t].role, v, i) \in Worker
  BY BusyTyped DEF At, Worker
<1>2. thread \in [Thread -> {Idle} \cup Worker]
  BY DEF TypeOK, Worker
<1> QED BY <1>1, <1>2 DEF Go

\* What the steps before have established for a worker's next one.
Entered ==
  \A t \in Thread :
    /\ thread[t].pc \in {"emit", "store", "trail"} =>
         Creates(thread[t].op) /\ thread[t].op.body.form = "report"
    /\ thread[t].pc = "apply" /\ Updates(thread[t].op) => inc[thread[t].op.target] # Absent
    /\ thread[t].pc \in {"write", "audit"} =>
         /\ Updates(thread[t].op) /\ inc[thread[t].op.target] # Absent
         /\ thread[t].read # Absent
    /\ thread[t].pc = "audit" => thread[t].op.body.form = "text"

LEMMA TypeStep == TypeOK /\ Entered /\ [Next]_vars => TypeOK'
<1> SUFFICES ASSUME TypeOK, Entered, [Next]_vars PROVE TypeOK'
  OBVIOUS
<1> USE DEF Status
<1>0. thread \in [Thread -> {Idle} \cup Worker]
  BY DEF TypeOK, Worker
<1>1. ASSUME NEW t \in Thread, NEW o \in Op, NEW r \in Role, Receive(t, o, r) PROVE TypeOK'
  <2>1. At("check", o, r, Absent, Absent) \in Worker
    BY DEF At, Worker, PipelinePc
  <2>2. thread' \in [Thread -> {Idle} \cup Worker]
    BY <1>0, <1>1, <2>1 DEF Receive
  <2> QED BY <1>1, <2>2 DEF Receive, TypeOK, Worker
<1>2. ASSUME NEW t \in Thread, Check(t) PROVE TypeOK'
  <2>1. thread[t].pc # "idle"
    BY <1>2 DEF Check
  <2>2. ledger' \in Seq(LedgerEntry) /\ thread' \in [Thread -> {Idle} \cup Worker]
    <3>1. CASE \E s \in Status : Answer(t, s)
      BY <2>1, <3>1, AnswerType
    <3>2. CASE Go(t, "version", Absent, Absent) /\ UNCHANGED ledger
      BY <2>1, <3>2, GoType DEF PipelinePc, TypeOK
    <3> QED BY <1>2, <3>1, <3>2 DEF Check
  <2> QED BY <1>2, <2>2 DEF Check, TypeOK, Worker
<1>3. ASSUME NEW t \in Thread, ReadVersion(t) PROVE TypeOK'
  <2>1. twin.version \in Nat
    BY DEF TypeOK, DT!IsManager
  <2>2. thread' \in [Thread -> {Idle} \cup Worker]
    BY <1>3, <2>1, GoType DEF ReadVersion, PipelinePc
  <2> QED BY <1>3, <2>2 DEF ReadVersion, TypeOK, Worker
<1>4. ASSUME NEW t \in Thread, Evaluate(t) PROVE TypeOK'
  <2>1. ledger' \in Seq(LedgerEntry) /\ thread' \in [Thread -> {Idle} \cup Worker]
    <3>1. CASE Answer(t, "CONFLICT")
      BY <1>4, <3>1, AnswerType DEF Evaluate
    <3>2. CASE Go(t, "apply", Absent, Absent) /\ UNCHANGED ledger
      BY <1>4, <3>2, GoType DEF Evaluate, PipelinePc, TypeOK
    <3> QED BY <1>4, <3>1, <3>2 DEF Evaluate
  <2> QED BY <1>4, <2>1 DEF Evaluate, TypeOK, Worker
<1>5. ASSUME NEW t \in Thread, StartCreate(t) PROVE TypeOK'
  <2>1. ledger' \in Seq(LedgerEntry) /\ thread' \in [Thread -> {Idle} \cup Worker]
    <3>1. CASE Answer(t, "REJECTED")
      BY <1>5, <3>1, AnswerType DEF StartCreate
    <3>2. CASE Go(t, "emit", Absent, Absent) /\ UNCHANGED ledger
      BY <1>5, <3>2, GoType DEF StartCreate, PipelinePc, TypeOK
    <3> QED BY <1>5, <3>1, <3>2 DEF StartCreate
  <2> QED BY <1>5, <2>1 DEF StartCreate, TypeOK, Worker
<1>8. ASSUME NEW t \in Thread, StartUpdate(t) PROVE TypeOK'
  <2>1. ledger' \in Seq(LedgerEntry) /\ thread' \in [Thread -> {Idle} \cup Worker]
    <3>1. CASE Answer(t, "REJECTED")
      BY <1>8, <3>1, AnswerType DEF StartUpdate
    <3>2. CASE Go(t, "write", Absent, inc[thread[t].op.target]) /\ UNCHANGED ledger
      <4>1. inc[thread[t].op.target] \in IncidentRecord \cup {Absent}
        BY <1>8, BusyTyped, OperationTyped DEF StartUpdate, TypeOK
      <4> QED BY <1>8, <3>2, <4>1, GoType DEF StartUpdate, PipelinePc, TypeOK
    <3> QED BY <1>8, <3>1, <3>2 DEF StartUpdate
  <2> QED BY <1>8, <2>1 DEF StartUpdate, TypeOK, Worker
<1>6. ASSUME NEW t \in Thread, Emit(t) PROVE TypeOK'
  <2>1. thread[t].op.body.incident \in Id
    BY <1>6, BusyTyped, OperationTyped, BodyTyped DEF Emit, Entered
  <2>2. DT!IsManager(DT!ApplyEvent(twin, thread[t].op.body.incident,
                                   CreatedBody(thread[t].op.body.incident)))
    BY <2>1, EmitEffect DEF TypeOK
  <2>3. DT!IsManager(twin')
    BY <1>6, <2>2 DEF Emit
  <2>4. thread' \in [Thread -> {Idle} \cup Worker]
    BY <1>6, GoType DEF Emit, PipelinePc
  <2>5. DT!IsManager(twin)'
    BY <2>3 DEF DT!IsManager, DT!Manager
  <2> QED BY <1>6, <2>4, <2>5 DEF Emit, TypeOK, Worker
<1>7. ASSUME NEW t \in Thread, Store(t) PROVE TypeOK'
  <2>1. thread[t].op.body.incident \in Id /\ thread[t].op.body.text \in Text
    BY <1>7, BusyTyped, OperationTyped, BodyTyped DEF Store, Entered
  <2>2. [version |-> 1, text |-> thread[t].op.body.text] \in IncidentRecord
    BY <2>1 DEF IncidentRecord
  <2>3. thread' \in [Thread -> {Idle} \cup Worker]
    BY <1>7, GoType DEF Store, PipelinePc
  <2>4. inc' \in [Id -> IncidentRecord \cup {Absent}]
    BY <1>7, <2>2 DEF Store, TypeOK
  <2> QED BY <1>7, <2>3, <2>4 DEF Store, TypeOK, Worker
<1>9. ASSUME NEW t \in Thread, Write(t) PROVE TypeOK'
  <2> DEFINE o == thread[t].op
             r == thread[t].read
  <2>1. o.body \in Body /\ r \in IncidentRecord
    BY <1>9, BusyTyped, OperationTyped DEF Write, Entered, Worker
  <2>2. NewText(o, r) \in Text /\ r.version + 1 \in Nat
    BY <2>1, BodyTyped DEF NewText, IncidentRecord
  <2> DEFINE new == [version |-> r.version + 1, text |-> NewText(o, r)]
  <2>3. new \in IncidentRecord
    BY <2>2 DEF IncidentRecord
  <2>4. inc' = inc \/ inc' = [inc EXCEPT ![o.target] = new]
    BY <1>9 DEF Write
  <2> HIDE DEF new
  <2>5. inc' \in [Id -> IncidentRecord \cup {Absent}]
    BY <2>3, <2>4 DEF TypeOK
  <2>6. thread' \in [Thread -> {Idle} \cup Worker]
    BY <1>9, <2>1, GoType DEF Write, PipelinePc
  <2> QED BY <1>9, <2>5, <2>6 DEF Write, TypeOK, Worker
<1>14. ASSUME NEW t \in Thread, StartTrail(t) PROVE TypeOK'
  <2>1. thread' \in [Thread -> {Idle} \cup Worker]
    BY <1>14, GoType DEF StartTrail, PipelinePc
  <2>2. <<1>> \in Seq(Nat)
    OBVIOUS
  <2>3. trail' \in [Id -> Seq(Nat) \cup {Absent}]
    BY <1>14, <2>2 DEF StartTrail, TypeOK
  <2> QED BY <1>14, <2>1, <2>3 DEF StartTrail, TypeOK, Worker
<1>15. ASSUME NEW t \in Thread, Audit(t) PROVE TypeOK'
  <2> DEFINE i == thread[t].op.target
             n == thread[t].read.version + 1
  <2>1. i \in Id /\ thread[t].read \in IncidentRecord
    BY <1>15, BusyTyped, OperationTyped DEF Audit, Entered, Worker
  <2>2. n \in Nat
    BY <2>1 DEF IncidentRecord
  <2>3. ledger' \in Seq(LedgerEntry) /\ thread' \in [Thread -> {Idle} \cup Worker]
    <3>1. CASE Answer(t, "REJECTED")
      BY <1>15, <3>1, AnswerType DEF Audit
    <3>2. CASE Go(t, "save", Absent, Absent) /\ UNCHANGED ledger
      BY <1>15, <3>2, GoType DEF Audit, PipelinePc, TypeOK
    <3> QED BY <1>15, <3>1, <3>2 DEF Audit
  <2>4. \/ trail' = trail
        \/ trail[i] # Absent /\ trail' = [trail EXCEPT ![i] = Append(trail[i], n)]
    BY <1>15 DEF Audit
  <2> HIDE DEF n, i
  <2>5. trail[i] # Absent => Append(trail[i], n) \in Seq(Nat)
    BY <2>1, <2>2 DEF TypeOK
  <2>6. trail' \in [Id -> Seq(Nat) \cup {Absent}]
    BY <2>4, <2>5 DEF TypeOK
  <2> QED BY <1>15, <2>3, <2>6 DEF Audit, TypeOK, Worker
<1>10. ASSUME NEW t \in Thread, Acknowledge(t) PROVE TypeOK'
  <2>1. thread' \in [Thread -> {Idle} \cup Worker]
    BY <1>10, GoType DEF Acknowledge, PipelinePc
  <2> QED BY <1>10, <2>1 DEF Acknowledge, TypeOK, Worker
<1>11. ASSUME NEW t \in Thread, Save(t) PROVE TypeOK'
  <2>1. thread' \in [Thread -> {Idle} \cup Worker]
    BY <1>11, GoType DEF Save, PipelinePc
  <2>2. idem' \in [OpId -> Op \cup {Absent}]
    BY <1>11, BusyTyped DEF Save, TypeOK
  <2> QED BY <1>11, <2>1, <2>2 DEF Save, TypeOK, Worker
<1>12. ASSUME NEW t \in Thread, Log(t) PROVE TypeOK'
  <2>1. ledger' \in Seq(LedgerEntry) /\ thread' \in [Thread -> {Idle} \cup Worker]
    BY <1>12, AnswerType DEF Log
  <2> QED BY <1>12, <2>1 DEF Log, TypeOK, Worker
<1>13. CASE UNCHANGED vars
  BY <1>13 DEF vars, TypeOK, DT!IsManager
<1> QED
  BY <1>1, <1>2, <1>3, <1>4, <1>5, <1>6, <1>7, <1>8, <1>9, <1>10, <1>11, <1>12, <1>13, <1>14,
     <1>15
  DEF Next, Step

\* A step is one worker's, or none's.
LEMMA StepFrame ==
  ASSUME TypeOK, NEW t \in Thread,
         Step(t) \/ \E o \in Op, r \in Role : Receive(t, o, r)
  PROVE  \A u \in Thread \ {t} : thread'[u] = thread[u]
<1>1. \A x : thread' = [thread EXCEPT ![t] = x] => \A u \in Thread \ {t} : thread'[u] = thread[u]
  BY DEF TypeOK
<1>2. ASSUME NEW s, Answer(t, s) PROVE \A u \in Thread \ {t} : thread'[u] = thread[u]
  BY <1>1, <1>2 DEF Answer
<1>3. ASSUME NEW pc, NEW v, NEW i, Go(t, pc, v, i)
      PROVE  \A u \in Thread \ {t} : thread'[u] = thread[u]
  BY <1>1, <1>3 DEF Go
<1>4. CASE \E o \in Op, r \in Role : Receive(t, o, r)
  BY <1>1, <1>4 DEF Receive
<1>5. CASE Step(t)
  BY <1>2, <1>3, <1>5
  DEF Step, Check, ReadVersion, Evaluate, StartCreate, Emit, Store, StartTrail, StartUpdate,
      Write, Audit, Acknowledge, Save, Log
<1> QED BY <1>4, <1>5

LEMMA AnsweredIsIdle ==
  ASSUME TypeOK, NEW t \in Thread, NEW s, Answer(t, s)
  PROVE  thread'[t] = Idle /\ thread'[t].pc = "idle"
BY DEF Answer, TypeOK, Idle

\* Where a worker that is not idle afterwards has come from.
LEMMA StepTarget ==
  ASSUME TypeOK, NEW t \in Thread, Step(t), thread'[t].pc # "idle"
  PROVE  /\ thread[t].pc # "idle"
         /\ thread'[t].op = thread[t].op /\ thread'[t].role = thread[t].role
         /\ \/ thread'[t].pc = "version" /\ Check(t) /\ Go(t, "version", Absent, Absent)
            \/ thread'[t].pc = "evaluate" /\ ReadVersion(t)
            \/ thread'[t].pc = "apply" /\ Evaluate(t) /\ Go(t, "apply", Absent, Absent)
            \/ thread'[t].pc = "emit" /\ StartCreate(t) /\ Go(t, "emit", Absent, Absent)
            \/ thread'[t].pc = "store" /\ Emit(t)
            \/ thread'[t].pc = "trail" /\ Store(t)
            \/ /\ thread'[t].pc = "write" /\ StartUpdate(t)
               /\ Go(t, "write", Absent, inc[thread[t].op.target])
            \/ /\ thread'[t].pc = "audit" /\ Write(t)
               /\ Go(t, "audit", Absent, thread[t].read)
            \/ /\ thread'[t].pc = "save"
               /\ StartTrail(t) \/ Write(t) \/ Audit(t) \/ Acknowledge(t)
            \/ thread'[t].pc = "log" /\ Save(t)
<1>1. ASSUME NEW pc, NEW v, NEW i, Go(t, pc, v, i)
      PROVE  thread'[t].pc = pc /\ thread'[t].op = thread[t].op
             /\ thread'[t].role = thread[t].role /\ thread'[t].read = i
  BY <1>1 DEF Go, At, TypeOK
<1>2. \A s : ~Answer(t, s)
  BY AnsweredIsIdle
<1> QED
  BY <1>1, <1>2
  DEF Step, Check, ReadVersion, Evaluate, StartCreate, Emit, Store, StartTrail, StartUpdate,
      Write, Audit, Acknowledge, Save, Log

--------------------------------------------------------------------------------
(* Reports stay where they are *)

\* An event id of the twin's that was used has left its incident behind.
Known == \A i \in Id : i \in twin.seen => twin.ent[i] # Absent

LEMMA EmitLeavesIncident ==
  ASSUME TypeOK, Entered, Known, NEW t \in Thread, Emit(t)
  PROVE  LET i == thread[t].op.body.incident
         IN  /\ i \in Id /\ twin'.ent[i] # Absent
             /\ \A j \in Id \ {i} : twin'.ent[j] = twin.ent[j]
             /\ \A j \in Id : j \in twin'.seen => j \in twin.seen \/ j = i
<1> DEFINE i == thread[t].op.body.incident
<1>1. i \in Id
  BY BusyTyped, OperationTyped, BodyTyped DEF Emit, Entered
<1>2. /\ i \in twin.seen => twin' = twin
      /\ i \notin twin.seen =>
           twin'.ent = [twin.ent EXCEPT ![i] = "OPEN"] /\ twin'.seen = twin.seen \cup {i}
  BY <1>1, EmitEffect DEF Emit, TypeOK
<1>3. DT!Key = Id
  BY DEF DT!Key
<1>4. twin.ent = [k \in Id |-> twin.ent[k]]
  BY <1>3 DEF TypeOK, DT!IsManager
<1>5. CASE i \in twin.seen
  BY <1>1, <1>2, <1>5 DEF Known
<1>6. CASE i \notin twin.seen
  BY <1>1, <1>2, <1>4, <1>6, AbsentIsNew
<1> QED BY <1>1, <1>5, <1>6

LEMMA StoreLeavesIncident ==
  ASSUME TypeOK, Entered, NEW t \in Thread, Store(t)
  PROVE  LET i == thread[t].op.body.incident
         IN  /\ i \in Id /\ inc'[i] # Absent
             /\ \A j \in Id \ {i} : inc'[j] = inc[j]
<1>1. thread[t].op.body.incident \in Id /\ thread[t].op.body.text \in Text
  BY BusyTyped, OperationTyped, BodyTyped DEF Store, Entered
<1>2. [version |-> 1, text |-> thread[t].op.body.text] # Absent
  BY <1>1, AbsentIsNew DEF IncidentRecord
<1> QED BY <1>1, <1>2 DEF Store, TypeOK

LEMMA WriteLeavesIncident ==
  ASSUME TypeOK, Entered, NEW t \in Thread, Write(t)
  PROVE  LET i == thread[t].op.target
         IN  /\ i \in Id /\ inc[i] # Absent /\ inc'[i] # Absent
             /\ \A j \in Id \ {i} : inc'[j] = inc[j]
<1>1. thread[t].op.target \in Id /\ inc[thread[t].op.target] # Absent
  BY BusyTyped, OperationTyped DEF Write, Entered
<1>2. TypeOK'
  BY TypeStep DEF Next, Step
<1>3. inc'[thread[t].op.target] # Absent
  <2> DEFINE o == thread[t].op
             r == thread[t].read
             new == [version |-> r.version + 1, text |-> NewText(o, r)]
  <2>1. o.body \in Body /\ r \in IncidentRecord
    BY BusyTyped, OperationTyped DEF Write, Entered, Worker
  <2>2. new \in IncidentRecord
    BY <2>1, BodyTyped DEF NewText, IncidentRecord
  <2>3. inc' = inc \/ inc' = [inc EXCEPT ![o.target] = new]
    BY DEF Write
  <2> HIDE DEF new
  <2> QED BY <1>1, <2>2, <2>3, AbsentIsNew DEF TypeOK
<1>4. \A j \in Id \ {thread[t].op.target} : inc'[j] = inc[j]
  BY DEF Write, TypeOK
<1> QED BY <1>1, <1>3, <1>4

\* No step takes an incident away, from the service or from its twin.
LEMMA Persists ==
  ASSUME TypeOK, Entered, Known, [Next]_vars
  PROVE  /\ \A i \in Id : inc[i] # Absent => inc'[i] # Absent
         /\ \A i \in Id : twin.ent[i] # Absent => twin'.ent[i] # Absent
         /\ Known'
<1>1. ASSUME NEW t \in Thread, Emit(t)
      PROVE  /\ inc' = inc /\ Known'
             /\ \A i \in Id : twin.ent[i] # Absent => twin'.ent[i] # Absent
  BY <1>1, EmitLeavesIncident DEF Emit, Known
<1>2. ASSUME NEW t \in Thread, Store(t)
      PROVE  twin' = twin /\ \A i \in Id : inc[i] # Absent => inc'[i] # Absent
  BY <1>2, StoreLeavesIncident DEF Store
<1>3. ASSUME NEW t \in Thread, Write(t)
      PROVE  twin' = twin /\ \A i \in Id : inc[i] # Absent => inc'[i] # Absent
  BY <1>3, WriteLeavesIncident DEF Write
<1>4. ASSUME NEW t \in Thread, Step(t), ~Emit(t), ~Store(t), ~Write(t)
      PROVE  UNCHANGED <<inc, twin>>
  BY <1>4 DEF Step, Check, ReadVersion, Evaluate, StartCreate, StartTrail, StartUpdate, Audit,
              Acknowledge, Save, Log
<1>5. CASE \/ UNCHANGED vars \/ \E t \in Thread, o \in Op, r \in Role : Receive(t, o, r)
  BY <1>5 DEF vars, Receive, Known
<1> QED BY <1>1, <1>2, <1>3, <1>4, <1>5 DEF Next, Known

LEMMA EnteredStep ==
  ASSUME TypeOK, Entered, Known, [Next]_vars
  PROVE  Entered'
<1> SUFFICES ASSUME NEW u \in Thread
             PROVE  /\ thread'[u].pc \in {"emit", "store", "trail"} =>
                         Creates(thread'[u].op) /\ thread'[u].op.body.form = "report"
                    /\ thread'[u].pc = "apply" /\ Updates(thread'[u].op) =>
                         inc'[thread'[u].op.target] # Absent
                    /\ thread'[u].pc \in {"write", "audit"} =>
                         /\ Updates(thread'[u].op) /\ inc'[thread'[u].op.target] # Absent
                         /\ thread'[u].read # Absent
                    /\ thread'[u].pc = "audit" => thread'[u].op.body.form = "text"
  BY DEF Entered, Creates, Updates
<1>1. CASE thread'[u] = thread[u]
  <2>1. thread[u].pc # "idle" => thread[u].op.target \in Id
    BY BusyTyped, OperationTyped
  <2> QED BY <1>1, <2>1, Persists DEF Entered
<1>2. ASSUME NEW o \in Op, NEW r \in Role, Receive(u, o, r) PROVE thread'[u].pc = "check"
  BY <1>2 DEF Receive, At, TypeOK
<1>3. CASE Step(u) /\ thread'[u].pc # "idle"
  <2> USE <1>3, StepTarget
  <2>0. thread[u].op.target \in Id
    BY BusyTyped, OperationTyped
  <2>1. CASE thread'[u].pc = "emit"
    <3>1. StartCreate(u) /\ thread'[u].op = thread[u].op /\ ~Answer(u, "REJECTED")
      BY <2>1, AnsweredIsIdle
    <3> QED BY <2>1, <3>1 DEF StartCreate
  <2>2. CASE thread'[u].pc \in {"store", "trail"}
    BY <2>2 DEF Emit, Store, Entered
  <2>3. CASE thread'[u].pc = "apply"
    <3>1. Evaluate(u) /\ thread'[u].op = thread[u].op /\ ~Answer(u, "CONFLICT")
      BY <2>3, AnsweredIsIdle
    <3>2. inc' = inc /\ ~Conflicts(thread[u].op, thread[u].version, ServerEntity(thread[u].op))
      BY <3>1 DEF Evaluate
    <3> QED BY <2>3, <3>1, <3>2 DEF Conflicts, ServerEntity, Updates
  <2>4. CASE thread'[u].pc = "write"
    <3>1. /\ StartUpdate(u) /\ thread'[u].read = inc[thread[u].op.target]
          /\ thread'[u].op = thread[u].op
      BY <2>4 DEF Go, At, TypeOK
    <3> QED BY <2>0, <2>4, <3>1 DEF StartUpdate, Entered
  <2>5. CASE thread'[u].pc = "audit"
    <3>1. /\ Write(u) /\ thread'[u].read = thread[u].read /\ thread'[u].op = thread[u].op
      BY <2>5 DEF Go, At, TypeOK
    <3>2. thread[u].pc = "write" /\ inc'[thread[u].op.target] # Absent
      BY <3>1, WriteLeavesIncident DEF Write
    <3>3. NewText(thread[u].op, thread[u].read) # thread[u].read.text
      BY <2>5, <3>1 DEF Write, Go, At, TypeOK
    <3> QED BY <2>5, <3>1, <3>2, <3>3 DEF Entered, NewText
  <2> QED BY <2>1, <2>2, <2>3, <2>4, <2>5
<1>4. CASE Step(u) /\ thread'[u].pc = "idle"
  BY <1>4
<1> QED BY <1>1, <1>2, <1>3, <1>4, StepFrame DEF Next, vars

--------------------------------------------------------------------------------
(* What workers, records and audit events vouch for *)

\* If o creates an incident, it is a report that service and twin both have.
HeldBy(service, m, o) ==
  Creates(o) =>
    /\ o.body.form = "report"
    /\ service[o.body.incident] # Absent /\ m.ent[o.body.incident] # Absent

Sound(o) == HeldBy(inc, twin, o)

Effects ==
  \A t \in Thread :
    /\ thread[t].pc = "store" => twin.ent[thread[t].op.body.incident] # Absent
    /\ thread[t].pc \in {"trail", "save", "log"} => Sound(thread[t].op)

Vouched ==
  /\ \A n \in DOMAIN ledger : ledger[n].status = "ACCEPTED" => Sound(ledger[n].op)
  /\ \A k \in OpId : idem[k] # Absent => Sound(idem[k]) /\ idem[k].id = k

Base == TypeOK /\ Entered /\ Known

LEMMA SoundPersists ==
  ASSUME Base, [Next]_vars, NEW o \in Op, Sound(o)
  PROVE  HeldBy(inc', twin', o)
<1>1. Creates(o) => o.body.incident \in Id
  BY OperationTyped, BodyTyped DEF Sound, HeldBy
<1> QED BY <1>1, Persists DEF Base, Sound, HeldBy

LEMMA EffectsStep ==
  ASSUME Base, Effects, [Next]_vars
  PROVE  Effects'
<1> USE DEF Base
<1> SUFFICES ASSUME NEW u \in Thread
             PROVE  /\ thread'[u].pc = "store" =>
                         twin'.ent[thread'[u].op.body.incident] # Absent
                    /\ thread'[u].pc \in {"trail", "save", "log"} =>
                         HeldBy(inc', twin', thread'[u].op)
  BY DEF Effects, Sound
<1>1. CASE thread'[u] = thread[u]
  <2>1. thread[u].pc = "store" => thread[u].op.body.incident \in Id
    BY BusyTyped, OperationTyped, BodyTyped DEF Entered
  <2>2. thread[u].pc \in {"trail", "save", "log"} => HeldBy(inc', twin', thread[u].op)
    BY BusyTyped, SoundPersists DEF Effects
  <2>3. thread[u].pc = "store" => twin'.ent[thread[u].op.body.incident] # Absent
    BY <2>1, Persists DEF Effects
  <2> QED BY <1>1, <2>2, <2>3 DEF HeldBy
<1>2. ASSUME NEW o \in Op, NEW r \in Role, Receive(u, o, r) PROVE thread'[u].pc = "check"
  BY <1>2 DEF Receive, At, TypeOK
<1>3. CASE Step(u) /\ thread'[u].pc # "idle"
  <2>0. thread[u].op \in Op /\ thread'[u].op = thread[u].op
    BY <1>3, StepTarget, BusyTyped
  <2>1. CASE thread'[u].pc = "store"
    BY <1>3, <2>1, StepTarget, EmitLeavesIncident
  <2>2. CASE thread'[u].pc = "trail"
    <3>1. Store(u)
      BY <1>3, <2>2, StepTarget
    <3>2. /\ thread[u].op.body.form = "report" /\ thread[u].op.body.incident \in Id
          /\ twin' = twin /\ inc'[thread[u].op.body.incident] # Absent
          /\ twin.ent[thread[u].op.body.incident] # Absent
      BY <3>1, StoreLeavesIncident DEF Store, Effects, Entered
    <3> QED BY <2>0, <2>2, <3>2 DEF HeldBy
  <2>4. CASE thread'[u].pc = "save"
    <3>1. CASE StartTrail(u)
      <4>1. HeldBy(inc', twin', thread[u].op)
        BY <2>0, <3>1, SoundPersists DEF StartTrail, Effects
      <4> QED BY <2>0, <2>4, <4>1 DEF HeldBy
    <3>2. CASE Write(u) \/ Audit(u) \/ Acknowledge(u)
      <4>1. ~Creates(thread[u].op)
        BY <3>2 DEF Write, Audit, Acknowledge, Entered, Creates, Updates
      <4> QED BY <2>0, <2>4, <4>1 DEF HeldBy
    <3> QED BY <1>3, <2>4, <3>1, <3>2, StepTarget
  <2>3. CASE thread'[u].pc = "log"
    <3>1. Sound(thread[u].op)
      BY <1>3, <2>3, StepTarget DEF Save, Effects
    <3>2. HeldBy(inc', twin', thread[u].op)
      BY <2>0, <3>1, SoundPersists
    <3> QED BY <2>0, <2>3, <3>2 DEF HeldBy
  <2> QED BY <2>1, <2>2, <2>3, <2>4
<1>4. CASE Step(u) /\ thread'[u].pc = "idle"
  BY <1>4
<1> QED BY <1>1, <1>2, <1>3, <1>4, StepFrame DEF Next, vars

\* What a step may add to the ledger.
LEMMA LedgerStep ==
  ASSUME TypeOK, [Next]_vars, ledger' # ledger
  PROVE  \E t \in Thread, s \in Status :
           /\ thread[t].pc # "idle" /\ thread[t].op \in Op /\ Step(t)
           /\ Answer(t, s)
           /\ s = "ACCEPTED" => thread[t].pc = "log"
           /\ s = "DUPLICATE" =>
                LET o == thread[t].op IN idem[o.id] # Absent /\ SamePayload(o)
<1>1. PICK t \in Thread : Step(t)
  BY DEF Next, vars, Receive
<1> USE DEF Status
<1>2. CASE Check(t)
  <2>1. thread[t].pc # "idle" /\ thread[t].op \in Op
    BY <1>2, BusyTyped DEF Check
  <2> QED BY <1>1, <1>2, <2>1 DEF Check
<1>3. CASE Evaluate(t)
  <2>1. thread[t].pc # "idle" /\ thread[t].op \in Op
    BY <1>3, BusyTyped DEF Evaluate
  <2> QED BY <1>1, <1>3, <2>1 DEF Evaluate
<1>4. CASE StartCreate(t) \/ StartUpdate(t)
  <2>1. thread[t].pc # "idle" /\ thread[t].op \in Op
    BY <1>4, BusyTyped DEF StartCreate, StartUpdate
  <2> QED BY <1>1, <1>4, <2>1 DEF StartCreate, StartUpdate
<1>5. CASE Log(t) \/ Audit(t)
  <2>1. thread[t].pc # "idle" /\ thread[t].op \in Op
    BY <1>5, BusyTyped DEF Log, Audit
  <2> QED BY <1>1, <1>5, <2>1 DEF Log, Audit
<1> QED
  BY <1>1, <1>2, <1>3, <1>4, <1>5
  DEF Step, ReadVersion, Emit, Store, StartTrail, Write, Acknowledge, Save

LEMMA Appended ==
  ASSUME TypeOK, NEW t \in Thread, NEW s \in Status, thread[t].pc # "idle", Answer(t, s)
  PROVE  LET e == [op |-> thread[t].op, role |-> thread[t].role, status |-> s]
         IN  /\ DOMAIN ledger' = DOMAIN ledger \cup {Len(ledger) + 1}
             /\ Len(ledger) + 1 \notin DOMAIN ledger
             /\ \A n \in DOMAIN ledger : ledger'[n] = ledger[n]
             /\ ledger'[Len(ledger) + 1] = e
<1> DEFINE e == [op |-> thread[t].op, role |-> thread[t].role, status |-> s]
<1>1. ledger \in Seq(LedgerEntry) /\ e \in LedgerEntry
  BY BusyTyped DEF TypeOK, LedgerEntry
<1>2. ledger' = Append(ledger, e)
  BY DEF Answer
<1> HIDE DEF e
<1>3. DOMAIN ledger = 1..Len(ledger) /\ Len(ledger) \in Nat
  BY <1>1
<1>4. DOMAIN ledger' = 1..Len(ledger) + 1
  BY <1>1, <1>2
<1>5. /\ \A n \in DOMAIN ledger : ledger'[n] = ledger[n]
      /\ ledger'[Len(ledger) + 1] = e
  BY <1>1, <1>2, <1>3
<1> QED BY <1>3, <1>4, <1>5 DEF e

\* What a step may add to the idempotency store.
LEMMA IdemStep ==
  ASSUME TypeOK, [Next]_vars
  PROVE  \/ idem' = idem
         \/ \E t \in Thread :
              /\ Save(t) /\ thread[t].op \in Op /\ thread[t].op.id \in OpId
              /\ idem' = [idem EXCEPT ![thread[t].op.id] = thread[t].op]
<1>1. ASSUME NEW t \in Thread, Save(t)
      PROVE  /\ Save(t) /\ thread[t].op \in Op /\ thread[t].op.id \in OpId
             /\ idem' = [idem EXCEPT ![thread[t].op.id] = thread[t].op]
  BY <1>1, BusyTyped, OperationTyped DEF Save
<1>2. ASSUME NEW t \in Thread, Step(t), ~Save(t) PROVE idem' = idem
  BY <1>2 DEF Step, Check, ReadVersion, Evaluate, StartCreate, Emit, Store, StartTrail,
              StartUpdate, Write, Audit, Acknowledge, Log
<1>3. CASE \/ UNCHANGED vars \/ \E t \in Thread, o \in Op, r \in Role : Receive(t, o, r)
  BY <1>3 DEF vars, Receive
<1> QED BY <1>1, <1>2, <1>3 DEF Next

LEMMA VouchedStep ==
  ASSUME Base, Effects, Vouched, [Next]_vars
  PROVE  Vouched'
<1> USE DEF Base
<1>1. ASSUME NEW n \in DOMAIN ledger', ledger'[n].status = "ACCEPTED"
      PROVE  HeldBy(inc', twin', ledger'[n].op)
  <2>1. ASSUME NEW m \in DOMAIN ledger, ledger[m].status = "ACCEPTED"
        PROVE  HeldBy(inc', twin', ledger[m].op)
    <3>1. ledger[m].op \in Op
      <4>1. ledger[m] \in LedgerEntry
        BY DEF TypeOK
      <4> QED BY <4>1 DEF LedgerEntry
    <3> QED BY <2>1, <3>1, SoundPersists DEF Vouched
  <2>2. CASE ledger' = ledger
    BY <1>1, <2>1, <2>2 DEF HeldBy
  <2>3. CASE ledger' # ledger
    <3>1. PICK t \in Thread, s \in Status :
            /\ thread[t].pc # "idle" /\ thread[t].op \in Op /\ Answer(t, s)
            /\ s = "ACCEPTED" => thread[t].pc = "log"
      BY <2>3, LedgerStep
    <3> DEFINE e == [op |-> thread[t].op, role |-> thread[t].role, status |-> s]
    <3>2. /\ DOMAIN ledger' = DOMAIN ledger \cup {Len(ledger) + 1}
          /\ \A m \in DOMAIN ledger : ledger'[m] = ledger[m]
          /\ ledger'[Len(ledger) + 1] = e
      BY <3>1, Appended
    <3>3. CASE n \in DOMAIN ledger
      BY <1>1, <2>1, <3>2, <3>3 DEF HeldBy
    <3>4. CASE n = Len(ledger) + 1
      <4>1. s = "ACCEPTED" /\ ledger'[n].op = thread[t].op
        BY <1>1, <3>2, <3>4
      <4>2. HeldBy(inc', twin', thread[t].op)
        BY <3>1, <4>1, SoundPersists DEF Effects
      <4> QED BY <4>1, <4>2 DEF HeldBy
    <3> QED BY <1>1, <3>2, <3>3, <3>4
  <2> QED BY <2>2, <2>3
<1>2. ASSUME NEW k \in OpId, idem'[k] # Absent
      PROVE  HeldBy(inc', twin', idem'[k]) /\ idem'[k].id = k
  <2>1. ASSUME idem[k] # Absent PROVE HeldBy(inc', twin', idem[k]) /\ idem[k].id = k
    BY <2>1, SoundPersists DEF TypeOK, Vouched
  <2>2. CASE idem' = idem
    BY <1>2, <2>1, <2>2 DEF HeldBy
  <2>3. ASSUME NEW t \in Thread, Save(t), thread[t].op \in Op, thread[t].op.id \in OpId,
               idem' = [idem EXCEPT ![thread[t].op.id] = thread[t].op]
        PROVE  HeldBy(inc', twin', idem'[k]) /\ idem'[k].id = k
    <3>1. HeldBy(inc', twin', thread[t].op)
      BY <2>3, SoundPersists DEF Save, Effects
    <3>2. CASE k = thread[t].op.id
      <4>1. idem'[k] = thread[t].op
        BY <2>3, <3>2 DEF TypeOK
      <4> QED BY <3>1, <3>2, <4>1 DEF HeldBy
    <3>3. CASE k # thread[t].op.id
      <4>1. idem'[k] = idem[k]
        BY <2>3, <3>3 DEF TypeOK
      <4> QED BY <1>2, <2>1, <4>1 DEF HeldBy
    <3> QED BY <3>2, <3>3
  <2> QED BY <2>2, <2>3, IdemStep
<1> QED BY <1>1, <1>2 DEF Vouched, Sound

--------------------------------------------------------------------------------
(* DUPLICATE is only answered for what was carried out *)

\* CarriedOut, of any ledger and workers.
Carried(l, w, o) ==
  \/ \E n \in DOMAIN l : l[n].status = "ACCEPTED" /\ l[n].op.id = o.id /\ l[n].op.body = o.body
  \/ \E t \in Thread : w[t].pc = "log" /\ w[t].op.id = o.id /\ w[t].op.body = o.body

Backed ==
  /\ \A k \in OpId : idem[k] # Absent => Carried(ledger, thread, idem[k])
  /\ \A n \in DOMAIN ledger :
       ledger[n].status = "DUPLICATE" => Carried(ledger, thread, ledger[n].op)

LEMMA LedgerKeeps ==
  ASSUME TypeOK, [Next]_vars
  PROVE  \A n \in DOMAIN ledger : n \in DOMAIN ledger' /\ ledger'[n] = ledger[n]
<1>1. CASE ledger' # ledger
  <2>1. PICK t \in Thread, s \in Status : thread[t].pc # "idle" /\ Answer(t, s)
    BY <1>1, LedgerStep
  <2> QED BY <2>1, Appended
<1> QED BY <1>1

LEMMA CarriedPersists ==
  ASSUME TypeOK, [Next]_vars, NEW o, Carried(ledger, thread, o)
  PROVE  Carried(ledger', thread', o)
<1>1. CASE \E n \in DOMAIN ledger :
             ledger[n].status = "ACCEPTED" /\ ledger[n].op.id = o.id /\ ledger[n].op.body = o.body
  BY <1>1, LedgerKeeps DEF Carried
<1>2. ASSUME NEW t \in Thread, thread[t].pc = "log",
             thread[t].op.id = o.id, thread[t].op.body = o.body
      PROVE  Carried(ledger', thread', o)
  <2>1. CASE thread'[t] = thread[t]
    BY <1>2, <2>1 DEF Carried
  <2>2. CASE Log(t)
    <3>1. Answer(t, "ACCEPTED") /\ "ACCEPTED" \in Status
      BY <2>2 DEF Log, Status
    <3> DEFINE e == [op |-> thread[t].op, role |-> thread[t].role, status |-> "ACCEPTED"]
    <3>2. Len(ledger) + 1 \in DOMAIN ledger' /\ ledger'[Len(ledger) + 1] = e
      BY <1>2, <3>1, Appended
    <3> QED BY <1>2, <3>2 DEF Carried
  <2>3. Step(t) => Log(t)
    BY <1>2 DEF Step, Check, ReadVersion, Evaluate, StartCreate, Emit, Store, StartTrail,
                StartUpdate, Write, Audit, Acknowledge, Save, Log
  <2>4. ~\E p \in Op, r \in Role : Receive(t, p, r)
    BY <1>2 DEF Receive
  <2> QED BY <2>1, <2>2, <2>3, <2>4, StepFrame DEF Next, vars
<1> QED BY <1>1, <1>2 DEF Carried

LEMMA BackedStep ==
  ASSUME TypeOK, Vouched, Backed, [Next]_vars
  PROVE  Backed'
<1>1. ASSUME NEW k \in OpId, idem'[k] # Absent PROVE Carried(ledger', thread', idem'[k])
  <2>1. CASE idem'[k] = idem[k]
    BY <1>1, <2>1, CarriedPersists DEF Backed
  <2>2. ASSUME NEW t \in Thread, Save(t), idem'[k] = thread[t].op
        PROVE  Carried(ledger', thread', idem'[k])
    <3>1. thread'[t].pc = "log" /\ thread'[t].op = thread[t].op
      BY <2>2 DEF Save, Go, At, TypeOK
    <3> QED BY <2>2, <3>1 DEF Carried
  <2>3. idem'[k] = idem[k] \/ \E t \in Thread : Save(t) /\ idem'[k] = thread[t].op
    BY IdemStep DEF TypeOK
  <2> QED BY <2>1, <2>2, <2>3
<1>2. ASSUME NEW n \in DOMAIN ledger', ledger'[n].status = "DUPLICATE"
      PROVE  Carried(ledger', thread', ledger'[n].op)
  <2>1. CASE n \in DOMAIN ledger
    <3>1. ledger'[n] = ledger[n]
      BY <2>1, LedgerKeeps
    <3> QED BY <1>2, <2>1, <3>1, CarriedPersists DEF Backed
  <2>2. CASE n \notin DOMAIN ledger
    <3>1. PICK t \in Thread, s \in Status :
            /\ thread[t].pc # "idle" /\ thread[t].op \in Op /\ Answer(t, s)
            /\ s = "DUPLICATE" =>
                 LET o == thread[t].op IN idem[o.id] # Absent /\ SamePayload(o)
      BY <2>2, LedgerStep
    <3> DEFINE e == [op |-> thread[t].op, role |-> thread[t].role, status |-> s]
               o == thread[t].op
    <3>2. ledger'[n] = e
      BY <2>2, <3>1, Appended
    <3>3. o.id \in OpId /\ idem[o.id] # Absent /\ idem[o.id].body = o.body
      BY <1>2, <3>1, <3>2, OperationTyped DEF SamePayload
    <3>4. Carried(ledger, thread, idem[o.id]) /\ idem[o.id].id = o.id
      BY <3>3 DEF Backed, Vouched
    <3>5. Carried(ledger, thread, o)
      BY <3>3, <3>4 DEF Carried
    <3> QED BY <3>2, <3>5, CarriedPersists
  <2> QED BY <2>1, <2>2
<1> QED BY <1>1, <1>2 DEF Backed, Carried

--------------------------------------------------------------------------------
(* The service and its twin *)

LEMMA FollowsStep ==
  ASSUME Base, Effects, StoreFollowsTwin, [Next]_vars
  PROVE  StoreFollowsTwin'
<1> USE DEF Base
<1> SUFFICES ASSUME NEW i \in Id
             PROVE  /\ inc'[i] # Absent => twin'.ent[i] # Absent
                    /\ twin'.ent[i] # Absent =>
                         \/ inc'[i] # Absent
                         \/ \E t \in Thread :
                              thread'[t].pc = "store" /\ thread'[t].op.body.incident = i
  BY DEF StoreFollowsTwin
<1>1. inc'[i] # Absent => twin'.ent[i] # Absent
  <2>1. CASE inc[i] # Absent
    BY <2>1, Persists DEF StoreFollowsTwin
  <2>2. CASE inc[i] = Absent /\ inc'[i] # Absent
    <3>1. PICK t \in Thread : Step(t) /\ inc' # inc
      BY <2>2 DEF Next, vars, Receive
    <3>2. Store(t) \/ Write(t)
      BY <3>1 DEF Step, Check, ReadVersion, Evaluate, StartCreate, Emit, StartTrail, StartUpdate,
                  Audit, Acknowledge, Save, Log
    <3>3. Store(t) /\ thread[t].op.body.incident = i
      BY <2>2, <3>2, StoreLeavesIncident, WriteLeavesIncident
    <3>4. twin.ent[i] # Absent
      BY <3>3 DEF Store, Effects
    <3> QED BY <3>4, Persists
  <2> QED BY <2>1, <2>2
<1>2. ASSUME twin'.ent[i] # Absent, inc'[i] = Absent
      PROVE  \E t \in Thread : thread'[t].pc = "store" /\ thread'[t].op.body.incident = i
  <2>0. inc[i] = Absent
    BY <1>2, Persists
  <2>1. CASE twin.ent[i] # Absent
    <3>1. PICK t \in Thread : thread[t].pc = "store" /\ thread[t].op.body.incident = i
      BY <2>0, <2>1 DEF StoreFollowsTwin
    <3>2. Step(t) => Store(t)
      BY <3>1 DEF Step, Check, ReadVersion, Evaluate, StartCreate, Emit, Store, StartTrail,
                  StartUpdate, Write, Audit, Acknowledge, Save, Log
    <3>3. ~Store(t)
      BY <1>2, <3>1, StoreLeavesIncident
    <3>4. ~\E p \in Op, r \in Role : Receive(t, p, r)
      BY <3>1 DEF Receive
    <3>5. thread'[t] = thread[t]
      BY <3>2, <3>3, <3>4, StepFrame DEF Next, vars
    <3> QED BY <3>1, <3>5
  <2>2. CASE twin.ent[i] = Absent
    <3>1. PICK t \in Thread : Step(t) /\ twin' # twin
      BY <1>2, <2>2 DEF Next, vars, Receive
    <3>2. Emit(t)
      BY <3>1 DEF Step, Check, ReadVersion, Evaluate, StartCreate, Emit, Store, StartTrail,
                  StartUpdate, Write, Audit, Acknowledge, Save, Log
    <3>3. thread[t].op.body.incident = i
      BY <1>2, <2>2, <3>2, EmitLeavesIncident
    <3>4. thread'[t].pc = "store" /\ thread'[t].op = thread[t].op
      BY <3>2 DEF Emit, Go, At, TypeOK
    <3> QED BY <3>3, <3>4
  <2> QED BY <2>1, <2>2
<1> QED BY <1>1, <1>2

--------------------------------------------------------------------------------
(* The theorems *)

\* The inductive invariant: types, what each worker's place implies, what the
\* records vouch for, and the agreement of the service with its twin.
IInv == TypeOK /\ Entered /\ Known /\ Effects /\ Vouched /\ Backed /\ StoreFollowsTwin

LEMMA Inductive == Spec => []IInv
<1>1. Init => IInv
  <2> SUFFICES ASSUME Init PROVE IInv
    OBVIOUS
  <2>1. TypeOK
    BY InitTypeOK
  <2>2. /\ twin.seen = {} /\ \A i \in Id : twin.ent[i] = Absent /\ inc[i] = Absent
    BY DEF Init, DT!NewManager, DT!Manager, DT!Key
  <2>3. DOMAIN ledger = {} /\ \A t \in Thread : thread[t].pc = "idle"
    BY DEF Init, Idle
  <2> QED
    BY <2>1, <2>2, <2>3
    DEF Init, IInv, Entered, Known, Effects, Vouched, Backed, StoreFollowsTwin
<1>2. IInv /\ [Next]_vars => IInv'
  BY TypeStep, EnteredStep, Persists, EffectsStep, VouchedStep, BackedStep, FollowsStep
  DEF IInv, Base
<1> QED BY <1>1, <1>2, PTL DEF Spec

\* Types of the server's state, for any number of worker threads.
THEOREM TypeCorrect == Spec => []TypeOK
<1>1. IInv => TypeOK
  BY DEF IInv
<1> QED BY <1>1, Inductive, PTL

\* No silent data loss: whatever SyncQueueProcessor answers ACCEPTED, or will
\* answer DUPLICATE, is on the server, however its threads interleave.
THEOREM AcceptedStays == Spec => []AcceptedIsStored
<1>1. IInv => AcceptedIsStored
  BY DEF IInv, Vouched, Sound, HeldBy, AcceptedIsStored, Created
<1> QED BY <1>1, Inductive, PTL

\* check_and_register answers DUPLICATE only for a payload that was accepted
\* under the same operation id.
THEOREM DuplicatesBacked == Spec => []DuplicateBacked
<1>1. IInv => DuplicateBacked
  BY DEF IInv, Backed, Carried, DuplicateBacked, CarriedOut
<1> QED BY <1>1, Inductive, PTL

\* create_incident keeps the incident store and the twin together.
THEOREM TwinFollowed == Spec => []StoreFollowsTwin
<1>1. IInv => StoreFollowsTwin
  BY DEF IInv
<1> QED BY <1>1, Inductive, PTL

--------------------------------------------------------------------------------
(* One operation at a time *)

Alone == \A t, u \in Thread : t = u

\* SyncPromise's Accepted, of any ledger.
AcceptedIn(l, k) ==
  {l[n].op.body : n \in {m \in DOMAIN l : l[m].status = "ACCEPTED" /\ l[m].op.id = k}}

\* Record and ledger agree unless a worker is between them; a worker past the
\* check carries an operation that is entitled and has not been accepted yet.
Agreed ==
  /\ \A k \in OpId : idem[k] = Absent => AcceptedIn(ledger, k) = {}
  /\ \A k \in OpId : idem[k] # Absent /\ (\A t \in Thread : thread[t].pc # "log")
       => AcceptedIn(ledger, k) = {idem[k].body}
  /\ \A t \in Thread : thread[t].pc = "log" =>
       /\ AcceptedIn(ledger, thread[t].op.id) = {}
       /\ idem[thread[t].op.id] # Absent /\ idem[thread[t].op.id].body = thread[t].op.body
       /\ \A k \in OpId : k # thread[t].op.id /\ idem[k] # Absent
            => AcceptedIn(ledger, k) = {idem[k].body}
  /\ \A t \in Thread : thread[t].pc \notin {"idle", "check"} =>
       /\ Admissible(thread[t].op, thread[t].role)
       /\ thread[t].pc # "log" => idem[thread[t].op.id] = Absent

LEMMA AcceptedAfter ==
  ASSUME TypeOK, NEW t \in Thread, NEW s \in Status, thread[t].pc # "idle", Answer(t, s),
         NEW k \in OpId
  PROVE  AcceptedIn(ledger', k) =
           IF s = "ACCEPTED" /\ thread[t].op.id = k
           THEN AcceptedIn(ledger, k) \cup {thread[t].op.body} ELSE AcceptedIn(ledger, k)
<1> DEFINE e == [op |-> thread[t].op, role |-> thread[t].role, status |-> s]
           n == Len(ledger) + 1
<1>1. /\ DOMAIN ledger' = DOMAIN ledger \cup {n} /\ n \notin DOMAIN ledger
      /\ \A m \in DOMAIN ledger : ledger'[m] = ledger[m]
      /\ ledger'[n] = e
  BY Appended
<1>2. e.status = s /\ e.op = thread[t].op
  OBVIOUS
<1> HIDE DEF e, n
<1> QED BY <1>1, <1>2 DEF AcceptedIn

LEMMA AgreedStep ==
  ASSUME Alone, TypeOK, Agreed, [Next]_vars
  PROVE  Agreed'
<1>1. ASSUME NEW t \in Thread, Step(t) PROVE Agreed'
  <2>0. \A u \in Thread : u = t
    BY DEF Alone
  <2>1. thread[t].pc # "idle"
    BY <1>1 DEF Step, Check, ReadVersion, Evaluate, StartCreate, Emit, Store, StartTrail,
                StartUpdate, Write, Audit, Acknowledge, Save, Log
  <2>2. thread[t].op.id \in OpId
    BY <2>1, BusyTyped, OperationTyped
  <2>3. ASSUME NEW s \in Status, Answer(t, s), idem' = idem,
               s = "ACCEPTED" <=> thread[t].pc = "log"
        PROVE  Agreed'
    <3>1. thread'[t].pc = "idle"
      BY <2>3, AnsweredIsIdle
    <3>2. \A k \in OpId : AcceptedIn(ledger', k) =
            IF s = "ACCEPTED" /\ thread[t].op.id = k
            THEN AcceptedIn(ledger, k) \cup {thread[t].op.body} ELSE AcceptedIn(ledger, k)
      BY <2>1, <2>3, AcceptedAfter
    <3>3. CASE s = "ACCEPTED"
      BY <2>0, <2>2, <2>3, <3>1, <3>2, <3>3 DEF Agreed
    <3>4. CASE s # "ACCEPTED"
      BY <2>0, <2>3, <3>1, <3>2, <3>4 DEF Agreed
    <3> QED BY <3>3, <3>4
  <2>4. ASSUME NEW pc, NEW v, NEW i, Go(t, pc, v, i), UNCHANGED <<idem, ledger>>,
               pc # "log", thread[t].pc # "log", pc # "idle",
               thread[t].pc = "check" =>
                 Admissible(thread[t].op, thread[t].role) /\ idem[thread[t].op.id] = Absent
        PROVE  Agreed'
    <3>1. thread'[t].pc = pc /\ thread'[t].op = thread[t].op /\ thread'[t].role = thread[t].role
      BY <2>4 DEF Go, At, TypeOK
    <3> QED BY <2>0, <2>1, <2>4, <3>1 DEF Agreed, Admissible, AllowedRoles
  <2>5. CASE Save(t)
    <3>1. /\ thread'[t].pc = "log" /\ thread'[t].op = thread[t].op
          /\ thread'[t].role = thread[t].role
      BY <2>5 DEF Save, Go, At, TypeOK
    <3>2. /\ idem'[thread[t].op.id] = thread[t].op /\ thread[t].op # Absent
          /\ \A k \in OpId \ {thread[t].op.id} : idem'[k] = idem[k]
      BY <2>1, <2>2, <2>5, BusyTyped, OperationTyped DEF Save, TypeOK
    <3>3. ledger' = ledger /\ thread[t].pc = "save"
      BY <2>5 DEF Save
    <3>4. /\ Admissible(thread[t].op, thread[t].role) /\ idem[thread[t].op.id] = Absent
          /\ AcceptedIn(ledger, thread[t].op.id) = {}
      BY <2>2, <3>3 DEF Agreed
    <3>5. \A k \in OpId : k # thread[t].op.id /\ idem'[k] # Absent
            => AcceptedIn(ledger, k) = {idem'[k].body}
      BY <2>0, <3>2, <3>3 DEF Agreed
    <3>6. \A k \in OpId : idem'[k] = Absent => AcceptedIn(ledger, k) = {}
      BY <3>2 DEF Agreed
    <3> QED BY <2>0, <3>1, <3>2, <3>3, <3>4, <3>5, <3>6 DEF Agreed, Admissible, AllowedRoles
  <2> USE DEF Status
  <2>6. CASE Check(t)
    <3>1. CASE Go(t, "version", Absent, Absent) /\ UNCHANGED ledger
      <4>1. ~\E s : Answer(t, s)
        BY <3>1, AnsweredIsIdle DEF Go, At, TypeOK
      <4> QED BY <2>4, <2>6, <3>1, <4>1 DEF Check
    <3>2. ASSUME NEW s \in Status, Answer(t, s), s # "ACCEPTED" PROVE Agreed'
      BY <2>3, <2>6, <3>2 DEF Check
    <3> QED BY <2>6, <3>1, <3>2 DEF Check
  <2>7. CASE \/ ReadVersion(t) \/ Emit(t) \/ Store(t) \/ StartTrail(t) \/ Write(t)
             \/ Acknowledge(t)
    BY <2>4, <2>7 DEF ReadVersion, Emit, Store, StartTrail, Write, Acknowledge
  <2>8. CASE Evaluate(t)
    BY <2>3, <2>4, <2>8 DEF Evaluate
  <2>9. CASE StartCreate(t)
    BY <2>3, <2>4, <2>9 DEF StartCreate
  <2>10. CASE StartUpdate(t)
    BY <2>3, <2>4, <2>10 DEF StartUpdate
  <2>11. CASE Log(t)
    BY <2>3, <2>11 DEF Log
  <2>12. CASE Audit(t)
    BY <2>3, <2>4, <2>12 DEF Audit
  <2> QED BY <1>1, <2>5, <2>6, <2>7, <2>8, <2>9, <2>10, <2>11, <2>12 DEF Step
<1>2. ASSUME NEW t \in Thread, NEW o \in Op, NEW r \in Role, Receive(t, o, r) PROVE Agreed'
  <2>1. thread'[t].pc = "check" /\ thread[t].pc = "idle" /\ UNCHANGED <<idem, ledger>>
    BY <1>2 DEF Receive, At, TypeOK
  <2>2. \A u \in Thread : u = t
    BY DEF Alone
  <2> QED BY <2>1, <2>2 DEF Agreed
<1>3. CASE UNCHANGED vars
  BY <1>3 DEF vars, Agreed, Admissible, AllowedRoles
<1> QED BY <1>1, <1>2, <1>3 DEF Next

\* Every answer is one SyncPromise allows.
LEMMA AnswerDue ==
  ASSUME Alone, TypeOK, Agreed, NEW t \in Thread, Step(t), ledger' # ledger
  PROVE  Promise!Next
<1> DEFINE o == thread[t].op
           r == thread[t].role
<1>1. thread[t].pc # "idle"
  BY DEF Step, Check, ReadVersion, Evaluate, StartCreate, Emit, Store, StartTrail, StartUpdate,
         Write, Audit, Acknowledge, Save, Log
<1>2. o \in Op /\ r \in Role /\ o.id \in OpId
  BY <1>1, BusyTyped, OperationTyped
<1>3. Promise!Accepted(o.id) = AcceptedIn(ledger, o.id)
  BY DEF Promise!Accepted, AcceptedIn
<1>4. <<o, r>> \in {d \in Op \X Role : Admissible(d[1], d[2])} <=> Admissible(o, r)
  BY <1>2
<1>5. SUFFICES ASSUME NEW s \in Status, Answer(t, s), Promise!Due(o, r, s) PROVE Promise!Next
  <2>1. PICK s \in Status :
          /\ Answer(t, s)
          /\ \/ /\ Check(t) /\ ~Admissible(o, r) /\ s = "REJECTED"
             \/ /\ Check(t) /\ Admissible(o, r) /\ idem[o.id] # Absent
                /\ s = IF SamePayload(o) THEN "DUPLICATE" ELSE "CONFLICT"
             \/ /\ thread[t].pc \in {"evaluate", "apply", "audit"} /\ s \in {"CONFLICT", "REJECTED"}
             \/ /\ thread[t].pc = "log" /\ s = "ACCEPTED"
    BY DEF Status, Step, Check, ReadVersion, Evaluate, StartCreate, Emit, Store, StartTrail,
           StartUpdate, Write, Audit, Acknowledge, Save, Log
  <2>2. CASE Check(t) /\ ~Admissible(o, r) /\ s = "REJECTED"
    BY <1>4, <1>5, <2>1, <2>2 DEF Promise!Due
  <2>3. CASE /\ Check(t) /\ Admissible(o, r) /\ idem[o.id] # Absent
             /\ s = IF SamePayload(o) THEN "DUPLICATE" ELSE "CONFLICT"
    <3>1. AcceptedIn(ledger, o.id) = {idem[o.id].body}
      BY <1>2, <2>3 DEF Agreed, Alone, Check
    <3>2. Promise!Due(o, r, s)
      BY <1>3, <1>4, <2>3, <3>1 DEF Promise!Due, SamePayload
    <3> QED BY <1>5, <2>1, <3>2
  <2>4. CASE thread[t].pc \in {"evaluate", "apply", "audit"} /\ s \in {"CONFLICT", "REJECTED"}
    <3>1. Admissible(o, r) /\ AcceptedIn(ledger, o.id) = {}
      BY <1>2, <2>4 DEF Agreed
    <3>2. Promise!Due(o, r, s)
      BY <1>3, <1>4, <2>4, <3>1 DEF Promise!Due
    <3> QED BY <1>5, <2>1, <3>2
  <2>5. CASE thread[t].pc = "log" /\ s = "ACCEPTED"
    <3>1. Admissible(o, r) /\ AcceptedIn(ledger, o.id) = {}
      BY <2>5 DEF Agreed
    <3>2. Promise!Due(o, r, s)
      BY <1>3, <1>4, <2>5, <3>1 DEF Promise!Due
    <3> QED BY <1>5, <2>1, <3>2
  <2> QED BY <2>1, <2>2, <2>3, <2>4, <2>5
<1>6. Promise!Answer(o, r, s)
  BY <1>5 DEF Answer, Promise!Answer, Promise!Answered
<1> QED BY <1>2, <1>6 DEF Promise!Next, Status

\* Idempotent processing and collision detection: with operations taken one by
\* one, the answers of SyncQueueProcessor are those SyncPromise allows.
THEOREM PromiseKept ==
  ASSUME Alone
  PROVE  Spec => KeepsPromise
<1>1. Init => Promise!Init /\ Agreed
  <2> SUFFICES ASSUME Init PROVE Promise!Init /\ Agreed
    OBVIOUS
  <2>1. DOMAIN ledger = {} /\ \A t \in Thread : thread[t].pc = "idle"
    BY DEF Init, Idle
  <2> QED BY <2>1 DEF Init, Promise!Init, Agreed, AcceptedIn
<1>2. IInv /\ Agreed /\ [Next]_vars => Agreed' /\ [Promise!Next]_ledger
  <2> SUFFICES ASSUME IInv, Agreed, [Next]_vars PROVE Agreed' /\ [Promise!Next]_ledger
    OBVIOUS
  <2>1. Agreed'
    BY AgreedStep DEF IInv
  <2>2. ledger' = ledger \/ \E t \in Thread : Step(t)
    BY DEF Next, vars, Receive
  <2>3. [Promise!Next]_ledger
    BY <2>2, AnswerDue DEF IInv
  <2> QED BY <2>1, <2>3
<1> QED BY <1>1, <1>2, Inductive, PTL DEF Spec, KeepsPromise, Promise!Spec

\* What a worker alone has read is still there when it writes.
Reads ==
  \A t \in Thread :
    /\ thread[t].pc \in {"emit", "store"} => inc[thread[t].op.body.incident] = Absent
    /\ thread[t].pc = "write" => thread[t].read = inc[thread[t].op.target]

LEMMA ReadsStep ==
  ASSUME Alone, Base, Reads, [Next]_vars
  PROVE  Reads'
<1> USE DEF Base
<1> SUFFICES ASSUME NEW u \in Thread
             PROVE  /\ thread'[u].pc \in {"emit", "store"} =>
                         inc'[thread'[u].op.body.incident] = Absent
                    /\ thread'[u].pc = "write" => thread'[u].read = inc'[thread'[u].op.target]
  BY DEF Reads
<1>1. CASE Step(u) /\ thread'[u].pc # "idle"
  <2> USE <1>1, StepTarget
  <2>1. CASE thread'[u].pc = "emit"
    <3>1. StartCreate(u) /\ thread'[u].op = thread[u].op /\ ~Answer(u, "REJECTED")
      BY <2>1, AnsweredIsIdle
    <3> QED BY <2>1, <3>1 DEF StartCreate
  <2>2. CASE thread'[u].pc = "store"
    BY <2>2 DEF Emit, Reads
  <2>3. CASE thread'[u].pc = "write"
    <3>1. /\ StartUpdate(u) /\ thread'[u].read = inc[thread[u].op.target]
          /\ thread'[u].op = thread[u].op
      BY <2>3 DEF Go, At, TypeOK
    <3> QED BY <2>3, <3>1 DEF StartUpdate
  <2> QED BY <2>1, <2>2, <2>3
<1>2. CASE Step(u) /\ thread'[u].pc = "idle"
  BY <1>2
<1>3. CASE \/ UNCHANGED vars \/ \E t \in Thread, o \in Op, r \in Role : Receive(t, o, r)
  <2>1. thread'[u] = thread[u] \/ thread'[u].pc = "check"
    BY <1>3 DEF vars, Receive, At, TypeOK
  <2>2. inc' = inc
    BY <1>3 DEF vars, Receive
  <2> QED BY <2>1, <2>2 DEF Reads
<1> QED BY <1>1, <1>2, <1>3 DEF Next, Alone

\* _store_incident_with_state_update: with operations taken one by one, an
\* incident that changes gets a higher version.
THEOREM VersionsRise ==
  ASSUME Alone
  PROVE  Spec => VersionsGrow
<1>1. Init => Reads
  BY DEF Init, Idle, Reads
<1>2. IInv /\ Reads /\ [Next]_vars => Reads'
  BY ReadsStep DEF IInv, Base
<1>3. IInv /\ Reads /\ [Next]_vars
        => [\A i \in Id :
              inc[i] # Absent /\ inc'[i] # inc[i] => inc'[i].version > inc[i].version]_vars
  <2> SUFFICES ASSUME IInv, Reads, Next, NEW i \in Id, inc[i] # Absent, inc'[i] # inc[i]
               PROVE  inc'[i].version > inc[i].version
    OBVIOUS
  <2>1. PICK t \in Thread : Step(t) /\ inc' # inc
    BY DEF Next, Receive
  <2>2. Store(t) \/ Write(t)
    BY <2>1 DEF Step, Check, ReadVersion, Evaluate, StartCreate, Emit, StartTrail, StartUpdate,
                Audit, Acknowledge, Save, Log
  <2>3. ~Store(t)
    BY StoreLeavesIncident DEF IInv, Reads, Store
  <2>4. Write(t) /\ i = thread[t].op.target
    BY <2>2, <2>3, WriteLeavesIncident DEF IInv
  <2>5. thread[t].read = inc[i]
    BY <2>4 DEF Write, Reads
  <2>6. inc[i] \in IncidentRecord /\ inc \in [Id -> IncidentRecord \cup {Absent}]
    BY DEF IInv, TypeOK
  <2> DEFINE new == [version |-> inc[i].version + 1, text |-> NewText(thread[t].op, inc[i])]
  <2>7. inc' = [inc EXCEPT ![i] = new]
    BY <2>1, <2>4, <2>5 DEF Write
  <2>8. inc'[i].version = inc[i].version + 1
    BY <2>6, <2>7
  <2> QED BY <2>6, <2>8 DEF IncidentRecord
<1> QED BY <1>1, <1>2, <1>3, Inductive, PTL DEF Spec, VersionsGrow

--------------------------------------------------------------------------------
(* Versions, the audit trail and what was accepted *)

\* Taken, of any ledger and workers.
Logged(lg, ops) == {n \in DOMAIN lg : lg[n].status = "ACCEPTED" /\ lg[n].op \in ops}

Doing(th, ops) == {t \in Thread : th[t].pc \in {"audit", "save", "log"} /\ th[t].op \in ops}

Count(lg, th, ops) == Cardinality(Logged(lg, ops)) + Cardinality(Doing(th, ops))

\* Threads are finite, and so is the ledger: both can be counted.
LEMMA CountTyped ==
  ASSUME NEW lg \in Seq(LedgerEntry), NEW th, NEW ops
  PROVE  /\ IsFiniteSet(Logged(lg, ops)) /\ IsFiniteSet(Doing(th, ops))
         /\ Cardinality(Logged(lg, ops)) \in Nat /\ Cardinality(Doing(th, ops)) \in Nat
         /\ Count(lg, th, ops) = Cardinality(Logged(lg, ops)) + Cardinality(Doing(th, ops))
         /\ Count(lg, th, ops) \in Nat
<1>1. IsFiniteSet(1..Len(lg))
  BY FS_Interval
<1>2. Logged(lg, ops) \subseteq 1..Len(lg) /\ Doing(th, ops) \subseteq Thread
  BY DEF Logged, Doing
<1>3. IsFiniteSet(Logged(lg, ops)) /\ IsFiniteSet(Doing(th, ops))
  BY <1>1, <1>2, ThreadsFinite, FS_Subset
<1>4. Cardinality(Logged(lg, ops)) \in Nat /\ Cardinality(Doing(th, ops)) \in Nat
  BY <1>3, FS_CardinalityType
<1> QED BY <1>3, <1>4 DEF Count

\* Unless one of these operations fails at its audit entry, no step takes an
\* accepted one back; a worker that comes to the end of one adds it.
LEMMA CountStep ==
  ASSUME Base, [Next]_vars, NEW ops
  PROVE  /\ (\A t \in Doing(thread, ops) : Audit(t) => thread'[t].pc = "save")
              => Count(ledger', thread', ops) >= Count(ledger, thread, ops)
         /\ \A t \in Thread : Step(t) /\ t \notin Doing(thread, ops) /\ t \in Doing(thread', ops)
              => Count(ledger', thread', ops) = Count(ledger, thread, ops) + 1
<1> USE DEF Base
<1>0. TypeOK'
  BY TypeStep
<1>1. /\ IsFiniteSet(Logged(ledger, ops)) /\ IsFiniteSet(Doing(thread, ops))
      /\ Cardinality(Logged(ledger, ops)) \in Nat /\ Cardinality(Doing(thread, ops)) \in Nat
      /\ Count(ledger, thread, ops) =
           Cardinality(Logged(ledger, ops)) + Cardinality(Doing(thread, ops))
  BY CountTyped DEF TypeOK
<1>2. /\ IsFiniteSet(Logged(ledger', ops)) /\ IsFiniteSet(Doing(thread', ops))
      /\ Cardinality(Logged(ledger', ops)) \in Nat /\ Cardinality(Doing(thread', ops)) \in Nat
      /\ Count(ledger', thread', ops) =
           Cardinality(Logged(ledger', ops)) + Cardinality(Doing(thread', ops))
  BY <1>0, CountTyped DEF TypeOK
<1>3. Logged(ledger, ops) \subseteq Logged(ledger', ops)
  BY LedgerKeeps DEF Logged
<1>4. Cardinality(Logged(ledger, ops)) <= Cardinality(Logged(ledger', ops))
  BY <1>2, <1>3, FS_Subset
<1>5. ASSUME NEW t \in Thread, Step(t)
      PROVE  \A u \in Thread \ {t} : u \in Doing(thread, ops) <=> u \in Doing(thread', ops)
  BY <1>5, StepFrame DEF Doing
<1>6. ASSUME NEW t \in Thread, Log(t), t \in Doing(thread, ops)
      PROVE  Count(ledger', thread', ops) >= Count(ledger, thread, ops)
  <2>1. Doing(thread', ops) = Doing(thread, ops) \ {t}
    <3>1. t \notin Doing(thread', ops)
      BY <1>6, AnsweredIsIdle DEF Log, Doing
    <3>2. Doing(thread, ops) \subseteq Thread /\ Doing(thread', ops) \subseteq Thread
      BY DEF Doing
    <3>3. Step(t)
      BY <1>6 DEF Step
    <3> QED BY <1>5, <3>1, <3>2, <3>3
  <2>2. Cardinality(Doing(thread', ops)) = Cardinality(Doing(thread, ops)) - 1
    BY <1>1, <1>6, <2>1, FS_RemoveElement
  <2>3. /\ Len(ledger) + 1 \in Logged(ledger', ops) /\ Len(ledger) + 1 \notin Logged(ledger, ops)
    <3> DEFINE e == [op |-> thread[t].op, role |-> thread[t].role, status |-> "ACCEPTED"]
    <3>1. /\ DOMAIN ledger' = DOMAIN ledger \cup {Len(ledger) + 1}
          /\ Len(ledger) + 1 \notin DOMAIN ledger
          /\ ledger'[Len(ledger) + 1] = e
      BY <1>6, Appended DEF Log, Status
    <3> QED BY <1>6, <3>1 DEF Logged, Doing
  <2>4. Cardinality(Logged(ledger', ops)) >= Cardinality(Logged(ledger, ops)) + 1
    <3> DEFINE more == Logged(ledger, ops) \cup {Len(ledger) + 1}
    <3>1. Cardinality(more) = Cardinality(Logged(ledger, ops)) + 1
      BY <1>1, <2>3, FS_AddElement
    <3>2. more \subseteq Logged(ledger', ops)
      BY <1>3, <2>3
    <3>3. Cardinality(more) <= Cardinality(Logged(ledger', ops))
      BY <1>2, <3>2, FS_Subset
    <3> QED BY <1>1, <1>2, <3>1, <3>3
  <2> QED BY <1>1, <1>2, <2>2, <2>4
<1>7. ASSUME Doing(thread, ops) \subseteq Doing(thread', ops)
      PROVE  Count(ledger', thread', ops) >= Count(ledger, thread, ops)
  <2>1. Cardinality(Doing(thread, ops)) <= Cardinality(Doing(thread', ops))
    BY <1>2, <1>7, FS_Subset
  <2> QED BY <1>1, <1>2, <1>4, <2>1
<1>8. ASSUME NEW t \in Thread, Step(t), t \notin Doing(thread, ops), t \in Doing(thread', ops)
      PROVE  Count(ledger', thread', ops) = Count(ledger, thread, ops) + 1
  <2>1. thread'[t].pc # "idle" /\ thread'[t].op = thread[t].op /\ thread[t].pc # "log"
    BY <1>8, StepTarget DEF Doing
  <2>2. ledger' = ledger
    <3>1. \A s : ~Answer(t, s)
      BY <2>1, AnsweredIsIdle
    <3> QED
      BY <1>8, <3>1
      DEF Step, Check, ReadVersion, Evaluate, StartCreate, Emit, Store, StartTrail, StartUpdate,
          Write, Audit, Acknowledge, Save, Log
  <2>3. Doing(thread, ops) \subseteq Thread /\ Doing(thread', ops) \subseteq Thread
    BY DEF Doing
  <2>4. Doing(thread', ops) = Doing(thread, ops) \cup {t}
    BY <1>5, <1>8, <2>3
  <2>5. Cardinality(Doing(thread', ops)) = Cardinality(Doing(thread, ops)) + 1
    BY <1>1, <1>8, <2>4, FS_AddElement
  <2> QED BY <1>1, <1>2, <2>2, <2>5
<1>9. ASSUME \A t \in Doing(thread, ops) : Audit(t) => thread'[t].pc = "save"
      PROVE  Count(ledger', thread', ops) >= Count(ledger, thread, ops)
  <2>1. CASE UNCHANGED thread
    <3>1. Doing(thread', ops) = Doing(thread, ops)
      BY <2>1 DEF Doing
    <3> QED BY <1>7, <3>1
  <2>2. ASSUME NEW t \in Thread, NEW o \in Op, NEW r \in Role, Receive(t, o, r)
        PROVE  Count(ledger', thread', ops) >= Count(ledger, thread, ops)
    <3>1. thread[t].pc = "idle"
      BY <2>2 DEF Receive
    <3>2. \A u \in Thread \ {t} : thread'[u] = thread[u]
      BY <2>2, StepFrame
    <3>3. Doing(thread, ops) \subseteq Doing(thread', ops)
      BY <3>1, <3>2 DEF Doing
    <3> QED BY <1>7, <3>3
  <2>3. ASSUME NEW t \in Thread, Step(t)
        PROVE  Count(ledger', thread', ops) >= Count(ledger, thread, ops)
    <3>1. Doing(thread, ops) \subseteq Thread
      BY DEF Doing
    <3>2. CASE t \notin Doing(thread, ops)
      BY <1>5, <1>7, <2>3, <3>1, <3>2
    <3>3. CASE t \in Doing(thread, ops) /\ thread[t].pc \in {"audit", "save"}
      <4>1. Save(t) \/ Audit(t)
        BY <2>3, <3>3 DEF Step, Check, ReadVersion, Evaluate, StartCreate, Emit, Store,
                          StartTrail, StartUpdate, Write, Acknowledge, Log
      <4>2. thread'[t].pc \in {"save", "log"} /\ thread'[t].op = thread[t].op
        <5>1. thread'[t].pc \in {"save", "log"}
          BY <1>9, <3>3, <4>1 DEF Save, Go, At, TypeOK
        <5> QED BY <2>3, <5>1, StepTarget
      <4>3. t \in Doing(thread', ops)
        BY <3>3, <4>2 DEF Doing
      <4> QED BY <1>5, <1>7, <2>3, <3>1, <4>3
    <3>4. CASE t \in Doing(thread, ops) /\ thread[t].pc = "log"
      <4>1. Log(t)
        BY <2>3, <3>4 DEF Step, Check, ReadVersion, Evaluate, StartCreate, Emit, Store,
                          StartTrail, StartUpdate, Write, Audit, Acknowledge, Save
      <4> QED BY <1>6, <3>4, <4>1
    <3> QED BY <3>2, <3>3, <3>4 DEF Doing
  <2> QED BY <2>1, <2>2, <2>3 DEF Next, vars
<1> QED BY <1>8, <1>9

\* A trail that is there is not None; a new entry comes after those it has.
LEMMA TrailValues ==
  /\ <<1>> # Absent /\ <<1>> \in Seq(Nat)
  /\ \A s \in Seq(Nat) : s # Absent
<1>1. <<1>> \in Seq(Nat)
  OBVIOUS
<1>2. Absent \notin Seq(Nat)
  BY AbsentIsNew
<1> QED BY <1>1, <1>2

LEMMA AppendKeeps ==
  ASSUME NEW s \in Seq(Nat), NEW n \in Nat
  PROVE  /\ Append(s, n) \in Seq(Nat)
         /\ \E m \in DOMAIN Append(s, n) : Append(s, n)[m] = n
         /\ \A m \in DOMAIN s : m \in DOMAIN Append(s, n) /\ Append(s, n)[m] = s[m]
<1>1. Append(s, n) \in Seq(Nat) /\ Len(s) + 1 \in DOMAIN Append(s, n)
  OBVIOUS
<1>2. Append(s, n)[Len(s) + 1] = n
  OBVIOUS
<1>3. \A m \in DOMAIN s : m \in DOMAIN Append(s, n) /\ Append(s, n)[m] = s[m]
  OBVIOUS
<1> QED BY <1>1, <1>2, <1>3

\* What a step may do to an incident's trail.
LEMMA TrailStep ==
  ASSUME Base, [Next]_vars, NEW i \in Id
  PROVE  \/ trail'[i] = trail[i]
         \/ \E t \in Thread :
              /\ StartTrail(t) /\ thread[t].op.body.incident = i /\ trail'[i] = <<1>>
         \/ \E t \in Thread :
              /\ Audit(t) /\ thread[t].op.target = i
              /\ trail[i] # Absent /\ thread[t].read.version + 1 \in Nat
              /\ trail'[i] = Append(trail[i], thread[t].read.version + 1)
<1> USE DEF Base
<1>1. ASSUME NEW t \in Thread, StartTrail(t), thread[t].op.body.incident = i
      PROVE  trail'[i] = <<1>>
  BY <1>1 DEF StartTrail, TypeOK
<1>2. ASSUME NEW t \in Thread, StartTrail(t), thread[t].op.body.incident # i
      PROVE  trail'[i] = trail[i]
  BY <1>2 DEF StartTrail, TypeOK
<1>3. ASSUME NEW t \in Thread, Audit(t), trail'[i] # trail[i]
      PROVE  /\ thread[t].op.target = i /\ trail[i] # Absent
             /\ thread[t].read.version + 1 \in Nat
             /\ trail'[i] = Append(trail[i], thread[t].read.version + 1)
  <2>1. thread[t].read \in IncidentRecord
    BY <1>3, BusyTyped DEF Audit, Entered, Worker
  <2> QED BY <1>3, <2>1 DEF Audit, TypeOK, IncidentRecord
<1>4. ASSUME NEW t \in Thread, Step(t), ~StartTrail(t), ~Audit(t) PROVE trail' = trail
  BY <1>4 DEF Step, Check, ReadVersion, Evaluate, StartCreate, Emit, Store, StartUpdate,
              Write, Acknowledge, Save, Log
<1>5. CASE \/ UNCHANGED vars \/ \E t \in Thread, o \in Op, r \in Role : Receive(t, o, r)
  BY <1>5 DEF vars, Receive
<1> QED BY <1>1, <1>2, <1>3, <1>4, <1>5 DEF Next

\* A worker stays at its trail or its audit entry until it takes that step.
LEMMA TrailWaits ==
  ASSUME Base, [Next]_vars, NEW t \in Thread
  PROVE  /\ thread[t].pc = "trail" => StartTrail(t) \/ thread'[t] = thread[t]
         /\ thread[t].pc = "audit" => Audit(t) \/ thread'[t] = thread[t]
<1> USE DEF Base
<1>1. thread[t].pc = "trail" /\ Step(t) => StartTrail(t)
  BY DEF Step, Check, ReadVersion, Evaluate, StartCreate, Emit, Store, StartTrail, StartUpdate,
         Write, Audit, Acknowledge, Save, Log
<1>2. thread[t].pc = "audit" /\ Step(t) => Audit(t)
  BY DEF Step, Check, ReadVersion, Evaluate, StartCreate, Emit, Store, StartTrail, StartUpdate,
         Write, Audit, Acknowledge, Save, Log
<1>3. thread[t].pc # "idle" => ~\E o \in Op, r \in Role : Receive(t, o, r)
  BY DEF Receive
<1> QED BY <1>1, <1>2, <1>3, StepFrame DEF Next, vars

\* How a record comes to change.
LEMMA RecordStep ==
  ASSUME Base, [Next]_vars, NEW i \in Id, inc'[i] # inc[i]
  PROVE  \E t \in Thread :
           \/ /\ Store(t) /\ thread[t].op.body.incident = i /\ inc'[i].version = 1
              /\ thread'[t].pc = "trail" /\ thread'[t].op = thread[t].op
           \/ /\ Write(t) /\ thread[t].op.target = i /\ thread[t].read \in IncidentRecord
              /\ inc'[i].version = thread[t].read.version + 1
              /\ thread'[t].pc = "audit" /\ thread'[t].op = thread[t].op
              /\ thread'[t].read = thread[t].read
<1> USE DEF Base
<1>1. PICK t \in Thread : Step(t) /\ inc' # inc
  BY DEF Next, vars, Receive
<1>2. Store(t) \/ Write(t)
  BY <1>1 DEF Step, Check, ReadVersion, Evaluate, StartCreate, Emit, StartTrail, StartUpdate,
              Audit, Acknowledge, Save, Log
<1>3. CASE Store(t)
  <2>1. thread[t].op.body.incident = i
    BY <1>3, StoreLeavesIncident
  <2>2. inc'[i] = [version |-> 1, text |-> thread[t].op.body.text]
    BY <1>3, <2>1 DEF Store, TypeOK
  <2>3. thread'[t].pc = "trail" /\ thread'[t].op = thread[t].op
    BY <1>3 DEF Store, Go, At, TypeOK
  <2> QED BY <1>3, <2>1, <2>2, <2>3
<1>4. CASE Write(t)
  <2>1. thread[t].op.target = i /\ thread[t].pc = "write"
    BY <1>4, WriteLeavesIncident DEF Write
  <2>2. thread[t].read \in IncidentRecord
    BY <2>1 DEF Entered, TypeOK, Idle
  <2>3. inc'[i].version = thread[t].read.version + 1 /\ Go(t, "audit", Absent, thread[t].read)
    BY <1>1, <1>4, <2>1 DEF Write, TypeOK
  <2>4. /\ thread'[t].pc = "audit" /\ thread'[t].op = thread[t].op
        /\ thread'[t].read = thread[t].read
    BY <2>3 DEF Go, At, TypeOK
  <2> QED BY <1>4, <2>1, <2>2, <2>3, <2>4
<1> QED BY <1>2, <1>3, <1>4

\* An update of i in the ledger that failed at its audit entry.
Failed(lg, i) ==
  \E n \in DOMAIN lg :
    /\ lg[n].status = "REJECTED" /\ lg[n].op \in UpdatesOf(i) /\ lg[n].op.body.form = "text"

\* Where the trace of an incident's present version is: in its trail, with the worker
\* that wrote it, or with the creation that has yet to start a trail; or it is lost
\* for one of the two reasons TrailTells names.
Traced(service, trails, lg, th, i) ==
  \/ trails[i] # Absent /\ \E n \in DOMAIN trails[i] : trails[i][n] = service[i].version
  \/ \E t \in Thread :
       /\ th[t].pc = "audit" /\ th[t].op.target = i
       /\ th[t].read.version + 1 = service[i].version
  \/ \E t \in Thread :
       /\ th[t].pc = "trail" /\ th[t].op.body.incident = i
       /\ service[i].version = 1 \/ trails[i] # Absent
  \/ Count(lg, th, ReportsOf(i)) > 1
  \/ Failed(lg, i)

\* A trail begins with the creation, of a report that is accepted or about to be.
Begun(trails, lg, th, i) ==
  trails[i] # Absent =>
    /\ \E n \in DOMAIN trails[i] : trails[i][n] = 1
    /\ Count(lg, th, ReportsOf(i)) >= 1

Told ==
  \A i \in Id :
    /\ inc[i] # Absent => Traced(inc, trail, ledger, thread, i)
    /\ Begun(trail, ledger, thread, i)

LEMMA ToldStep ==
  ASSUME IInv, Told, [Next]_vars
  PROVE  Told'
<1> USE DEF IInv, Base
<1> SUFFICES ASSUME NEW i \in Id
             PROVE  /\ inc'[i] # Absent => Traced(inc', trail', ledger', thread', i)
                    /\ Begun(trail', ledger', thread', i)
  BY DEF Told, Traced, Begun, Failed, UpdatesOf, ReportsOf, Count, Logged, Doing, Creates, Updates
<1> DEFINE S == ReportsOf(i)
           old == Count(ledger, thread, S)
           new == Count(ledger', thread', S)
<1>0. TypeOK'
  BY TypeStep
<1>1. old \in Nat /\ new \in Nat
  BY <1>0, CountTyped DEF TypeOK
<1>2. new >= old
  <2>1. ASSUME NEW t \in Doing(thread, S), Audit(t) PROVE FALSE
    BY <2>1 DEF Doing, Audit, Entered, ReportsOf, Creates, Updates
  <2> QED BY <2>1, CountStep
<1>3. ASSUME NEW t \in Thread, StartTrail(t), thread[t].op.body.incident = i
      PROVE  new = old + 1
  <2>1. /\ thread[t].pc = "trail" /\ thread'[t].pc = "save" /\ thread'[t].op = thread[t].op
        /\ Step(t)
    BY <1>3 DEF StartTrail, Go, At, TypeOK, Step
  <2>2. thread[t].op \in S
    BY <1>3, <2>1, BusyTyped DEF Entered, ReportsOf
  <2>3. t \notin Doing(thread, S) /\ t \in Doing(thread', S)
    BY <2>1, <2>2 DEF Doing
  <2> QED BY <2>1, <2>3, CountStep
<1>4. Failed(ledger, i) => Failed(ledger', i)
  BY LedgerKeeps DEF Failed
<1>5. trail \in [Id -> Seq(Nat) \cup {Absent}]
  BY DEF TypeOK
<1> HIDE DEF old, new
\* A trail that is there keeps what it tells, or is started anew by a second report.
<1>8. /\ trail[i] # Absent => trail'[i] # Absent
      /\ trail[i] # Absent =>
           \/ new > 1
           \/ \A v : (\E n \in DOMAIN trail[i] : trail[i][n] = v)
                => \E n \in DOMAIN trail'[i] : trail'[i][n] = v
  <2>1. CASE trail'[i] = trail[i]
    BY <2>1
  <2>2. ASSUME NEW t \in Thread, StartTrail(t), thread[t].op.body.incident = i,
               trail'[i] = << 1 >>, trail[i] # Absent
        PROVE  new > 1
    <3>1. old >= 1
      BY <2>2 DEF Told, Begun, old
    <3> QED BY <1>1, <1>3, <2>2, <3>1
  <2>3. ASSUME NEW t \in Thread, trail[i] # Absent, thread[t].read.version + 1 \in Nat,
               trail'[i] = Append(trail[i], thread[t].read.version + 1)
        PROVE  /\ trail'[i] # Absent
               /\ \A m \in DOMAIN trail[i] : m \in DOMAIN trail'[i] /\ trail'[i][m] = trail[i][m]
    <3>1. trail[i] \in Seq(Nat)
      BY <1>5, <2>3
    <3>2. trail'[i] \in Seq(Nat)
      BY <2>3, <3>1, AppendKeeps
    <3>3. trail'[i] # Absent
      BY <3>2, TrailValues
    <3>4. \A m \in DOMAIN trail[i] : m \in DOMAIN trail'[i] /\ trail'[i][m] = trail[i][m]
      BY <2>3, <3>1, AppendKeeps
    <3> QED BY <3>3, <3>4
  <2>4. ASSUME NEW t \in Thread, trail[i] # Absent, thread[t].read.version + 1 \in Nat,
               trail'[i] = Append(trail[i], thread[t].read.version + 1)
        PROVE  \A v : (\E n \in DOMAIN trail[i] : trail[i][n] = v)
                 => \E n \in DOMAIN trail'[i] : trail'[i][n] = v
    BY <2>3, <2>4
  <2>5. trail'[i] = <<1>> => trail'[i] # Absent
    BY TrailValues
  <2> QED BY <2>1, <2>2, <2>3, <2>4, <2>5, TrailStep
<1>9. Begun(trail', ledger', thread', i)
  <2>1. ASSUME NEW t \in Thread, StartTrail(t), thread[t].op.body.incident = i
        PROVE  new >= 1 /\ \E n \in DOMAIN trail'[i] : trail'[i][n] = 1
    <3>1. trail'[i] = <<1>>
      BY <1>5, <2>1 DEF StartTrail
    <3>2. 1 \in DOMAIN trail'[i] /\ trail'[i][1] = 1
      BY <3>1
    <3> QED BY <1>1, <1>3, <2>1, <3>2
  <2>2. CASE trail[i] # Absent /\ ~\E t \in Thread : /\ StartTrail(t)
                                                      /\ thread[t].op.body.incident = i
    <3>1. old >= 1 /\ \E n \in DOMAIN trail[i] : trail[i][n] = 1
      BY <2>2 DEF Told, Begun, old
    <3>2. \E n \in DOMAIN trail'[i] : trail'[i][n] = 1
      <4>1. ASSUME NEW t \in Thread, trail[i] # Absent, thread[t].read.version + 1 \in Nat,
                   trail'[i] = Append(trail[i], thread[t].read.version + 1)
            PROVE  \A m \in DOMAIN trail[i] : m \in DOMAIN trail'[i] /\ trail'[i][m] = trail[i][m]
        <5>1. trail[i] \in Seq(Nat)
          BY <1>5, <4>1
        <5> QED BY <4>1, <5>1, AppendKeeps
      <4> QED BY <2>2, <3>1, <4>1, TrailStep
    <3> QED BY <1>1, <1>2, <3>1, <3>2 DEF Begun, new
  <2>3. CASE trail[i] = Absent /\ ~\E t \in Thread : /\ StartTrail(t)
                                                      /\ thread[t].op.body.incident = i
    <3>1. trail'[i] = Absent
      BY <2>3, TrailStep
    <3> QED BY <3>1 DEF Begun
  <2> QED BY <2>1, <2>2, <2>3 DEF Begun, new
<1>10. ASSUME inc'[i] # Absent PROVE Traced(inc', trail', ledger', thread', i)
  <2>1. CASE inc'[i] # inc[i]
    <3>1. PICK t \in Thread :
            \/ /\ Store(t) /\ thread[t].op.body.incident = i /\ inc'[i].version = 1
               /\ thread'[t].pc = "trail" /\ thread'[t].op = thread[t].op
            \/ /\ Write(t) /\ thread[t].op.target = i
               /\ inc'[i].version = thread[t].read.version + 1
               /\ thread'[t].pc = "audit" /\ thread'[t].op = thread[t].op
               /\ thread'[t].read = thread[t].read
      BY <2>1, RecordStep
    <3> QED BY <3>1 DEF Traced
  <2>2. CASE inc'[i] = inc[i]
    <3>0. Traced(inc, trail, ledger, thread, i)
      BY <1>10, <2>2 DEF Told
    <3>1. CASE new > 1 \/ Failed(ledger', i)
      BY <3>1 DEF Traced, new
    <3>2. CASE Count(ledger, thread, ReportsOf(i)) > 1 \/ Failed(ledger, i)
      BY <1>1, <1>2, <1>4, <3>1, <3>2 DEF old
    <3>3. CASE trail[i] # Absent /\ \E n \in DOMAIN trail[i] : trail[i][n] = inc[i].version
      BY <1>8, <2>2, <3>1, <3>3 DEF Traced
    <3>4. ASSUME NEW t \in Thread, thread[t].pc = "audit", thread[t].op.target = i,
                 thread[t].read.version + 1 = inc[i].version
          PROVE  Traced(inc', trail', ledger', thread', i)
      <4>1. CASE thread'[t] = thread[t]
        BY <2>2, <3>4, <4>1 DEF Traced
      <4>2. CASE Audit(t) /\ trail[i] # Absent
        <5> DEFINE v == thread[t].read.version + 1
        <5>1. trail[i] \in Seq(Nat) /\ v \in Nat
          <6>1. thread[t].read \in IncidentRecord
            BY <3>4, BusyTyped DEF Entered, Worker
          <6> QED BY <1>5, <4>2, <6>1 DEF IncidentRecord
        <5>2. trail'[i] = Append(trail[i], v)
          BY <3>4, <4>2, <1>5 DEF Audit
        <5> HIDE DEF v
        <5>3. /\ Append(trail[i], v) \in Seq(Nat)
              /\ \E m \in DOMAIN Append(trail[i], v) : Append(trail[i], v)[m] = v
          BY <5>1, AppendKeeps
        <5>4. trail'[i] # Absent /\ \E m \in DOMAIN trail'[i] : trail'[i][m] = v
          <6>1. trail'[i] \in Seq(Nat)
            BY <5>2, <5>3
          <6>2. \E m \in DOMAIN trail'[i] : trail'[i][m] = v
            BY <5>2, <5>3, Zenon
          <6> QED BY <6>1, <6>2, TrailValues, Zenon
        <5> QED BY <2>2, <3>4, <5>3, <5>4 DEF Traced, v
      <4>3. CASE Audit(t) /\ trail[i] = Absent
        <5>1. Answer(t, "REJECTED")
          BY <3>4, <4>3 DEF Audit
        <5>2. thread[t].op \in UpdatesOf(i) /\ thread[t].op.body.form = "text"
          BY <3>4, BusyTyped DEF Entered, UpdatesOf
        <5>3. Failed(ledger', i)
          <6> DEFINE e == [op |-> thread[t].op, role |-> thread[t].role, status |-> "REJECTED"]
          <6>1. Len(ledger) + 1 \in DOMAIN ledger' /\ ledger'[Len(ledger) + 1] = e
            BY <3>4, <5>1, Appended DEF Status
          <6> QED BY <5>2, <6>1 DEF Failed
        <5> QED BY <3>1, <5>3
      <4> QED BY <3>4, <4>1, <4>2, <4>3, TrailWaits
    <3>5. ASSUME NEW t \in Thread, thread[t].pc = "trail", thread[t].op.body.incident = i,
                 inc[i].version = 1 \/ trail[i] # Absent
          PROVE  Traced(inc', trail', ledger', thread', i)
      <4>1. CASE thread'[t] = thread[t]
        BY <1>8, <2>2, <3>5, <4>1 DEF Traced
      <4>2. CASE StartTrail(t) /\ trail[i] # Absent
        <5>1. old >= 1
          BY <4>2 DEF Told, Begun, old
        <5> QED BY <1>1, <1>3, <3>1, <3>5, <4>2, <5>1
      <4>3. CASE StartTrail(t) /\ trail[i] = Absent
        <5>1. trail'[i] = <<1>>
          BY <1>5, <3>5, <4>3 DEF StartTrail
        <5>2. 1 \in DOMAIN trail'[i] /\ trail'[i][1] = 1
          BY <5>1
        <5> QED BY <2>2, <3>5, <4>3, <5>1, <5>2, TrailValues DEF Traced
      <4> QED BY <3>5, <4>1, <4>2, <4>3, TrailWaits
    <3> QED BY <3>0, <3>2, <3>3, <3>4, <3>5 DEF Traced
  <2> QED BY <2>1, <2>2
<1> QED BY <1>9, <1>10

\* _store_incident_with_state_update and create_incident: however the workers race,
\* the state an incident is in stands in its audit trail, is about to, or has lost its
\* entry to a second creation or to an update that was told REJECTED.
THEOREM TrailTold == Spec => []TrailTells
<1>1. Init => Told
  BY DEF Init, Told, Begun
<1>2. Told => TrailTells
  <2> SUFFICES ASSUME Told, NEW i \in Id, inc[i] # Absent
               PROVE  \/ /\ trail[i] # Absent
                         /\ \E n \in DOMAIN trail[i] : trail[i][n] = inc[i].version
                      \/ \E t \in Thread :
                           \/ thread[t].pc = "trail" /\ thread[t].op.body.incident = i
                           \/ thread[t].pc = "audit" /\ thread[t].op.target = i
                      \/ Taken(ReportsOf(i)) > 1
                      \/ Failed(ledger, i)
    BY DEF TrailTells, Failed
  <2>1. Taken(ReportsOf(i)) = Count(ledger, thread, ReportsOf(i))
    BY DEF Taken, Count, Logged, Doing
  <2> QED BY <2>1 DEF Told, Traced
<1> QED BY <1>1, <1>2, ToldStep, Inductive, PTL DEF Spec

\* Between an incident's record and its trail is the worker that creates it.
Started ==
  \A i \in Id : inc[i] # Absent /\ trail[i] = Absent =>
    \E t \in Thread : thread[t].pc = "trail" /\ thread[t].op.body.incident = i

LEMMA StartedStep ==
  ASSUME Base, Started, [Next]_vars
  PROVE  Started'
<1> USE DEF Base
<1> SUFFICES ASSUME NEW i \in Id, inc'[i] # Absent, trail'[i] = Absent
             PROVE  \E t \in Thread : thread'[t].pc = "trail" /\ thread'[t].op.body.incident = i
  BY DEF Started
<1>1. trail[i] = Absent /\ ~\E t \in Thread : StartTrail(t) /\ thread[t].op.body.incident = i
  <2>1. ASSUME NEW t \in Thread, StartTrail(t), thread[t].op.body.incident = i PROVE FALSE
    <3>1. trail'[i] = <<1>>
      BY <2>1 DEF StartTrail, TypeOK
    <3> QED BY <3>1, TrailValues
  <2>2. ASSUME NEW n \in Nat, trail[i] # Absent PROVE Append(trail[i], n) # Absent
    <3>1. trail[i] \in Seq(Nat)
      BY <2>2 DEF TypeOK
    <3> QED BY <3>1, AppendKeeps, TrailValues
  <2> QED BY <2>1, <2>2, TrailStep
<1>2. CASE inc[i] # Absent
  <2>1. PICK t \in Thread : thread[t].pc = "trail" /\ thread[t].op.body.incident = i
    BY <1>1, <1>2 DEF Started
  <2> QED BY <1>1, <2>1, TrailWaits
<1>3. CASE inc[i] = Absent
  <2>1. PICK t \in Thread :
          \/ /\ Store(t) /\ thread[t].op.body.incident = i
             /\ thread'[t].pc = "trail" /\ thread'[t].op = thread[t].op
          \/ Write(t) /\ thread[t].op.target = i
    BY <1>3, RecordStep
  <2>2. ~(Write(t) /\ thread[t].op.target = i)
    BY <1>3, WriteLeavesIncident
  <2> QED BY <2>1, <2>2
<1> QED BY <1>2, <1>3

\* VersionAudited, in terms of Count.
Audited ==
  \A i \in Id : inc[i] # Absent => inc[i].version <= 1 + Count(ledger, thread, UpdatesOf(i))

\* What a worker has read had its updates already.
ReadAudited ==
  \A t \in Thread :
    thread[t].pc = "write" =>
      thread[t].read.version <= 1 + Count(ledger, thread, UpdatesOf(thread[t].op.target))

\* Storing starts at one; writing adds one to what was read and one to the count.
LEMMA AuditStep ==
  ASSUME Alone, IInv, Started, Audited, ReadAudited, [Next]_vars
  PROVE  Audited' /\ ReadAudited'
<1> USE DEF IInv, Base
<1>0. /\ TypeOK'
      /\ \A S : Count(ledger, thread, S) \in Nat /\ Count(ledger', thread', S) \in Nat
  BY TypeStep, CountTyped DEF TypeOK
<1>1. ASSUME NEW S PROVE Count(ledger', thread', S) >= Count(ledger, thread, S)
  <2>1. ASSUME NEW t \in Thread, Audit(t) PROVE thread'[t].pc = "save"
    <3>1. thread[t].pc = "audit" /\ thread[t].op.target \in Id /\ inc[thread[t].op.target] # Absent
      BY <2>1, BusyTyped, OperationTyped DEF Audit, Entered
    <3>2. \A u \in Thread : u = t
      BY DEF Alone
    <3>3. trail[thread[t].op.target] # Absent
      BY <3>1, <3>2 DEF Started
    <3> QED BY <2>1, <3>3 DEF Audit, Go, At, TypeOK
  <2> QED BY <2>1, CountStep DEF Doing
<1>2. ASSUME NEW i \in Id, inc'[i] # Absent
      PROVE  inc'[i].version <= 1 + Count(ledger', thread', UpdatesOf(i))
  <2> DEFINE S == UpdatesOf(i)
  <2>1. CASE inc'[i] = inc[i]
    <3>1. inc[i].version \in Nat /\ inc[i].version <= 1 + Count(ledger, thread, S)
      BY <1>2, <2>1 DEF TypeOK, IncidentRecord, Audited
    <3> QED BY <1>0, <1>1, <2>1, <3>1
  <2>2. CASE inc'[i] # inc[i]
    <3>1. PICK t \in Thread :
            \/ Store(t) /\ inc'[i].version = 1
            \/ /\ Write(t) /\ thread[t].op.target = i /\ thread[t].read \in IncidentRecord
               /\ inc'[i].version = thread[t].read.version + 1
               /\ thread'[t].pc = "audit" /\ thread'[t].op = thread[t].op
      BY <2>2, RecordStep
    <3>2. CASE inc'[i].version = 1
      BY <1>0, <3>2
    <3>3. CASE inc'[i].version # 1
      <4>1. /\ thread[t].pc = "write" /\ Step(t) /\ thread[t].op \in S
            /\ thread[t].read.version \in Nat
            /\ thread[t].read.version <= 1 + Count(ledger, thread, S)
        BY <3>1, <3>3, BusyTyped DEF Write, Step, Entered, UpdatesOf, IncidentRecord, ReadAudited
      <4>2. t \notin Doing(thread, S) /\ t \in Doing(thread', S)
        BY <3>1, <3>3, <4>1 DEF Doing
      <4>3. Count(ledger', thread', S) = Count(ledger, thread, S) + 1
        BY <4>1, <4>2, CountStep
      <4> QED BY <1>0, <3>1, <3>3, <4>1, <4>3
    <3> QED BY <3>2, <3>3
  <2> QED BY <2>1, <2>2
<1>3. ASSUME NEW u \in Thread, thread'[u].pc = "write"
      PROVE  thread'[u].read.version
               <= 1 + Count(ledger', thread', UpdatesOf(thread'[u].op.target))
  <2>1. CASE Step(u)
    <3>1. /\ StartUpdate(u) /\ thread'[u].op = thread[u].op
          /\ thread'[u].read = inc[thread[u].op.target]
      BY <1>3, <2>1, StepTarget DEF Go, At, TypeOK
    <3> DEFINE i == thread[u].op.target
               S == UpdatesOf(i)
    <3>2. i \in Id /\ inc[i] # Absent
      <4>1. thread[u].op \in Op /\ Updates(thread[u].op) /\ thread[u].pc = "apply"
        BY <3>1 DEF StartUpdate, TypeOK, Idle
      <4> QED BY <4>1, OperationTyped DEF Entered
    <3>3. inc[i].version \in Nat /\ inc[i].version <= 1 + Count(ledger, thread, S)
      BY <3>2 DEF TypeOK, IncidentRecord, Audited
    <3>4. /\ Count(ledger', thread', S) >= Count(ledger, thread, S)
          /\ Count(ledger, thread, S) \in Nat /\ Count(ledger', thread', S) \in Nat
      BY <1>0, <1>1
    <3>5. Count(ledger', thread', UpdatesOf(thread'[u].op.target)) = Count(ledger', thread', S)
      BY <3>1
    <3> QED BY <3>1, <3>3, <3>4, <3>5
  <2>2. CASE thread'[u] = thread[u]
    <3> DEFINE S == UpdatesOf(thread[u].op.target)
    <3>1. /\ thread[u].read \in IncidentRecord
          /\ thread[u].read.version <= 1 + Count(ledger, thread, S)
      BY <1>3, <2>2 DEF Entered, TypeOK, Idle, ReadAudited
    <3>2. thread[u].read.version \in Nat
      BY <3>1 DEF IncidentRecord
    <3>3. /\ Count(ledger', thread', S) >= Count(ledger, thread, S)
          /\ Count(ledger, thread, S) \in Nat /\ Count(ledger', thread', S) \in Nat
      BY <1>0, <1>1
    <3>4. Count(ledger', thread', UpdatesOf(thread'[u].op.target)) = Count(ledger', thread', S)
      BY <2>2
    <3> QED BY <2>2, <3>1, <3>2, <3>3, <3>4
  <2>3. CASE \E o \in Op, r \in Role : Receive(u, o, r)
    BY <1>3, <2>3 DEF Receive, At, TypeOK
  <2> QED BY <2>1, <2>2, <2>3, StepFrame DEF Next, vars
<1>4. Audited'
  BY <1>2 DEF Audited, UpdatesOf, Updates
<1>5. ReadAudited'
  BY <1>3 DEF ReadAudited, UpdatesOf, Updates
<1> QED BY <1>4, <1>5

\* update_incident_details, with operations taken one by one: an incident's version
\* never exceeds the updates in SyncEventLedger, or about to be written to it, so
\* nothing that was told REJECTED has left a version behind.
THEOREM VersionsAudited ==
  ASSUME Alone
  PROVE  Spec => []VersionAudited
<1>1. Init => Started /\ Audited /\ ReadAudited
  BY DEF Init, Idle, Started, Audited, ReadAudited
<1>2. IInv /\ Started /\ [Next]_vars => Started'
  BY StartedStep DEF IInv, Base
<1>3. IInv /\ Started /\ Audited /\ ReadAudited /\ [Next]_vars => Audited' /\ ReadAudited'
  BY AuditStep
<1>4. Audited => VersionAudited
  BY DEF Audited, VersionAudited, Taken, Count, Logged, Doing
<1> QED BY <1>1, <1>2, <1>3, <1>4, Inductive, PTL DEF Spec

================================================================================
