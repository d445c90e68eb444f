------------------------------ MODULE FieldSync -------------------------------
(***************************************************************************)
(* The field app's side of synchronization (ClientSyncEngine, its outbox   *)
(* and the screens that fill it): reports and requests are queued in       *)
(* IndexedDB, a sync cycle of one tab sends what is pending to the server  *)
(* and settles each operation as it was answered.                          *)
(*                                                                         *)
(* Every write to IndexedDB is a transaction of its own and a step of its  *)
(* own: other tabs run, the network fails and the browser closes between   *)
(* any two.                                                                *)
(*                                                                         *)
(* The server is what module SyncServer shows of it, reduced to what the   *)
(* operations of a device can tell apart: a worker thread takes one batch  *)
(* through the pipeline operation by operation, in steps between which     *)
(* other workers run. A batch its sender has given up is carried out all   *)
(* the same, while the operations are being sent again.                    *)
(***************************************************************************)
EXTENDS Naturals, FiniteSets

CONSTANTS
  Tab,          \* tabs and windows with the app open
  Incident,     \* incidents reported on this device
  Request,      \* supply requests; evidence and status updates are like a request
                \* whose record is never saved
  WebLocks,     \* whether the browser has navigator.locks
  Worker,       \* the server's worker threads
  MaxBatch,     \* operations the server takes in one batch
  KnownFields,  \* fields the server's class Incident has; it forbids any other
  MaxFailures,  \* bound: requests that fail
  MaxCrashes,   \* bound: tabs that are closed or reloaded during a cycle
  Absent        \* no entry

ASSUME EntitiesDisjoint == Incident \cap Request = {}
ASSUME AbsentIsNoTab == Absent \notin Tab
ASSUME BoundsNat == MaxFailures \in Nat /\ MaxCrashes \in Nat
ASSUME MaxBatchNat == MaxBatch \in Nat \ {0}
ASSUME WebLocksBoolean == WebLocks \in BOOLEAN
ASSUME AbsentIsNoStatus ==
  Absent \notin {"PENDING", "SYNCING", "CONFLICT", "FAILED", "PENDING_SYNC", "SYNCED", "SYNC_ERROR"}

Entity == Incident \cup Request

\* The operations of this device, each with an id of its own: a report has one
\* from its saving transaction and one from the queue service.
Op == (Incident \X {"saved"}) \cup (Entity \X {"queued"})

\* A report is sent as it is stored, with the device's own fields (local_record_id,
\* sync_status, ...).
Payload == {"report", "local metadata"}

OutboxStatus == {"PENDING", "SYNCING", "CONFLICT", "FAILED"}
RecordStatus == {"PENDING_SYNC", "SYNCED", "SYNC_ERROR"}
Result == {"ACCEPTED", "DUPLICATE", "CONFLICT", "REJECTED"}

VARIABLES
  outbox,     \* store "outbox": the status of each operation in it
  record,     \* stores "incidents" and "resource_requests": sync_status
  tab,        \* each tab's executeSyncCycle
  worker,     \* server: the batch each worker is at
  stored,     \* server: incidents its incident service has
  committed,  \* server: operations its idempotency store has
  invalid,    \* server: incidents whose report it rejects, fixed
  overlapped, \* history: operations two workers were carrying out at once
  queued,     \* history: operations ever put into the outbox
  failures, crashes   \* counters for the bounds

server == <<worker, stored, committed, overlapped>>
vars == <<outbox, record, tab, server, invalid, queued, failures, crashes>>

Results == UNION {[S -> Result] : S \in SUBSET Op}
NoResults == [o \in {} |-> "ACCEPTED"]

\* A cycle: where it is, pendingOps, those of them the current loop has still to
\* do, the results not reconciled yet and the one being reconciled.
Cycle(pc, batch, todo, res, cur) ==
  [pc |-> pc, batch |-> batch, todo |-> todo, res |-> res, cur |-> cur]

CycleState ==
  [pc : {"idle", "mark", "send", "wait", "reconcile", "second", "revert"},
   batch : SUBSET Op, todo : SUBSET Op, res : Results, cur : Op \cup {Absent}]

Idle == Cycle("idle", {}, {}, NoResults, Absent)

Goes(t, c) == tab' = [tab EXCEPT ![t] = c]

\* A worker: where it is, the tab that waits for it, what is left of its batch, the
\* operation it has in hand and its answers.
Job(pc, sender, todo, op, res) ==
  [pc |-> pc, sender |-> sender, todo |-> todo, op |-> op, res |-> res]

WorkerState ==
  [pc : {"free", "next", "evaluate", "apply", "store", "save"}, sender : Tab \cup {Absent},
   todo : SUBSET Op, op : Op \cup {Absent}, res : Results]

Free == Job("free", Absent, {}, Absent, NoResults)

Works(w, j) == worker' = [worker EXCEPT ![w] = j]

--------------------------------------------------------------------------------
(* The server *)

\* A worker goes on with the operation it has in hand, or has its answer.
Proceed(w, pc) ==
  Works(w, Job(pc, worker[w].sender, worker[w].todo, worker[w].op, worker[w].res))

Answer(w, o, s) ==
  LET j == worker[w]
  IN  Works(w, Job("next", j.sender, j.todo \ {o}, Absent,
                   [p \in DOMAIN j.res \cup {o} |-> IF p = o THEN s ELSE j.res[p]]))

InHandOf(w, o) == worker[w].pc \notin {"free", "next"} /\ worker[w].op = o

\* The idempotency store is only looked into. What is not a report has nothing the
\* next steps could ask for: it is acknowledged.
Check(w) ==
  /\ worker[w].pc = "next"
  /\ \E o \in worker[w].todo :
       \/ o \in committed /\ Answer(w, o, "DUPLICATE") /\ UNCHANGED overlapped
       \/ /\ o \notin committed
          /\ Works(w, Job(IF o[1] \in Incident THEN "evaluate" ELSE "save",
                          worker[w].sender, worker[w].todo, o, worker[w].res))
          /\ overlapped' = overlapped
               \cup {p \in {o} : \E v \in Worker \ {w} : InHandOf(v, p)}
  /\ UNCHANGED <<outbox, record, tab, stored, committed, invalid, queued, failures, crashes>>

\* The conflict engine: a report of an incident that is there.
Evaluate(w) ==
  LET o == worker[w].op
  IN  /\ worker[w].pc = "evaluate"
      /\ IF o[1] \in stored THEN Answer(w, o, "CONFLICT") ELSE Proceed(w, "apply")
      /\ UNCHANGED <<outbox, record, tab, stored, committed, overlapped, invalid, queued,
                     failures, crashes>>

\* create_incident up to its first effect: by now it may be there.
Apply(w) ==
  LET o == worker[w].op
  IN  /\ worker[w].pc = "apply"
      /\ IF o[1] \in invalid \cup stored THEN Answer(w, o, "REJECTED") ELSE Proceed(w, "store")
      /\ UNCHANGED <<outbox, record, tab, stored, committed, overlapped, invalid, queued,
                     failures, crashes>>

Store(w) ==
  /\ worker[w].pc = "store"
  /\ stored' = stored \cup {worker[w].op[1]}
  /\ Proceed(w, "save")
  /\ UNCHANGED <<outbox, record, tab, committed, overlapped, invalid, queued, failures, crashes>>

Save(w) ==
  LET o == worker[w].op
  IN  /\ worker[w].pc = "save"
      /\ committed' = committed \cup {o}
      /\ Answer(w, o, "ACCEPTED")
      /\ UNCHANGED <<outbox, record, tab, stored, overlapped, invalid, queued, failures, crashes>>

\* The batch is done: its sender, if it still waits, gets the answers.
Reply(w) ==
  /\ worker[w].pc = "next" /\ worker[w].todo = {}
  /\ Works(w, Free)
  /\ \/ worker[w].sender = Absent /\ UNCHANGED tab
     \/ \E t \in Tab :
          /\ worker[w].sender = t
          /\ Goes(t, Cycle("reconcile", tab[t].batch, {}, worker[w].res, Absent))
  /\ UNCHANGED <<outbox, record, stored, committed, overlapped, invalid, queued, failures,
                 crashes>>

WorkerStep(w) == Check(w) \/ Evaluate(w) \/ Apply(w) \/ Store(w) \/ Save(w) \/ Reply(w)

--------------------------------------------------------------------------------
(* Filling the outbox *)

Init ==
  /\ outbox = [o \in Op |-> Absent]
  /\ record = [e \in Entity |-> Absent]
  /\ tab = [t \in Tab |-> Idle]
  /\ invalid \in IF Payload \subseteq KnownFields THEN SUBSET Incident ELSE {Incident}
  /\ worker = [w \in Worker |-> Free]
  /\ stored = {} /\ committed = {} /\ overlapped = {} /\ queued = {}
  /\ failures = 0 /\ crashes = 0

\* saveIncidentWithOutbox: record and operation in one transaction.
SaveIncident(i) ==
  /\ <<i, "saved">> \notin queued
  /\ record' = [record EXCEPT ![i] = "PENDING_SYNC"]
  /\ outbox' = [outbox EXCEPT ![<<i, "saved">>] = "PENDING"]
  /\ queued' = queued \cup {<<i, "saved">>}
  /\ UNCHANGED <<tab, server, invalid, failures, crashes>>

\* SyncQueueService.enqueue; the report screen calls it for a report it saved.
Enqueue(e) ==
  /\ <<e, "queued">> \notin queued
  /\ e \in Incident => <<e, "saved">> \in queued
  /\ outbox' = [outbox EXCEPT ![<<e, "queued">>] = "PENDING"]
  /\ queued' = queued \cup {<<e, "queued">>}
  /\ UNCHANGED <<record, tab, server, invalid, failures, crashes>>

\* ResourceRequestScreen saves the request in a transaction of its own.
SaveRequest(r) ==
  /\ record[r] = Absent
  /\ record' = [record EXCEPT ![r] = "PENDING_SYNC"]
  /\ UNCHANGED <<outbox, tab, server, invalid, queued, failures, crashes>>

--------------------------------------------------------------------------------
(* A sync cycle *)

\* Slip: everything that is not under way is taken up again.
PendingOrRefused == {o \in Op : outbox[o] \notin {Absent, "SYNCING"}}

Pending == {o \in Op : outbox[o] = "PENDING"}

\* sync() up to getPending. The Web Lock is held for the whole cycle; without
\* navigator.locks there is nothing between two tabs.
BeginCycle(t) ==
  /\ tab[t].pc = "idle"
  /\ WebLocks => \A u \in Tab : tab[u].pc = "idle"
  /\ Pending # {}
  /\ Goes(t, Cycle("mark", Pending, Pending, NoResults, Absent))
  /\ UNCHANGED <<outbox, record, server, invalid, queued, failures, crashes>>

Mark(t) ==
  /\ tab[t].pc = "mark"
  /\ \E o \in tab[t].todo :
       LET rest == tab[t].todo \ {o}
       IN  /\ outbox' = [outbox EXCEPT ![o] = "SYNCING"]
           /\ IF rest # {} THEN Goes(t, Cycle("mark", tab[t].batch, rest, NoResults, Absent))
              ELSE Goes(t, Cycle("send", tab[t].batch, {}, NoResults, Absent))
  /\ UNCHANGED <<record, server, invalid, queued, failures, crashes>>

\* Which one does not matter.
AnyFree == CHOOSE w \in Worker : worker[w].pc = "free"

\* The request arrives, and a worker has time for it.
Send(t) ==
  /\ tab[t].pc = "send" /\ Cardinality(tab[t].batch) <= MaxBatch
  /\ \E w \in Worker : worker[w].pc = "free"
  /\ Works(AnyFree, Job("next", t, tab[t].batch, Absent, NoResults))
  /\ Goes(t, Cycle("wait", tab[t].batch, {}, NoResults, Absent))
  /\ UNCHANGED <<outbox, record, stored, committed, overlapped, invalid, queued, failures,
                 crashes>>

\* Slip: a duplicate is not recognised as success.
SucceededFirstTime(s) == s = "ACCEPTED"
\* Slip: only conflicts are kept.
SucceededUnlessConflict(s) == s # "CONFLICT"

Succeeded(s) == s \in {"ACCEPTED", "DUPLICATE"}

\* Slip: the server's word is stored as it is.
RefusalAsSent(s) == s

Refusal(s) == IF s = "CONFLICT" THEN "CONFLICT" ELSE "FAILED"

\* Slip: the screens keep showing a refused report as pending.
RecordUnlessRefused(e, s) ==
  IF record[e] # Absent /\ Succeeded(s) THEN [record EXCEPT ![e] = "SYNCED"]
  ELSE record

\* A refused request keeps its status; what is not in its store stays out of it.
RecordAfter(e, s) ==
  IF record[e] = Absent \/ (e \in Request /\ ~Succeeded(s)) THEN record
  ELSE [record EXCEPT ![e] = IF Succeeded(s) THEN "SYNCED" ELSE "SYNC_ERROR"]

\* First write of reconcileSuccess, reconcileConflict or reconcileRejection: the
\* record on success, the operation on refusal.
ReconcileFirst(t) ==
  /\ tab[t].pc = "reconcile"
  /\ \E o \in DOMAIN tab[t].res :
       LET s == tab[t].res[o]
       IN  /\ IF Succeeded(s)
              THEN record' = RecordAfter(o[1], s) /\ UNCHANGED outbox
              ELSE outbox' = [outbox EXCEPT ![o] = Refusal(s)] /\ UNCHANGED record
           /\ Goes(t, Cycle("second", tab[t].batch, {}, tab[t].res, o))
  /\ UNCHANGED <<server, invalid, queued, failures, crashes>>

\* Second write: the operation is removed, or the record shows the refusal.
ReconcileSecond(t) ==
  LET o == tab[t].cur
      s == tab[t].res[o]
      rest == [p \in DOMAIN tab[t].res \ {o} |-> tab[t].res[p]]
  IN  /\ tab[t].pc = "second"
      /\ IF Succeeded(s)
         THEN outbox' = [outbox EXCEPT ![o] = Absent] /\ UNCHANGED record
         ELSE record' = RecordAfter(o[1], s) /\ UNCHANGED outbox
      /\ IF DOMAIN rest = {} THEN Goes(t, Idle)
         ELSE Goes(t, Cycle("reconcile", tab[t].batch, {}, rest, Absent))
      /\ UNCHANGED <<server, invalid, queued, failures, crashes>>

\* The request may have been lost on the way, or its answer: a worker that has it
\* carries on.
GiveUp(t) ==
  worker' = [w \in Worker |-> IF worker[w].sender = t THEN [worker[w] EXCEPT !.sender = Absent]
                              ELSE worker[w]]

\* The catch block lists what is SYNCING.
PutBack(t) ==
  LET back == {o \in Op : outbox[o] = "SYNCING"}
  IN  Goes(t, IF back = {} THEN Idle ELSE Cycle("revert", tab[t].batch, back, NoResults, Absent))

\* Slip: the failure is reported and nothing is put back.
FetchFailsForGood(t) ==
  /\ tab[t].pc \in {"send", "wait"} /\ failures < MaxFailures
  /\ failures' = failures + 1
  /\ GiveUp(t) /\ Goes(t, Idle)
  /\ UNCHANGED <<outbox, record, stored, committed, overlapped, invalid, queued, crashes>>

\* fetch rejects, or the answer is an error.
FetchFails(t) ==
  /\ tab[t].pc \in {"send", "wait"} /\ failures < MaxFailures
  /\ failures' = failures + 1
  /\ GiveUp(t) /\ PutBack(t)
  /\ UNCHANGED <<outbox, record, stored, committed, overlapped, invalid, queued, crashes>>

\* A batch of more operations than SyncBatchRequest allows is answered 422.
BatchRefused(t) ==
  /\ tab[t].pc = "send" /\ Cardinality(tab[t].batch) > MaxBatch
  /\ PutBack(t)
  /\ UNCHANGED <<outbox, record, server, invalid, queued, failures, crashes>>

Revert(t) ==
  /\ tab[t].pc = "revert"
  /\ \E o \in tab[t].todo :
       LET rest == tab[t].todo \ {o}
       IN  /\ outbox' = [outbox EXCEPT ![o] = "PENDING"]
           /\ Goes(t, IF rest = {} THEN Idle
                      ELSE Cycle("revert", tab[t].batch, rest, NoResults, Absent))
  /\ UNCHANGED <<record, server, invalid, queued, failures, crashes>>

\* The tab is closed or reloaded: its cycle and its lock are gone.
Crash(t) ==
  /\ tab[t].pc # "idle" /\ crashes < MaxCrashes
  /\ crashes' = crashes + 1
  /\ GiveUp(t) /\ Goes(t, Idle)
  /\ UNCHANGED <<outbox, record, stored, committed, overlapped, invalid, queued, failures>>

CycleStep(t) ==
  Mark(t) \/ Send(t) \/ BatchRefused(t) \/ ReconcileFirst(t) \/ ReconcileSecond(t) \/ Revert(t)

Next ==
  \/ \E i \in Incident : SaveIncident(i)
  \/ \E e \in Entity : Enqueue(e)
  \/ \E r \in Request : SaveRequest(r)
  \/ \E t \in Tab : BeginCycle(t) \/ CycleStep(t) \/ FetchFails(t) \/ Crash(t)
  \/ \E w \in Worker : WorkerStep(w)

\* A cycle under way goes on: its promises resolve and the server's threads run. That
\* another one begins is up to the officer, who presses the button while something
\* is pending.
Fairness ==
  /\ \A t \in Tab : WF_vars(CycleStep(t))
  /\ \A w \in Worker : WF_vars(WorkerStep(w))
  /\ WF_vars(\E t \in Tab : BeginCycle(t))

Spec == Init /\ [][Next]_vars /\ Fairness

--------------------------------------------------------------------------------

\* Types of the stores, the cycles and the server.
TypeOK ==
  /\ outbox \in [Op -> OutboxStatus \cup {Absent}]
  /\ record \in [Entity -> RecordStatus \cup {Absent}]
  /\ tab \in [Tab -> CycleState]
  /\ worker \in [Worker -> WorkerState]
  /\ stored \subseteq Incident /\ invalid \subseteq Incident
  /\ committed \subseteq Op /\ overlapped \subseteq Op /\ queued \subseteq Op

\* No silent data loss (sync_protocol.md section 1): an operation leaves the
\* outbox only when the server has it, whatever fails or closes on the way.
NothingLost == \A o \in queued : outbox[o] # Absent \/ o \in committed

\* Whether the server has accepted an operation for this entity.
Exists(e) == \E o \in committed : o[1] = e

\* A record is shown as SYNCED only when the server took an operation for it.
SyncedIsCommitted == \A e \in Entity : record[e] = "SYNCED" => Exists(e)

\* Only a report of an incident that the server has or rejects is kept as refused, and
\* never what it took itself: a lost answer costs a retransmission, which is
\* answered DUPLICATE. But a retransmission that overlaps the request it repeats may
\* find the incident of the operation without the operation, and be refused.
RefusedRightly ==
  \A o \in Op : outbox[o] \in {"CONFLICT", "FAILED"} =>
    /\ o[1] \in stored \cup invalid
    /\ o \in committed => o \in overlapped

InHand(o) == \E t \in Tab : tab[t].pc # "idle" /\ o \in tab[t].batch

\* A report the server has refused is shown as such, unless the tab that was
\* told is still at it or was closed before it could write it down.
RefusedIsShown ==
  \A o \in Op :
    o[1] \in Incident /\ outbox[o] \in {"CONFLICT", "FAILED"} /\ ~Exists(o[1])
    => record[o[1]] = "SYNC_ERROR" \/ InHand(o) \/ crashes > 0

\* What is settled, by removal or by refusal, is not touched again
\* (sync_protocol.md section 4: do not retry automatically).
Settled(o) == o \in queued /\ outbox[o] \notin {"PENDING", "SYNCING"}
SettledStays == [][\A o \in Op : Settled(o) => outbox'[o] = outbox[o]]_vars

Unsettled == {o \in queued : ~Settled(o)}

\* While the officer keeps synchronizing and no tab is closed, all that is queued is
\* settled in the end, however often the network fails within the bound; unless more
\* operations are waiting than the server takes in one batch: they are sent together
\* in every cycle, and none is ever taken.
Settles == []<>(Unsettled = {} \/ crashes > 0 \/ Cardinality(Unsettled) > MaxBatch)

--------------------------------------------------------------------------------
(* What the code does not keep *)

\* "Ensures offline actions, reports, and requests survive browser restarts"
\* (syncQueueService.ts:4): also a closed tab keeps no operation from being sent.
SettlesAfterRestart == \A o \in Op : o \in queued ~> Settled(o)

\* "payload (object, required): Domain data conforming to the respective schema"
\* (sync_protocol.md:45): no report of the app is rejected for its form.
ReportsConform == \A i \in Incident : outbox[<<i, "saved">>] # "FAILED"

================================================================================
