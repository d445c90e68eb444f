---------------------------- MODULE FieldSyncProofs ----------------------------
(* Theorems about the field app's synchronization, for any number of tabs,     *)
(* reports and requests, failures and closed tabs, and of worker threads of the *)
(* server: nothing queued is lost, nothing is mislabelled and, with Web Locks,  *)
(* what is settled stays settled.                                               *)
EXTENDS FieldServer, TLAPS

--------------------------------------------------------------------------------
(* Types *)

LEMMA CycleTyped ==
  ASSUME NEW pc \in {"idle", "mark", "send", "wait", "reconcile", "second", "revert"},
         NEW b, NEW d, NEW r, NEW c, b \subseteq Op, d \subseteq Op, DOMAIN r \subseteq Op,
         r \in [DOMAIN r -> Result], c \in Op \cup {Absent}
  PROVE  Cycle(pc, b, d, r, c) \in CycleState
BY DEF Cycle, CycleState, Results

LEMMA ResultsTyped ==
  ASSUME NEW c \in CycleState
  PROVE  /\ DOMAIN c.res \subseteq Op /\ c.res \in [DOMAIN c.res -> Result]
         /\ c.batch \subseteq Op /\ c.todo \subseteq Op
<1>1. PICK S \in SUBSET Op : c.res \in [S -> Result]
  BY DEF CycleState, Results
<1> QED BY <1>1 DEF CycleState

LEMMA NoResultsTyped ==
  DOMAIN NoResults \subseteq Op /\ NoResults \in [DOMAIN NoResults -> Result]
BY DEF NoResults

LEMMA IdleTyped == Idle \in CycleState /\ Idle.pc = "idle" /\ DOMAIN Idle.res = {}
<1>1. Idle \in CycleState
  BY NoResultsTyped, CycleTyped DEF Idle
<1> QED BY <1>1 DEF Idle, Cycle, NoResults

\* A tab's step leaves the other tabs alone.
LEMMA Going ==
  ASSUME tab \in [Tab -> CycleState], NEW t \in Tab, NEW c \in CycleState, Goes(t, c)
  PROVE  /\ tab' \in [Tab -> CycleState]
         /\ \A u \in Tab : tab'[u] = IF u = t THEN c ELSE tab[u]
BY DEF Goes

LEMMA RecordTyped ==
  ASSUME TypeOK, NEW e \in Entity, NEW s \in Result
  PROVE  RecordAfter(e, s) \in [Entity -> RecordStatus \cup {Absent}]
BY DEF TypeOK, RecordAfter, RecordStatus

LEMMA OpEntity == \A o \in Op : o[1] \in Entity
BY DEF Op, Entity

LEMMA FreeTyped == Free \in WorkerState /\ Free.pc = "free" /\ DOMAIN Free.res = {}
                   /\ Free.sender = Absent
<1>1. NoResults \in Results
  BY NoResultsTyped DEF Results
<1> QED BY <1>1 DEF Free, Job, WorkerState, NoResults

LEMMA InitTypeOK == Init => TypeOK
BY IdleTyped, FreeTyped DEF Init, TypeOK, Op

LEMMA SavedTyped == \A i \in Incident : <<i, "saved">> \in Op /\ i \in Entity
BY DEF Op, Entity

LEMMA QueuedTyped == \A e \in Entity : <<e, "queued">> \in Op
BY DEF Op

--------------------------------------------------------------------------------
(* What a tab's step does to its cycle *)

Turns(t) == tab' \in [Tab -> CycleState] /\ \A u \in Tab : u # t => tab'[u] = tab[u]

Rests(t) == tab'[t].pc = "idle" /\ DOMAIN tab'[t].res = {}

LEMMA Turning ==
  ASSUME TypeOK, NEW t \in Tab,
         NEW pc \in {"idle", "mark", "send", "wait", "reconcile", "second", "revert"},
         NEW b, NEW d, NEW r, NEW c, b \subseteq Op, d \subseteq Op, DOMAIN r \subseteq Op,
         r \in [DOMAIN r -> Result], c \in Op \cup {Absent},
         Goes(t, Cycle(pc, b, d, r, c))
  PROVE  /\ Turns(t) /\ tab'[t].pc = pc /\ tab'[t].batch = b /\ tab'[t].todo = d
         /\ tab'[t].res = r /\ tab'[t].cur = c
<1>1. Cycle(pc, b, d, r, c) \in CycleState
  BY CycleTyped
<1>2. Turns(t) /\ tab'[t] = Cycle(pc, b, d, r, c)
  BY <1>1, Going DEF Turns, TypeOK
<1> QED BY <1>2 DEF Cycle

LEMMA TurningEmpty ==
  ASSUME TypeOK, NEW t \in Tab, NEW pc \in {"mark", "send", "wait", "revert"},
         NEW b, NEW d, b \subseteq Op, d \subseteq Op,
         Goes(t, Cycle(pc, b, d, NoResults, Absent))
  PROVE  /\ Turns(t) /\ tab'[t].pc = pc /\ tab'[t].batch = b /\ tab'[t].todo = d
         /\ DOMAIN tab'[t].res = {}
<1>1. pc \in {"idle", "mark", "send", "wait", "reconcile", "second", "revert"}
  OBVIOUS
<1>2. /\ Turns(t) /\ tab'[t].pc = pc /\ tab'[t].batch = b /\ tab'[t].todo = d
      /\ tab'[t].res = NoResults
  BY <1>1, Turning, NoResultsTyped
<1>3. DOMAIN NoResults = {}
  BY DEF NoResults
<1> QED BY <1>2, <1>3

LEMMA Resting ==
  ASSUME TypeOK, NEW t \in Tab, Goes(t, Idle)
  PROVE  Turns(t) /\ Rests(t)
BY IdleTyped, Going DEF Turns, Rests, TypeOK

LEMMA CycleParts ==
  ASSUME TypeOK, NEW t \in Tab
  PROVE  /\ tab[t].batch \subseteq Op /\ tab[t].todo \subseteq Op
         /\ DOMAIN tab[t].res \subseteq Op /\ tab[t].res \in [DOMAIN tab[t].res -> Result]
         /\ tab[t].cur \in Op \cup {Absent}
<1>1. tab[t] \in CycleState
  BY DEF TypeOK
<1> QED BY <1>1, ResultsTyped DEF CycleState

LEMMA BeginEffect ==
  ASSUME TypeOK, NEW t \in Tab, BeginCycle(t)
  PROVE  /\ Turns(t) /\ tab'[t].pc = "mark" /\ DOMAIN tab'[t].res = {}
         /\ tab'[t].batch = Pending /\ tab'[t].todo = Pending
<1>1. Goes(t, Cycle("mark", Pending, Pending, NoResults, Absent))
  BY DEF BeginCycle
<1>2. Pending \subseteq Op
  BY DEF Pending
<1> QED BY <1>1, <1>2, TurningEmpty

LEMMA MarkEffect ==
  ASSUME TypeOK, NEW t \in Tab, Mark(t)
  PROVE  \E o \in Op :
           /\ o \in tab[t].todo /\ outbox' = [outbox EXCEPT ![o] = "SYNCING"]
           /\ Turns(t) /\ DOMAIN tab'[t].res = {} /\ tab'[t].batch = tab[t].batch
           /\ \/ tab'[t].pc = "mark" /\ tab'[t].todo = tab[t].todo \ {o}
              \/ tab'[t].pc = "send" /\ tab'[t].todo = {} /\ tab[t].todo = {o}
<1>1. PICK o \in tab[t].todo :
        LET rest == tab[t].todo \ {o}
        IN  /\ outbox' = [outbox EXCEPT ![o] = "SYNCING"]
            /\ IF rest # {} THEN Goes(t, Cycle("mark", tab[t].batch, rest, NoResults, Absent))
               ELSE Goes(t, Cycle("send", tab[t].batch, {}, NoResults, Absent))
  BY DEF Mark
<1>2. o \in Op /\ tab[t].batch \subseteq Op /\ tab[t].todo \ {o} \subseteq Op
  BY CycleParts
<1>3. CASE tab[t].todo \ {o} # {}
  <2>1. Goes(t, Cycle("mark", tab[t].batch, tab[t].todo \ {o}, NoResults, Absent))
    BY <1>1, <1>3
  <2>2. /\ Turns(t) /\ DOMAIN tab'[t].res = {} /\ tab'[t].batch = tab[t].batch
        /\ tab'[t].pc = "mark" /\ tab'[t].todo = tab[t].todo \ {o}
    BY <1>2, <2>1, TurningEmpty
  <2> QED BY <1>1, <1>2, <2>2
<1>4. CASE tab[t].todo \ {o} = {}
  <2>1. Goes(t, Cycle("send", tab[t].batch, {}, NoResults, Absent))
    BY <1>1, <1>4
  <2>2. /\ Turns(t) /\ DOMAIN tab'[t].res = {} /\ tab'[t].batch = tab[t].batch
        /\ tab'[t].pc = "send" /\ tab'[t].todo = {}
    BY <1>2, <2>1, TurningEmpty
  <2> QED BY <1>1, <1>2, <1>4, <2>2
<1> QED BY <1>3, <1>4

LEMMA SendEffect ==
  ASSUME TypeOK, NEW t \in Tab, Send(t)
  PROVE  /\ Turns(t) /\ tab'[t].pc = "wait" /\ tab'[t].batch = tab[t].batch
         /\ tab'[t].todo = {} /\ DOMAIN tab'[t].res = {}
BY CycleParts, TurningEmpty DEF Send

LEMMA FirstEffect ==
  ASSUME TypeOK, NEW t \in Tab, ReconcileFirst(t)
  PROVE  \E o \in Op :
           /\ o \in DOMAIN tab[t].res /\ o[1] \in Entity /\ tab[t].res[o] \in Result
           /\ IF Succeeded(tab[t].res[o])
              THEN record' = RecordAfter(o[1], tab[t].res[o]) /\ UNCHANGED outbox
              ELSE outbox' = [outbox EXCEPT ![o] = Refusal(tab[t].res[o])] /\ UNCHANGED record
           /\ Turns(t) /\ tab'[t].pc = "second" /\ tab'[t].batch = tab[t].batch
           /\ tab'[t].todo = {} /\ tab'[t].res = tab[t].res /\ tab'[t].cur = o
<1>1. PICK o \in DOMAIN tab[t].res :
        /\ IF Succeeded(tab[t].res[o])
           THEN record' = RecordAfter(o[1], tab[t].res[o]) /\ UNCHANGED outbox
           ELSE outbox' = [outbox EXCEPT ![o] = Refusal(tab[t].res[o])] /\ UNCHANGED record
        /\ Goes(t, Cycle("second", tab[t].batch, {}, tab[t].res, o))
  BY DEF ReconcileFirst
<1>2. o \in Op /\ o[1] \in Entity /\ tab[t].res[o] \in Result
  BY CycleParts, OpEntity
<1>3. /\ Turns(t) /\ tab'[t].pc = "second" /\ tab'[t].batch = tab[t].batch
      /\ tab'[t].todo = {} /\ tab'[t].res = tab[t].res /\ tab'[t].cur = o
  BY <1>1, <1>2, CycleParts, Turning
<1> QED BY <1>1, <1>2, <1>3

LEMMA SecondEffect ==
  ASSUME TypeOK, NEW t \in Tab, ReconcileSecond(t), tab[t].cur \in DOMAIN tab[t].res
  PROVE  LET o == tab[t].cur
             s == tab[t].res[o]
         IN  /\ o \in Op /\ o[1] \in Entity /\ s \in Result
             /\ IF Succeeded(s)
                THEN outbox' = [outbox EXCEPT ![o] = Absent] /\ UNCHANGED record
                ELSE record' = RecordAfter(o[1], s) /\ UNCHANGED outbox
             /\ Turns(t)
             /\ \/ Rests(t)
                \/ /\ tab'[t].pc = "reconcile" /\ tab'[t].batch = tab[t].batch
                   /\ tab'[t].todo = {}
                   /\ tab'[t].res = [p \in DOMAIN tab[t].res \ {o} |-> tab[t].res[p]]
<1> DEFINE o == tab[t].cur
           S == DOMAIN tab[t].res \ {o}
           rest == [p \in S |-> tab[t].res[p]]
<1>1. o \in Op /\ o[1] \in Entity /\ tab[t].res[o] \in Result
  BY CycleParts, OpEntity
<1>2. S \in SUBSET Op /\ rest \in [S -> Result] /\ tab[t].batch \in SUBSET Op
  BY CycleParts
<1>3. CASE DOMAIN rest = {}
  BY <1>1, <1>3, Resting DEF ReconcileSecond
<1>4. CASE DOMAIN rest # {}
  <2>1. Goes(t, Cycle("reconcile", tab[t].batch, {}, rest, Absent))
    BY <1>4 DEF ReconcileSecond
  <2>0. DOMAIN rest = S
    OBVIOUS
  <2>2. /\ Turns(t) /\ tab'[t].pc = "reconcile" /\ tab'[t].batch = tab[t].batch
        /\ tab'[t].todo = {} /\ tab'[t].res = rest
    <3> HIDE DEF rest, S
    <3> QED BY <1>2, <2>0, <2>1, Turning
  <2> QED BY <1>1, <2>2 DEF ReconcileSecond
<1> QED BY <1>3, <1>4

LEMMA PutBackEffect ==
  ASSUME TypeOK, NEW t \in Tab, PutBack(t)
  PROVE  /\ Turns(t) /\ DOMAIN tab'[t].res = {}
         /\ \/ Rests(t)
            \/ /\ tab'[t].pc = "revert" /\ tab'[t].batch = tab[t].batch
               /\ tab'[t].todo = {o \in Op : outbox[o] = "SYNCING"}
<1> DEFINE back == {o \in Op : outbox[o] = "SYNCING"}
<1>1. CASE back = {}
  BY <1>1, Resting DEF PutBack, Rests
<1>2. CASE back # {}
  <2>1. Goes(t, Cycle("revert", tab[t].batch, back, NoResults, Absent))
    BY <1>2 DEF PutBack
  <2>2. tab[t].batch \subseteq Op /\ back \subseteq Op
    BY CycleParts
  <2> HIDE DEF back
  <2>3. /\ Turns(t) /\ DOMAIN tab'[t].res = {} /\ tab'[t].batch = tab[t].batch
        /\ tab'[t].pc = "revert" /\ tab'[t].todo = back
    BY <2>1, <2>2, TurningEmpty
  <2> QED BY <2>3 DEF back
<1> QED BY <1>1, <1>2

LEMMA FailEffect ==
  ASSUME TypeOK, NEW t \in Tab, FetchFails(t) \/ BatchRefused(t)
  PROVE  /\ Turns(t) /\ DOMAIN tab'[t].res = {}
         /\ \/ Rests(t)
            \/ /\ tab'[t].pc = "revert" /\ tab'[t].batch = tab[t].batch
               /\ tab'[t].todo = {o \in Op : outbox[o] = "SYNCING"}
BY PutBackEffect DEF FetchFails, BatchRefused

LEMMA RevertEffect ==
  ASSUME TypeOK, NEW t \in Tab, Revert(t)
  PROVE  \E o \in Op :
           /\ o \in tab[t].todo /\ outbox' = [outbox EXCEPT ![o] = "PENDING"]
           /\ Turns(t) /\ DOMAIN tab'[t].res = {}
           /\ \/ Rests(t)
              \/ /\ tab'[t].pc = "revert" /\ tab'[t].batch = tab[t].batch
                 /\ tab'[t].todo = tab[t].todo \ {o}
<1>1. PICK o \in tab[t].todo :
        /\ outbox' = [outbox EXCEPT ![o] = "PENDING"]
        /\ Goes(t, IF tab[t].todo \ {o} = {} THEN Idle
                   ELSE Cycle("revert", tab[t].batch, tab[t].todo \ {o}, NoResults, Absent))
  BY DEF Revert
<1>2. o \in Op /\ tab[t].batch \subseteq Op /\ tab[t].todo \ {o} \subseteq Op
  BY CycleParts
<1>3. CASE tab[t].todo \ {o} = {}
  BY <1>1, <1>2, <1>3, Resting DEF Rests
<1>4. CASE tab[t].todo \ {o} # {}
  <2>1. Goes(t, Cycle("revert", tab[t].batch, tab[t].todo \ {o}, NoResults, Absent))
    BY <1>1, <1>4
  <2>2. /\ Turns(t) /\ DOMAIN tab'[t].res = {} /\ tab'[t].batch = tab[t].batch
        /\ tab'[t].pc = "revert" /\ tab'[t].todo = tab[t].todo \ {o}
    BY <1>2, <2>1, TurningEmpty
  <2> QED BY <1>1, <1>2, <2>2
<1> QED BY <1>3, <1>4

LEMMA CrashEffect ==
  ASSUME TypeOK, NEW t \in Tab, Crash(t)
  PROVE  Turns(t) /\ Rests(t)
BY Resting DEF Crash

\* A tab takes a step of its own.
Moves(t) == BeginCycle(t) \/ CycleStep(t) \/ FetchFails(t) \/ Crash(t)

\* The operation being reconciled is one that was answered.
Current == \A t \in Tab : tab[t].pc = "second" => tab[t].cur \in DOMAIN tab[t].res

LEMMA Moving == ASSUME TypeOK, Current, NEW t \in Tab, Moves(t) PROVE Turns(t)
<1>1. ReconcileSecond(t) => tab[t].cur \in DOMAIN tab[t].res
  BY DEF ReconcileSecond, Current
<1> QED
  BY <1>1, BeginEffect, MarkEffect, SendEffect, FirstEffect, SecondEffect, FailEffect,
     RevertEffect, CrashEffect, Zenon DEF Moves, CycleStep

--------------------------------------------------------------------------------
(* What a worker's step does to its batch *)

\* The other workers are as they were.
WorksAlone(w) ==
  /\ worker' \in [Worker -> WorkerState]
  /\ \A v \in Worker : v # w => worker'[v] = worker[v]

LEMMA WorkerParts ==
  ASSUME TypeOK, NEW w \in Worker
  PROVE  /\ worker[w].pc \in {"free", "next", "evaluate", "apply", "store", "save"}
         /\ worker[w].sender \in Tab \cup {Absent} /\ worker[w].todo \subseteq Op
         /\ worker[w].op \in Op \cup {Absent} /\ worker[w].res \in Results
         /\ DOMAIN worker[w].res \subseteq Op
         /\ worker[w].res \in [DOMAIN worker[w].res -> Result]
<1>1. worker[w] \in WorkerState
  BY DEF TypeOK
<1>2. PICK S \in SUBSET Op : worker[w].res \in [S -> Result]
  BY <1>1 DEF WorkerState, Results
<1> QED BY <1>1, <1>2 DEF WorkerState

LEMMA Working ==
  ASSUME TypeOK, NEW w \in Worker,
         NEW pc \in {"free", "next", "evaluate", "apply", "store", "save"},
         NEW t \in Tab \cup {Absent}, NEW d \in SUBSET Op, NEW o \in Op \cup {Absent},
         NEW r \in Results, Works(w, Job(pc, t, d, o, r))
  PROVE  /\ WorksAlone(w) /\ worker'[w].pc = pc /\ worker'[w].sender = t
         /\ worker'[w].todo = d /\ worker'[w].op = o /\ worker'[w].res = r
<1>1. Job(pc, t, d, o, r) \in WorkerState
  BY DEF Job, WorkerState
<1>2. WorksAlone(w) /\ worker'[w] = Job(pc, t, d, o, r)
  BY <1>1 DEF Works, WorksAlone, TypeOK
<1> QED BY <1>2 DEF Job

\* A worker has answered an operation.
Done(w, o, s) ==
  /\ WorksAlone(w) /\ worker'[w].pc = "next" /\ worker'[w].sender = worker[w].sender
  /\ worker'[w].todo = worker[w].todo \ {o}
  /\ DOMAIN worker'[w].res = DOMAIN worker[w].res \cup {o} /\ worker'[w].res[o] = s
  /\ \A p \in DOMAIN worker[w].res : p # o => worker'[w].res[p] = worker[w].res[p]

\* A worker goes on with an operation.
GoesOn(w, pc, o) ==
  /\ WorksAlone(w) /\ worker'[w].pc = pc /\ worker'[w].op = o
  /\ worker'[w].sender = worker[w].sender /\ worker'[w].todo = worker[w].todo
  /\ worker'[w].res = worker[w].res

LEMMA AnswerEffect ==
  ASSUME TypeOK, NEW w \in Worker, NEW o \in Op, NEW s \in Result, Answer(w, o, s)
  PROVE  Done(w, o, s)
<1> DEFINE S == DOMAIN worker[w].res \cup {o}
           r == [p \in S |-> IF p = o THEN s ELSE worker[w].res[p]]
<1>1. S \in SUBSET Op /\ r \in [S -> Result]
  BY WorkerParts
<1>2. r \in Results
  BY <1>1 DEF Results
<1>3. Works(w, Job("next", worker[w].sender, worker[w].todo \ {o}, Absent, r))
  BY DEF Answer
<1>4. worker[w].todo \ {o} \in SUBSET Op /\ worker[w].sender \in Tab \cup {Absent}
  BY WorkerParts
<1>5. DOMAIN r = S /\ r[o] = s /\ \A p \in DOMAIN worker[w].res : p # o => r[p] = worker[w].res[p]
  OBVIOUS
<1> HIDE DEF r
<1>6. /\ WorksAlone(w) /\ worker'[w].pc = "next" /\ worker'[w].sender = worker[w].sender
      /\ worker'[w].todo = worker[w].todo \ {o} /\ worker'[w].res = r
  BY <1>2, <1>3, <1>4, Working
<1> QED BY <1>5, <1>6 DEF Done

LEMMA ProceedEffect ==
  ASSUME TypeOK, NEW w \in Worker, NEW pc \in {"apply", "store", "save"}, Proceed(w, pc)
  PROVE  GoesOn(w, pc, worker[w].op)
<1>1. pc \in {"free", "next", "evaluate", "apply", "store", "save"}
  OBVIOUS
<1> QED BY <1>1, WorkerParts, Working DEF Proceed, GoesOn

LEMMA ReplyEffect ==
  ASSUME TypeOK, NEW w \in Worker, Reply(w)
  PROVE  /\ WorksAlone(w) /\ worker'[w] = Free
         /\ \/ worker[w].sender = Absent /\ UNCHANGED tab
            \/ /\ worker[w].sender \in Tab /\ Turns(worker[w].sender)
               /\ tab'[worker[w].sender].pc = "reconcile"
               /\ tab'[worker[w].sender].batch = tab[worker[w].sender].batch
               /\ tab'[worker[w].sender].todo = {}
               /\ tab'[worker[w].sender].res = worker[w].res
<1>1. WorksAlone(w) /\ worker'[w] = Free
  BY FreeTyped DEF Reply, Works, WorksAlone, TypeOK
<1>2. ASSUME NEW t \in Tab, worker[w].sender = t,
             Goes(t, Cycle("reconcile", tab[t].batch, {}, worker[w].res, Absent))
      PROVE  /\ Turns(t) /\ tab'[t].pc = "reconcile" /\ tab'[t].batch = tab[t].batch
             /\ tab'[t].todo = {} /\ tab'[t].res = worker[w].res
  BY <1>2, WorkerParts, CycleParts, Turning
<1> QED BY <1>1, <1>2 DEF Reply

\* Giving a request up takes nothing from its worker but the one that waits.
LEMMA GivingUp ==
  ASSUME TypeOK, NEW t \in Tab, GiveUp(t)
  PROVE  /\ worker' \in [Worker -> WorkerState]
         /\ \A w \in Worker :
              /\ worker'[w].pc = worker[w].pc /\ worker'[w].op = worker[w].op
              /\ worker'[w].todo = worker[w].todo /\ worker'[w].res = worker[w].res
              /\ worker'[w].sender = IF worker[w].sender = t THEN Absent ELSE worker[w].sender
<1>1. ASSUME NEW w \in Worker
      PROVE  /\ worker'[w] \in WorkerState
             /\ worker'[w].pc = worker[w].pc /\ worker'[w].op = worker[w].op
             /\ worker'[w].todo = worker[w].todo /\ worker'[w].res = worker[w].res
             /\ worker'[w].sender = IF worker[w].sender = t THEN Absent ELSE worker[w].sender
  <2>1. worker[w] \in WorkerState
    BY DEF TypeOK
  <2> QED BY <2>1 DEF GiveUp, WorkerState
<1> QED BY <1>1 DEF GiveUp

LEMMA Sending ==
  ASSUME TypeOK, NEW t \in Tab, Send(t)
  PROVE  \E w \in Worker :
           /\ worker[w].pc = "free" /\ WorksAlone(w) /\ worker'[w].pc = "next"
           /\ worker'[w].sender = t /\ worker'[w].todo = tab[t].batch
           /\ DOMAIN worker'[w].res = {}
<1>1. AnyFree \in Worker /\ worker[AnyFree].pc = "free"
  BY DEF Send, AnyFree
<1>2. tab[t].batch \in SUBSET Op /\ NoResults \in Results
  BY CycleParts, NoResultsTyped DEF Results
<1> HIDE DEF AnyFree
<1>3. /\ WorksAlone(AnyFree) /\ worker'[AnyFree].pc = "next" /\ worker'[AnyFree].sender = t
      /\ worker'[AnyFree].todo = tab[t].batch /\ worker'[AnyFree].res = NoResults
  BY <1>1, <1>2, Working DEF Send
<1> QED BY <1>1, <1>3 DEF NoResults

LEMMA WorkerQuiet ==
  ASSUME NEW w \in Worker, WorkerStep(w)
  PROVE  UNCHANGED <<outbox, record, invalid, queued, failures, crashes>>
BY DEF WorkerStep, Check, Evaluate, Apply, Store, Save, Reply

--------------------------------------------------------------------------------
(* What a worker has in hand *)

\* An operation in hand is still to be answered; only reports go through the stages
\* before the last.
Handling ==
  \A w \in Worker :
    /\ worker[w].pc \notin {"free", "next"} => worker[w].op \in worker[w].todo
    /\ worker[w].pc \in {"evaluate", "apply", "store"} => worker[w].op[1] \in Incident

\* What a step of a worker can be.
Duplicate(w, o) ==
  /\ worker[w].pc = "next" /\ o \in committed /\ Done(w, o, "DUPLICATE")
  /\ UNCHANGED <<stored, committed, overlapped>>
Taken(w, o) ==
  /\ worker[w].pc = "next" /\ o \notin committed
  /\ GoesOn(w, IF o[1] \in Incident THEN "evaluate" ELSE "save", o)
  /\ overlapped' = overlapped \cup {p \in {o} : \E v \in Worker \ {w} : InHandOf(v, p)}
  /\ UNCHANGED <<stored, committed>>
Passed(w, o) ==
  /\ InHandOf(w, o) /\ o[1] \in Incident
  /\ \/ worker[w].pc = "evaluate" /\ GoesOn(w, "apply", o) /\ UNCHANGED stored
     \/ worker[w].pc = "apply" /\ o[1] \notin invalid \cup stored /\ GoesOn(w, "store", o)
        /\ UNCHANGED stored
     \/ worker[w].pc = "store" /\ GoesOn(w, "save", o) /\ stored' = stored \cup {o[1]}
  /\ UNCHANGED <<committed, overlapped>>
Refused(w, o) ==
  /\ InHandOf(w, o) /\ o[1] \in stored \cup invalid
  /\ Done(w, o, "CONFLICT") \/ Done(w, o, "REJECTED")
  /\ UNCHANGED <<stored, committed, overlapped>>
Accepted(w, o) ==
  /\ InHandOf(w, o) /\ worker[w].pc = "save" /\ Done(w, o, "ACCEPTED")
  /\ committed' = committed \cup {o}
  /\ UNCHANGED <<stored, overlapped>>

LEMMA WorkerSteps ==
  ASSUME TypeOK, Handling, NEW w \in Worker, WorkerStep(w), ~Reply(w)
  PROVE  /\ UNCHANGED tab
         /\ \E o \in Op : /\ o \in worker[w].todo
                          /\ \/ Duplicate(w, o) \/ Taken(w, o) \/ Passed(w, o)
                             \/ Refused(w, o) \/ Accepted(w, o)
<1>0. UNCHANGED tab
  BY DEF WorkerStep, Check, Evaluate, Apply, Store, Save
<1> DEFINE o == worker[w].op
<1>1. CASE Check(w)
  <2>1. PICK p \in worker[w].todo :
          \/ p \in committed /\ Answer(w, p, "DUPLICATE") /\ UNCHANGED overlapped
          \/ /\ p \notin committed
             /\ Works(w, Job(IF p[1] \in Incident THEN "evaluate" ELSE "save",
                             worker[w].sender, worker[w].todo, p, worker[w].res))
             /\ overlapped' = overlapped
                  \cup {q \in {p} : \E v \in Worker \ {w} : InHandOf(v, q)}
    BY <1>1 DEF Check
  <2>2. p \in Op /\ worker[w].pc = "next" /\ UNCHANGED <<stored, committed>>
    BY <1>1, WorkerParts DEF Check
  <2>3. CASE p \in committed
    <3>1. Done(w, p, "DUPLICATE")
      BY <2>1, <2>2, <2>3, AnswerEffect DEF Result
    <3> QED BY <1>0, <2>1, <2>2, <2>3, <3>1 DEF Duplicate
  <2>4. CASE p \notin committed
    <3> DEFINE pc == IF p[1] \in Incident THEN "evaluate" ELSE "save"
    <3>1. pc \in {"free", "next", "evaluate", "apply", "store", "save"}
      OBVIOUS
    <3>2. Works(w, Job(pc, worker[w].sender, worker[w].todo, p, worker[w].res))
      BY <2>1, <2>4
    <3> HIDE DEF pc
    <3>3. /\ worker[w].sender \in Tab \cup {Absent} /\ worker[w].todo \in SUBSET Op
          /\ p \in Op \cup {Absent} /\ worker[w].res \in Results
      BY <2>2, WorkerParts
    <3>4. GoesOn(w, pc, p)
      BY <3>1, <3>2, <3>3, Working DEF GoesOn
    <3> QED BY <1>0, <2>1, <2>2, <2>4, <3>4 DEF Taken, pc
  <2> QED BY <2>3, <2>4
<1>2. CASE Evaluate(w) \/ Apply(w) \/ Store(w) \/ Save(w)
  <2>1. worker[w].pc \in {"evaluate", "apply", "store", "save"}
    BY <1>2 DEF Evaluate, Apply, Store, Save
  <2>2. o \in worker[w].todo /\ o \in Op /\ InHandOf(w, o)
    BY <2>1, WorkerParts DEF Handling, InHandOf
  <2>3. worker[w].pc # "save" => o[1] \in Incident
    BY <2>1 DEF Handling
  <2>4. CASE Evaluate(w)
    <3>1. worker[w].pc = "evaluate" /\ UNCHANGED <<stored, committed, overlapped>>
      BY <2>4 DEF Evaluate
    <3>2. CASE o[1] \in stored
      <4>1. Done(w, o, "CONFLICT")
        BY <2>2, <2>4, <3>2, AnswerEffect DEF Evaluate, Result
      <4> QED BY <1>0, <2>2, <3>1, <3>2, <4>1 DEF Refused
    <3>3. CASE o[1] \notin stored
      <4>1. GoesOn(w, "apply", o)
        BY <2>4, <3>3, ProceedEffect DEF Evaluate
      <4> QED BY <1>0, <2>2, <2>3, <3>1, <4>1 DEF Passed
    <3> QED BY <3>2, <3>3
  <2>5. CASE Apply(w)
    <3>1. worker[w].pc = "apply" /\ UNCHANGED <<stored, committed, overlapped>>
      BY <2>5 DEF Apply
    <3>2. CASE o[1] \in invalid \cup stored
      <4>1. Done(w, o, "REJECTED")
        BY <2>2, <2>5, <3>2, AnswerEffect DEF Apply, Result
      <4> QED BY <1>0, <2>2, <3>1, <3>2, <4>1 DEF Refused
    <3>3. CASE o[1] \notin invalid \cup stored
      <4>1. GoesOn(w, "store", o)
        BY <2>5, <3>3, ProceedEffect DEF Apply
      <4> QED BY <1>0, <2>2, <2>3, <3>1, <3>3, <4>1 DEF Passed
    <3> QED BY <3>2, <3>3
  <2>6. CASE Store(w)
    <3>1. GoesOn(w, "save", o)
      BY <2>6, ProceedEffect DEF Store
    <3> QED BY <1>0, <2>2, <2>3, <2>6, <3>1 DEF Store, Passed
  <2>7. CASE Save(w)
    <3>1. Done(w, o, "ACCEPTED")
      BY <2>2, <2>7, AnswerEffect DEF Save, Result
    <3> QED BY <1>0, <2>2, <2>7, <3>1 DEF Save, Accepted
  <2> QED BY <1>2, <2>4, <2>5, <2>6, <2>7
<1> QED BY <1>1, <1>2 DEF WorkerStep

\* The steps of others leave what workers have in hand: they take a free worker or give
\* one up.
Unworked ==
  /\ UNCHANGED <<stored, committed, overlapped>> /\ worker' \in [Worker -> WorkerState]
  /\ \A w \in Worker :
       \/ /\ worker'[w].pc = worker[w].pc /\ worker'[w].op = worker[w].op
          /\ worker'[w].todo = worker[w].todo /\ worker'[w].res = worker[w].res
       \/ worker[w].pc = "free" /\ worker'[w].pc = "next" /\ DOMAIN worker'[w].res = {}

LEMMA Unworking ==
  ASSUME TypeOK, [Next]_vars, \A w \in Worker : ~WorkerStep(w)
  PROVE  Unworked
<1>1. CASE \E t \in Tab : Send(t)
  <2>1. PICK t \in Tab : Send(t)
    BY <1>1
  <2>2. UNCHANGED <<stored, committed, overlapped>>
    BY <2>1 DEF Send
  <2> QED BY <2>1, <2>2, Sending DEF Unworked, WorksAlone
<1>2. CASE \E t \in Tab : FetchFails(t) \/ Crash(t)
  <2>1. PICK t \in Tab : FetchFails(t) \/ Crash(t)
    BY <1>2
  <2>2. UNCHANGED <<stored, committed, overlapped>> /\ GiveUp(t)
    BY <2>1 DEF FetchFails, Crash
  <2> QED BY <2>2, GivingUp DEF Unworked
<1>3. CASE ~\E t \in Tab : Send(t) \/ FetchFails(t) \/ Crash(t)
  <2>1. UNCHANGED server
    BY <1>3 DEF Next, vars, server, SaveIncident, Enqueue, SaveRequest, BeginCycle, CycleStep,
                Mark, BatchRefused, ReconcileFirst, ReconcileSecond, Revert
  <2> QED BY <2>1 DEF server, Unworked, TypeOK
<1> QED BY <1>1, <1>2, <1>3

LEMMA HandlingStep == TypeOK /\ Handling /\ [Next]_vars => Handling'
<1> SUFFICES ASSUME TypeOK, Handling, [Next]_vars, NEW v \in Worker
             PROVE  /\ worker'[v].pc \notin {"free", "next"} => worker'[v].op \in worker'[v].todo
                    /\ worker'[v].pc \in {"evaluate", "apply", "store"}
                         => worker'[v].op[1] \in Incident
  BY DEF Handling
<1>1. CASE \E w \in Worker : WorkerStep(w)
  <2>1. PICK w \in Worker : WorkerStep(w)
    BY <1>1
  <2>2. CASE Reply(w)
    BY <2>2, ReplyEffect, FreeTyped DEF WorksAlone, Handling
  <2>3. CASE ~Reply(w)
    <3>1. PICK o \in Op : /\ o \in worker[w].todo
                          /\ \/ Duplicate(w, o) \/ Taken(w, o) \/ Passed(w, o)
                             \/ Refused(w, o) \/ Accepted(w, o)
      BY <2>1, <2>3, WorkerSteps
    <3>2. WorksAlone(w)
      BY <3>1 DEF Duplicate, Taken, Passed, Refused, Accepted, Done, GoesOn
    <3>3. CASE v = w
      BY <3>1, <3>3 DEF Duplicate, Taken, Passed, Refused, Accepted, Done, GoesOn
    <3> QED BY <3>2, <3>3 DEF WorksAlone, Handling
  <2> QED BY <2>2, <2>3
<1>2. CASE ~\E w \in Worker : WorkerStep(w)
  BY <1>2, Unworking DEF Unworked, Handling
<1> QED BY <1>1, <1>2

--------------------------------------------------------------------------------
(* Types are kept *)

\* A worker's step keeps the types.
LEMMA WorkerTypes ==
  ASSUME TypeOK, Handling, NEW w \in Worker, WorkerStep(w)
  PROVE  TypeOK'
<1>0. UNCHANGED <<outbox, record, invalid, queued, failures, crashes>>
  BY WorkerQuiet
<1>1. CASE Reply(w)
  <2>1. UNCHANGED <<stored, committed, overlapped>>
    BY <1>1 DEF Reply
  <2> QED BY <1>0, <1>1, <2>1, ReplyEffect DEF WorksAlone, Turns, TypeOK
<1>2. CASE ~Reply(w)
  <2>1. PICK o \in Op : /\ o \in worker[w].todo
                        /\ \/ Duplicate(w, o) \/ Taken(w, o) \/ Passed(w, o)
                           \/ Refused(w, o) \/ Accepted(w, o)
    BY <1>2, WorkerSteps
  <2>2. worker' \in [Worker -> WorkerState]
    BY <2>1 DEF Duplicate, Taken, Passed, Refused, Accepted, Done, GoesOn, WorksAlone
  <2>3. stored' \subseteq Incident /\ committed' \subseteq Op /\ overlapped' \subseteq Op
    BY <2>1 DEF Duplicate, Taken, Passed, Refused, Accepted, TypeOK
  <2>4. UNCHANGED tab
    BY <1>2, WorkerSteps
  <2> QED BY <1>0, <2>2, <2>3, <2>4 DEF TypeOK
<1> QED BY <1>1, <1>2

\* A step of a tab keeps the types of the server.
LEMMA TypeStep == TypeOK /\ Handling /\ Current /\ [Next]_vars => TypeOK'
<1> SUFFICES ASSUME TypeOK, Handling, Current, [Next]_vars, \A w \in Worker : ~WorkerStep(w)
             PROVE  TypeOK'
  BY WorkerTypes
<1>0. /\ stored' \subseteq Incident /\ committed' \subseteq Op /\ overlapped' \subseteq Op
      /\ worker' \in [Worker -> WorkerState]
  BY Unworking DEF Unworked, TypeOK
<1>1. ASSUME NEW i \in Incident, SaveIncident(i)
      PROVE  TypeOK'
  BY <1>0, <1>1, SavedTyped DEF SaveIncident, TypeOK, OutboxStatus, RecordStatus
<1>2. ASSUME NEW e \in Entity, Enqueue(e)
      PROVE  TypeOK'
  BY <1>0, <1>2, QueuedTyped DEF Enqueue, TypeOK, OutboxStatus
<1>3. ASSUME NEW r \in Request, SaveRequest(r)
      PROVE  TypeOK'
  BY <1>0, <1>3 DEF SaveRequest, TypeOK, RecordStatus, Entity
<1>4. ASSUME NEW t \in Tab, BeginCycle(t)
      PROVE  TypeOK'
  BY <1>0, <1>4, BeginEffect DEF BeginCycle, Turns, TypeOK
<1>5. ASSUME NEW t \in Tab, Mark(t)
      PROVE  TypeOK'
  BY <1>0, <1>5, MarkEffect DEF Mark, Turns, TypeOK, OutboxStatus
<1>6. ASSUME NEW t \in Tab, Send(t)
      PROVE  TypeOK'
  BY <1>0, <1>6, SendEffect DEF Send, Turns, TypeOK
<1>7. ASSUME NEW t \in Tab, FetchFails(t) \/ BatchRefused(t)
      PROVE  TypeOK'
  BY <1>0, <1>7, FailEffect DEF FetchFails, BatchRefused, Turns, TypeOK
<1>8. ASSUME NEW t \in Tab, ReconcileFirst(t)
      PROVE  TypeOK'
  <2>1. outbox' \in [Op -> OutboxStatus \cup {Absent}]
    BY <1>8, FirstEffect DEF TypeOK, Refusal, OutboxStatus
  <2>2. record' \in [Entity -> RecordStatus \cup {Absent}] /\ Turns(t)
    BY <1>8, FirstEffect, RecordTyped DEF TypeOK
  <2> QED BY <1>0, <1>8, <2>1, <2>2 DEF ReconcileFirst, Turns, TypeOK
<1>9. ASSUME NEW t \in Tab, ReconcileSecond(t)
      PROVE  TypeOK'
  <2>1. tab[t].cur \in DOMAIN tab[t].res
    BY <1>9 DEF ReconcileSecond, Current
  <2>2. outbox' \in [Op -> OutboxStatus \cup {Absent}]
    BY <1>9, <2>1, SecondEffect DEF TypeOK, OutboxStatus
  <2> DEFINE o == tab[t].cur
             s == tab[t].res[o]
  <2>3. o[1] \in Entity /\ s \in Result /\ Turns(t)
        /\ (record' = record \/ record' = RecordAfter(o[1], s))
    BY <1>9, <2>1, SecondEffect
  <2>4. record' \in [Entity -> RecordStatus \cup {Absent}]
    <3> HIDE DEF o, s
    <3> QED BY <2>3, RecordTyped DEF TypeOK
  <2> QED BY <1>0, <1>9, <2>2, <2>3, <2>4 DEF ReconcileSecond, Turns, TypeOK
<1>10. ASSUME NEW t \in Tab, Revert(t)
       PROVE  TypeOK'
  BY <1>0, <1>10, RevertEffect DEF Revert, Turns, TypeOK, OutboxStatus
<1>11. ASSUME NEW t \in Tab, Crash(t)
       PROVE  TypeOK'
  BY <1>0, <1>11, CrashEffect DEF Crash, Turns, TypeOK
<1>12. ASSUME UNCHANGED vars
       PROVE  TypeOK'
  BY <1>12 DEF vars, server, TypeOK
<1> QED
  BY <1>1, <1>2, <1>3, <1>4, <1>5, <1>6, <1>7, <1>8, <1>9, <1>10, <1>11, <1>12
  DEF Next, CycleStep

\* Who moves: the tabs that do not are as they were.
LEMMA TabStep ==
  ASSUME TypeOK, Handling, Current, [Next]_vars
  PROVE  \/ UNCHANGED tab
         \/ \E t \in Tab : Turns(t) /\ Moves(t)
         \/ \E w \in Worker, t \in Tab : Turns(t) /\ Reply(w) /\ worker[w].sender = t
<1>1. CASE \E t \in Tab : Moves(t)
  BY <1>1, Moving
<1>2. CASE \E w \in Worker : WorkerStep(w)
  BY <1>2, WorkerSteps, ReplyEffect
<1>3. CASE ~(\E t \in Tab : Moves(t)) /\ ~\E w \in Worker : WorkerStep(w)
  BY <1>3 DEF Moves, Next, vars, SaveIncident, Enqueue, SaveRequest
<1> QED BY <1>1, <1>2, <1>3

LEMMA CurrentStep == TypeOK /\ Handling /\ Current /\ [Next]_vars => Current'
<1> SUFFICES ASSUME TypeOK, Handling, Current, [Next]_vars, NEW u \in Tab, tab'[u].pc = "second"
             PROVE  tab'[u].cur \in DOMAIN tab'[u].res
  BY DEF Current
<1>1. CASE tab'[u] = tab[u]
  BY <1>1 DEF Current
<1>2. CASE tab'[u] # tab[u]
  <2>0. ASSUME NEW w \in Worker, Reply(w), worker[w].sender = u PROVE FALSE
    BY <1>2, <2>0, ReplyEffect, AbsentIsNoTab
  <2>1. Moves(u)
    BY <1>2, <2>0, TabStep DEF Turns
  <2>2. ReconcileSecond(u) => tab[u].cur \in DOMAIN tab[u].res
    BY DEF ReconcileSecond, Current
  <2>3. ~(BeginCycle(u) \/ Mark(u) \/ Send(u) \/ BatchRefused(u) \/ ReconcileSecond(u)
          \/ FetchFails(u) \/ Revert(u) \/ Crash(u))
    BY <2>2, BeginEffect, MarkEffect, SendEffect, SecondEffect, FailEffect,
       RevertEffect, CrashEffect DEF Rests
  <2>4. ReconcileFirst(u)
    BY <2>1, <2>3 DEF Moves, CycleStep
  <2> QED BY <2>4, FirstEffect
<1> QED BY <1>1, <1>2

--------------------------------------------------------------------------------
(* What the server has said *)

\* Two workers with the same operation in hand are on record, and so is one who has
\* an operation in hand that another has committed since.
Hands ==
  \A w \in Worker, o \in Op : InHandOf(w, o) =>
    /\ o \in committed => o \in overlapped
    /\ \A v \in Worker \ {w} : InHandOf(v, o) => o \in overlapped

\* A worker past its last check will commit the operation.
Bound(w, o) == InHandOf(w, o) /\ worker[w].pc \in {"store", "save"}

\* The server does not take this operation any more: it has the incident of the report
\* or will not have it. Only a worker that overlapped another one still may.
Barred(o) ==
  /\ o[1] \in stored \cup invalid
  /\ o \in overlapped \/ (o \notin committed /\ \A w \in Worker : ~Bound(w, o))

\* Answers are true: of success because the operation is committed, of refusal
\* because it is barred.
Truthful(r) == \A o \in DOMAIN r : IF Succeeded(r[o]) THEN o \in committed ELSE Barred(o)

Told == (\A t \in Tab : Truthful(tab[t].res)) /\ \A w \in Worker : Truthful(worker[w].res)

LEMMA InvalidFixed == ASSUME [Next]_vars PROVE invalid' = invalid
<1>1. CASE \E w \in Worker : WorkerStep(w)
  BY <1>1, WorkerQuiet
<1>2. CASE ~\E w \in Worker : WorkerStep(w)
  BY <1>2 DEF Next, vars, SaveIncident, Enqueue, SaveRequest, BeginCycle, CycleStep, Mark, Send,
              BatchRefused, ReconcileFirst, ReconcileSecond, FetchFails, Revert, Crash
<1> QED BY <1>1, <1>2

\* What others do neither takes an operation in hand nor commits one.
LEMMA UnworkedHands ==
  ASSUME TypeOK, Unworked
  PROVE  \A w \in Worker, o \in Op : /\ InHandOf(w, o)' <=> InHandOf(w, o)
                                     /\ Bound(w, o)' <=> Bound(w, o)
BY DEF Unworked, InHandOf, Bound

\* What a worker has in hand after a step of its own.
LEMMA HandsAfter ==
  ASSUME NEW w \in Worker, NEW o \in Op, NEW p \in Op
  PROVE  /\ Duplicate(w, o) \/ Refused(w, o) \/ Accepted(w, o) => ~InHandOf(w, p)'
         /\ Taken(w, o) => ~InHandOf(w, p) /\ (InHandOf(w, p)' <=> p = o)
                           /\ (Bound(w, p)' <=> p = o /\ o[1] \notin Incident)
         /\ Passed(w, o) => /\ InHandOf(w, p)' <=> p = o
                            /\ InHandOf(w, p) <=> p = o
                            /\ Bound(w, o)' => Bound(w, o) \/ o[1] \notin invalid \cup stored
<1>1. Duplicate(w, o) \/ Refused(w, o) \/ Accepted(w, o) => ~InHandOf(w, p)'
  BY DEF Duplicate, Refused, Accepted, Done, InHandOf
<1>2. Taken(w, o) => ~InHandOf(w, p) /\ (InHandOf(w, p)' <=> p = o)
                     /\ (Bound(w, p)' <=> p = o /\ o[1] \notin Incident)
  BY DEF Taken, GoesOn, InHandOf, Bound
<1>3. Passed(w, o) => /\ InHandOf(w, p)' <=> p = o
                      /\ InHandOf(w, p) <=> p = o
                      /\ Bound(w, o)' => Bound(w, o) \/ o[1] \notin invalid \cup stored
  BY DEF Passed, GoesOn, InHandOf, Bound
<1> QED BY <1>1, <1>2, <1>3

LEMMA OthersHands ==
  ASSUME NEW w \in Worker, WorksAlone(w), NEW v \in Worker, v # w
  PROVE  \A o \in Op : (InHandOf(v, o)' <=> InHandOf(v, o)) /\ (Bound(v, o)' <=> Bound(v, o))
BY DEF WorksAlone, InHandOf, Bound

\* The kinds of steps, as the server sees them.
LEMMA ServerCases ==
  ASSUME TypeOK, Handling, [Next]_vars
  PROVE  \/ Unworked
         \/ \E w \in Worker : WorksAlone(w) /\ Reply(w) /\ worker'[w] = Free
         \/ \E w \in Worker, o \in Op :
              /\ o \in worker[w].todo /\ WorksAlone(w) /\ UNCHANGED tab
              /\ \/ Duplicate(w, o) \/ Taken(w, o) \/ Passed(w, o)
                 \/ Refused(w, o) \/ Accepted(w, o)
<1>1. CASE \E w \in Worker : Reply(w)
  BY <1>1, ReplyEffect
<1>2. CASE \E w \in Worker : WorkerStep(w) /\ ~Reply(w)
  <2>1. PICK w \in Worker : WorkerStep(w) /\ ~Reply(w)
    BY <1>2
  <2>2. PICK o \in Op : /\ o \in worker[w].todo /\ UNCHANGED tab
                        /\ \/ Duplicate(w, o) \/ Taken(w, o) \/ Passed(w, o)
                           \/ Refused(w, o) \/ Accepted(w, o)
    BY <2>1, WorkerSteps
  <2>3. WorksAlone(w)
    BY <2>2 DEF Duplicate, Taken, Passed, Refused, Accepted, Done, GoesOn
  <2> QED BY <2>2, <2>3
<1>3. CASE ~\E w \in Worker : WorkerStep(w)
  BY <1>3, Unworking
<1> QED BY <1>1, <1>2, <1>3

LEMMA HandsStep == TypeOK /\ Handling /\ Hands /\ [Next]_vars => Hands'
<1> SUFFICES ASSUME TypeOK, Handling, Hands, [Next]_vars, NEW u \in Worker, NEW p \in Op,
                    InHandOf(u, p)'
             PROVE  /\ p \in committed' => p \in overlapped'
                    /\ \A v \in Worker \ {u} : InHandOf(v, p)' => p \in overlapped'
  BY DEF Hands
<1>1. CASE Unworked
  <2>1. InHandOf(u, p) /\ \A v \in Worker : InHandOf(v, p)' => InHandOf(v, p)
    BY <1>1, UnworkedHands
  <2> QED BY <1>1, <2>1 DEF Hands, Unworked
<1>2. ASSUME NEW w \in Worker, WorksAlone(w), Reply(w), worker'[w] = Free
      PROVE  /\ p \in committed' => p \in overlapped'
             /\ \A v \in Worker \ {u} : InHandOf(v, p)' => p \in overlapped'
  <2>1. UNCHANGED <<committed, overlapped>>
    BY <1>2 DEF Reply
  <2>2. ~InHandOf(w, p)'
    BY <1>2, FreeTyped DEF InHandOf
  <2> QED BY <1>2, <2>1, <2>2, OthersHands DEF Hands
<1>3. ASSUME NEW w \in Worker, NEW o \in Op, WorksAlone(w),
             Duplicate(w, o) \/ Refused(w, o)
      PROVE  /\ p \in committed' => p \in overlapped'
             /\ \A v \in Worker \ {u} : InHandOf(v, p)' => p \in overlapped'
  <2>1. UNCHANGED <<committed, overlapped>> /\ ~InHandOf(w, p)'
    BY <1>3, HandsAfter DEF Duplicate, Refused
  <2> QED BY <1>3, <2>1, OthersHands DEF Hands
<1>4. ASSUME NEW w \in Worker, NEW o \in Op, WorksAlone(w), Accepted(w, o)
      PROVE  /\ p \in committed' => p \in overlapped'
             /\ \A v \in Worker \ {u} : InHandOf(v, p)' => p \in overlapped'
  <2>1. committed' = committed \cup {o} /\ overlapped' = overlapped /\ ~InHandOf(w, p)'
        /\ InHandOf(w, o)
    BY <1>4, HandsAfter DEF Accepted
  <2> QED BY <1>4, <2>1, OthersHands DEF Hands
<1>5. ASSUME NEW w \in Worker, NEW o \in Op, WorksAlone(w), Passed(w, o)
      PROVE  /\ p \in committed' => p \in overlapped'
             /\ \A v \in Worker \ {u} : InHandOf(v, p)' => p \in overlapped'
  <2>1. UNCHANGED <<committed, overlapped>> /\ (InHandOf(w, p)' <=> InHandOf(w, p))
    BY <1>5, HandsAfter DEF Passed
  <2> QED BY <1>5, <2>1, OthersHands DEF Hands
<1>6. ASSUME NEW w \in Worker, NEW o \in Op, WorksAlone(w), Taken(w, o)
      PROVE  /\ p \in committed' => p \in overlapped'
             /\ \A v \in Worker \ {u} : InHandOf(v, p)' => p \in overlapped'
  <2>1. /\ committed' = committed /\ overlapped \subseteq overlapped' /\ o \notin committed
        /\ \A v \in Worker \ {w} : InHandOf(v, o) => o \in overlapped'
    BY <1>6 DEF Taken
  <2>2. InHandOf(w, p)' <=> p = o
    BY <1>6, HandsAfter
  <2>3. \A v \in Worker : v # w => (InHandOf(v, p)' <=> InHandOf(v, p))
    BY <1>6, OthersHands
  <2> QED BY <2>1, <2>2, <2>3 DEF Hands
<1> QED BY <1>1, <1>2, <1>3, <1>4, <1>5, <1>6, ServerCases

\* What was committed stays so, and what is barred.
LEMMA ServerStep ==
  ASSUME TypeOK, Handling, Hands, [Next]_vars
  PROVE  /\ committed \subseteq committed'
         /\ \A p \in Op : Barred(p) => Barred(p)'
<1>0. invalid' = invalid /\ Incident \cap Request = {}
  BY InvalidFixed, EntitiesDisjoint
<1>1. CASE Unworked
  BY <1>0, <1>1, UnworkedHands DEF Unworked, Barred
<1>2. ASSUME NEW w \in Worker, WorksAlone(w), Reply(w), worker'[w] = Free
      PROVE  /\ committed \subseteq committed'
             /\ \A p \in Op : Barred(p) => Barred(p)'
  <2>1. UNCHANGED <<stored, committed, overlapped>>
    BY <1>2 DEF Reply
  <2>2. \A p \in Op : ~InHandOf(w, p)'
    BY <1>2, FreeTyped DEF InHandOf
  <2>3. \A p \in Op, v \in Worker : Bound(v, p)' => Bound(v, p)
    BY <1>2, <2>2, OthersHands DEF Bound
  <2> QED BY <1>0, <2>1, <2>3 DEF Barred
<1>3. ASSUME NEW w \in Worker, NEW o \in Op, WorksAlone(w),
             Duplicate(w, o) \/ Refused(w, o)
      PROVE  /\ committed \subseteq committed'
             /\ \A p \in Op : Barred(p) => Barred(p)'
  <2>1. UNCHANGED <<stored, committed, overlapped>> /\ \A p \in Op : ~InHandOf(w, p)'
    BY <1>3, HandsAfter DEF Duplicate, Refused
  <2>2. \A p \in Op, v \in Worker : Bound(v, p)' => Bound(v, p)
    BY <1>3, <2>1, OthersHands DEF Bound
  <2> QED BY <1>0, <2>1, <2>2 DEF Barred
<1>4. ASSUME NEW w \in Worker, NEW o \in Op, WorksAlone(w), Accepted(w, o)
      PROVE  /\ committed \subseteq committed'
             /\ \A p \in Op : Barred(p) => Barred(p)'
  <2>1. /\ committed' = committed \cup {o} /\ UNCHANGED <<stored, overlapped>>
        /\ \A p \in Op : ~InHandOf(w, p)'
    BY <1>4, HandsAfter DEF Accepted
  <2>2. \A p \in Op, v \in Worker : Bound(v, p)' => Bound(v, p)
    BY <1>4, <2>1, OthersHands DEF Bound
  <2>3. Bound(w, o)
    BY <1>4 DEF Accepted, Bound
  <2>4. ASSUME NEW p \in Op, Barred(p), p \notin overlapped PROVE p \notin committed'
    BY <2>1, <2>3, <2>4 DEF Barred
  <2> QED BY <1>0, <2>1, <2>2, <2>4 DEF Barred
<1>5. ASSUME NEW w \in Worker, NEW o \in Op, WorksAlone(w), Passed(w, o)
      PROVE  /\ committed \subseteq committed'
             /\ \A p \in Op : Barred(p) => Barred(p)'
  <2>1. UNCHANGED <<committed, overlapped>> /\ stored \subseteq stored'
    BY <1>5 DEF Passed
  <2>2. ASSUME NEW p \in Op, NEW v \in Worker, p[1] \in stored \cup invalid, Bound(v, p)'
        PROVE  Bound(v, p)
    <3>1. CASE v = w
      <4>1. p = o
        BY <1>5, <2>2, <3>1, HandsAfter DEF Bound
      <4> QED BY <1>5, <2>2, <3>1, <4>1, HandsAfter
    <3> QED BY <1>5, <2>2, <3>1, OthersHands
  <2> QED BY <1>0, <2>1, <2>2 DEF Barred
<1>6. ASSUME NEW w \in Worker, NEW o \in Op, WorksAlone(w), Taken(w, o)
      PROVE  /\ committed \subseteq committed'
             /\ \A p \in Op : Barred(p) => Barred(p)'
  <2>1. UNCHANGED <<stored, committed>> /\ overlapped \subseteq overlapped'
    BY <1>6 DEF Taken
  <2>2. ASSUME NEW p \in Op, NEW v \in Worker, p[1] \in stored \cup invalid, Bound(v, p)'
        PROVE  Bound(v, p)
    <3>1. p[1] \in Incident
      BY <2>2 DEF TypeOK
    <3> QED BY <1>6, <2>2, <3>1, HandsAfter, OthersHands
  <2> QED BY <1>0, <2>1, <2>2 DEF Barred
<1> QED BY <1>1, <1>2, <1>3, <1>4, <1>5, <1>6, ServerCases

\* What a worker answers is true.
LEMMA AnswerTrue ==
  ASSUME TypeOK, Handling, Hands, [Next]_vars, NEW w \in Worker, NEW o \in Op, WorksAlone(w),
         Duplicate(w, o) \/ Refused(w, o) \/ Accepted(w, o)
  PROVE  IF Succeeded(worker'[w].res[o]) THEN o \in committed' ELSE Barred(o)'
<1>1. CASE Duplicate(w, o)
  BY <1>1 DEF Duplicate, Done, Succeeded
<1>2. CASE Accepted(w, o)
  BY <1>2 DEF Accepted, Done, Succeeded
<1>3. CASE Refused(w, o)
  <2>1. InHandOf(w, o) /\ o[1] \in stored \cup invalid /\ ~Succeeded(worker'[w].res[o])
        /\ UNCHANGED <<stored, committed, overlapped>> /\ invalid' = invalid
    BY <1>3, InvalidFixed DEF Refused, Done, Succeeded
  <2>2. ASSUME o \notin overlapped
        PROVE  o \notin committed /\ \A v \in Worker : ~Bound(v, o)'
    <3>1. o \notin committed /\ \A v \in Worker : v # w => ~InHandOf(v, o)
      BY <2>1, <2>2 DEF Hands
    <3>2. ~InHandOf(w, o)'
      BY <1>3, HandsAfter
    <3> QED BY <3>1, <3>2, OthersHands DEF Bound
  <2> QED BY <2>1, <2>2 DEF Barred
<1> QED BY <1>1, <1>2, <1>3

\* An answer a worker holds is its latest one or one it held before.
LEMMA ToldStep == TypeOK /\ Handling /\ Current /\ Hands /\ Told /\ [Next]_vars => Told'
<1> SUFFICES ASSUME TypeOK, Handling, Current, Hands, Told, [Next]_vars
             PROVE  Told'
  OBVIOUS
<1>0. ASSUME NEW r, DOMAIN r \subseteq Op, Truthful(r), NEW o \in DOMAIN r
      PROVE  IF Succeeded(r[o]) THEN o \in committed' ELSE Barred(o)'
  BY <1>0, ServerStep DEF Truthful
<1>1. ASSUME NEW u \in Worker, NEW o \in DOMAIN worker'[u].res
      PROVE  IF Succeeded(worker'[u].res[o]) THEN o \in committed' ELSE Barred(o)'
  <2>1. CASE o \in DOMAIN worker[u].res /\ worker'[u].res[o] = worker[u].res[o]
    BY <1>0, <2>1, WorkerParts DEF Told
  <2>2. CASE ~(o \in DOMAIN worker[u].res /\ worker'[u].res[o] = worker[u].res[o])
    <3>1. ~Unworked
      BY <1>1, <2>2 DEF Unworked
    <3>2. ~\E w \in Worker : WorksAlone(w) /\ Reply(w) /\ worker'[w] = Free
      BY <1>1, <2>2, FreeTyped DEF WorksAlone
    <3>3. PICK w \in Worker, p \in Op :
            /\ WorksAlone(w)
            /\ \/ Duplicate(w, p) \/ Taken(w, p) \/ Passed(w, p)
               \/ Refused(w, p) \/ Accepted(w, p)
      BY <3>1, <3>2, ServerCases
    <3>4. w = u
      BY <2>2, <3>3 DEF WorksAlone
    <3>5. ~Taken(w, p) /\ ~Passed(w, p)
      BY <2>2, <3>4 DEF Taken, Passed, GoesOn
    <3>6. p = o
      BY <1>1, <2>2, <3>3, <3>4, <3>5 DEF Duplicate, Refused, Accepted, Done
    <3> QED BY <3>3, <3>4, <3>5, <3>6, AnswerTrue
  <2> QED BY <2>1, <2>2
<1>2. ASSUME NEW t \in Tab, NEW o \in DOMAIN tab'[t].res
      PROVE  IF Succeeded(tab'[t].res[o]) THEN o \in committed' ELSE Barred(o)'
  <2>1. CASE o \in DOMAIN tab[t].res /\ tab'[t].res[o] = tab[t].res[o]
    BY <1>0, <2>1, CycleParts DEF Told
  <2>2. CASE ~(o \in DOMAIN tab[t].res /\ tab'[t].res[o] = tab[t].res[o])
    <3>1. tab'[t] # tab[t]
      BY <1>2, <2>2
    <3>2. ~Moves(t)
      <4>1. ReconcileSecond(t) => tab[t].cur \in DOMAIN tab[t].res
        BY DEF ReconcileSecond, Current
      <4>2. ~ReconcileFirst(t)
        BY <1>2, <2>2, FirstEffect
      <4>3. ASSUME ReconcileSecond(t) PROVE FALSE
        <5>1. \/ DOMAIN tab'[t].res = {}
              \/ tab'[t].res = [p \in DOMAIN tab[t].res \ {tab[t].cur} |-> tab[t].res[p]]
          BY <4>1, <4>3, SecondEffect DEF Rests
        <5> QED BY <1>2, <2>2, <5>1
      <4> QED BY <1>2, <4>2, <4>3, BeginEffect, MarkEffect, SendEffect, FailEffect, RevertEffect,
                 CrashEffect DEF Moves, CycleStep, Rests
    <3>3. PICK w \in Worker : Reply(w) /\ worker[w].sender = t
      BY <3>1, <3>2, TabStep DEF Turns
    <3>4. tab'[t].res = worker[w].res
      BY <3>3, ReplyEffect, AbsentIsNoTab
    <3> QED BY <1>0, <1>2, <3>4, WorkerParts DEF Told
  <2> QED BY <2>1, <2>2
<1> QED BY <1>1, <1>2 DEF Told, Truthful, Succeeded

--------------------------------------------------------------------------------
(* Who waits for the server *)

\* A tab that waits has one worker, at operations of its batch.
Waiting(w, t) ==
  /\ tab[t].pc = "wait"
  /\ worker[w].todo \cup DOMAIN worker[w].res \subseteq tab[t].batch
  /\ \A v \in Worker \ {w} : worker[v].sender # t

Serving == \A w \in Worker, t \in Tab : worker[w].sender = t => Waiting(w, t)

LEMMA ServingStep == TypeOK /\ Handling /\ Current /\ Serving /\ [Next]_vars => Serving'
<1> SUFFICES ASSUME TypeOK, Handling, Current, Serving, [Next]_vars,
                    NEW u \in Worker, NEW t \in Tab, worker'[u].sender = t
             PROVE  Waiting(u, t)'
  BY DEF Serving
<1>1. ASSUME NEW w \in Worker, WorkerStep(w), ~Reply(w)
      PROVE  Waiting(u, t)'
  <2>1. PICK o \in Op : /\ o \in worker[w].todo
                        /\ \/ Duplicate(w, o) \/ Taken(w, o) \/ Passed(w, o)
                           \/ Refused(w, o) \/ Accepted(w, o)
    BY <1>1, WorkerSteps
  <2>2. WorksAlone(w) /\ worker'[w].sender = worker[w].sender /\ tab' = tab
        /\ worker'[w].todo \cup DOMAIN worker'[w].res
             \subseteq worker[w].todo \cup DOMAIN worker[w].res
    BY <1>1, <2>1, WorkerSteps
    DEF Duplicate, Taken, Passed, Refused, Accepted, Done, GoesOn
  <2>3. \A v \in Worker : worker'[v].sender = worker[v].sender
    BY <2>2 DEF WorksAlone
  <2>4. worker'[u].todo \cup DOMAIN worker'[u].res
          \subseteq worker[u].todo \cup DOMAIN worker[u].res
    BY <2>2 DEF WorksAlone
  <2> QED BY <2>2, <2>3, <2>4 DEF Serving, Waiting
<1>2. ASSUME NEW w \in Worker, Reply(w)
      PROVE  Waiting(u, t)'
  <2>1. WorksAlone(w) /\ worker'[w].sender = Absent
    BY <1>2, ReplyEffect, FreeTyped
  <2>2. u # w /\ worker'[u] = worker[u] /\ Waiting(u, t)
    BY <2>1, AbsentIsNoTab DEF WorksAlone, Serving
  <2>3. tab'[t] = tab[t]
    BY <1>2, <2>2, ReplyEffect DEF Waiting, Turns
  <2> QED BY <2>1, <2>2, <2>3, AbsentIsNoTab DEF Waiting, WorksAlone
<1>3. ASSUME NEW s \in Tab, Send(s)
      PROVE  Waiting(u, t)'
  <2>1. PICK w \in Worker :
          /\ WorksAlone(w) /\ worker'[w].sender = s /\ worker'[w].todo = tab[s].batch
          /\ DOMAIN worker'[w].res = {}
    BY <1>3, Sending
  <2>2. /\ Turns(s) /\ tab'[s].pc = "wait" /\ tab'[s].batch = tab[s].batch
        /\ \A v \in Worker : worker[v].sender # s
    BY <1>3, SendEffect DEF Send, Serving, Waiting
  <2>3. CASE u = w
    BY <2>1, <2>2, <2>3 DEF Waiting, WorksAlone
  <2>4. CASE u # w
    <3>1. Waiting(u, t) /\ worker'[u] = worker[u] /\ t # s /\ tab'[t] = tab[t]
      BY <2>1, <2>2, <2>4 DEF WorksAlone, Serving, Turns
    <3> QED BY <2>1, <3>1 DEF Waiting, WorksAlone
  <2> QED BY <2>3, <2>4
<1>4. ASSUME NEW s \in Tab, FetchFails(s) \/ Crash(s)
      PROVE  Waiting(u, t)'
  <2>1. GiveUp(s) /\ Turns(s)
    BY <1>4, FailEffect, CrashEffect DEF FetchFails, Crash
  <2>2. \A w \in Worker :
          /\ worker'[w].todo = worker[w].todo /\ worker'[w].res = worker[w].res
          /\ worker'[w].sender = IF worker[w].sender = s THEN Absent ELSE worker[w].sender
    BY <2>1, GivingUp
  <2>3. worker[u].sender = t /\ t # s /\ tab'[t] = tab[t] /\ Waiting(u, t)
    BY <2>1, <2>2, AbsentIsNoTab DEF Turns, Serving
  <2>4. \A v \in Worker : worker'[v].sender = t => worker[v].sender = t
    BY <2>2, AbsentIsNoTab
  <2>5. worker'[u].todo = worker[u].todo /\ worker'[u].res = worker[u].res
    BY <2>2
  <2> QED BY <2>3, <2>4, <2>5 DEF Waiting
<1>5. ASSUME NEW s \in Tab, Moves(s), ~(Send(s) \/ FetchFails(s) \/ Crash(s))
      PROVE  Waiting(u, t)'
  <2>1. worker' = worker /\ tab[s].pc # "wait"
    BY <1>5 DEF Moves, CycleStep, server, BeginCycle, Mark, BatchRefused, ReconcileFirst,
                ReconcileSecond, Revert
  <2>2. Waiting(u, t) /\ t # s
    BY <2>1 DEF Serving, Waiting
  <2>3. tab'[t] = tab[t]
    BY <1>5, <2>2, Moving DEF Turns
  <2> QED BY <2>1, <2>2, <2>3 DEF Waiting
<1>6. CASE ~(\E s \in Tab : Moves(s)) /\ ~\E w \in Worker : WorkerStep(w)
  <2>1. UNCHANGED <<tab, worker>>
    BY <1>6 DEF Moves, Next, vars, server, SaveIncident, Enqueue, SaveRequest
  <2> QED BY <2>1 DEF Serving, Waiting
<1> QED BY <1>1, <1>2, <1>3, <1>4, <1>5, <1>6
--------------------------------------------------------------------------------
(* What is written down *)

\* An operation's entry changes because it is put in, taken up or put back,
\* removed as the server has it, or refused for good.
LEMMA OutboxStep ==
  ASSUME TypeOK, Handling, Current, Told, [Next]_vars, NEW o \in Op, outbox'[o] # outbox[o]
  PROVE  \/ outbox'[o] \in {"PENDING", "SYNCING"}
         \/ outbox'[o] = Absent /\ o \in committed
         \/ outbox'[o] \in {"CONFLICT", "FAILED"} /\ Barred(o)
<1>1. ASSUME NEW i \in Incident, SaveIncident(i)
      PROVE  outbox'[o] = "PENDING"
  BY <1>1, SavedTyped DEF SaveIncident, TypeOK
<1>2. ASSUME NEW e \in Entity, Enqueue(e)
      PROVE  outbox'[o] = "PENDING"
  BY <1>2, QueuedTyped DEF Enqueue, TypeOK
<1>3. ASSUME NEW t \in Tab, Mark(t)
      PROVE  outbox'[o] = "SYNCING"
  BY <1>3, MarkEffect DEF TypeOK
<1>4. ASSUME NEW t \in Tab, Revert(t)
      PROVE  outbox'[o] = "PENDING"
  BY <1>4, RevertEffect DEF TypeOK
<1>5. ASSUME NEW t \in Tab, ReconcileFirst(t)
      PROVE  outbox'[o] \in {"CONFLICT", "FAILED"} /\ Barred(o)
  <2>1. PICK p \in Op :
          /\ p \in DOMAIN tab[t].res /\ ~Succeeded(tab[t].res[p])
          /\ outbox' = [outbox EXCEPT ![p] = Refusal(tab[t].res[p])]
    BY <1>5, FirstEffect
  <2>2. o = p /\ outbox'[o] = Refusal(tab[t].res[o])
    BY <2>1 DEF TypeOK
  <2>3. Barred(o)
    BY <2>1, <2>2 DEF Told, Truthful
  <2> QED BY <2>1, <2>2, <2>3 DEF Refusal
<1>6. ASSUME NEW t \in Tab, ReconcileSecond(t)
      PROVE  outbox'[o] = Absent /\ o \in committed
  <2>1. tab[t].cur \in DOMAIN tab[t].res
    BY <1>6 DEF ReconcileSecond, Current
  <2>2. /\ tab[t].cur \in Op /\ Succeeded(tab[t].res[tab[t].cur])
        /\ outbox' = [outbox EXCEPT ![tab[t].cur] = Absent]
    BY <1>6, <2>1, SecondEffect
  <2>3. o = tab[t].cur /\ outbox'[o] = Absent
    BY <2>2 DEF TypeOK
  <2> QED BY <2>1, <2>2, <2>3 DEF Told, Truthful
<1>7. CASE \A t \in Tab : ~(Mark(t) \/ Revert(t) \/ ReconcileFirst(t) \/ ReconcileSecond(t))
  <2>1. (\E i \in Incident : SaveIncident(i)) \/ (\E e \in Entity : Enqueue(e))
    BY <1>7, WorkerQuiet
    DEF Next, vars, SaveRequest, BeginCycle, CycleStep, Send, BatchRefused, FetchFails, Crash
  <2> QED BY <1>1, <1>2, <2>1
<1> QED BY <1>3, <1>4, <1>5, <1>6, <1>7

\* A record turns SYNCED only for what the server has.
LEMMA RecordStep ==
  ASSUME TypeOK, Handling, Current, Told, [Next]_vars, NEW e \in Entity, record'[e] = "SYNCED",
         record[e] # "SYNCED"
  PROVE  Exists(e)
<1>1. ASSUME NEW p \in Op, NEW s \in Result, record' = RecordAfter(p[1], s),
             Succeeded(s) => p \in committed
      PROVE  Exists(e)
  <2>1. p[1] = e /\ Succeeded(s)
    BY <1>1 DEF RecordAfter, TypeOK
  <2> QED BY <1>1, <2>1 DEF Exists
<1>2. ASSUME NEW t \in Tab, ReconcileFirst(t)
      PROVE  Exists(e)
  <2>1. PICK p \in Op :
          /\ p \in DOMAIN tab[t].res /\ tab[t].res[p] \in Result /\ Succeeded(tab[t].res[p])
          /\ record' = RecordAfter(p[1], tab[t].res[p])
    BY <1>2, FirstEffect
  <2> QED BY <1>1, <2>1 DEF Told, Truthful
<1>3. ASSUME NEW t \in Tab, ReconcileSecond(t)
      PROVE  Exists(e)
  <2> DEFINE p == tab[t].cur
  <2>1. p \in DOMAIN tab[t].res
    BY <1>3 DEF ReconcileSecond, Current
  <2>2. /\ p \in Op /\ tab[t].res[p] \in Result /\ ~Succeeded(tab[t].res[p])
        /\ record' = RecordAfter(p[1], tab[t].res[p])
    BY <1>3, <2>1, SecondEffect
  <2> QED BY <1>1, <2>2
<1>4. ASSUME NEW i \in Incident, SaveIncident(i)
      PROVE  FALSE
  BY <1>4, SavedTyped DEF SaveIncident, TypeOK
<1>5. ASSUME NEW r \in Request, SaveRequest(r)
      PROVE  FALSE
  BY <1>5 DEF SaveRequest, TypeOK, Entity
<1>6. CASE \A t \in Tab : ~(ReconcileFirst(t) \/ ReconcileSecond(t))
  BY <1>4, <1>5, <1>6, WorkerQuiet
  DEF Next, vars, Enqueue, BeginCycle, CycleStep, Mark, Send, BatchRefused, FetchFails, Revert,
      Crash
<1> QED BY <1>2, <1>3, <1>6

RefusedForGood == \A o \in Op : outbox[o] \in {"CONFLICT", "FAILED"} => Barred(o)

IInv ==
  /\ TypeOK /\ Handling /\ Current /\ Hands /\ Serving /\ Told
  /\ NothingLost /\ SyncedIsCommitted /\ RefusedForGood

LEMMA InitInv == Init => IInv
<1> SUFFICES ASSUME Init PROVE IInv
  OBVIOUS
<1>1. TypeOK
  BY InitTypeOK
<1>2. \A t \in Tab : tab[t].pc = "idle" /\ DOMAIN tab[t].res = {}
  BY IdleTyped DEF Init
<1>3. \A w \in Worker : /\ worker[w].pc = "free" /\ DOMAIN worker[w].res = {}
                        /\ worker[w].sender = Absent
  BY FreeTyped DEF Init
<1>4. Current /\ Told /\ Handling /\ Hands
  BY <1>2, <1>3 DEF Current, Told, Truthful, Handling, Hands, InHandOf
<1>5. Serving
  BY <1>3, AbsentIsNoTab DEF Serving
<1>6. NothingLost /\ SyncedIsCommitted /\ RefusedForGood
  BY AbsentIsNoStatus DEF Init, NothingLost, SyncedIsCommitted, RefusedForGood
<1> QED BY <1>1, <1>4, <1>5, <1>6 DEF IInv

LEMMA InvStep == IInv /\ [Next]_vars => IInv'
<1> SUFFICES ASSUME IInv, [Next]_vars PROVE IInv'
  OBVIOUS
<1>1. TypeOK' /\ Handling' /\ Current' /\ Hands' /\ Serving' /\ Told'
  BY TypeStep, HandlingStep, CurrentStep, HandsStep, ServingStep, ToldStep DEF IInv
<1>2. NothingLost'
  <2> SUFFICES ASSUME NEW o \in queued', outbox'[o] = Absent PROVE o \in committed'
    BY DEF NothingLost
  <2>1. o \in Op
    BY <1>1 DEF TypeOK
  <2>2. CASE outbox'[o] # outbox[o]
    BY <2>1, <2>2, OutboxStep, ServerStep, AbsentIsNoStatus DEF IInv
  <2>3. CASE outbox'[o] = outbox[o]
    <3>1. o \in queued
      <4>1. ASSUME NEW i \in Incident, SaveIncident(i), o = <<i, "saved">>
            PROVE  FALSE
        BY <4>1, SavedTyped, AbsentIsNoStatus DEF SaveIncident, IInv, TypeOK
      <4>2. ASSUME NEW e \in Entity, Enqueue(e), o = <<e, "queued">>
            PROVE  FALSE
        BY <4>2, QueuedTyped, AbsentIsNoStatus DEF Enqueue, IInv, TypeOK
      <4> QED
        BY <4>1, <4>2, WorkerQuiet
        DEF Next, vars, SaveIncident, Enqueue, SaveRequest, BeginCycle, CycleStep, Mark, Send,
            BatchRefused, ReconcileFirst, ReconcileSecond, FetchFails, Revert, Crash
    <3> QED BY <2>3, <3>1, ServerStep DEF IInv, NothingLost
  <2> QED BY <2>2, <2>3
<1>3. SyncedIsCommitted'
  <2>1. \A e \in Entity : Exists(e) => Exists(e)'
    BY ServerStep DEF IInv, Exists
  <2> QED BY <2>1, RecordStep DEF IInv, SyncedIsCommitted
<1>4. RefusedForGood'
  <2> SUFFICES ASSUME NEW o \in Op, outbox'[o] \in {"CONFLICT", "FAILED"}
               PROVE  Barred(o)'
    BY DEF RefusedForGood
  <2>1. Barred(o)
    BY OutboxStep, AbsentIsNoStatus DEF IInv, RefusedForGood
  <2> QED BY <2>1, ServerStep DEF IInv
<1> QED BY <1>1, <1>2, <1>3, <1>4 DEF IInv

LEMMA Inductive == Spec => []IInv
BY InitInv, InvStep, PTL DEF Spec

\* Types of the stores, the cycles and the server, for any number of tabs.
THEOREM TypeCorrect == Spec => []TypeOK
<1>1. IInv => TypeOK
  BY DEF IInv
<1> QED BY <1>1, Inductive, PTL

\* reconcileSuccess is the only way out of the outbox: whatever fails or closes,
\* with or without Web Locks, an operation is there until the server has it.
THEOREM NeverLost == Spec => []NothingLost
<1>1. IInv => NothingLost
  BY DEF IInv
<1> QED BY <1>1, Inductive, PTL

\* reconcileSuccess marks a record SYNCED for an operation the server took.
THEOREM SyncedMeansTaken == Spec => []SyncedIsCommitted
<1>1. IInv => SyncedIsCommitted
  BY DEF IInv
<1> QED BY <1>1, Inductive, PTL

\* reconcileConflict and reconcileRejection keep as refused only reports whose incident the
\* server has or rejects; an operation it has accepted is among them, now or later,
\* only when two of its workers had the operation in hand at once.
THEOREM RefusalIsRight == Spec => []RefusedRightly
<1>1. IInv => RefusedRightly
  BY DEF IInv, RefusedForGood, Barred, RefusedRightly
<1> QED BY <1>1, Inductive, PTL

--------------------------------------------------------------------------------
(* What is settled stays settled *)

\* The Web Lock: one tab at a time is in a cycle.
Exclusive == \A t, u \in Tab : tab[t].pc # "idle" /\ tab[u].pc # "idle" => t = u

NotQueued == \A o \in Op : o \notin queued => outbox[o] = Absent

\* How far a cycle is with its operations in the outbox.
Progress(t) ==
  /\ tab[t].pc = "mark" =>
       /\ \A o \in tab[t].todo : outbox[o] = "PENDING"
       /\ \A o \in tab[t].batch \ tab[t].todo : outbox[o] = "SYNCING"
       /\ DOMAIN tab[t].res = {}
  /\ tab[t].pc \in {"send", "wait"} => \A o \in tab[t].batch : outbox[o] = "SYNCING"
  /\ tab[t].pc \in {"reconcile", "revert"} =>
       \A o \in tab[t].todo \cup DOMAIN tab[t].res : outbox[o] = "SYNCING"
  /\ tab[t].pc = "second" =>
       /\ \A o \in DOMAIN tab[t].res \ {tab[t].cur} : outbox[o] = "SYNCING"
       /\ Succeeded(tab[t].res[tab[t].cur]) => outbox[tab[t].cur] = "SYNCING"

LInv == Exclusive /\ NotQueued /\ \A t \in Tab : Progress(t)

\* A tab that moves, or is answered, is alone: all others are idle before and after.
LEMMA AloneMoves ==
  ASSUME WebLocks, TypeOK, Current, Serving, LInv, NEW t \in Tab,
         Moves(t) \/ \E w \in Worker : Reply(w) /\ worker[w].sender = t
  PROVE  Turns(t) /\ \A u \in Tab : u # t => tab[u].pc = "idle" /\ tab'[u].pc = "idle"
<1>1. Turns(t)
  BY Moving, ReplyEffect, AbsentIsNoTab
<1>2. CASE BeginCycle(t)
  BY <1>1, <1>2 DEF BeginCycle, Turns
<1>3. CASE ~BeginCycle(t)
  <2>1. tab[t].pc # "idle"
    BY <1>3 DEF Moves, CycleStep, Mark, Send, BatchRefused, ReconcileFirst, ReconcileSecond,
                Revert, FetchFails, Crash, Serving, Waiting
  <2> QED BY <1>1, <2>1 DEF LInv, Exclusive, Turns
<1> QED BY <1>2, <1>3

LEMMA ProgressStep ==
  ASSUME WebLocks, TypeOK, Current, LInv, NEW t \in Tab,
         Moves(t)
  PROVE  Progress(t)'
<1>0. Progress(t)
  BY DEF LInv
<1>1. CASE BeginCycle(t)
  BY <1>1, BeginEffect DEF BeginCycle, Progress, Pending
<1>2. CASE Mark(t)
  <2>1. PICK o \in Op :
          /\ o \in tab[t].todo /\ outbox' = [outbox EXCEPT ![o] = "SYNCING"]
          /\ DOMAIN tab'[t].res = {} /\ tab'[t].batch = tab[t].batch
          /\ \/ tab'[t].pc = "mark" /\ tab'[t].todo = tab[t].todo \ {o}
             \/ tab'[t].pc = "send" /\ tab'[t].todo = {} /\ tab[t].todo = {o}
    BY <1>2, MarkEffect
  <2>2. tab[t].batch \subseteq Op /\ tab[t].todo \subseteq Op
    BY CycleParts
  <2>3. tab[t].pc = "mark"
    BY <1>2 DEF Mark
  <2> QED BY <1>0, <2>1, <2>2, <2>3 DEF Progress, TypeOK
<1>3. CASE Send(t)
  <2>1. tab[t].pc = "send" /\ UNCHANGED outbox
    BY <1>3 DEF Send
  <2> QED BY <1>0, <1>3, <2>1, SendEffect DEF Progress
<1>4. CASE ReconcileFirst(t)
  <2>1. tab[t].pc = "reconcile"
    BY <1>4 DEF ReconcileFirst
  <2>2. PICK o \in Op :
          /\ o \in DOMAIN tab[t].res
          /\ IF Succeeded(tab[t].res[o]) THEN UNCHANGED outbox
             ELSE outbox' = [outbox EXCEPT ![o] = Refusal(tab[t].res[o])]
          /\ tab'[t].pc = "second" /\ tab'[t].res = tab[t].res /\ tab'[t].cur = o
    BY <1>4, FirstEffect
  <2>3. \A p \in DOMAIN tab[t].res : p \in Op /\ outbox[p] = "SYNCING"
    BY <1>0, <2>1, CycleParts DEF Progress
  <2>4. \A p \in DOMAIN tab[t].res : p # o => outbox'[p] = "SYNCING"
    BY <2>2, <2>3 DEF TypeOK
  <2>5. Succeeded(tab[t].res[o]) => outbox'[o] = "SYNCING"
    BY <2>2, <2>3
  <2> QED BY <2>2, <2>4, <2>5 DEF Progress, Succeeded
<1>5. CASE ReconcileSecond(t)
  <2> DEFINE o == tab[t].cur
  <2>1. tab[t].pc = "second" /\ o \in DOMAIN tab[t].res
    BY <1>5 DEF ReconcileSecond, Current
  <2>2. /\ o \in Op
        /\ UNCHANGED outbox \/ outbox' = [outbox EXCEPT ![o] = Absent]
        /\ \/ Rests(t)
           \/ /\ tab'[t].pc = "reconcile" /\ tab'[t].todo = {}
              /\ tab'[t].res = [p \in DOMAIN tab[t].res \ {o} |-> tab[t].res[p]]
    BY <1>5, <2>1, SecondEffect
  <2>3. \A p \in DOMAIN tab[t].res \ {o} : outbox'[p] = "SYNCING"
    BY <1>0, <2>1, <2>2, CycleParts DEF Progress, TypeOK
  <2> QED BY <2>2, <2>3 DEF Progress, Rests
<1>6. CASE FetchFails(t) \/ BatchRefused(t)
  BY <1>6, FailEffect DEF FetchFails, BatchRefused, Progress, Rests
<1>7. CASE Revert(t)
  <2>1. tab[t].pc = "revert" /\ \A p \in tab[t].todo : p \in Op /\ outbox[p] = "SYNCING"
    BY <1>0, <1>7, CycleParts DEF Revert, Progress
  <2> QED BY <1>7, <2>1, RevertEffect DEF Progress, Rests, TypeOK
<1>8. CASE Crash(t)
  BY <1>8, CrashEffect DEF Progress, Rests
<1> QED BY <1>1, <1>2, <1>3, <1>4, <1>5, <1>6, <1>7, <1>8 DEF Moves, CycleStep

\* The answers a tab gets are of operations it is at.
LEMMA AnsweredProgress ==
  ASSUME TypeOK, Serving, LInv, NEW w \in Worker, NEW t \in Tab, Reply(w), worker[w].sender = t
  PROVE  Progress(t)'
<1>1. /\ tab'[t].pc = "reconcile" /\ tab'[t].todo = {} /\ tab'[t].res = worker[w].res
      /\ outbox' = outbox
  BY ReplyEffect, AbsentIsNoTab DEF Reply
<1>2. \A o \in DOMAIN worker[w].res : outbox[o] = "SYNCING"
  BY DEF Serving, Waiting, LInv, Progress
<1> QED BY <1>1, <1>2 DEF Progress

LEMMA QueuedGrows == [Next]_vars => queued \subseteq queued'
BY WorkerQuiet
DEF Next, vars, SaveIncident, Enqueue, SaveRequest, BeginCycle, CycleStep, Mark, Send,
    BatchRefused, ReconcileFirst, ReconcileSecond, FetchFails, Revert, Crash

\* The entries a step touches are new ones and those of a cycle under way.
LEMMA TouchStep ==
  ASSUME WebLocks, TypeOK, Current, LInv, [Next]_vars, NEW o \in Op, outbox'[o] # outbox[o]
  PROVE  \/ UNCHANGED tab /\ o \notin queued /\ o \in queued'
         \/ outbox[o] \in {"PENDING", "SYNCING"}
<1>1. ASSUME NEW i \in Incident, SaveIncident(i)
      PROVE  UNCHANGED tab /\ o \notin queued /\ o \in queued'
  BY <1>1, SavedTyped DEF SaveIncident, TypeOK
<1>2. ASSUME NEW e \in Entity, Enqueue(e)
      PROVE  UNCHANGED tab /\ o \notin queued /\ o \in queued'
  BY <1>2, QueuedTyped DEF Enqueue, TypeOK
<1>3. ASSUME NEW t \in Tab, Mark(t)
      PROVE  outbox[o] = "PENDING"
  <2>1. tab[t].pc = "mark" /\ o \in tab[t].todo
    BY <1>3, MarkEffect DEF Mark, TypeOK
  <2> QED BY <2>1 DEF LInv, Progress
<1>4. ASSUME NEW t \in Tab, Revert(t)
      PROVE  outbox[o] = "SYNCING"
  <2>1. tab[t].pc = "revert" /\ o \in tab[t].todo
    BY <1>4, RevertEffect DEF Revert, TypeOK
  <2> QED BY <2>1 DEF LInv, Progress
<1>5. ASSUME NEW t \in Tab, ReconcileFirst(t)
      PROVE  outbox[o] = "SYNCING"
  <2>1. tab[t].pc = "reconcile" /\ o \in DOMAIN tab[t].res
    BY <1>5, FirstEffect DEF ReconcileFirst, TypeOK
  <2> QED BY <2>1 DEF LInv, Progress
<1>6. ASSUME NEW t \in Tab, ReconcileSecond(t)
      PROVE  outbox[o] = "SYNCING"
  <2>1. tab[t].pc = "second" /\ tab[t].cur \in DOMAIN tab[t].res
    BY <1>6 DEF ReconcileSecond, Current
  <2>2. o = tab[t].cur /\ Succeeded(tab[t].res[o])
    BY <1>6, <2>1, SecondEffect DEF TypeOK
  <2> QED BY <2>1, <2>2 DEF LInv, Progress
<1>7. CASE \A t \in Tab : ~(Mark(t) \/ Revert(t) \/ ReconcileFirst(t) \/ ReconcileSecond(t))
  <2>1. (\E i \in Incident : SaveIncident(i)) \/ (\E e \in Entity : Enqueue(e))
    BY <1>7, WorkerQuiet
    DEF Next, vars, SaveRequest, BeginCycle, CycleStep, Send, BatchRefused, FetchFails, Crash
  <2> QED BY <1>1, <1>2, <2>1
<1> QED BY <1>3, <1>4, <1>5, <1>6, <1>7

LEMMA LocksStep ==
  WebLocks /\ TypeOK /\ Handling /\ Current /\ Serving /\ LInv /\ [Next]_vars => LInv'
<1> SUFFICES ASSUME WebLocks, TypeOK, Handling, Current, Serving, LInv, [Next]_vars
             PROVE  LInv'
  OBVIOUS
<1>1. NotQueued'
  BY TouchStep, QueuedGrows, AbsentIsNoStatus DEF LInv, NotQueued
<1>2. ASSUME NEW t \in Tab, Moves(t) \/ \E w \in Worker : Reply(w) /\ worker[w].sender = t
      PROVE  LInv'
  <2>1. \A u \in Tab : u # t => tab'[u].pc = "idle"
    BY <1>2, AloneMoves
  <2>2. Progress(t)'
    BY <1>2, ProgressStep, AnsweredProgress
  <2>3. \A u \in Tab : Progress(u)'
    BY <2>1, <2>2 DEF Progress
  <2>4. Exclusive'
    BY <2>1 DEF Exclusive
  <2> QED BY <1>1, <2>3, <2>4 DEF LInv
<1>3. ASSUME \A t \in Tab :
               ~Moves(t) /\ ~\E w \in Worker : Reply(w) /\ worker[w].sender = t
      PROVE  LInv'
  <2>0. UNCHANGED tab
    BY <1>3, TabStep
  <2>1. Exclusive'
    BY <2>0 DEF LInv, Exclusive
  <2>2. ASSUME NEW o \in Op, outbox[o] \in {"PENDING", "SYNCING"}
        PROVE  outbox'[o] = outbox[o]
    <3>1. o \in queued
      BY <2>2, AbsentIsNoStatus DEF LInv, NotQueued
    <3>2. ASSUME NEW i \in Incident, SaveIncident(i)
          PROVE  outbox'[o] = outbox[o]
      BY <3>1, <3>2 DEF SaveIncident, TypeOK
    <3>3. ASSUME NEW e \in Entity, Enqueue(e)
          PROVE  outbox'[o] = outbox[o]
      BY <3>1, <3>3 DEF Enqueue, TypeOK
    <3> QED BY <1>3, <3>2, <3>3, WorkerQuiet DEF Moves, Next, vars, SaveRequest
  <2>3. ASSUME NEW u \in Tab
        PROVE  Progress(u)'
    <3>1. /\ tab[u].batch \subseteq Op /\ tab[u].todo \subseteq Op
          /\ DOMAIN tab[u].res \subseteq Op
          /\ tab[u].pc = "second" => tab[u].cur \in Op
      BY CycleParts DEF Current
    <3>2. Progress(u)
      BY DEF LInv
    <3> QED BY <2>0, <2>2, <3>1, <3>2 DEF Progress, Succeeded
  <2> QED BY <1>1, <2>1, <2>3 DEF LInv
<1> QED BY <1>2, <1>3

\* "Do not retry automatically": with Web Locks neither another tab nor a cycle
\* that fails takes up again what reconcileRejection, reconcileConflict or
\* reconcileSuccess has settled.
THEOREM SettledForGood == ASSUME WebLocks PROVE Spec => SettledStays
<1>1. Init => LInv
  <2> SUFFICES ASSUME Init PROVE LInv
    OBVIOUS
  <2>1. \A t \in Tab : tab[t].pc = "idle"
    BY IdleTyped DEF Init
  <2>2. NotQueued
    BY DEF Init, NotQueued
  <2> QED BY <2>1, <2>2 DEF LInv, Exclusive, Progress
<1>2. IInv /\ LInv /\ [Next]_vars => LInv'
  BY LocksStep DEF IInv
<1>3. IInv /\ LInv /\ [Next]_vars => [\A o \in Op : Settled(o) => outbox'[o] = outbox[o]]_vars
  BY TouchStep, AbsentIsNoStatus DEF IInv, Settled
<1> QED BY <1>1, <1>2, <1>3, Inductive, PTL DEF Spec, SettledStays

--------------------------------------------------------------------------------
(* What is refused is shown *)

\* The operations of a report are queued after it was saved.
Saved(o) == o[1] \in Incident => <<o[1], "saved">> \in queued

\* A cycle's results are of its batch, all of it queued.
Batched(t) ==
  tab[t].pc # "idle" =>
    /\ DOMAIN tab[t].res \subseteq tab[t].batch
    /\ \A o \in tab[t].batch \cup tab[t].todo : Saved(o)

\* What is in the outbox was queued, and a saved report has its record.
Recorded ==
  /\ \A o \in Op : outbox[o] # Absent => Saved(o)
  /\ \A i \in Incident : <<i, "saved">> \in queued => record[i] # Absent

\* A tab is about to show the refusal.
Showing(t, o) == tab[t].pc = "second" /\ tab[t].cur = o /\ ~Succeeded(tab[t].res[o])

Shown(o) ==
  o[1] \in Incident /\ outbox[o] \in {"CONFLICT", "FAILED"} /\ ~Exists(o[1])
  => record[o[1]] = "SYNC_ERROR" \/ crashes > 0 \/ \E t \in Tab : Showing(t, o)

SInv == crashes \in Nat /\ (\A t \in Tab : Batched(t)) /\ Recorded /\ \A o \in Op : Shown(o)

LEMMA SavedGrows ==
  ASSUME [Next]_vars, NEW o, Saved(o)
  PROVE  Saved(o)'
BY QueuedGrows DEF Saved

\* A tab's step keeps its results within a batch that was queued.
LEMMA BatchedStep ==
  ASSUME TypeOK, Current, Recorded, [Next]_vars, NEW t \in Tab, Batched(t),
         Moves(t)
  PROVE  Batched(t)'
<1>0. \A o : Saved(o) => Saved(o)'
  BY SavedGrows
<1> HIDE DEF Saved
<1>1. CASE BeginCycle(t)
  <2>1. \A o \in Pending : Saved(o)
    BY AbsentIsNoStatus DEF Pending, Recorded
  <2> QED BY <1>0, <1>1, <2>1, BeginEffect DEF Batched
<1>2. CASE Mark(t)
  <2>1. tab[t].pc = "mark"
    BY <1>2 DEF Mark
  <2> QED BY <1>0, <1>2, <2>1, MarkEffect DEF Batched
<1>3. CASE Send(t)
  <2>1. tab[t].pc = "send"
    BY <1>3 DEF Send
  <2> QED BY <1>0, <1>3, <2>1, SendEffect DEF Batched
<1>4. CASE ReconcileFirst(t)
  <2>1. tab[t].pc = "reconcile"
    BY <1>4 DEF ReconcileFirst
  <2>2. /\ tab'[t].pc = "second" /\ tab'[t].batch = tab[t].batch
        /\ tab'[t].todo = {} /\ tab'[t].res = tab[t].res
    BY <1>4, FirstEffect
  <2> QED BY <1>0, <2>1, <2>2 DEF Batched
<1>5. CASE ReconcileSecond(t)
  <2>1. tab[t].pc = "second" /\ tab[t].cur \in DOMAIN tab[t].res
    BY <1>5 DEF ReconcileSecond, Current
  <2>2. \/ Rests(t)
        \/ /\ tab'[t].pc = "reconcile" /\ tab'[t].batch = tab[t].batch /\ tab'[t].todo = {}
           /\ DOMAIN tab'[t].res \subseteq DOMAIN tab[t].res
    BY <1>5, <2>1, SecondEffect
  <2> QED BY <1>0, <2>1, <2>2 DEF Batched, Rests
<1>6. CASE FetchFails(t) \/ BatchRefused(t)
  <2>1. tab[t].pc \in {"send", "wait"}
    BY <1>6 DEF FetchFails, BatchRefused
  <2>2. \A o \in {q \in Op : outbox[q] = "SYNCING"} : Saved(o)
    BY AbsentIsNoStatus DEF Recorded
  <2> QED BY <1>0, <1>6, <2>1, <2>2, FailEffect DEF Batched, Rests
<1>7. CASE Revert(t)
  <2>1. tab[t].pc = "revert"
    BY <1>7 DEF Revert
  <2> QED BY <1>0, <1>7, <2>1, RevertEffect DEF Batched, Rests
<1>8. CASE Crash(t)
  BY <1>8, CrashEffect DEF Batched, Rests
<1> QED BY <1>1, <1>2, <1>3, <1>4, <1>5, <1>6, <1>7, <1>8 DEF Moves, CycleStep

\* What comes into the outbox was saved or is of a batch.
LEMMA SavedStep ==
  ASSUME TypeOK, Current, SInv, [Next]_vars, NEW o \in Op, outbox'[o] # Absent
  PROVE  Saved(o)'
<1>1. CASE outbox'[o] = outbox[o]
  BY <1>1, SavedGrows DEF SInv, Recorded
<1>2. CASE outbox'[o] # outbox[o]
  <2>1. ASSUME NEW i \in Incident, SaveIncident(i) PROVE Saved(o)'
    <3>1. o = <<i, "saved">> /\ queued' = queued \cup {o}
      BY <1>2, <2>1, SavedTyped DEF SaveIncident, TypeOK
    <3> QED BY <3>1 DEF Saved
  <2>2. ASSUME NEW e \in Entity, Enqueue(e) PROVE Saved(o)'
    <3>1. o = <<e, "queued">> /\ (e \in Incident => <<e, "saved">> \in queued)
      BY <1>2, <2>2, QueuedTyped DEF Enqueue, TypeOK
    <3>2. Saved(o)
      BY <3>1 DEF Saved
    <3> QED BY <3>2, SavedGrows
  <2>3. ASSUME NEW t \in Tab, CycleStep(t) PROVE Saved(o)'
    <3>1. o \in tab[t].todo \cup DOMAIN tab[t].res /\ tab[t].pc # "idle"
      <4>1. CASE Mark(t)
        BY <1>2, <4>1, MarkEffect DEF Mark, TypeOK
      <4>2. CASE Revert(t)
        BY <1>2, <4>2, RevertEffect DEF Revert, TypeOK
      <4>3. CASE ReconcileFirst(t)
        BY <1>2, <4>3, FirstEffect DEF ReconcileFirst, TypeOK
      <4>4. CASE ReconcileSecond(t)
        <5>1. tab[t].cur \in DOMAIN tab[t].res
          BY <4>4 DEF ReconcileSecond, Current
        <5>2. outbox' = outbox \/ outbox' = [outbox EXCEPT ![tab[t].cur] = Absent]
          BY <4>4, <5>1, SecondEffect
        <5> QED BY <1>2, <5>2 DEF TypeOK
      <4> QED BY <1>2, <2>3, <4>1, <4>2, <4>3, <4>4 DEF CycleStep, Send, BatchRefused
    <3>2. Saved(o)
      BY <3>1 DEF SInv, Batched
    <3> QED BY <3>2, SavedGrows
  <2> QED BY <1>2, <2>1, <2>2, <2>3, WorkerQuiet
          DEF Next, vars, SaveRequest, BeginCycle, FetchFails, Crash
<1> QED BY <1>1, <1>2

\* A saved report keeps its record, and a refusal shown stays shown until the
\* server has the report after all.
LEMMA RecordStays ==
  ASSUME TypeOK, Current, Told, SInv, [Next]_vars, NEW i \in Incident, <<i, "saved">> \in queued
  PROVE  /\ record'[i] # Absent
         /\ record[i] = "SYNC_ERROR" /\ ~Exists(i) => record'[i] = "SYNC_ERROR"
<1>0. i \in Entity /\ record[i] # Absent
  BY DEF Entity, SInv, Recorded
<1>1. ASSUME NEW p \in Op, NEW s \in Result, record' = RecordAfter(p[1], s),
             Succeeded(s) => p \in committed
      PROVE  /\ record'[i] # Absent
             /\ record[i] = "SYNC_ERROR" /\ ~Exists(i) => record'[i] = "SYNC_ERROR"
  <2>1. Succeeded(s) => Exists(p[1])
    BY <1>1 DEF Exists
  <2> QED BY <1>0, <1>1, <2>1, AbsentIsNoStatus DEF RecordAfter, TypeOK
<1>2. ASSUME NEW t \in Tab, ReconcileFirst(t), record' # record
      PROVE  \E p \in Op, s \in Result :
               record' = RecordAfter(p[1], s) /\ (Succeeded(s) => p \in committed)
  <2>1. PICK p \in Op :
          /\ p \in DOMAIN tab[t].res /\ tab[t].res[p] \in Result /\ Succeeded(tab[t].res[p])
          /\ record' = RecordAfter(p[1], tab[t].res[p])
    BY <1>2, FirstEffect
  <2> QED BY <2>1 DEF Told, Truthful
<1>3. ASSUME NEW t \in Tab, ReconcileSecond(t), record' # record
      PROVE  \E p \in Op, s \in Result :
               record' = RecordAfter(p[1], s) /\ (Succeeded(s) => p \in committed)
  <2> DEFINE p == tab[t].cur
  <2>1. p \in DOMAIN tab[t].res
    BY <1>3 DEF ReconcileSecond, Current
  <2>2. /\ p \in Op /\ tab[t].res[p] \in Result /\ ~Succeeded(tab[t].res[p])
        /\ record' = RecordAfter(p[1], tab[t].res[p])
    BY <1>3, <2>1, SecondEffect
  <2> QED BY <2>2
<1>4. ASSUME NEW j \in Incident, SaveIncident(j)
      PROVE  record'[i] = record[i]
  <2>1. i # j
    BY <1>4 DEF SaveIncident
  <2> QED BY <1>0, <1>4, <2>1 DEF SaveIncident, TypeOK
<1>5. ASSUME NEW r \in Request, SaveRequest(r)
      PROVE  record'[i] = record[i]
  <2>1. i # r
    BY EntitiesDisjoint
  <2> QED BY <1>0, <1>5, <2>1 DEF SaveRequest, TypeOK
<1>6. CASE record' = record
  BY <1>0, <1>6
<1>7. CASE \A t \in Tab : ~(ReconcileFirst(t) \/ ReconcileSecond(t))
  BY <1>0, <1>4, <1>5, <1>6, <1>7, WorkerQuiet
  DEF Next, vars, Enqueue, BeginCycle, CycleStep, Mark, Send, BatchRefused, FetchFails, Revert,
      Crash
<1> QED BY <1>1, <1>2, <1>3, <1>6, <1>7

\* A tab about to show a refusal shows it, or is closed.
LEMMA ShowingStep ==
  ASSUME TypeOK, Handling, Current, Serving, crashes \in Nat, [Next]_vars,
         NEW t \in Tab, NEW o \in Op, Showing(t, o), o[1] \in Incident, record[o[1]] # Absent
  PROVE  Showing(t, o)' \/ record'[o[1]] = "SYNC_ERROR" \/ crashes' > 0
<1>1. CASE tab'[t] = tab[t]
  BY <1>1 DEF Showing, Succeeded
<1>2. CASE ReconcileSecond(t)
  <2>1. o \in DOMAIN tab[t].res /\ tab[t].cur = o /\ ~Succeeded(tab[t].res[o])
    BY <1>2 DEF Showing, Current, ReconcileSecond
  <2>2. record' = RecordAfter(o[1], tab[t].res[o]) /\ o[1] \in Entity
    BY <1>2, <2>1, SecondEffect
  <2>3. o[1] \notin Request
    BY EntitiesDisjoint
  <2> QED BY <2>1, <2>2, <2>3 DEF RecordAfter, TypeOK
<1>3. CASE Crash(t)
  BY <1>3 DEF Crash
<1>4. CASE tab'[t] # tab[t]
  <2>1. tab[t].pc = "second"
    BY DEF Showing
  <2>2. ~\E w \in Worker : Reply(w) /\ worker[w].sender = t
    BY <2>1 DEF Serving, Waiting
  <2>3. Moves(t)
    BY <1>4, <2>2, TabStep DEF Turns
  <2>4. ReconcileSecond(t) \/ Crash(t)
    BY <2>1, <2>3
    DEF Moves, BeginCycle, CycleStep, Mark, Send, BatchRefused, ReconcileFirst, Revert, FetchFails
  <2> QED BY <1>2, <1>3, <2>4
<1> QED BY <1>1, <1>4

\* What a step refuses, a tab is about to show.
LEMMA RefusingStep ==
  ASSUME TypeOK, Current, [Next]_vars, NEW o \in Op,
         outbox'[o] \in {"CONFLICT", "FAILED"}, outbox'[o] # outbox[o]
  PROVE  \E t \in Tab : Showing(t, o)'
<1>1. PICK t \in Tab : ReconcileFirst(t)
  <2>1. ASSUME NEW i \in Incident, SaveIncident(i) PROVE FALSE
    BY <2>1, SavedTyped DEF SaveIncident, TypeOK
  <2>2. ASSUME NEW e \in Entity, Enqueue(e) PROVE FALSE
    BY <2>2, QueuedTyped DEF Enqueue, TypeOK
  <2>3. ASSUME NEW u \in Tab, Mark(u) \/ Revert(u) PROVE FALSE
    BY <2>3, MarkEffect, RevertEffect DEF TypeOK
  <2>4. ASSUME NEW u \in Tab, ReconcileSecond(u) PROVE FALSE
    <3>1. tab[u].cur \in DOMAIN tab[u].res
      BY <2>4 DEF ReconcileSecond, Current
    <3>2. outbox' = outbox \/ outbox' = [outbox EXCEPT ![tab[u].cur] = Absent]
      BY <2>4, <3>1, SecondEffect
    <3> QED BY <3>2, AbsentIsNoStatus DEF TypeOK
  <2> QED BY <2>1, <2>2, <2>3, <2>4, WorkerQuiet
          DEF Next, vars, SaveRequest, BeginCycle, CycleStep, Send, BatchRefused, FetchFails,
              Crash
<1>2. PICK p \in Op :
        /\ p \in DOMAIN tab[t].res /\ tab[t].res[p] \in Result
        /\ IF Succeeded(tab[t].res[p]) THEN UNCHANGED outbox
           ELSE outbox' = [outbox EXCEPT ![p] = Refusal(tab[t].res[p])]
        /\ tab'[t].pc = "second" /\ tab'[t].res = tab[t].res /\ tab'[t].cur = p
  BY <1>1, FirstEffect
<1>3. p = o /\ ~Succeeded(tab[t].res[p])
  BY <1>2 DEF TypeOK
<1> QED BY <1>2, <1>3 DEF Showing, Succeeded

\* Only closing a tab counts as a crash.
LEMMA CrashesGrow ==
  ASSUME crashes \in Nat, [Next]_vars
  PROVE  crashes' \in Nat /\ (crashes > 0 => crashes' > 0)
<1>1. CASE \E t \in Tab : Crash(t)
  <2>1. crashes' = crashes + 1
    BY <1>1 DEF Crash
  <2> QED BY <2>1
<1>2. CASE ~\E t \in Tab : Crash(t)
  <2>1. crashes' = crashes
    BY <1>2, WorkerQuiet
    DEF Next, vars, SaveIncident, Enqueue, SaveRequest, BeginCycle, CycleStep, Mark, Send,
        BatchRefused, ReconcileFirst, ReconcileSecond, FetchFails, Revert
  <2> QED BY <2>1
<1> QED BY <1>1, <1>2

\* The invariant of RefusalShown, given the one of the other theorems.
LEMMA ShownStep == IInv /\ SInv /\ [Next]_vars => SInv'
<1> SUFFICES ASSUME IInv, SInv, [Next]_vars PROVE SInv'
  OBVIOUS
<1>0. TypeOK /\ Handling /\ Current /\ Hands /\ Serving /\ Told /\ TypeOK'
  BY TypeStep DEF IInv
<1>1. crashes' \in Nat /\ (crashes > 0 => crashes' > 0)
  BY CrashesGrow DEF SInv
<1>2. ASSUME NEW t \in Tab
      PROVE  Batched(t)'
  <2>1. CASE tab'[t] = tab[t]
    <3>1. \A o : Saved(o) => Saved(o)'
      BY <1>0, SavedGrows
    <3> HIDE DEF Saved
    <3> QED BY <2>1, <3>1 DEF SInv, Batched
  <2>2. CASE tab'[t] # tab[t]
    <3>1. CASE Moves(t)
      BY <1>0, <3>1, BatchedStep DEF SInv
    <3>2. CASE ~Moves(t)
      <4>1. PICK w \in Worker : Reply(w) /\ worker[w].sender = t
        BY <1>0, <2>2, <3>2, TabStep DEF Turns
      <4>2. /\ tab'[t].batch = tab[t].batch /\ tab'[t].todo = {}
            /\ tab'[t].res = worker[w].res
        BY <1>0, <4>1, ReplyEffect, AbsentIsNoTab
      <4>3. DOMAIN worker[w].res \subseteq tab[t].batch /\ tab[t].pc = "wait"
        BY <1>0, <4>1 DEF Serving, Waiting
      <4>4. \A o \in tab[t].batch : Saved(o)'
        BY <4>3, SavedGrows DEF SInv, Batched
      <4> HIDE DEF Saved
      <4> QED BY <4>2, <4>3, <4>4 DEF Batched
    <3> QED BY <3>1, <3>2
  <2> QED BY <2>1, <2>2
<1>3. \A o \in Op : outbox'[o] # Absent => Saved(o)'
  BY <1>0, SavedStep
<1>4. ASSUME NEW i \in Incident, <<i, "saved">> \in queued'
      PROVE  record'[i] # Absent
  <2>1. CASE <<i, "saved">> \in queued
    BY <1>0, <2>1, RecordStays
  <2>2. CASE <<i, "saved">> \notin queued
    <3>1. SaveIncident(i)
      <4>1. ASSUME NEW j \in Incident, SaveIncident(j) PROVE i = j
        BY <1>4, <2>2, <4>1 DEF SaveIncident
      <4>2. ASSUME NEW e \in Entity, Enqueue(e) PROVE FALSE
        BY <1>4, <2>2, <4>2 DEF Enqueue
      <4> QED BY <1>4, <2>2, <4>1, <4>2, WorkerQuiet
              DEF Next, vars, SaveRequest, BeginCycle, CycleStep, Mark, Send, BatchRefused,
                  ReconcileFirst, ReconcileSecond, FetchFails, Revert, Crash
    <3> QED BY <1>0, <3>1, AbsentIsNoStatus DEF SaveIncident, TypeOK, Entity
  <2> QED BY <2>1, <2>2
<1>5. ASSUME NEW o \in Op
      PROVE  Shown(o)'
  <2> SUFFICES ASSUME o[1] \in Incident, outbox'[o] \in {"CONFLICT", "FAILED"}, ~Exists(o[1])'
               PROVE  \/ record'[o[1]] = "SYNC_ERROR" \/ crashes' > 0
                      \/ \E t \in Tab : Showing(t, o)'
    BY DEF Shown
  <2>1. CASE outbox'[o] # outbox[o]
    BY <1>0, <2>1, RefusingStep
  <2>2. CASE outbox'[o] = outbox[o]
    <3>1. <<o[1], "saved">> \in queued
      BY <2>2, AbsentIsNoStatus DEF SInv, Recorded, Saved
    <3>2. ~Exists(o[1])
      BY <1>0, ServerStep DEF Exists
    <3>3. record[o[1]] = "SYNC_ERROR" \/ crashes > 0 \/ \E t \in Tab : Showing(t, o)
      BY <2>2, <3>2 DEF SInv, Shown
    <3>5. record[o[1]] # Absent
      BY <3>1 DEF SInv, Recorded
    <3>6. ASSUME NEW t \in Tab, Showing(t, o)
          PROVE  Showing(t, o)' \/ record'[o[1]] = "SYNC_ERROR" \/ crashes' > 0
      BY <1>0, <3>5, <3>6, ShowingStep DEF SInv
    <3>7. record[o[1]] = "SYNC_ERROR" => record'[o[1]] = "SYNC_ERROR"
      BY <1>0, <3>1, <3>2, RecordStays
    <3> QED BY <1>1, <3>3, <3>6, <3>7
  <2> QED BY <2>1, <2>2
<1> QED BY <1>1, <1>2, <1>3, <1>4, <1>5 DEF SInv, Recorded

\* reconcileConflict and reconcileRejection write the operation first and the record
\* after it: between the two, with any number of tabs and even without Web Locks,
\* only a closed tab can leave a refused report looking as if it were pending.
THEOREM RefusalShown == Spec => []RefusedIsShown
<1>1. Init => SInv
  <2> SUFFICES ASSUME Init PROVE SInv
    OBVIOUS
  <2>1. \A t \in Tab : tab[t].pc = "idle"
    BY IdleTyped DEF Init
  <2>2. \A o \in Op : outbox[o] = Absent
    BY DEF Init
  <2> QED BY <2>1, <2>2, AbsentIsNoStatus DEF Init, SInv, Batched, Recorded, Shown
<1>2. IInv /\ SInv => RefusedIsShown
  <2> SUFFICES ASSUME IInv, SInv, NEW o \in Op, Shown(o), NEW t \in Tab, Showing(t, o)
               PROVE  InHand(o)
    BY DEF RefusedIsShown, SInv, Shown
  <2>1. o \in DOMAIN tab[t].res /\ tab[t].pc = "second"
    BY DEF IInv, Current, Showing
  <2> QED BY <2>1 DEF SInv, Batched, InHand
<1> QED BY <1>1, <1>2, ShownStep, Inductive, PTL DEF Spec

--------------------------------------------------------------------------------
(* What the app assumes of the server *)

Given == [op : {Message(o) : o \in Op}, role : {User}, status : Result]

\* The promise's accepted payloads are the reduced server's committed operations.
Remembered ==
  /\ answers \in Seq(Given)
  /\ \A o \in Op : Promise!Accepted(o) = IF o \in committed THEN {o} ELSE {}

\* A worker's answer is the one due, as long as no two have had the same operation in hand.
LEMMA AnswerDue ==
  ASSUME Remembered, Hands, overlapped = {}, NEW w \in Worker, NEW o \in Op, NEW s \in Result,
         Outcome(s, o), worker'[w].res[o] = s,
         Duplicate(w, o) \/ Refused(w, o) \/ Accepted(w, o)
  PROVE  Remembered' /\ Promise!Answer(Message(o), User, s)
<1>0. /\ s = "DUPLICATE" <=> o \in committed
      /\ committed' = committed \cup (IF s = "ACCEPTED" THEN {o} ELSE {})
  <2>1. InHandOf(w, o) => o \notin committed
    BY DEF Hands
  <2> QED BY <2>1 DEF Duplicate, Refused, Accepted, Done
<1> DEFINE e == Promise!Answered(Message(o), User, s)
           n == Len(answers) + 1
<1>1. e.op = Message(o) /\ e.status = s /\ e \in Given
  BY DEF Promise!Answered, Given
<1>2. answers' = Append(answers, e) /\ answers \in Seq(Given)
  BY DEF Outcome, Remembered
<1> HIDE DEF e
<1>3. /\ answers' \in Seq(Given) /\ n \in DOMAIN answers' /\ answers'[n] = e
      /\ DOMAIN answers' = DOMAIN answers \cup {n} /\ n \notin DOMAIN answers
      /\ \A m \in DOMAIN answers : answers'[m] = answers[m]
  BY <1>1, <1>2
<1> HIDE DEF n
<1>4. Message(o).id = o /\ Message(o).body = o
  BY DEF Message
<1>5. \A p \in Op : (Promise!Accepted(p))' =
        IF p = o /\ s = "ACCEPTED" THEN Promise!Accepted(p) \cup {o}
        ELSE Promise!Accepted(p)
  BY <1>1, <1>3, <1>4 DEF Promise!Accepted
<1>6. ASSUME NEW p \in Op
      PROVE  (Promise!Accepted(p))' = IF p \in committed' THEN {p} ELSE {}
  <2>1. p \in committed' <=> p \in committed \/ (p = o /\ s = "ACCEPTED")
    BY <1>0
  <2>2. Promise!Accepted(p) = IF p \in committed THEN {p} ELSE {}
    BY DEF Remembered
  <2> QED BY <1>5, <2>1, <2>2
<1>7. Promise!Due(Message(o), User, s)
  <2>1. Promise!Accepted(o) = IF o \in committed THEN {o} ELSE {}
    BY DEF Remembered
  <2>2. <<Message(o), User>> \in {<<Message(p), User>> : p \in Op}
    OBVIOUS
  <2> QED BY <1>0, <1>4, <2>1, <2>2 DEF Promise!Due, Result
<1> QED BY <1>2, <1>3, <1>6, <1>7 DEF Remembered, Promise!Answer, e

LEMMA PromiseStep ==
  ASSUME IInv, Remembered, overlapped = {}, ServerNext \/ UNCHANGED <<vars, answers>>
  PROVE  Remembered' /\ (Promise!Next \/ UNCHANGED answers)
<1>0. TypeOK /\ Handling /\ Hands
  BY DEF IInv
<1>1. CASE \E w \in Worker : Answering(w) /\ Answers(w)
  <2>1. PICK w \in Worker : WorkerStep(w) /\ worker'[w].todo # worker[w].todo /\ Answers(w)
    BY <1>1 DEF Answering
  <2>2. PICK o \in worker[w].todo \ worker'[w].todo : Outcome(worker'[w].res[o], o)
    BY <2>1 DEF Answers
  <2>3. ~Reply(w)
    BY <2>2 DEF Reply
  <2>4. PICK p \in Op : /\ p \in worker[w].todo
                        /\ \/ Duplicate(w, p) \/ Taken(w, p) \/ Passed(w, p)
                           \/ Refused(w, p) \/ Accepted(w, p)
    BY <1>0, <2>1, <2>3, WorkerSteps
  <2>5. Duplicate(w, p) \/ Refused(w, p) \/ Accepted(w, p)
    BY <2>1, <2>4 DEF Taken, Passed, GoesOn
  <2>6. p = o /\ worker'[w].res[o] \in Result
    BY <2>2, <2>5 DEF Duplicate, Refused, Accepted, Done, Result
  <2>7. Remembered' /\ Promise!Answer(Message(o), User, worker'[w].res[o])
    BY <1>0, <2>2, <2>4, <2>5, <2>6, AnswerDue
  <2> QED BY <2>4, <2>6, <2>7 DEF Promise!Next, Result
<1>2. CASE Unanswered \/ UNCHANGED <<vars, answers>>
  <2>1. answers' = answers /\ [Next]_vars /\ \A w \in Worker : ~Answering(w) \/ UNCHANGED vars
    BY <1>2 DEF Unanswered
  <2>2. committed' = committed
    <3>1. CASE Unworked
      BY <3>1 DEF Unworked
    <3>2. CASE \E w \in Worker : Reply(w)
      BY <3>2 DEF Reply
    <3>3. CASE ~Unworked /\ ~\E w \in Worker : Reply(w)
      <4>1. PICK w \in Worker, o \in Op :
              /\ o \in worker[w].todo
              /\ \/ Duplicate(w, o) \/ Taken(w, o) \/ Passed(w, o)
                 \/ Refused(w, o) \/ Accepted(w, o)
        BY <1>0, <2>1, <3>3, ServerCases
      <4>2. ~Accepted(w, o)
        <5> SUFFICES ASSUME Accepted(w, o) PROVE FALSE
          OBVIOUS
        <5>1. worker'[w].todo # worker[w].todo
          BY <4>1 DEF Accepted, Done
        <5>2. PICK v \in Worker : WorkerStep(v)
          BY <1>0, <2>1, <3>3, Unworking
        <5>3. v = w
          <6>1. PICK p \in Op :
                  \/ Duplicate(v, p) \/ Taken(v, p) \/ Passed(v, p)
                  \/ Refused(v, p) \/ Accepted(v, p)
            BY <1>0, <3>3, <5>2, WorkerSteps
          <6> QED BY <5>1, <6>1
                  DEF Duplicate, Taken, Passed, Refused, Accepted, Done, GoesOn, WorksAlone
        <5> QED BY <2>1, <5>1, <5>2, <5>3 DEF Answering, vars, server
      <4> QED BY <4>1, <4>2 DEF Duplicate, Taken, Passed, Refused
    <3> QED BY <3>1, <3>2, <3>3
  <2>3. \A o \in Op : (Promise!Accepted(o))' = Promise!Accepted(o)
    BY <2>1 DEF Promise!Accepted
  <2> QED BY <2>1, <2>2, <2>3 DEF Remembered
<1> QED BY <1>1, <1>2 DEF ServerNext

\* While no two of its workers have the same operation in hand, the server FieldSync
\* assumes keeps what sync_protocol.md promises a field client (SyncPromise), for any
\* number of tabs, workers, failures and requests that are given up. Requests that are
\* carried out late, or twice, one after the other are among them.
THEOREM ServerAsPromised == ServerSpec => ServerPromises
<1>1. ServerInit => IInv /\ Remembered /\ Promise!Init
  <2> SUFFICES ASSUME ServerInit PROVE IInv /\ Remembered /\ Promise!Init
    OBVIOUS
  <2>1. Init /\ answers = <<>> /\ committed = {}
    BY DEF ServerInit, Init
  <2>2. \A o \in Op : Promise!Accepted(o) = {}
    BY <2>1 DEF Promise!Accepted
  <2> QED BY <2>1, <2>2, InitInv DEF Remembered, Promise!Init
<1>2. IInv /\ [ServerNext]_<<vars, answers>> => IInv'
  <2>1. [ServerNext]_<<vars, answers>> => [Next]_vars
    BY DEF ServerNext, Answering, Unanswered, Next
  <2> QED BY <2>1, InvStep
<1>3. IInv /\ Remembered /\ overlapped = {} /\ [ServerNext]_<<vars, answers>>
        => Remembered' /\ [Promise!Next]_answers
  BY PromiseStep
<1> QED BY <1>1, <1>2, <1>3, PTL DEF ServerSpec, ServerPromises, Promise!Spec
================================================================================
