------------------------- MODULE RecommendationsProofs -------------------------
(* Theorems about the governed recommendations, for any number of workers,       *)
(* targets, requests and versions: types, that every proposal is decided at most *)
(* once and approved only as it was checked, that the ledger tells each status   *)
(* and that a retried decision is answered with the truth.                       *)
EXTENDS Recommendations, SequenceTheorems, TLAPS

--------------------------------------------------------------------------------
(* Types *)

Stamping == [pc : {"stamp"}, batch : SUBSET Rec, mode : Mode]
Saving == [pc : {"save"}, batch : SUBSET Rec, mode : Mode, source : Version]
Deciding == [pc : {"approve", "reject"}, rec : Rec, role : Role, key : Key \cup {Absent}]
Committing == [pc : {"commit"}, rec : Rec, key : Key \cup {Absent}, current : Version]
Worker == {Idle} \cup Stamping \cup Saving \cup Deciding \cup Committing

\* What a worker holds depends on where it is.
LEMMA WorkerTyped ==
  ASSUME NEW x \in Worker
  PROVE  /\ x.pc = "stamp" => x \in Stamping
         /\ x.pc = "save" => x \in Saving
         /\ x.pc \in {"approve", "reject"} => x \in Deciding
         /\ x.pc = "commit" => x \in Committing
BY DEF Worker, Idle, Stamping, Saving, Deciding, Committing

LEMMA ThreadTyped == TypeOK => thread \in [Thread -> Worker]
BY DEF TypeOK, Worker, Stamping, Saving, Deciding, Committing

\* A worker may move on to any typed state.
LEMMA GoTyped ==
  ASSUME TypeOK, NEW t \in Thread, NEW x \in Worker, Go(t, x)
  PROVE  thread' \in [Thread -> Worker]
BY ThreadTyped DEF Go

LEMMA IdleTyped == Idle \in Worker
BY DEF Worker

\* The three ways a ledger grows.
LEMMA LogOne ==
  ASSUME ledger \in Seq(AuditEvent), NEW e \in AuditEvent, Log(<<e>>)
  PROVE  /\ ledger' \in Seq(AuditEvent)
         /\ Len(ledger') = Len(ledger) + 1
         /\ \A i \in 1..Len(ledger) : ledger'[i] = ledger[i]
         /\ ledger'[Len(ledger) + 1] = e
<1>1. <<e>> \in Seq(AuditEvent) /\ Len(<<e>>) = 1 /\ <<e>>[1] = e
  OBVIOUS
<1>2. Len(ledger) \in Nat
  BY LenProperties
<1> QED BY <1>1, <1>2, ConcatProperties DEF Log

LEMMA LogTwo ==
  ASSUME ledger \in Seq(AuditEvent), NEW d \in AuditEvent, NEW e \in AuditEvent,
         Log(<<d, e>>)
  PROVE  /\ ledger' \in Seq(AuditEvent)
         /\ Len(ledger') = Len(ledger) + 2
         /\ \A i \in 1..Len(ledger) : ledger'[i] = ledger[i]
         /\ ledger'[Len(ledger) + 1] = d /\ ledger'[Len(ledger) + 2] = e
<1>1. /\ <<d, e>> \in Seq(AuditEvent) /\ Len(<<d, e>>) = 2
      /\ <<d, e>>[1] = d /\ <<d, e>>[2] = e
  OBVIOUS
<1>2. Len(ledger) \in Nat
  BY LenProperties
<1> QED BY <1>1, <1>2, ConcatProperties DEF Log

LEMMA LogMany ==
  ASSUME ledger \in Seq(AuditEvent), NEW es \in Seq(AuditEvent), Log(es)
  PROVE  /\ ledger' \in Seq(AuditEvent)
         /\ Len(ledger') = Len(ledger) + Len(es)
         /\ \A i \in 1..Len(ledger) : ledger'[i] = ledger[i]
         /\ \A j \in 1..Len(es) : ledger'[Len(ledger) + j] = es[j]
<1>1. Len(ledger) \in Nat /\ Len(es) \in Nat
  BY LenProperties
<1>2. /\ ledger' \in Seq(AuditEvent)
      /\ Len(ledger') = Len(ledger) + Len(es)
      /\ \A i \in 1..Len(ledger) + Len(es) : ledger'[i] =
           IF i <= Len(ledger) THEN ledger[i] ELSE es[i - Len(ledger)]
  BY ConcatProperties DEF Log
<1>3. ASSUME NEW j \in 1..Len(es) PROVE ledger'[Len(ledger) + j] = es[j]
  BY <1>1, <1>2
<1> QED BY <1>1, <1>2, <1>3

\* Events are of the recommendation they name.
LEMMA EventTyped ==
  ASSUME TypeOK, NEW r \in Rec
  PROVE  /\ Blocked(r) \in AuditEvent
         /\ Blocked(r).type = "BLOCKED" /\ Blocked(r).rec = r
         /\ recs[r] # Absent => \A type \in EventType :
              /\ EventFor(type, r) \in AuditEvent
              /\ EventFor(type, r).type = type /\ EventFor(type, r).rec = r
              /\ EventFor(type, r).source = recs[r].source
              /\ EventFor(type, r).current = version
<1>1. recs[r] # Absent => recs[r] \in Recommendation /\ recs[r].source \in Version
  BY DEF TypeOK, Recommendation
<1> QED BY <1>1 DEF TypeOK, Blocked, EventFor, Event, AuditEvent, EventType

\* A recommendation that can become something is a live proposal.
LEMMA CanBecomeMeans ==
  ASSUME TypeOK, NEW r \in Rec, NEW s, CanBecome(r, s)
  PROVE  /\ recs[r] \in Recommendation /\ recs[r].status = "PENDING"
         /\ s \in {"APPROVED", "REJECTED", "EXPIRED"}
BY DEF TypeOK, CanBecome, Transitions

LEMMA BecomeTyped ==
  ASSUME TypeOK, NEW r \in Rec, recs[r] \in Recommendation, NEW s \in ApprovalStatus,
         Become(r, s)
  PROVE  /\ recs' \in [Rec -> Recommendation \cup {Absent}]
         /\ recs'[r] = [recs[r] EXCEPT !.status = s]
         /\ \A q \in Rec \ {r} : recs'[q] = recs[q]
BY DEF TypeOK, Become, Recommendation

Tells(x, r, d, n) == x # Absent /\ x.rec = r /\ x.decision = d /\ x.at = n

LEMMA RecordedTyped ==
  ASSUME TypeOK, NEW r \in Rec, recs[r] \in Recommendation,
         NEW d \in {"APPROVED", "REJECTED"}, NEW k \in Key \cup {Absent}, NEW v \in Version
  PROVE  /\ Recorded(r, d, k, v) \in [Key -> Decision \cup {Absent}]
         /\ \A q \in Key :
              \/ Recorded(r, d, k, v)[q] = idem[q]
              \/ Tells(Recorded(r, d, k, v)[q], r, d, Len(ledger) + 1)
<1>1. Len(ledger) + 1 \in Nat
  BY LenProperties DEF TypeOK
<1> DEFINE x == [rec |-> r, decision |-> d, key |-> k, source |-> recs[r].source,
                 current |-> v, at |-> Len(ledger) + 1]
<1>2. k # Absent => x \in Decision
  BY <1>1 DEF Decision, Recommendation
<1>3. k = Absent => Recorded(r, d, k, v) = idem
  BY DEF Recorded
<1>4. k # Absent => Recorded(r, d, k, v) = [idem EXCEPT ![k] = x]
  BY DEF Recorded
<1>5. k # Absent => Tells(x, r, d, Len(ledger) + 1)
  BY <1>2, AbsentIsNew DEF Tells
<1> HIDE DEF x
<1> QED BY <1>2, <1>3, <1>4, <1>5, AbsentIsNew DEF TypeOK

--------------------------------------------------------------------------------
(* What a step does to the ledger, to the recommendations and to what is         *)
(* remembered of decisions                                                       *)

StatusType == {"CREATED", "APPROVED", "REJECTED", "EXPIRED"}

\* A worker about to commit an approval holds the lock, and the proposal is still
\* the one it has checked.
Held ==
  \A t \in Thread : thread[t].pc = "commit" =>
    LET r == thread[t].rec
    IN  /\ lock = t
        /\ recs[r] # Absent /\ recs[r].status = "PENDING"
        /\ recs[r].source = thread[t].current /\ recs[r].mode \notin Simulated

\* The ledger only grows.
Kept ==
  /\ Len(ledger') >= Len(ledger)
  /\ \A i \in 1..Len(ledger) : ledger'[i] = ledger[i]

\* The status events a step adds for r.
Fresh(r) ==
  {n \in (Len(ledger) + 1)..Len(ledger') : ledger'[n].rec = r /\ ledger'[n].type \in StatusType}

\* All that a step may do to a recommendation: nothing, expire it unrecorded, issue
\* it anew as its last event, or decide a proposal with one event.
Left(r) == Fresh(r) = {} /\ recs'[r] = recs[r]
Lapsed(r) ==
  /\ Fresh(r) = {} /\ recs[r] # Absent /\ recs[r].status = "PENDING"
  /\ recs'[r] = [recs[r] EXCEPT !.status = "EXPIRED"]
Issued(r) ==
  /\ Fresh(r) = {Len(ledger')}
  /\ ledger'[Len(ledger')].type = "CREATED"
  /\ recs'[r] = [status |-> "PENDING", source |-> ledger'[Len(ledger')].source,
                 mode |-> ledger'[Len(ledger')].mode]
  /\ recs'[r] # Absent
DecidedAt(r, n) ==
  /\ Fresh(r) = {n}
  /\ recs[r] # Absent /\ recs[r].status = "PENDING"
  /\ ledger'[n].type \in {"APPROVED", "REJECTED", "EXPIRED"}
  /\ ledger'[n].source = recs[r].source
  /\ ledger'[n].type = "APPROVED" =>
       ledger'[n].current = recs[r].source /\ recs[r].mode \notin Simulated
  /\ recs'[r] = [recs[r] EXCEPT !.status = ledger'[n].type]
Touched(r) == Left(r) \/ Lapsed(r) \/ Issued(r) \/ \E n \in Fresh(r) : DecidedAt(r, n)

\* A new decision is remembered with its event.
Remembered(k) ==
  LET d == idem'[k]
  IN  /\ d # Absent /\ d.rec \in Rec
      /\ d.at \in Fresh(d.rec)
      /\ d.decision \in {"APPROVED", "REJECTED"} /\ ledger'[d.at].type = d.decision

Effect ==
  /\ Kept
  /\ \A r \in Rec : Touched(r)
  /\ \A k \in Key : idem'[k] = idem[k] \/ Remembered(k)

\* A step that leaves all three alone.
LEMMA Quiet ==
  ASSUME TypeOK, UNCHANGED <<recs, ledger, idem>>
  PROVE  Effect
<1>1. Len(ledger) \in Nat
  BY LenProperties DEF TypeOK
<1>2. \A r \in Rec : Fresh(r) = {}
  BY <1>1 DEF Fresh
<1> QED BY <1>1, <1>2 DEF Effect, Kept, Touched, Left

\* An event that tells no status.
LEMMA NoteOnly ==
  ASSUME TypeOK, NEW e \in AuditEvent, e.type \notin StatusType, Log(<<e>>)
  PROVE  Kept /\ \A r \in Rec : Fresh(r) = {}
<1>1. Len(ledger) \in Nat
  BY LenProperties DEF TypeOK
<1>2. ledger \in Seq(AuditEvent)
  BY DEF TypeOK
<1> QED BY <1>1, <1>2, LogOne DEF Kept, Fresh

\* An event that does.
LEMMA OneTold ==
  ASSUME TypeOK, NEW e \in AuditEvent, e.type \in StatusType, Log(<<e>>)
  PROVE  /\ Kept /\ Len(ledger') = Len(ledger) + 1 /\ ledger'[Len(ledger) + 1] = e
         /\ Fresh(e.rec) = {Len(ledger) + 1}
         /\ \A r \in Rec \ {e.rec} : Fresh(r) = {}
<1>1. Len(ledger) \in Nat
  BY LenProperties DEF TypeOK
<1>2. ledger \in Seq(AuditEvent)
  BY DEF TypeOK
<1>3. /\ Len(ledger') = Len(ledger) + 1
      /\ \A i \in 1..Len(ledger) : ledger'[i] = ledger[i]
      /\ ledger'[Len(ledger) + 1] = e
  BY <1>2, LogOne
<1>4. \A n \in (Len(ledger) + 1)..Len(ledger') : n = Len(ledger) + 1
  BY <1>1, <1>3
<1>5. Len(ledger) + 1 \in (Len(ledger) + 1)..Len(ledger')
  BY <1>1, <1>3
<1> QED BY <1>1, <1>3, <1>4, <1>5 DEF Kept, Fresh

\* One of each, in either order.
LEMMA OneOfTwo ==
  ASSUME TypeOK, NEW d \in AuditEvent, NEW e \in AuditEvent, Log(<<d, e>>),
         d.type \in StatusType <=> e.type \notin StatusType
  PROVE  LET x == IF d.type \in StatusType THEN d ELSE e
             n == IF d.type \in StatusType THEN Len(ledger) + 1 ELSE Len(ledger) + 2
         IN  /\ Kept /\ ledger'[n] = x
             /\ Fresh(x.rec) = {n}
             /\ \A r \in Rec \ {x.rec} : Fresh(r) = {}
<1>1. Len(ledger) \in Nat
  BY LenProperties DEF TypeOK
<1>2. ledger \in Seq(AuditEvent)
  BY DEF TypeOK
<1>3. /\ Len(ledger') = Len(ledger) + 2
      /\ \A i \in 1..Len(ledger) : ledger'[i] = ledger[i]
      /\ ledger'[Len(ledger) + 1] = d /\ ledger'[Len(ledger) + 2] = e
  BY <1>2, LogTwo
<1>4. (Len(ledger) + 1)..Len(ledger') = {Len(ledger) + 1, Len(ledger) + 2}
  BY <1>1, <1>3
<1>5. Kept
  BY <1>1, <1>3 DEF Kept
<1>6. Len(ledger) + 1 # Len(ledger) + 2
  BY <1>1
<1>7. CASE d.type \in StatusType
  BY <1>3, <1>4, <1>5, <1>6, <1>7 DEF Fresh
<1>8. CASE d.type \notin StatusType
  BY <1>3, <1>4, <1>5, <1>6, <1>8 DEF Fresh
<1> QED BY <1>7, <1>8

--------------------------------------------------------------------------------
(* The effect of each action *)

\* A proposal decided by one event, which is the only one of its kind.
LEMMA DecideOne ==
  ASSUME TypeOK, NEW r \in Rec, recs[r] \in Recommendation, recs[r].status = "PENDING",
         NEW s \in {"APPROVED", "REJECTED", "EXPIRED"}, NEW n, Become(r, s),
         Fresh(r) = {n}, \A q \in Rec \ {r} : Fresh(q) = {},
         ledger'[n].type = s, ledger'[n].source = recs[r].source,
         s = "APPROVED" => ledger'[n].current = recs[r].source /\ recs[r].mode \notin Simulated
  PROVE  \A q \in Rec : Touched(q)
<1>1. /\ recs'[r] = [recs[r] EXCEPT !.status = s]
      /\ \A q \in Rec \ {r} : recs'[q] = recs[q]
  BY BecomeTyped DEF ApprovalStatus
<1>2. DecidedAt(r, n)
  BY <1>1, AbsentIsNew DEF DecidedAt
<1>3. \A q \in Rec \ {r} : Left(q)
  BY <1>1 DEF Left
<1> QED BY <1>2, <1>3 DEF Touched

LEMMA SaveEffect ==
  ASSUME TypeOK, NEW t \in Thread, NEW r \in Rec, SaveRecommendation(t, r)
  PROVE  Effect /\ recs' \in [Rec -> Recommendation \cup {Absent}] /\ ledger' \in Seq(AuditEvent)
<1> DEFINE x == thread[t]
           e == Event("CREATED", r, x.source, version, x.mode)
<1>1. x \in Saving /\ r \in x.batch
  BY ThreadTyped, WorkerTyped DEF SaveRecommendation
<1>2. x.source \in Version /\ x.mode \in Mode
  BY <1>1 DEF Saving
<1>3. /\ e \in AuditEvent /\ e.type = "CREATED" /\ e.rec = r
      /\ e.source = x.source /\ e.mode = x.mode
  BY <1>2 DEF TypeOK, Event, AuditEvent, EventType
<1> DEFINE y == [status |-> "PENDING", source |-> x.source, mode |-> x.mode]
<1>4. Log(<<e>>) /\ recs' = [recs EXCEPT ![r] = y] /\ idem' = idem
  BY DEF SaveRecommendation
<1>5. y \in Recommendation
  BY <1>2 DEF Recommendation, ApprovalStatus
<1> HIDE DEF e, x
<1>6. /\ Kept /\ Len(ledger') = Len(ledger) + 1 /\ ledger'[Len(ledger) + 1] = e
      /\ Fresh(r) = {Len(ledger) + 1} /\ \A q \in Rec \ {r} : Fresh(q) = {}
  BY <1>3, <1>4, OneTold DEF StatusType
<1>7. /\ recs' \in [Rec -> Recommendation \cup {Absent}] /\ recs'[r] = y
      /\ \A q \in Rec \ {r} : recs'[q] = recs[q]
  BY <1>4, <1>5 DEF TypeOK
<1>8. Issued(r)
  BY <1>3, <1>5, <1>6, <1>7, AbsentIsNew DEF Issued
<1>9. \A q \in Rec \ {r} : Left(q)
  BY <1>6, <1>7 DEF Left
<1>10. ledger' \in Seq(AuditEvent)
  BY <1>3, <1>4, LogOne DEF TypeOK
<1> QED BY <1>4, <1>6, <1>7, <1>8, <1>9, <1>10 DEF Effect, Touched

LEMMA GetEffect ==
  ASSUME TypeOK, NEW r \in Rec, GetRecommendation(r)
  PROVE  Effect /\ recs' \in [Rec -> Recommendation \cup {Absent}] /\ ledger' \in Seq(AuditEvent)
<1> DEFINE d == EventFor("EXPIRED", r)
           e == EventFor("VIEWED", r)
<1>1. recs[r] \in Recommendation /\ recs[r] # Absent /\ idem' = idem
  BY DEF TypeOK, GetRecommendation
<1>2. /\ d \in AuditEvent /\ d.type = "EXPIRED" /\ d.rec = r /\ d.source = recs[r].source
      /\ e \in AuditEvent /\ e.type = "VIEWED" /\ e.rec = r
  BY <1>1, EventTyped DEF EventType
<1>3. ledger \in Seq(AuditEvent)
  BY DEF TypeOK
<1>4. CASE Stale(r)
  <2>1. Become(r, "EXPIRED") /\ Log(<<d, e>>)
    BY <1>4 DEF GetRecommendation
  <2> HIDE DEF d, e
  <2> DEFINE n == Len(ledger) + 1
  <2>2. /\ Kept /\ ledger'[n] = d /\ Fresh(r) = {n}
        /\ \A q \in Rec \ {r} : Fresh(q) = {}
    BY <1>2, <2>1, OneOfTwo DEF StatusType
  <2> HIDE DEF n
  <2>3. recs[r].status = "PENDING"
    BY <1>4 DEF Stale
  <2>4. \A q \in Rec : Touched(q)
    BY <1>1, <1>2, <2>1, <2>2, <2>3, DecideOne
  <2>5. recs' \in [Rec -> Recommendation \cup {Absent}]
    BY <1>1, <2>1, BecomeTyped DEF ApprovalStatus
  <2> QED BY <1>1, <1>2, <1>3, <2>1, <2>2, <2>4, <2>5, LogTwo DEF Effect
<1>5. CASE ~Stale(r)
  <2>1. Log(<<e>>) /\ recs' = recs
    BY <1>5 DEF GetRecommendation
  <2> HIDE DEF d, e
  <2>2. Kept /\ \A q \in Rec : Fresh(q) = {}
    BY <1>2, <2>1, NoteOnly DEF StatusType
  <2> QED BY <1>1, <1>2, <1>3, <2>1, <2>2, LogOne DEF Effect, Touched, Left, TypeOK
<1> QED BY <1>4, <1>5

LEMMA ListEffect ==
  ASSUME TypeOK, ListRecommendations
  PROVE  Effect /\ recs' \in [Rec -> Recommendation \cup {Absent}] /\ ledger' \in Seq(AuditEvent)
<1> DEFINE stale == {r \in Rec : Stale(r)}
<1>1. PICK m, order :
        /\ m \in Nat /\ order \in [1..m -> Rec]
        /\ \A i, j \in 1..m : order[i] = order[j] => i = j
        /\ {order[i] : i \in 1..m} = stale
        /\ recs' = [r \in Rec |-> IF Stale(r) THEN [recs[r] EXCEPT !.status = "EXPIRED"] ELSE recs[r]]
        /\ Log([i \in 1..m |-> EventFor("EXPIRED", order[i])])
  <2>1. PICK order \in UNION {[1..n -> Rec] : n \in 1..MaxEvents} :
          /\ \A i, j \in DOMAIN order : order[i] = order[j] => i = j
          /\ {order[i] : i \in DOMAIN order} = stale
          /\ recs' = [r \in Rec |-> IF Stale(r) THEN [recs[r] EXCEPT !.status = "EXPIRED"] ELSE recs[r]]
          /\ Log([i \in DOMAIN order |-> EventFor("EXPIRED", order[i])])
    BY DEF ListRecommendations
  <2>2. PICK m \in 1..MaxEvents : order \in [1..m -> Rec]
    OBVIOUS
  <2>3. DOMAIN order = 1..m /\ m \in Nat
    BY <2>2
  <2> QED BY <2>1, <2>2, <2>3
<1> DEFINE es == [i \in 1..m |-> EventFor("EXPIRED", order[i])]
<1>2. \A r \in stale : recs[r] \in Recommendation /\ recs[r] # Absent /\ recs[r].status = "PENDING"
  BY DEF TypeOK, Stale
<1>3. \A i \in 1..m : order[i] \in stale
  BY <1>1
<1>4. \A i \in 1..m : /\ es[i] \in AuditEvent /\ es[i].type = "EXPIRED"
                      /\ es[i].rec = order[i] /\ es[i].source = recs[order[i]].source
  BY <1>2, <1>3, EventTyped DEF EventType
<1>0. m \in Nat
  BY <1>1
<1>5. es \in Seq(AuditEvent) /\ Len(es) = m
  BY <1>0, <1>4
<1>6. ledger \in Seq(AuditEvent) /\ Len(ledger) \in Nat
  BY LenProperties DEF TypeOK
<1>7. Log(es) /\ idem' = idem
  BY <1>1 DEF ListRecommendations
<1> HIDE DEF es
<1>8. /\ ledger' \in Seq(AuditEvent) /\ Len(ledger') = Len(ledger) + m
      /\ \A i \in 1..Len(ledger) : ledger'[i] = ledger[i]
      /\ \A j \in 1..m : ledger'[Len(ledger) + j] = es[j]
  BY <1>5, <1>6, <1>7, LogMany
<1>9. Kept
  BY <1>0, <1>6, <1>8 DEF Kept
<1>10. ASSUME NEW r \in Rec PROVE Fresh(r) = {Len(ledger) + j : j \in {i \in 1..m : order[i] = r}}
  <2>1. \A n \in (Len(ledger) + 1)..Len(ledger') : \E j \in 1..m : n = Len(ledger) + j
    <3> SUFFICES ASSUME NEW n \in (Len(ledger) + 1)..Len(ledger')
                 PROVE  \E j \in 1..m : n = Len(ledger) + j
      OBVIOUS
    <3>1. n - Len(ledger) \in 1..m /\ n = Len(ledger) + (n - Len(ledger))
      BY <1>0, <1>6, <1>8
    <3> QED BY <3>1
  <2>2. \A j \in 1..m : /\ Len(ledger) + j \in (Len(ledger) + 1)..Len(ledger')
                        /\ ledger'[Len(ledger) + j].rec = order[j]
                        /\ ledger'[Len(ledger) + j].type \in StatusType
    BY <1>0, <1>4, <1>6, <1>8 DEF StatusType
  <2> QED BY <2>1, <2>2 DEF Fresh
<1>11. ASSUME NEW r \in Rec PROVE Touched(r)
  <2>1. CASE ~Stale(r)
    <3>1. {i \in 1..m : order[i] = r} = {}
      BY <1>3, <2>1
    <3>2. Fresh(r) = {} /\ recs'[r] = recs[r]
      BY <1>1, <1>10, <2>1, <3>1
    <3> QED BY <3>2 DEF Touched, Left
  <2>2. CASE Stale(r)
    <3>1. PICK j \in 1..m : order[j] = r
      BY <1>1, <2>2
    <3>2. {i \in 1..m : order[i] = r} = {j}
      BY <1>1, <3>1
    <3>3. Fresh(r) = {Len(ledger) + j}
      BY <1>10, <3>2
    <3>4. recs'[r] = [recs[r] EXCEPT !.status = "EXPIRED"]
      BY <1>1, <2>2
    <3>5. ledger'[Len(ledger) + j].type = "EXPIRED" /\ ledger'[Len(ledger) + j].source = recs[r].source
      BY <1>4, <1>8, <3>1
    <3>6. DecidedAt(r, Len(ledger) + j)
      BY <1>2, <2>2, <3>3, <3>4, <3>5 DEF DecidedAt
    <3> QED BY <3>3, <3>6 DEF Touched
  <2> QED BY <2>1, <2>2
<1>12. recs' \in [Rec -> Recommendation \cup {Absent}]
  <2>1. \A r \in Rec : Stale(r) => [recs[r] EXCEPT !.status = "EXPIRED"] \in Recommendation
    BY <1>2 DEF Recommendation, ApprovalStatus
  <2> QED BY <1>1, <2>1 DEF TypeOK
<1> QED BY <1>7, <1>8, <1>9, <1>11, <1>12 DEF Effect

LEMMA ExpireEffect ==
  ASSUME TypeOK, NEW r \in Rec, NEW role, ExpireRecommendation(r, role)
  PROVE  Effect /\ recs' \in [Rec -> Recommendation \cup {Absent}] /\ ledger' \in Seq(AuditEvent)
<1> DEFINE e == EventFor("EXPIRED", r)
<1>1. Become(r, "EXPIRED") /\ Log(<<e>>) /\ idem' = idem /\ CanBecome(r, "EXPIRED")
  BY DEF ExpireRecommendation
<1>2. recs[r] \in Recommendation /\ recs[r] # Absent /\ recs[r].status = "PENDING"
  BY <1>1, CanBecomeMeans, AbsentIsNew
<1>3. e \in AuditEvent /\ e.type = "EXPIRED" /\ e.rec = r /\ e.source = recs[r].source
  BY <1>2, EventTyped DEF EventType
<1> HIDE DEF e
<1> DEFINE n == Len(ledger) + 1
<1>4. Kept /\ ledger'[n] = e /\ Fresh(r) = {n} /\ \A q \in Rec \ {r} : Fresh(q) = {}
  BY <1>1, <1>3, OneTold DEF StatusType
<1> HIDE DEF n
<1>5. \A q \in Rec : Touched(q)
  BY <1>1, <1>2, <1>3, <1>4, DecideOne
<1>6. recs' \in [Rec -> Recommendation \cup {Absent}]
  BY <1>1, <1>2, BecomeTyped DEF ApprovalStatus
<1>7. ledger' \in Seq(AuditEvent)
  BY <1>1, <1>3, LogOne DEF TypeOK
<1> QED BY <1>1, <1>4, <1>5, <1>6, <1>7 DEF Effect

LEMMA ApproveEffect ==
  ASSUME TypeOK, NEW t \in Thread, ApproveRecommendation(t)
  PROVE  Effect /\ recs' \in [Rec -> Recommendation \cup {Absent}] /\ ledger' \in Seq(AuditEvent)
<1> DEFINE r == thread[t].rec
           b == Blocked(r)
           e == EventFor("EXPIRED", r)
<1>1. r \in Rec /\ idem' = idem
  BY ThreadTyped, WorkerTyped DEF ApproveRecommendation, Deciding
<1>2. ledger \in Seq(AuditEvent) /\ recs \in [Rec -> Recommendation \cup {Absent}]
  BY DEF TypeOK
<1>3. b \in AuditEvent /\ b.type = "BLOCKED"
  BY <1>1, EventTyped
<1>4. CASE UNCHANGED <<recs, ledger>>
  BY <1>1, <1>2, <1>4, Quiet
<1>5. CASE Log(<<b>>) /\ UNCHANGED recs
  <2> HIDE DEF b
  <2>1. Kept /\ \A q \in Rec : Fresh(q) = {}
    BY <1>3, <1>5, NoteOnly DEF StatusType
  <2> QED BY <1>1, <1>2, <1>3, <1>5, <2>1, LogOne DEF Effect, Touched, Left
<1>6. CASE CanBecome(r, "APPROVED") /\ Become(r, "EXPIRED") /\ Log(<<b, e>>)
  <2>1. recs[r] \in Recommendation /\ recs[r] # Absent /\ recs[r].status = "PENDING"
    BY <1>1, <1>6, CanBecomeMeans, AbsentIsNew
  <2>2. e \in AuditEvent /\ e.type = "EXPIRED" /\ e.rec = r /\ e.source = recs[r].source
    BY <1>1, <2>1, EventTyped DEF EventType
  <2> DEFINE n == Len(ledger) + 2
  <2> HIDE DEF b, e
  <2>3. Kept /\ ledger'[n] = e /\ Fresh(r) = {n} /\ \A q \in Rec \ {r} : Fresh(q) = {}
    BY <1>3, <1>6, <2>2, OneOfTwo DEF StatusType
  <2> HIDE DEF n, r
  <2>4. \A q \in Rec : Touched(q)
    BY <1>1, <1>6, <2>1, <2>2, <2>3, DecideOne
  <2>5. recs' \in [Rec -> Recommendation \cup {Absent}]
    BY <1>1, <1>6, <2>1, BecomeTyped DEF ApprovalStatus
  <2> QED BY <1>1, <1>2, <1>3, <1>6, <2>2, <2>3, <2>4, <2>5, LogTwo DEF Effect
<1>7. \/ UNCHANGED <<recs, ledger>>
      \/ Log(<<b>>) /\ UNCHANGED recs
      \/ CanBecome(r, "APPROVED") /\ Become(r, "EXPIRED") /\ Log(<<b, e>>)
  BY DEF ApproveRecommendation
<1> QED BY <1>4, <1>5, <1>6, <1>7

LEMMA CommitEffect ==
  ASSUME TypeOK, Held, NEW t \in Thread, CommitApproval(t)
  PROVE  /\ Effect /\ recs' \in [Rec -> Recommendation \cup {Absent}]
         /\ ledger' \in Seq(AuditEvent) /\ idem' \in [Key -> Decision \cup {Absent}]
<1> DEFINE r == thread[t].rec
           v == thread[t].current
           e == Event("APPROVED", r, recs[r].source, v, Absent)
<1>1. thread[t].pc = "commit" /\ thread[t] \in Committing
  BY ThreadTyped, WorkerTyped DEF CommitApproval
<1>2. r \in Rec /\ v \in Version /\ thread[t].key \in Key \cup {Absent}
  BY <1>1 DEF Committing
<1>3. /\ recs[r] # Absent /\ recs[r].status = "PENDING"
      /\ recs[r].source = v /\ recs[r].mode \notin Simulated
  BY <1>1 DEF Held
<1>4. recs[r] \in Recommendation
  BY <1>2, <1>3 DEF TypeOK
<1>5. ledger \in Seq(AuditEvent) /\ idem \in [Key -> Decision \cup {Absent}] /\ Len(ledger) \in Nat
  BY LenProperties DEF TypeOK
<1>6. CASE Unfit(r)
  <2>1. Become(r, "EXPIRED") /\ UNCHANGED <<ledger, idem>>
    BY <1>6 DEF CommitApproval
  <2>2. \A q \in Rec : Fresh(q) = {}
    BY <1>5, <2>1 DEF Fresh
  <2>3. /\ recs' \in [Rec -> Recommendation \cup {Absent}]
        /\ recs'[r] = [recs[r] EXCEPT !.status = "EXPIRED"]
        /\ \A q \in Rec \ {r} : recs'[q] = recs[q]
    BY <1>2, <1>4, <2>1, BecomeTyped DEF ApprovalStatus
  <2>4. Lapsed(r) /\ \A q \in Rec \ {r} : Left(q)
    BY <1>2, <1>3, <2>2, <2>3 DEF Lapsed, Left
  <2>5. Kept
    BY <1>5, <2>1 DEF Kept
  <2> QED BY <1>5, <2>1, <2>3, <2>4, <2>5 DEF Effect, Touched
<1>7. CASE ~Unfit(r)
  <2>1. /\ Become(r, "APPROVED") /\ Log(<<e>>)
        /\ idem' = Recorded(r, "APPROVED", thread[t].key, v)
    BY <1>7 DEF CommitApproval
  <2>2. /\ e \in AuditEvent /\ e.type = "APPROVED" /\ e.rec = r
        /\ e.source = recs[r].source /\ e.current = v
    BY <1>2, <1>4 DEF Event, AuditEvent, EventType, Recommendation
  <2> HIDE DEF e
  <2> DEFINE n == Len(ledger) + 1
  <2>3. Kept /\ ledger'[n] = e /\ Fresh(r) = {n} /\ \A q \in Rec \ {r} : Fresh(q) = {}
    BY <2>1, <2>2, OneTold DEF StatusType
  <2>4. /\ idem' \in [Key -> Decision \cup {Absent}]
        /\ \A q \in Key :
             idem'[q] = idem[q] \/ Tells(idem'[q], r, "APPROVED", n)
    BY <1>2, <1>4, <2>1, RecordedTyped
  <2> HIDE DEF n, r, v
  <2>5. \A q \in Rec : Touched(q)
    BY <1>2, <1>3, <1>4, <2>1, <2>2, <2>3, DecideOne
  <2>6. \A q \in Key : idem'[q] = idem[q] \/ Remembered(q)
    BY <1>2, <2>2, <2>3, <2>4 DEF Remembered, Tells
  <2>7. recs' \in [Rec -> Recommendation \cup {Absent}]
    BY <1>2, <1>4, <2>1, BecomeTyped DEF ApprovalStatus
  <2> QED BY <1>5, <2>1, <2>2, <2>3, <2>4, <2>5, <2>6, <2>7, LogOne DEF Effect
<1> QED BY <1>6, <1>7

LEMMA RejectEffect ==
  ASSUME TypeOK, NEW t \in Thread, RejectRecommendation(t)
  PROVE  /\ Effect /\ recs' \in [Rec -> Recommendation \cup {Absent}]
         /\ ledger' \in Seq(AuditEvent) /\ idem' \in [Key -> Decision \cup {Absent}]
<1> DEFINE r == thread[t].rec
           b == Blocked(r)
           e == EventFor("REJECTED", r)
<1>1. r \in Rec /\ thread[t].key \in Key \cup {Absent}
  BY ThreadTyped, WorkerTyped DEF RejectRecommendation, Deciding
<1>2. /\ ledger \in Seq(AuditEvent) /\ recs \in [Rec -> Recommendation \cup {Absent}]
      /\ idem \in [Key -> Decision \cup {Absent}] /\ version \in Version
  BY DEF TypeOK
<1>3. b \in AuditEvent /\ b.type = "BLOCKED"
  BY <1>1, EventTyped
<1>4. CASE UNCHANGED <<recs, ledger, idem>>
  BY <1>2, <1>4, Quiet
<1>5. CASE Log(<<b>>) /\ UNCHANGED <<recs, idem>>
  <2> HIDE DEF b
  <2>1. Kept /\ \A q \in Rec : Fresh(q) = {}
    BY <1>3, <1>5, NoteOnly DEF StatusType
  <2> QED BY <1>2, <1>3, <1>5, <2>1, LogOne DEF Effect, Touched, Left
<1>6. CASE /\ CanBecome(r, "REJECTED") /\ Become(r, "REJECTED") /\ Log(<<e>>)
           /\ idem' = Recorded(r, "REJECTED", thread[t].key, version)
  <2>1. recs[r] \in Recommendation /\ recs[r] # Absent /\ recs[r].status = "PENDING"
    BY <1>1, <1>6, CanBecomeMeans, AbsentIsNew
  <2>2. e \in AuditEvent /\ e.type = "REJECTED" /\ e.rec = r /\ e.source = recs[r].source
    BY <1>1, <2>1, EventTyped DEF EventType
  <2> DEFINE n == Len(ledger) + 1
  <2> HIDE DEF b, e
  <2>3. Kept /\ ledger'[n] = e /\ Fresh(r) = {n} /\ \A q \in Rec \ {r} : Fresh(q) = {}
    BY <1>6, <2>2, OneTold DEF StatusType
  <2>4. /\ idem' \in [Key -> Decision \cup {Absent}]
        /\ \A q \in Key :
             idem'[q] = idem[q] \/ Tells(idem'[q], r, "REJECTED", n)
    BY <1>1, <1>2, <1>6, <2>1, RecordedTyped
  <2> HIDE DEF n, r
  <2>5. \A q \in Rec : Touched(q)
    BY <1>1, <1>6, <2>1, <2>2, <2>3, DecideOne
  <2>6. \A q \in Key : idem'[q] = idem[q] \/ Remembered(q)
    BY <1>1, <2>2, <2>3, <2>4 DEF Remembered, Tells
  <2>7. recs' \in [Rec -> Recommendation \cup {Absent}]
    BY <1>1, <1>6, <2>1, BecomeTyped DEF ApprovalStatus
  <2> QED BY <1>2, <1>6, <2>2, <2>3, <2>4, <2>5, <2>6, <2>7, LogOne DEF Effect
<1>7. \/ UNCHANGED <<recs, ledger, idem>>
      \/ Log(<<b>>) /\ UNCHANGED <<recs, idem>>
      \/ /\ CanBecome(r, "REJECTED") /\ Become(r, "REJECTED") /\ Log(<<e>>)
         /\ idem' = Recorded(r, "REJECTED", thread[t].key, version)
  BY DEF RejectRecommendation
<1> QED BY <1>4, <1>5, <1>6, <1>7

LEMMA InitTyped == Init => TypeOK
<1> SUFFICES ASSUME Init PROVE TypeOK
  OBVIOUS
<1>1. version \in Version
  BY InputsTyped DEF Init, Version
<1>2. ledger \in Seq(AuditEvent)
  BY DEF Init
<1>3. thread \in [Thread -> Worker]
  BY IdleTyped DEF Init
<1> QED BY <1>1, <1>2, <1>3 DEF Init, TypeOK, Worker, Stamping, Saving, Deciding, Committing

\* Where a worker goes from each action.
LEMMA GenerateThread ==
  ASSUME TypeOK, NEW t \in Thread, NEW g \in Generation, Generate(t, g)
  PROVE  thread' \in [Thread -> Worker]
<1>1. PICK batch \in Proposals \cup RouteProposals :
        Go(t, [pc |-> "stamp", batch |-> batch, mode |-> g.mode])
  BY DEF Generate
<1>2. batch \subseteq Rec
  BY TargetsApart DEF Proposals, RouteProposals, ReceivingHospital, EvacuationShelter,
                      PrioritizedIncidents, Rec
<1>3. g.mode \in Mode
  BY InputsTyped
<1>4. [pc |-> "stamp", batch |-> batch, mode |-> g.mode] \in Worker
  BY <1>2, <1>3 DEF Worker, Stamping
<1> QED BY <1>1, <1>4, GoTyped

LEMMA StampThread ==
  ASSUME TypeOK, NEW t \in Thread, Stamp(t)
  PROVE  thread' \in [Thread -> Worker]
<1>1. thread[t] \in Stamping
  BY ThreadTyped, WorkerTyped DEF Stamp
<1> DEFINE x == [pc |-> "save", batch |-> thread[t].batch, mode |-> thread[t].mode,
                 source |-> version]
<1>2. x \in Worker
  BY <1>1 DEF Worker, Stamping, Saving, TypeOK
<1>3. Go(t, x)
  BY DEF Stamp
<1> QED BY <1>2, <1>3, GoTyped

LEMMA SaveThread ==
  ASSUME TypeOK, NEW t \in Thread, NEW r \in Rec, SaveRecommendation(t, r)
  PROVE  thread' \in [Thread -> Worker]
<1>1. thread[t] \in Saving
  BY ThreadTyped, WorkerTyped DEF SaveRecommendation
<1> DEFINE x == [thread[t] EXCEPT !.batch = @ \ {r}]
<1>2. x \in Worker
  BY <1>1 DEF Worker, Saving
<1>3. Go(t, IF thread[t].batch = {r} THEN Idle ELSE x)
  BY DEF SaveRecommendation
<1> QED BY <1>2, <1>3, GoTyped, IdleTyped

LEMMA AskThread ==
  ASSUME TypeOK, NEW t \in Thread, NEW d \in Decide, Ask(t, d)
  PROVE  thread' \in [Thread -> Worker]
<1> DEFINE x == [pc |-> d.op, rec |-> d.rec, role |-> d.role, key |-> d.key]
<1>1. d \in DecisionRequest
  BY InputsTyped
<1>2. x \in Deciding
  BY <1>1 DEF DecisionRequest, Deciding
<1>3. x \in Worker /\ Go(t, x)
  BY <1>2 DEF Worker, Ask
<1> QED BY <1>3, GoTyped

LEMMA ApproveThread ==
  ASSUME TypeOK, NEW t \in Thread, ApproveRecommendation(t)
  PROVE  /\ thread' \in [Thread -> Worker]
         /\ lock' \in Thread \cup {Absent}
<1>1. thread[t] \in Deciding
  BY ThreadTyped, WorkerTyped DEF ApproveRecommendation
<1> DEFINE x == [pc |-> "commit", rec |-> thread[t].rec, key |-> thread[t].key, current |-> version]
<1>2. x \in Worker
  BY <1>1 DEF Worker, Deciding, Committing, TypeOK
<1>3. (Go(t, Idle) /\ UNCHANGED lock) \/ (Go(t, x) /\ lock' = t)
  BY DEF ApproveRecommendation
<1> QED BY <1>2, <1>3, GoTyped, IdleTyped DEF TypeOK

\* Every step keeps the types and has an effect of the kinds above.
LEMMA StepEffect ==
  ASSUME TypeOK, Held, [Next]_vars
  PROVE  TypeOK' /\ Effect
<1> DEFINE Goal == TypeOK' /\ Effect
<1> USE DEF Goal
<1>0. /\ version \in Version /\ condition \in [Rec -> Condition \cup {Absent}]
      /\ recs \in [Rec -> Recommendation \cup {Absent}] /\ ledger \in Seq(AuditEvent)
      /\ idem \in [Key -> Decision \cup {Absent}] /\ lock \in Thread \cup {Absent}
      /\ thread \in [Thread -> Worker]
  BY ThreadTyped DEF TypeOK
<1>a. ASSUME version' \in Version, condition' \in [Rec -> Condition \cup {Absent}],
             recs' \in [Rec -> Recommendation \cup {Absent}], ledger' \in Seq(AuditEvent),
             idem' \in [Key -> Decision \cup {Absent}], lock' \in Thread \cup {Absent},
             thread' \in [Thread -> Worker]
      PROVE  TypeOK'
  BY <1>a DEF TypeOK, Worker, Stamping, Saving, Deciding, Committing
<1>1. CASE TwinAdvances
  <2>1. version' \in Version
    BY <1>0, <1>1, InputsTyped DEF TwinAdvances, Version
  <2> QED BY <1>0, <1>a, <1>1, <2>1, Quiet DEF TwinAdvances
<1>2. ASSUME NEW r \in Rec, NEW c \in ConditionOf(r), StoreChanges(r, c) PROVE Goal
  <2>1. c \in Condition
    BY DEF ConditionOf, Condition
  <2>2. condition' \in [Rec -> Condition \cup {Absent}]
    BY <1>0, <1>2, <2>1 DEF StoreChanges
  <2> QED BY <1>0, <1>a, <1>2, <2>2, Quiet DEF StoreChanges
<1>3. ASSUME NEW t \in Thread, NEW g \in Generation, Generate(t, g) PROVE Goal
  BY <1>0, <1>a, <1>3, GenerateThread, Quiet DEF Generate
<1>4. ASSUME NEW t \in Thread, Stamp(t) PROVE Goal
  BY <1>0, <1>a, <1>4, StampThread, Quiet DEF Stamp
<1>5. ASSUME NEW t \in Thread, NEW r \in Rec, SaveRecommendation(t, r) PROVE Goal
  <2>1. UNCHANGED <<version, condition, idem, lock>>
    BY <1>5 DEF SaveRecommendation
  <2> QED BY <1>0, <1>a, <1>5, <2>1, SaveThread, SaveEffect
<1>6. ASSUME NEW t \in Thread, NEW d \in Decide, Ask(t, d) PROVE Goal
  BY <1>0, <1>a, <1>6, AskThread, Quiet DEF Ask
<1>7. ASSUME NEW t \in Thread, ApproveRecommendation(t) PROVE Goal
  <2>1. UNCHANGED <<version, condition, idem>>
    BY <1>7 DEF ApproveRecommendation
  <2> QED BY <1>0, <1>a, <1>7, <2>1, ApproveThread, ApproveEffect
<1>8. ASSUME NEW t \in Thread, CommitApproval(t) PROVE Goal
  <2>1. UNCHANGED <<version, condition>> /\ lock' = Absent /\ Go(t, Idle)
    BY <1>8 DEF CommitApproval
  <2> QED BY <1>0, <1>a, <1>8, <2>1, GoTyped, IdleTyped, CommitEffect
<1>9. ASSUME NEW t \in Thread, RejectRecommendation(t) PROVE Goal
  <2>1. UNCHANGED <<version, condition, lock>> /\ Go(t, Idle)
    BY <1>9 DEF RejectRecommendation
  <2> QED BY <1>0, <1>a, <1>9, <2>1, GoTyped, IdleTyped, RejectEffect
<1>10. ASSUME NEW r \in Rec, GetRecommendation(r) PROVE Goal
  <2>1. UNCHANGED <<version, condition, idem, lock, thread>>
    BY <1>10 DEF GetRecommendation
  <2> QED BY <1>0, <1>a, <1>10, <2>1, GetEffect
<1>11. CASE ListRecommendations
  <2>1. UNCHANGED <<version, condition, idem, lock, thread>>
    BY <1>11 DEF ListRecommendations
  <2> QED BY <1>0, <1>a, <1>11, <2>1, ListEffect
<1>12. ASSUME NEW r \in Rec, NEW role \in Acting, ExpireRecommendation(r, role) PROVE Goal
  <2>1. UNCHANGED <<version, condition, idem, lock, thread>>
    BY <1>12 DEF ExpireRecommendation
  <2> QED BY <1>0, <1>a, <1>12, <2>1, ExpireEffect
<1>13. CASE UNCHANGED vars
  BY <1>0, <1>a, <1>13, Quiet DEF vars
<1> QED BY <1>1, <1>2, <1>3, <1>4, <1>5, <1>6, <1>7, <1>8, <1>9, <1>10, <1>11, <1>12, <1>13
        DEF Next

--------------------------------------------------------------------------------
(* The lock *)

\* Nobody else is about to commit.
LEMMA NobodyCommits ==
  ASSUME Held
  PROVE  /\ Free => \A t \in Thread : thread[t].pc # "commit"
         /\ \A t \in Thread : thread[t].pc = "commit" =>
              \A u \in Thread \ {t} : thread[u].pc # "commit"
BY AbsentIsNew DEF Held, Free

\* One worker moves, and not to its commit.
MovesOnly(t) ==
  \E x \in Worker : x.pc # "commit" /\ Go(t, x)

LEMMA MovedThreads ==
  ASSUME TypeOK, NEW t \in Thread, MovesOnly(t)
  PROVE  \A u \in Thread : thread'[u] = thread[u] \/ thread'[u].pc # "commit"
<1>1. PICK x \in Worker : x.pc # "commit" /\ Go(t, x)
  BY DEF MovesOnly
<1>2. thread \in [Thread -> Worker]
  BY ThreadTyped
<1> QED BY <1>1, <1>2 DEF Go

LEMMA HeldWhenOthersStay ==
  ASSUME Held, UNCHANGED <<recs, lock>>,
         \A u \in Thread : thread'[u] = thread[u] \/ thread'[u].pc # "commit"
  PROVE  Held'
BY DEF Held

LEMMA HeldWhenFree ==
  ASSUME Held, Free,
         \A u \in Thread : thread'[u] = thread[u] \/ thread'[u].pc # "commit"
  PROVE  Held'
BY NobodyCommits DEF Held

LEMMA HeldStep ==
  ASSUME TypeOK, Held, [Next]_vars
  PROVE  Held'
<1>0. Idle \in Worker /\ Idle.pc # "commit"
  BY IdleTyped DEF Idle
<1>1. CASE TwinAdvances
  BY <1>1, HeldWhenOthersStay DEF TwinAdvances
<1>2. ASSUME NEW r \in Rec, NEW c \in ConditionOf(r), StoreChanges(r, c) PROVE Held'
  BY <1>2, HeldWhenOthersStay DEF StoreChanges
<1>3. ASSUME NEW t \in Thread, NEW g \in Generation, Generate(t, g) PROVE Held'
  <2>1. thread \in [Thread -> Worker] /\ UNCHANGED <<recs, lock>>
    BY <1>3, ThreadTyped DEF Generate
  <2>2. PICK batch : Go(t, [pc |-> "stamp", batch |-> batch, mode |-> g.mode])
    BY <1>3 DEF Generate
  <2>3. \A u \in Thread : thread'[u] = thread[u] \/ thread'[u].pc # "commit"
    BY <2>1, <2>2 DEF Go
  <2> QED BY <2>1, <2>3, HeldWhenOthersStay
<1>4. ASSUME NEW t \in Thread, Stamp(t) PROVE Held'
  <2>1. thread \in [Thread -> Worker] /\ UNCHANGED <<recs, lock>>
    BY <1>4, ThreadTyped DEF Stamp
  <2>2. \A u \in Thread : thread'[u] = thread[u] \/ thread'[u].pc # "commit"
    BY <1>4, <2>1 DEF Stamp, Go
  <2> QED BY <2>1, <2>2, HeldWhenOthersStay
<1>5. ASSUME NEW t \in Thread, NEW r \in Rec, SaveRecommendation(t, r) PROVE Held'
  <2>1. thread[t] \in Saving
    BY <1>5, ThreadTyped, WorkerTyped DEF SaveRecommendation
  <2> DEFINE x == [thread[t] EXCEPT !.batch = @ \ {r}]
  <2>2. x \in Worker /\ x.pc = "save"
    BY <2>1 DEF Worker, Saving
  <2>3. Free /\ Go(t, IF thread[t].batch = {r} THEN Idle ELSE x)
    BY <1>5 DEF SaveRecommendation
  <2>4. MovesOnly(t)
    BY <1>0, <2>2, <2>3 DEF MovesOnly
  <2> QED BY <2>3, <2>4, MovedThreads, HeldWhenFree
<1>6. ASSUME NEW t \in Thread, NEW d \in Decide, Ask(t, d) PROVE Held'
  <2>1. thread \in [Thread -> Worker] /\ UNCHANGED <<recs, lock>>
    BY <1>6, ThreadTyped DEF Ask
  <2>2. d.op # "commit"
    BY InputsTyped DEF DecisionRequest
  <2>3. \A u \in Thread : thread'[u] = thread[u] \/ thread'[u].pc # "commit"
    BY <1>6, <2>1, <2>2 DEF Ask, Go
  <2> QED BY <2>1, <2>3, HeldWhenOthersStay
<1>7. ASSUME NEW t \in Thread, ApproveRecommendation(t) PROVE Held'
  <2>1. Free /\ thread \in [Thread -> Worker]
    BY <1>7, ThreadTyped DEF ApproveRecommendation
  <2>2. CASE Go(t, Idle)
    BY <1>0, <2>1, <2>2, MovedThreads, HeldWhenFree DEF MovesOnly
  <2> DEFINE r == thread[t].rec
             x == [pc |-> "commit", rec |-> r, key |-> thread[t].key, current |-> version]
  <2>3. CASE /\ CanBecome(r, "APPROVED") /\ recs[r].source = version
             /\ recs[r].mode \notin Simulated
             /\ lock' = t /\ Go(t, x) /\ UNCHANGED recs
    <3>1. thread' = [thread EXCEPT ![t] = x]
      BY <2>3 DEF Go
    <3>2. recs[r] # Absent /\ recs[r].status = "PENDING"
      BY <2>3 DEF CanBecome, Transitions
    <3>3. \A u \in Thread : thread'[u].pc = "commit" => u = t
      BY <2>1, <3>1, NobodyCommits
    <3>4. thread'[t] = x /\ x.rec = r /\ x.current = version
      BY <2>1, <3>1
    <3> QED BY <2>3, <3>2, <3>3, <3>4 DEF Held
  <2> QED BY <1>7, <2>2, <2>3 DEF ApproveRecommendation
<1>8. ASSUME NEW t \in Thread, CommitApproval(t) PROVE Held'
  <2>1. thread \in [Thread -> Worker] /\ Go(t, Idle) /\ thread[t].pc = "commit"
    BY <1>8, ThreadTyped DEF CommitApproval
  <2>2. \A u \in Thread : thread'[u].pc # "commit"
    BY <1>0, <2>1, NobodyCommits DEF Go
  <2> QED BY <2>2 DEF Held
<1>9. ASSUME NEW t \in Thread, RejectRecommendation(t) PROVE Held'
  <2>1. Free /\ Go(t, Idle)
    BY <1>9 DEF RejectRecommendation
  <2> QED BY <1>0, <2>1, MovedThreads, HeldWhenFree DEF MovesOnly
<1>10. ASSUME NEW r \in Rec, GetRecommendation(r) PROVE Held'
  BY <1>10, HeldWhenFree DEF GetRecommendation
<1>11. CASE ListRecommendations
  BY <1>11, HeldWhenFree DEF ListRecommendations
<1>12. ASSUME NEW r \in Rec, NEW role \in Acting, ExpireRecommendation(r, role) PROVE Held'
  BY <1>12, HeldWhenFree DEF ExpireRecommendation
<1>13. CASE UNCHANGED vars
  BY <1>13, HeldWhenOthersStay DEF vars
<1> QED BY <1>1, <1>2, <1>3, <1>4, <1>5, <1>6, <1>7, <1>8, <1>9, <1>10, <1>11, <1>12, <1>13
        DEF Next

\* Types, and nothing commits without the lock, in every reachable state.
LEMMA Invariant == Spec => [](TypeOK /\ Held)
<1>1. Init => TypeOK /\ Held
  BY InitTyped DEF Init, Held, Idle
<1>2. TypeOK /\ Held /\ [Next]_vars => (TypeOK /\ Held)'
  BY StepEffect, HeldStep
<1> QED BY <1>1, <1>2, PTL DEF Spec

\* Every record the service keeps has its type, whichever requests interleave:
\* stamped with a version the twin has had, decisions with their recommendation.
THEOREM TypeCorrect == Spec => []TypeOK
BY Invariant, PTL

\* The service's methods exclude each other and the commit of an approval: what an
\* approval has checked under the lock still holds when it writes.
THEOREM CommitHolds == Spec => []Held
BY Invariant, PTL

--------------------------------------------------------------------------------
(* The ledger and the statuses *)

\* The status events after a step are those before it and the fresh ones.
LEMMA EventsAfter ==
  ASSUME TypeOK, TypeOK', Kept, NEW r \in Rec
  PROVE  /\ StatusEvents(r)' = StatusEvents(r) \cup Fresh(r)
         /\ \A n \in StatusEvents(r) : n \in 1..Len(ledger) /\ ledger'[n] = ledger[n]
         /\ \A n \in Fresh(r) : n \in Nat /\ n > Len(ledger) /\ n <= Len(ledger')
         /\ Len(ledger) \in Nat /\ Len(ledger') \in Nat
<1>1. /\ Len(ledger) \in Nat /\ DOMAIN ledger = 1..Len(ledger)
      /\ Len(ledger') \in Nat /\ DOMAIN ledger' = 1..Len(ledger')
  BY LenProperties DEF TypeOK
<1>2. Len(ledger') >= Len(ledger) /\ \A i \in 1..Len(ledger) : ledger'[i] = ledger[i]
  BY DEF Kept
<1>3. 1..Len(ledger') = (1..Len(ledger)) \cup ((Len(ledger) + 1)..Len(ledger'))
  BY <1>1, <1>2
<1>4. StatusEvents(r)' = {n \in 1..Len(ledger') : ledger'[n].rec = r /\ ledger'[n].type \in StatusType}
  BY <1>1 DEF StatusEvents, StatusType
<1>5. StatusEvents(r) = {n \in 1..Len(ledger) : ledger[n].rec = r /\ ledger[n].type \in StatusType}
  BY <1>1 DEF StatusEvents, StatusType
<1>6. StatusEvents(r)' = StatusEvents(r) \cup Fresh(r)
  BY <1>2, <1>3, <1>4, <1>5 DEF Fresh
<1> QED BY <1>1, <1>2, <1>5, <1>6 DEF Fresh

\* LedgerTellsStatus, with the mode of what is still pending.
Tale(n, r) ==
  /\ IsLast(n, r)
  /\ ledger[n].source = recs[r].source
  /\ recs[r].status = "PENDING" => ledger[n].type = "CREATED" /\ ledger[n].mode = recs[r].mode
  /\ recs[r].status = "EXPIRED" => ledger[n].type \in {"EXPIRED", "CREATED"}
  /\ recs[r].status \in {"APPROVED", "REJECTED"} => ledger[n].type = recs[r].status
Told == \A r \in Rec : recs[r] # Absent => \E n \in StatusEvents(r) : Tale(n, r)

LEMMA ToldStep ==
  ASSUME TypeOK, TypeOK', Effect, Told
  PROVE  Told'
<1> SUFFICES ASSUME NEW r \in Rec, recs'[r] # Absent
             PROVE  \E n \in StatusEvents(r)' : Tale(n, r)'
  BY DEF Told
<1>1. Kept
  BY DEF Effect
<1>2. /\ StatusEvents(r)' = StatusEvents(r) \cup Fresh(r)
      /\ \A n \in StatusEvents(r) : n \in 1..Len(ledger) /\ ledger'[n] = ledger[n]
      /\ \A n \in Fresh(r) : n \in Nat /\ n > Len(ledger) /\ n <= Len(ledger')
      /\ Len(ledger) \in Nat /\ Len(ledger') \in Nat
  BY <1>1, EventsAfter
<1>3. ASSUME NEW n \in Fresh(r), Fresh(r) = {n}
      PROVE  IsLast(n, r)' /\ n \in StatusEvents(r)'
  BY <1>2, <1>3 DEF IsLast
<1>4. CASE Left(r)
  <2>1. Fresh(r) = {} /\ recs'[r] = recs[r] /\ recs[r] # Absent
    BY <1>4 DEF Left
  <2>2. PICK n \in StatusEvents(r) : Tale(n, r)
    BY <2>1 DEF Told
  <2> QED BY <1>2, <2>1, <2>2 DEF Tale, IsLast
<1>5. CASE Lapsed(r)
  <2>1. /\ Fresh(r) = {} /\ recs[r] # Absent /\ recs[r].status = "PENDING"
        /\ recs'[r] = [recs[r] EXCEPT !.status = "EXPIRED"]
    BY <1>5 DEF Lapsed
  <2>2. PICK n \in StatusEvents(r) : Tale(n, r)
    BY <2>1 DEF Told
  <2>3. recs[r] \in Recommendation
    BY <2>1 DEF TypeOK
  <2>4. recs'[r].status = "EXPIRED" /\ recs'[r].source = recs[r].source
    BY <2>1, <2>3 DEF Recommendation
  <2>5. IsLast(n, r)' /\ n \in StatusEvents(r)' /\ ledger'[n] = ledger[n]
    BY <1>2, <2>1, <2>2 DEF Tale, IsLast
  <2>6. ledger'[n].type = "CREATED" /\ ledger'[n].source = recs'[r].source
    BY <2>1, <2>2, <2>4, <2>5 DEF Tale
  <2> QED BY <2>4, <2>5, <2>6 DEF Tale
<1>6. CASE Issued(r)
  <2>1. PICK n \in Fresh(r) :
          n = Len(ledger') /\ Fresh(r) = {n} /\ ledger'[n].type = "CREATED"
    BY <1>6 DEF Issued
  <2>2. /\ recs'[r].status = "PENDING" /\ recs'[r].source = ledger'[n].source
        /\ recs'[r].mode = ledger'[n].mode
    BY <1>6, <2>1 DEF Issued
  <2>3. IsLast(n, r)' /\ n \in StatusEvents(r)'
    BY <1>3, <2>1
  <2> QED BY <2>1, <2>2, <2>3 DEF Tale
<1>7. ASSUME NEW n \in Fresh(r), DecidedAt(r, n)
      PROVE  \E m \in StatusEvents(r)' : Tale(m, r)'
  <2>1. /\ Fresh(r) = {n} /\ recs[r] # Absent
        /\ ledger'[n].type \in {"APPROVED", "REJECTED", "EXPIRED"}
        /\ ledger'[n].source = recs[r].source
        /\ recs'[r] = [recs[r] EXCEPT !.status = ledger'[n].type]
    BY <1>7 DEF DecidedAt
  <2>2. recs[r] \in Recommendation
    BY <2>1 DEF TypeOK
  <2>3. recs'[r].status = ledger'[n].type /\ recs'[r].source = recs[r].source
    BY <2>1, <2>2 DEF Recommendation
  <2>4. IsLast(n, r)' /\ n \in StatusEvents(r)'
    BY <1>3, <2>1
  <2> QED BY <2>1, <2>3, <2>4 DEF Tale
<1>8. Touched(r)
  BY DEF Effect
<1> QED BY <1>4, <1>5, <1>6, <1>7, <1>8 DEF Touched

LEMMA ToldInvariant == Spec => []Told
<1>1. Init => Told
  BY DEF Init, Told
<1>2. TypeOK /\ Held /\ Told /\ [Next]_vars => Told'
  BY StepEffect, ToldStep
<1> QED BY <1>1, <1>2, Invariant, PTL DEF Spec

LEMMA ToldIsTold == TypeOK /\ Told => LedgerTellsStatus
<1> SUFFICES ASSUME TypeOK, Told, NEW r \in Rec, recs[r] # Absent
             PROVE  \E n \in DOMAIN ledger :
                      /\ IsLast(n, r)
                      /\ ledger[n].source = recs[r].source
                      /\ CASE recs[r].status = "PENDING" -> ledger[n].type = "CREATED"
                           [] recs[r].status = "EXPIRED" -> ledger[n].type \in {"EXPIRED", "CREATED"}
                           [] OTHER                      -> ledger[n].type = recs[r].status
  BY DEF LedgerTellsStatus
<1>1. PICK n \in StatusEvents(r) : Tale(n, r)
  BY DEF Told
<1>2. recs[r].status \in {"PENDING", "APPROVED", "REJECTED", "EXPIRED"}
  BY DEF TypeOK, Recommendation, ApprovalStatus
<1>3. n \in DOMAIN ledger
  BY DEF StatusEvents
<1> QED BY <1>1, <1>2, <1>3 DEF Tale

\* The audit ledger alone tells what each recommendation is, for any number of
\* requests, except that a proposal found unfit may have expired unrecorded.
THEOREM LedgerTells == Spec => []LedgerTellsStatus
<1>1. TypeOK /\ Told => LedgerTellsStatus
  BY ToldIsTold
<1> QED BY <1>1, Invariant, ToldInvariant, PTL

--------------------------------------------------------------------------------
(* Decisions *)

\* What a step decides, it decides as the only thing that it does to it.
LEMMA FreshDecision ==
  ASSUME NEW r \in Rec, Touched(r), NEW n \in Fresh(r), ledger'[n].type # "CREATED"
  PROVE  DecidedAt(r, n)
<1>1. ~Left(r) /\ ~Lapsed(r)
  BY DEF Left, Lapsed
<1>2. ~Issued(r)
  BY DEF Issued
<1>3. PICK m \in Fresh(r) : DecidedAt(r, m)
  BY <1>1, <1>2 DEF Touched
<1>4. m = n
  BY <1>3 DEF DecidedAt
<1> QED BY <1>3, <1>4

\* Decision m is of the issue n of r.
Answers(n, m, r) ==
  /\ Precedes(n, m, r)
  /\ ledger[n].type = "CREATED" /\ ledger[n].source = ledger[m].source
  /\ ledger[m].type = "APPROVED" =>
       ledger[m].current = ledger[m].source /\ ledger[n].mode \notin Simulated

\* A decision taken in a step follows the issue that was the last event till then.
LEMMA NewDecisionAnswers ==
  ASSUME TypeOK, TypeOK', Kept, Told, NEW r \in Rec, NEW m \in Fresh(r), DecidedAt(r, m)
  PROVE  \E n \in StatusEvents(r) : Answers(n, m, r)'
<1>1. /\ StatusEvents(r)' = StatusEvents(r) \cup Fresh(r)
      /\ \A n \in StatusEvents(r) : n \in 1..Len(ledger) /\ ledger'[n] = ledger[n]
      /\ \A n \in Fresh(r) : n \in Nat /\ n > Len(ledger) /\ n <= Len(ledger')
      /\ Len(ledger) \in Nat /\ Len(ledger') \in Nat
  BY EventsAfter
<1>2. /\ Fresh(r) = {m} /\ recs[r] # Absent /\ recs[r].status = "PENDING"
      /\ ledger'[m].source = recs[r].source
      /\ ledger'[m].type = "APPROVED" =>
           ledger'[m].current = recs[r].source /\ recs[r].mode \notin Simulated
  BY DEF DecidedAt
<1>3. PICK n \in StatusEvents(r) : Tale(n, r)
  BY <1>2 DEF Told
<1>4. ledger[n].source = recs[r].source /\ ledger[n].type = "CREATED" /\ ledger[n].mode = recs[r].mode
  BY <1>2, <1>3 DEF Tale
<1>5. Precedes(n, m, r)'
  BY <1>1, <1>2, <1>3 DEF Tale, IsLast, Precedes
<1> QED BY <1>1, <1>2, <1>3, <1>4, <1>5 DEF Answers

LEMMA DecisionsStep ==
  ASSUME TypeOK, TypeOK', Effect, Told, DecisionsAnswerIssues
  PROVE  DecisionsAnswerIssues'
<1>1. /\ Kept /\ Len(ledger) \in Nat /\ Len(ledger') \in Nat
      /\ DOMAIN ledger = 1..Len(ledger) /\ DOMAIN ledger' = 1..Len(ledger')
  BY LenProperties DEF Effect, TypeOK
<1> SUFFICES ASSUME NEW m \in DOMAIN ledger', NEW r, r = ledger'[m].rec,
                    ledger'[m].type \in {"APPROVED", "REJECTED", "EXPIRED"}
             PROVE  \E n \in DOMAIN ledger' : Answers(n, m, r)'
  BY DEF DecisionsAnswerIssues, Answers
<1>2. ledger'[m] \in AuditEvent
  BY DEF TypeOK
<1>3. r \in Rec
  BY <1>2 DEF AuditEvent
<1>4. CASE m \in DOMAIN ledger
  <2>1. ledger'[m] = ledger[m] /\ Len(ledger') >= Len(ledger)
    BY <1>1, <1>4 DEF Kept
  <2>2. PICK n \in DOMAIN ledger : Answers(n, m, r)
    BY <1>4, <2>1 DEF DecisionsAnswerIssues, Answers
  <2>3. Precedes(n, m, r)'
    <3>2. /\ StatusEvents(r)' = StatusEvents(r) \cup Fresh(r)
          /\ \A i \in Fresh(r) : i \in Nat /\ i > Len(ledger)
      BY <1>1, <1>3, EventsAfter
    <3>3. n \in StatusEvents(r) /\ n < m /\ \A i \in StatusEvents(r) : i <= n \/ i >= m
      BY <2>2 DEF Answers, Precedes
    <3>4. \A i \in Fresh(r) : i >= m
      BY <1>1, <1>4, <3>2
    <3> QED BY <3>2, <3>3, <3>4 DEF Precedes
  <2>4. n \in DOMAIN ledger' /\ ledger'[n] = ledger[n]
    BY <1>1, <2>1, <2>2 DEF Kept
  <2> QED BY <2>1, <2>2, <2>3, <2>4 DEF Answers
<1>5. CASE m \notin DOMAIN ledger
  <2>1. m \in Fresh(r)
    BY <1>1, <1>5 DEF Fresh, StatusType
  <2>2. DecidedAt(r, m)
    BY <1>3, <2>1, FreshDecision DEF Effect
  <2>3. PICK n \in StatusEvents(r) : Answers(n, m, r)'
    BY <1>1, <1>3, <2>1, <2>2, NewDecisionAnswers
  <2>4. n \in DOMAIN ledger'
    BY <1>1 DEF StatusEvents, Kept
  <2> QED BY <2>3, <2>4
<1> QED BY <1>4, <1>5

\* However many approvers, retries and expiries race for a proposal, it is decided
\* at most once, and an approval is of a live one, at the version it was checked at.
THEOREM DecisionsAnswer == Spec => []DecisionsAnswerIssues
<1>1. Init => DecisionsAnswerIssues
  BY DEF Init, DecisionsAnswerIssues
<1>2. TypeOK /\ Held /\ Told /\ DecisionsAnswerIssues /\ [Next]_vars => DecisionsAnswerIssues'
  BY StepEffect, DecisionsStep
<1> QED BY <1>1, <1>2, Invariant, ToldInvariant, PTL DEF Spec

\* A decided recommendation stays what it is until its id is proposed anew, by an
\* event that the ledger then ends with.
THEOREM Terminal == Spec => TerminalUntilReissued
<1>1. TypeOK /\ Held /\ [Next]_vars => [TerminalStep]_vars
  <2> SUFFICES ASSUME TypeOK, Held, [Next]_vars PROVE TerminalStep
    OBVIOUS
  <2>1. TypeOK' /\ Effect
    BY StepEffect
  <2> SUFFICES ASSUME NEW r \in Rec, recs[r] # Absent, recs[r].status # "PENDING"
               PROVE  \/ recs'[r] = recs[r]
                      \/ /\ Len(ledger') > Len(ledger)
                         /\ ledger'[Len(ledger')].type = "CREATED"
                         /\ ledger'[Len(ledger')].rec = r
    BY DEF TerminalStep
  <2>2. Left(r) \/ Issued(r)
    BY <2>1 DEF Effect, Touched, Lapsed, DecidedAt
  <2>3. CASE Issued(r)
    <3>1. Len(ledger') \in Fresh(r) /\ ledger'[Len(ledger')].type = "CREATED"
      BY <2>3 DEF Issued
    <3>2. Len(ledger') > Len(ledger) /\ ledger'[Len(ledger')].rec = r
      BY <2>1, <3>1, EventsAfter DEF Effect, Fresh
    <3> QED BY <3>1, <3>2
  <2> QED BY <2>2, <2>3 DEF Left
<1> QED BY <1>1, Invariant, PTL DEF Spec, TerminalUntilReissued

--------------------------------------------------------------------------------
(* Retries *)

\* CachedAnswerTrue, with the event that a remembered decision points to.
Remembers(k) ==
  LET d == idem[k]
  IN  /\ d.rec \in Rec /\ recs[d.rec] # Absent
      /\ d.at \in StatusEvents(d.rec) /\ ledger[d.at].type = d.decision
      /\ d.decision \in {"APPROVED", "REJECTED"}
      /\ \/ recs[d.rec].status = d.decision /\ IsLast(d.at, d.rec)
         \/ \E n \in StatusEvents(d.rec) : n > d.at /\ ledger[n].type = "CREATED"
RemembersAll == \A k \in Key : idem[k] # Absent => Remembers(k)

LEMMA RemembersStep ==
  ASSUME TypeOK, TypeOK', Effect, RemembersAll
  PROVE  RemembersAll'
<1> SUFFICES ASSUME NEW k \in Key, idem'[k] # Absent PROVE Remembers(k)'
  BY DEF RemembersAll
<1>1. Kept
  BY DEF Effect
<1>2. \A r \in Rec :
        /\ StatusEvents(r)' = StatusEvents(r) \cup Fresh(r)
        /\ \A n \in StatusEvents(r) : n \in 1..Len(ledger) /\ ledger'[n] = ledger[n]
        /\ \A n \in Fresh(r) : n \in Nat /\ n > Len(ledger) /\ n <= Len(ledger')
        /\ Len(ledger) \in Nat /\ Len(ledger') \in Nat
  BY <1>1, EventsAfter
<1>3. CASE idem'[k] = idem[k]
  <2>1. PICK d : d = idem[k]
    OBVIOUS
  <2>2. /\ d.rec \in Rec /\ recs[d.rec] # Absent
        /\ d.at \in StatusEvents(d.rec) /\ ledger[d.at].type = d.decision
        /\ d.decision \in {"APPROVED", "REJECTED"}
        /\ \/ recs[d.rec].status = d.decision /\ IsLast(d.at, d.rec)
           \/ \E n \in StatusEvents(d.rec) : n > d.at /\ ledger[n].type = "CREATED"
    BY <1>3, <2>1 DEF RemembersAll, Remembers
  <2>3. d.at \in StatusEvents(d.rec)' /\ ledger'[d.at].type = d.decision
    BY <1>2, <2>2
  <2>4. recs'[d.rec] # Absent
    <3>1. recs[d.rec] \in Recommendation
      BY <2>2 DEF TypeOK
    <3>2. Touched(d.rec)
      BY <2>2 DEF Effect
    <3>3. CASE Left(d.rec)
      BY <2>2, <3>3 DEF Left
    <3>4. CASE Lapsed(d.rec)
      <4>1. recs'[d.rec] = [recs[d.rec] EXCEPT !.status = "EXPIRED"]
        BY <3>4 DEF Lapsed
      <4>2. recs'[d.rec] \in Recommendation
        BY <3>1, <4>1 DEF Recommendation, ApprovalStatus
      <4> QED BY <4>2, AbsentIsNew
    <3>5. CASE Issued(d.rec)
      BY <3>5 DEF Issued
    <3>6. ASSUME NEW n \in Fresh(d.rec), DecidedAt(d.rec, n) PROVE recs'[d.rec] # Absent
      <4>1. /\ recs'[d.rec] = [recs[d.rec] EXCEPT !.status = ledger'[n].type]
            /\ ledger'[n].type \in {"APPROVED", "REJECTED", "EXPIRED"}
        BY <3>6 DEF DecidedAt
      <4>2. recs'[d.rec] \in Recommendation
        BY <3>1, <4>1 DEF Recommendation, ApprovalStatus
      <4> QED BY <4>2, AbsentIsNew
    <3> QED BY <3>2, <3>3, <3>4, <3>5, <3>6 DEF Touched
  <2>5. CASE \E n \in StatusEvents(d.rec) : n > d.at /\ ledger[n].type = "CREATED"
    <3>1. \E n \in StatusEvents(d.rec)' : n > d.at /\ ledger'[n].type = "CREATED"
      BY <1>2, <2>2, <2>5
    <3> QED BY <1>3, <2>1, <2>2, <2>3, <2>4, <3>1 DEF Remembers
  <2>6. CASE recs[d.rec].status = d.decision /\ IsLast(d.at, d.rec)
    <3>1. Left(d.rec) \/ Issued(d.rec)
      BY <2>2, <2>6 DEF Effect, Touched, Lapsed, DecidedAt
    <3>2. CASE Left(d.rec)
      <4>1. recs'[d.rec].status = d.decision /\ IsLast(d.at, d.rec)'
        BY <1>2, <2>2, <2>6, <3>2 DEF Left, IsLast
      <4> QED BY <1>3, <2>1, <2>2, <2>3, <2>4, <4>1 DEF Remembers
    <3>3. CASE Issued(d.rec)
      <4>1. PICK n \in Fresh(d.rec) : ledger'[n].type = "CREATED"
        BY <3>3 DEF Issued
      <4>2. n \in StatusEvents(d.rec)' /\ n > d.at
        BY <1>2, <2>2, <4>1
      <4> QED BY <1>3, <2>1, <2>2, <2>3, <2>4, <4>1, <4>2 DEF Remembers
    <3> QED BY <3>1, <3>2, <3>3
  <2> QED BY <2>2, <2>5, <2>6
<1>4. CASE Remembered(k)
  <2>1. PICK d : d = idem'[k]
    OBVIOUS
  <2>2. /\ d.rec \in Rec /\ d.at \in Fresh(d.rec)
        /\ d.decision \in {"APPROVED", "REJECTED"} /\ ledger'[d.at].type = d.decision
    BY <1>4, <2>1 DEF Remembered
  <2>3. DecidedAt(d.rec, d.at)
    BY <2>2, FreshDecision DEF Effect
  <2>4. /\ Fresh(d.rec) = {d.at} /\ recs[d.rec] # Absent
        /\ recs'[d.rec] = [recs[d.rec] EXCEPT !.status = d.decision]
    BY <2>2, <2>3 DEF DecidedAt
  <2>5. recs'[d.rec].status = d.decision /\ recs'[d.rec] \in Recommendation
    <3>1. recs[d.rec] \in Recommendation
      BY <2>2, <2>4 DEF TypeOK
    <3> QED BY <2>2, <2>4, <3>1 DEF Recommendation, ApprovalStatus
  <2>6. d.at \in StatusEvents(d.rec)' /\ IsLast(d.at, d.rec)'
    BY <1>2, <2>2, <2>4 DEF IsLast
  <2> QED BY <2>1, <2>2, <2>5, <2>6, AbsentIsNew DEF Remembers
<1> QED BY <1>3, <1>4 DEF Effect

\* A retry under its key is answered with the decision that stands, or with one that
\* stood until the same recommendation was proposed anew.
THEOREM CachedAnswers == Spec => []CachedAnswerTrue
<1>1. Init => RemembersAll
  BY DEF Init, RemembersAll
<1>2. TypeOK /\ Held /\ RemembersAll /\ [Next]_vars => RemembersAll'
  BY StepEffect, RemembersStep
<1>3. RemembersAll => CachedAnswerTrue
  BY DEF RemembersAll, Remembers, CachedAnswerTrue
<1> QED BY <1>1, <1>2, <1>3, Invariant, PTL DEF Spec

================================================================================
