---------------------------- MODULE DigitalTwinProps ----------------------------
(***************************************************************************)
(* What the Digital Twin promises beyond its own state: replaying its log, *)
(* routing over a fork, and the documented bounds of its events.           *)
(***************************************************************************)
EXTENDS DigitalTwin

\* get_events(since_version=...)
Since(s, e) == e.version > s.version

\* digital_twin/state/state_manager.py replay: a manager restored from the
\* snapshot that is fed the log's later events in order.
Replay(s, log) ==
  LET fed[n \in 0..Len(log)] ==
        IF n = 0 THEN Restored(s)
        ELSE IF Since(s, log[n]) THEN ApplyEvent(fed[n - 1], log[n].id, log[n].body)
        ELSE fed[n - 1]
  IN  fed[Len(log)]

\* A road or bridge nobody has changed is the open one its first event creates.
WithDefaults(t) ==
  [k \in Key |->
     IF t.ent[k] # Absent THEN t.ent[k]
     ELSE IF k \in Road THEN "OPEN"
     ELSE IF k \in Bridge THEN [status |-> "OPEN", road |-> Absent]
     ELSE Absent]

\* Replaying the audit log since a snapshot rebuilds the live version and every
\* entity, cascades included, when nothing was registered in between (a
\* registration is no event). Auto-created open entities count as absent.
ReplayRebuilds ==
  registered = {} =>
    LET m == Replay(snapshot, twin.log)
    IN  m.version = twin.version /\ WithDefaults(m) = WithDefaults(twin)

\* The docstring of replay: the final state is identical to live execution.
ReplayIdentical ==
  registered = {} => Replay(snapshot, twin.log).ent = twin.ent

\* A road without an override is routed as the road graph has it, open.
Routed(o) ==
  [r \in Road |-> IF o = Absent THEN "OPEN" ELSE IF o[r] = Absent THEN "OPEN" ELSE o[r]]

\* The docstring of fork: an isolated clone of this manager at its current
\* version. Whatever the order it takes the bridges in, its overlay should route
\* as the live one does.
ForkRoutesAlike == \E f \in Forks(twin) : Routed(f.overlay) = Routed(twin.overlay)

\* A road known to no bridge, or whose bridges all say of it what it says itself.
BridgesAgree(t, r) ==
  \A b \in KnownBridgesOn(t, r) : RoadStatusUnder(t.ent[b].status) = WithDefaults(t)[r]

\* Where ForkRoutesAlike holds: whatever order the fork takes the bridges in, it
\* routes each such road as the live overlay does.
ForkRoutesAgreed ==
  \A r \in Road : BridgesAgree(twin, r) =>
    \A f \in Forks(twin) : Routed(f.overlay)[r] = Routed(twin.overlay)[r]

\* A capacity event within its documented bounds (0 <= available <= capacity)
\* is applied to a registered facility, or found to change nothing.
CapacityBoundsSuffice ==
  \A p \in Payload :
    p.kind = "capacity" /\ twin.ent[p.key] # Absent => ~Rejected(twin, p)

================================================================================
