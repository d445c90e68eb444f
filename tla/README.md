# A TLA+ model of the NEXUS emergency platform

NEXUS keeps a picture of a district in an emergency, the Digital Twin, and lets
field officers, coordinators and SMS senders change it. This directory models
the parts of it that keep state under concurrency, retransmission and failure,
checks them with TLC on small instances and proves the central results with
TLAPS for every instance.

## The system

| Component | State it keeps | Operations | Talks to |
| --- | --- | --- | --- |
| Digital Twin (`src/digital_twin`) | versioned registries of roads, bridges, facilities, incidents, areas; event log; ids of seen events; routing overlay | `register_*`, `apply_event`, `set_routing_overlay`, `create_snapshot`, `replay`, `fork` | called by every service; writes into `StateOverlay` |
| Sync server (`src/services/sync`) | idempotency records, audit ledger | `process_batch` | incident service, its own twin |
| Field app (`src/apps/field-app`) | IndexedDB stores of incidents, requests, evidence and an outbox | queue a report, `ClientSyncEngine.sync` | `POST /api/v1/sync` |
| Incident and facility services (`src/services/api/app/repositories`) | records with a version each, audit histories | create, update status, details or capacity | twin |
| Recommendation governance (`src/services/recommendations`) | recommendations, audit ledger, decisions | save, get, approve, reject, expire | twin's version, facilities |
| SMS gateway (`src/services/sms`) | archive, hashes of seen messages | `ingest_message` | incident service |
| What-if simulation (`src/services/simulation`) | none of its own | validate, fork, modify, compare | fork of the twin, routing |
| Routing (`src/geospatial/routing`) | road graph, overrides | route, reroute, compare | overlay |
| Engines, flood, OSM, ML, UI | none that outlives a call | pure functions | |

Every service's state is in memory; the routes build separate service instances,
each with a twin of its own. FastAPI runs the `def` endpoints on a thread pool,
so requests interleave wherever a service holds no lock. What is hard here:
events delivered again or out of order (twin), state read before another thread
writes it (services, sync server), answers lost on the way to a client that
will send again, tabs and crashes around the outbox (field app), approvals racing
a moving twin (governance), and one step of several failing (SMS, what-if).

## Modules

| Module | Models |
| --- | --- |
| `DigitalTwin` | `DigitalTwinStateManager` with its transition rules and overlay sync |
| `DigitalTwinProps` | replay and forks, and the properties that need them |
| `MCDigitalTwin` | a small district for TLC |
| `DigitalTwinProofs` | theorems about `DigitalTwin`, replay and forks |
| `SyncPromise` | what the sync protocol promises a client (abstract specification) |
| `SyncServer` | the processing pipeline on several threads, over incident service, idempotency store, ledger and an instance of `DigitalTwin` |
| `MCSyncServer` | operations on two incidents for TLC |
| `SyncServerProofs` | theorems about `SyncServer` |
| `FieldSync` | the field app's outbox, its sync cycle in several tabs, failures and closed tabs, and the server's worker threads as far as the answers depend on them |
| `MCFieldSync` | a device with one report and one request for TLC |
| `FieldServer` | the server as `FieldSync` reduces it, with its answers as a history, against `SyncPromise` |
| `FieldSyncProofs` | theorems about `FieldSync` and `FieldServer` |
| `Services` | facility service, incident service and SMS gateway on several threads around one twin, an instance of `DigitalTwin` |
| `MCServices` | a hospital and a shelter of one id, an incident and two texts for TLC |
| `ServicesProofs` | theorems about `Services`, those of `DigitalTwin` carried over among them |
| `Recommendations` | the governance of recommendations on several threads, its audit ledger and idempotency map, with the twin's version and the targets' records moving |
| `MCRecommendations` | a hospital and an incident's zone for TLC |
| `RecommendationsProofs` | theorems about `Recommendations` |
| `Routing` | edge policy, costs, Dijkstra and A* as functions on search records, route validity and comparison |
| `WhatIf` | a route client, a what-if preview and a live twin with its overlay; extends `Routing`, instance of `DigitalTwin` |
| `MCWhatIf` | a graph of four nodes with two ways, five scenarios for TLC |
| `RoutingProofs` | theorems about searches and routes of `Routing` |
| `WhatIfProofs` | theorems about the previews, searches and routes of `WhatIf` |
| `Induction` | lemmas on induction and recursive functions, stated of sets |

### DigitalTwin

A manager is a record of the fields of the Python object: `version`, the
registries as one function `ent` from ids to entities or `Absent`, the `seen`
event ids, the `log` and the `overlay`. Every handler is a function from
managers to managers, so that a cascade is a composition of two, replay a fold
over the log and fork an expression. `Apply` is `apply_event` as a whole: the
idempotency check, the handler chosen by the event's kind, the commit, the
overlay sync and, for a bridge, the cascaded road event. A handler that raises
leaves the manager as it is (`Rejected`). A road is its status and an incident
its lifecycle status: accessibility, speed and descriptions are abstracted, so
an event that changes only those is not among the inputs. Flood zones,
populations and vulnerable groups share the class `Area`, hospitals and shelters
the class `Facility`, since their handlers are the same. Which bridge comes last
in `_sync_all_roads_to_overlay` is left open (`Resynced`).

One caller drives a manager at a time here; calls interleave in the modules of
the services, where one `apply_event` is one step.

### SyncServer

The state is the idempotency store `idem`, the incident store `inc` with its audit
trails (`trail`, reduced to versions), the `twin` (a manager of module `DigitalTwin`,
taken by `INSTANCE`, with nothing but incidents), the `ledger` and the worker threads. A
worker takes one operation through `Receive`, `Check`, `ReadVersion`, `Evaluate`, then
`StartCreate`, `Emit`, `Store`, `StartTrail`, or `StartUpdate`, `Write`, `Audit`, or
`Acknowledge`, then `Save` and `Log`: each step touches shared state once, as the code
between two points at which another thread can run and be noticed. A creation stores the
incident before it starts its trail; an update that comes between the two has stored its
change when it finds no trail to append to, and is answered `REJECTED` (`Audit`).
Refusals append their audit event with the decision. A batch is a worker taking its
operations one by one. Payloads are reduced to what the server tells apart: a report, a
change of text, a status or severity (which arrives as a plain string and fails for want
of `.value`), and fields the service ignores. Reports arrive with status `OPEN`.

`SyncPromise` says what a client may rely on: an operation id is accepted at
most once, and its retransmission is answered `DUPLICATE`, or `CONFLICT` if the
payload differs.

### FieldSync

The device side: `outbox` and `record` are the IndexedDB stores, `tab` the sync cycle
each tab is in. `SaveIncident` is the one transaction the code has over two stores;
`Enqueue` and `SaveRequest` are separate ones. A cycle goes through `BeginCycle` (lock,
read what is `PENDING`), `Mark` once per operation, `Send`, the server's `Reply`, then
`ReconcileFirst` and `ReconcileSecond` for each result: the code awaits between the two
writes that settle an operation, and a tab can be closed there. `FetchFails` is the
catch block, which lists what is `SYNCING` (`PutBack`) and puts it back (`Revert`). The
client sends all that is pending in one request, and the server takes at most `MaxBatch`
operations in one (100, `contracts.py:63`): a larger batch is answered 422 and put back
(`BatchRefused`). An evidence item or status update is a request whose record is never
saved.

The server is a pool of worker threads. One takes a batch and each operation of it
through `Check` (the idempotency store), `Evaluate` (the conflict engine), `Apply` and
`Store` (the incident service) and `Save` (the idempotency store again), in any order of
the operations; nothing is locked from `Check` to `Save`. `stored` is the incident
service, `committed` the idempotency store. A request whose sender gave up (`GiveUp`: the
fetch failed or the tab was closed) is lost before it begins, or carried on by its
worker, so that it can overlap its own retransmission: `overlapped` remembers the
operations this happened to. What is not a report is acknowledged and recorded only.
`FieldServer` keeps the answers as a history and states that, while no operation was in
two workers' hands, they are no more than `SyncPromise` allows for a client whose
payloads never change; `SyncServer` implements the same promise when operations are
taken one at a time. `KnownFields` says which fields the server's
`Incident` takes: at this commit not the device's own fields, which are part of
every report (`Payload`), so every report is rejected. The run `field` takes a
server that knows them, with the set of reports it rejects left open, which
includes the code as it is.

Left out: the outbox can be cleared from the sync screen, IndexedDB writes
can fail, attempt counts, and the reply `RETRYABLE_ERROR`, which the
server never gives.

### Services

`FacilityService` and `IncidentService` do the same four things with a request:
read a copy of the record and check it, hand the twin an event, store the
changed copy, append to the audit trail. Each is a step (`Begin` under one action
per operation, `Emit`, `Store`, `Audit`), so that other requests run in between.
A request that is refused before its first effect changes nothing and is no
step. The twin may raise in `Emit`, which ends the request with nothing stored;
an update whose record's trail does not exist yet raises in `Audit`, when all
else is done. The facilities share one dictionary of trails, so a hospital and a
shelter of the same id write into one (`Book`), and event ids name no kind
(`EventName`). `IngestSms` is the gateway up to the first effect of the creation,
under its lock; the message is marked seen first. Deduplication looks at the text
alone. `raced` remembers on which records requests have overlapped: without it
nothing could be said about the rest.

The API builds a service per router, each with a twin of its own, while the
constructors and the tests let them share one; the module takes one twin for all,
which is the harder case. A call into the twin is one step, and `DrivesTwin` says
that the twin so driven is a behaviour of `DigitalTwin`. Descriptions stand
for severity and priority, too; `icu_available` and the flood exposure that a
read adds to its copy are left out.

### Recommendations

`recs` is `_recommendations` with `_metadata_map`, `ledger` and `idem` the
`AuditLedger`. Every method runs under the service's lock and is one step, but
for two: an approval reads the twin's version (`ApproveRecommendation`) and then
asks the facility and incident services about its target (`CommitApproval`),
holding the lock while they move; and every decision looks into the idempotency
map before it takes the lock (`Ask`). A generation reads its candidates, then the
version (`Stamp`), and saves one recommendation after another over whatever its
id held. The scores that pick one among the selectable candidates are left out:
any may be the best. All proposals are for one incident. A decision's timestamp is
the place of its event in the ledger (`at`).

`RouteProposals` follows the route `/generate`: it validates the services' records
against schemas that forbid the fields the services add, so that it only works
while nothing is registered, and then proposes its built-in hospital.

### Routing and WhatIf

A search is a record of the locals of `_solve_dijkstra` and `_solve_astar`
(`g`, `parent`, `visited`, `heap`), and `Expand` one round of their loop. The
route client takes its rounds over the live overlay as steps of their own
(`SearchRound`), since nothing locks it; on a fork that nobody else sees the search
runs at one go (`Searched`). Lengths, times and speeds are integers in units
fine enough for the rounding in `costs.py`.

The preview goes through `Validate`, `Fork`, `ReadBaseline`, one action per
modification and `Conclude`. After `Fork` it works on its own twin, but the
baseline is read from the live one, which may have moved by then. A refused
modification and a severed route raise, and the preview is `failed`, as it is at once
when the validator refuses the scenario (`Valid`: an outdated base version, an unknown
entity, more beds than there are, a flood given by nothing). Floods are on
a grid of cells: level or increment give an extent and a greatest depth, and this
depth decides about each exposed road. The live side is a set of twin events and
of overrides written into the overlay directly; `touched` remembers what they
changed during the client's search.

An override is its status: accessibility and speed, the overlay's own version and
its change events are left out. Only the tests and the what-if engine call these
modules at this commit.

## Runs

| Run | Question and bounds | Result |
| --- | --- | --- |
| `twin` | two roads, two bridges indexed to one of them, a hospital, an incident, a flood zone; three event ids used freely with twelve payloads, registrations, overlay and snapshot at any time | all hold |
| `twin_fork` | does a fork route as the live twin does? | violated: a road reported blocked under an open bridge is open in the fork |
| `twin_capacity` | is a capacity event within its bounds applied? | violated: shrinking below the old availability raises |
| `sync` | two workers, three deliveries out of ten operations, two roles | all hold |
| `sync_serial` | one worker, three deliveries: does the server keep `SyncPromise`, and are versions accounted for? | all hold |
| `sync_overwrite` | is an update written over the record it was based on? | violated with two workers |
| `services` | two threads, four requests that pass their checks: creations, capacity changes (growing, shrinking, both at once), statuses with and without an expected version, details, four messages | all hold |
| `recommendations` | two threads, five kinds of decision, one retry key, one advance of the twin, targets free or full; a ledger of three events where it still grows | all hold |
| `what_if` | three requests (both algorithms, both modes, one without a way to go), two of the live changes that shrink a hospital, submerge a bridge, restrict or block a road; five scenarios, of which the validator refuses two | all hold |
| `field` | two tabs with Web Locks, a report (queued twice, as the screen does) and a request, two server threads, batches of at most two operations, one failed request, one closed tab | all hold |
| `field_restart` | is every queued operation settled although a tab was closed? | violated: operations left `SYNCING` are not taken up |
| `field_reports` | does the server take the form of a report? | violated: local fields are forbidden |

Three event ids let an event be repeated after another and let a cause, its
cascade and a contradicting event meet; two bridges on one road are what makes
re-synchronisation ambiguous. Three deliveries with two workers allow a
creation and two racing updates, or two racing creations and a retransmission.
`sync*` stop when `MaxDeliveries` are used up, so deadlock is not checked there.

The properties of `twin`: no event id is logged twice (`LoggedOnce`); the version
counts the log (`VersionCountsLog`); a cascaded event follows its cause
(`CauseLoggedFirst`); no override in the overlay outlives its cause
(`OverlayBacked`); replay from any snapshot rebuilds version and entities
(`ReplayRebuilds`); road and overlay follow their bridge (`PropagationAgrees`);
incidents keep to their lifecycle (`LifecycleKept`). `ReplayRebuilds` counts an
auto-created open road as absent: a no-op event leaves one behind without a
log entry, so literal identity does not hold (`ReplayIdentical`).

The properties of `sync`, for interleaved workers: what was accepted is stored
in the service and in the twin (`AcceptedIsStored`); `DUPLICATE` is only
answered for what was carried out (`DuplicateBacked`); service and twin differ
only while a creation is under way (`StoreFollowsTwin`); the state an incident is in
stands in its audit trail or is about to, unless two creations raced, the second of
which starts the trail anew, or an update overtook the creation's trail and was told
`REJECTED` (`TrailTells`).

`sync_serial` takes operations one by one, which its properties need: exactly-once
answers (`KeepsPromise`), growing versions (`VersionsGrow`), and no version of an
incident but for the updates that were accepted (`VersionAudited`). Two workers may
both accept one operation, write over each other's version, or leave behind the
version of an update that was rejected for want of a trail.

The properties of `services` say what is left without locks. Requests for different
records never disturb each other: between requests the twin has every record's
status and capacity (`AgreeUnlessRaced`), the trail is a chain of versions that ends
in the record (`TrailUnbroken`), incidents keep to their lifecycle
(`LifecycleUnlessRaced`), and a text turned away as a duplicate was taken or
refused with an answer (`SeenIsTaken`). Overlapping requests for one record break the
first three, which is why these leave them out; but even then the twin never
knows something the trail does not tell (`EventsAudited`). Two threads and four
requests allow a creation, two overlapping updates and a later request that
meets what they left; two texts and two ids drawn allow a duplicate, a taken id
and a text that parses but is no incident. This run, `recommendations`
and `what_if` stop when their bounds are used up, so deadlock is not checked there.

The properties of `recommendations`: the last event tells the status
(`LedgerTellsStatus`, which lets the unrecorded expiry of an unfit target show as
`CREATED`); every issue is decided once, and approvals are of live proposals fresh
when checked (`DecisionsAnswerIssues`); a cached answer is what came of the
proposal (`CachedAnswerTrue`); decided is decided until proposed anew
(`TerminalUntilReissued`). They do not say that an approval is fresh when it is
committed: the twin may have moved by then. Three events allow a proposal, a
decision and a regeneration or a second decision. The run has no shelter; its
guards are those of a hospital with ten places for one.

The properties of `what_if`: an undisturbed search finds a cheapest permitted way
or there is none (`RouteShortest`, against all simple ways); a disturbed one is still
a chain of edges passable but for what changed (`PassableUnlessRaced`); a reroute
avoids the roads that broke the old route (`RerouteAvoids`); a preview names all it
changes and every road it closes (`ChangesReported`); after several shortages no
more teams are on duty than each reports, and those off duty are the ones the
shortages name (`TeamsWithinReport`; that fewer are left than any of them reports is
not excluded, since each counts from the baseline). Four nodes with two
ways, a detour that is cheaper by time and a private track make the heap hold
outdated entries and the two modes differ. Speeds stay at or below 120 km/h
(`StraightWaysAreShort`, evaluated by TLC, says that the estimates are consistent).
The router takes 120 km/h as an upper bound across the network (`router.py:213`), while
the normalizer lets speed limits up to 150 km/h through and any that are given in mph
(`normalizer.py:38-44`): on such a road the heuristic of A* is no lower bound and the
route may not be the fastest.

The properties of `field`: an operation leaves the outbox only when the server
has it (`NothingLost`); `SYNCED` is shown only for what the server took
(`SyncedIsCommitted`); only reports of an incident that the server has or rejects are
kept as refused, and none of them is an operation that it took itself, unless two
workers had this operation in hand at once (`RefusedRightly`): a lost answer costs a
retransmission and no more, but a retransmission that overlaps the request it repeats
may find the incident without the operation, be refused, and stay so; a refused report is
shown as such (`RefusedIsShown`); what is settled stays so (`SettledStays`), and
everything is settled (`Settles`) unless more operations are waiting than one batch may
hold: then every cycle sends all of them, is refused and puts them back, and nothing is
settled any more. One report and one request give three operations, so that a batch can
be split over cycles or be too large for `MaxBatch = 2`, a conflict arises and
operations are queued during a cycle; one failed request and two workers let a
retransmission follow or overlap what it repeats. `RefusedIsShown` and `Settles` leave out
histories in which a tab was closed: the first is then violated between the two writes
of a refusal, the second by `field_restart`.

Only `FieldSync` assumes fairness. A cycle that has begun goes on (weak fairness of
`CycleStep`): its promises resolve. The server's threads run (weak fairness of each
worker's `WorkerStep`), so that a request that does not fail is answered. That cycles
begin again (`BeginCycle`) is an assumption about the officer, who presses the button on
the sync screen: nothing in the code starts a cycle by itself; the background sync event
only reads the queue again. The twin and the server do something only when they are
called, so no liveness is stated of them. `field*` stop when everything is settled, so
deadlock is not checked there either.

## Proofs

TLAPS checks every leaf of the following, for all values of the constants. The
assumptions are the named `ASSUME`s of the modules: entity ids of different
kinds are disjoint, `Absent` is none of the values it stands beside, inputs
have the form the API's schemas enforce, callers do not use the ids of caused
events (theirs begin with `EVT` or `SCEN-EVT`), worker threads, rescue teams and nodes are
finitely many, and the edges of one road share its status and access (`SameWay`:
`build_road_graph` makes them of one way). Some theorems have hypotheses besides:
`RoutesShortest` needs a consistent heuristic, which `ShortestOnMaps` derives from
edges at least as long as the straight line and, for A* by time, from speeds of at most
120 km/h; `SettledForGood` needs Web Locks, `PromiseKept`,
`VersionsRise` and `VersionsAudited` one worker, `ServerAsPromised` that no operation is in
the hands of two workers.

`DigitalTwinProofs` shows that `ApplyEvent` and `Resynced` map managers to
managers (`TypeCorrect`), then:

- `Idempotent` and `VersionIsLogLength`: neither is inductive, since an event
  that applies must not be in the log. `Audited` adds that what is logged has
  been seen and that each entry carries its position.
- `OverlayIsBacked`: an override is the status of its road or of a bridge over
  it. Inductive by itself, but a cascade passes through a state in which only
  the bridge has changed, so the proof goes handler by handler.
- `LifecycleHolds`: an action property of `Apply`; the other actions leave the
  registries alone.
- `CausesFirst`: not inductive, since it does not say where a cascaded entry may
  come from. `Traced` adds that it stands right behind its bridge event and that the
  id of a cascade has not been seen before its cause's.
- `PropagationHolds`: `Traced` again, because a cascade whose id had been seen would be
  dropped and leave the road behind; where the cascade changes nothing the road has
  the status already and the bridge has written the override.
- `ReplayWorks`: replay is a fold over the log, of any length. While nothing is
  registered, a manager restored from the snapshot and fed the log up to now has kept
  up with the live one: same version, same entities but for auto-created defaults, and
  whatever it has seen the live one has (`KeptUp`, `Fed`, `Rebuilding`). A bridge event
  that is fed repeats its cascade, and the cascade's own entry, which stands right
  behind it (`Traced`), is then dropped as seen. Taking the snapshot begins with an
  empty rest of the log.
- `ForksAgree`: what does hold where `twin_fork` shows that a fork may route otherwise.
  On a road whose status is that of every known bridge over it (`BridgesAgree`) fork and
  live twin route alike. `Complete` says that a live overlay has an override wherever
  something known could give it one; with `Backed` it leaves one value for both.

`SyncServerProofs` holds for any number of threads, operations and deliveries.
The inductive invariant is
`IInv == TypeOK /\ Entered /\ Known /\ Effects /\ Vouched /\ Backed /\ StoreFollowsTwin`:
what a worker's place in the pipeline implies (`Entered`, `Effects`), that a used
event id of the twin has left its incident behind (`Known`, which is why a
second creation's dropped event does no harm), that records and ledger are
vouched for by the stores (`Vouched`), and that a record has its ledger entry
or a worker about to write it (`Backed`). That stored incidents stay
(`Persists`) carries all of it from one step to the next. From it follow
`AcceptedStays`, `DuplicatesBacked` and `TwinFollowed`. `TrailTold` holds for racing
workers, too. Its invariant `Told` says of each version which of the ways `TrailTells`
allows it is in: in the trail, with the very worker that wrote it, or lost for a named
reason. Two creations leave a trace in the number of accepted reports, which `Count`
follows from the workers at `save` and `log` into the ledger, never to be lost on
the way (`CountStep`).

`PromiseKept`, `VersionsRise` and `VersionsAudited` are stated for one worker (`Alone`): two
workers may both accept one operation, and one may write over the other's version
(`sync_overwrite`). They add `Agreed` (record and ledger agree but for the operation in
hand), `Reads` (what the worker has read is still there when it writes), and, for the
accounts of versions, `Started` (an incident without a trail has its creation still at
work, so an update always finds one) and `ReadAudited` (what a worker has read was
accounted for when it read it).

`FieldSyncProofs` holds for any number of tabs, workers, entities, failures and closed
tabs and any limit of a batch. `WorkerSteps` says once what a worker's step can do, and
`ServerCases` what becomes of an operation in hand. The invariant `IInv` adds to the
safety properties what makes them inductive: a worker's operation is one of its batch
(`Handling`), two workers with one operation in hand are on record, and what is
committed while in hand is overlapped (`Hands`), a tab that waits has one worker at work
on its batch (`Serving`), the operation being reconciled is one that was answered
(`Current`), an answer a worker or a tab holds is true (`Told`), and a refused operation
is one whose incident the server has or rejects, and which it can accept only by an
overlap (`RefusedForGood`, `Barred`). From it follow `NeverLost`, `SyncedMeansTaken` and
`RefusalIsRight`, which do not need Web Locks. Nor does `RefusalShown`: a refused report
whose record does not show it has a tab between its two writes, and that record exists
because a report is saved before it is queued (`SInv`). `SettledForGood` does: under
`WebLocks` at most one tab is in a cycle, and the operations it has still to do are as
it left them (`LInv`). `ServerAsPromised` ties the two sides together: the reduced
server, seen through the history of its answers, implements `SyncPromise` as long as no
operation is in the hands of two workers; with an overlap it does not, as little as
`SyncServer` does. The operations it has committed are those the promise has accepted
(`Remembered`), so each answer is the one due, whether it goes to a waiting cycle or
nowhere.

`ServicesProofs` holds for any number of threads, records and requests. `IInv` is
`TypeOK /\ Bounded /\ CheckedAll`: the versions stay within what the requests
can have made, and a worker's copy satisfies what its checks have asked. From it
and two facts about overlaps (`Alone`: two workers on one record have raced; `Reads`:
an unraced worker's copy still is the record, or, once stored, the record is what
the copy becomes) follow `LifecycleHolds` and `TrailsHold`, whose invariant
`TrailsOk` lets the trail lack the one entry about to be written. `SeenHolds` adds
that the gateway lets one message through at a time. `EventsHold` follows each logged
event from its worker into the trail, and `AgreementHolds` needs to know where a
seen event id comes from (`IdsOk`): a dropped event would leave the twin behind, so
no id may have been used by anyone but an overlapping request. `TwinDriven` shows that the
services, seen through their twin, implement `DigitalTwin`: the creation of a facility is a
registration, everything else an event, and no event makes a facility that was not
registered. The theorems of `DigitalTwinProofs` then hold of the shared twin, too
(`TwinInOrder`); the instance's assumptions follow from those of `Services`
(`TwinAssumptions`).

`RecommendationsProofs` holds for any number of threads, targets and keys. Its
invariant is `TypeOK /\ Held`: a worker at the commit of an approval holds the lock
over a proposal that is `PENDING`, of the version it read and not simulated. The
lemma `StepEffect` then says once for all actions what a step can do to a
recommendation (leave, lapse, issue or decide it) and to the map, and each theorem
follows from it.

`WhatIfProofs` holds for every scenario, every number of teams and every history of the
live twin. `EventKeeps` says which entities an event may change: its own and, for a
bridge that takes its road along, this road. The invariant `IInv` follows a preview
through its steps: the bridges a scenario still has to fail are known to its twin
(validated before the fork, and no event loses one), roads about to be closed are known
to the fork (otherwise a dropped event would leave an unnamed default behind), and
what differs from the start of the fork is named. From it follow `PreviewTells` and, from
the cardinalities of the teams, `ShortagesHold`, with the naming of all teams off duty.

The same module is about the route client, whose search reads the live overlay round by
round. `RoutingProofs` has the invariant of one search, `SoundSearch`: every reached
node hangs by a permitted edge, or one of a road that changed, on a visited node
(`Tree`); no one who goes up the parents comes back (`Acyclic`); what is reached and not
visited is in the heap (`Frontier`); and, undisturbed and with a consistent heuristic,
the costs of visited nodes are final (`Final`). It holds for Dijkstra and A*, initially
and after every round; the walk back through `parent` and the sums along a path are
taken apart by induction. `Routed` carries it through the client's steps and every
interleaved change of the overlay (`RoutedInvariant`). From it follow `RoutesPassable`,
`ReroutesAvoid` (with `SameWay`: an edge of a broken road is forbidden whichever edge of
the road broke it), `RoutesShortest` and, by `GeodesicIsConsistent`, `ShortestOnMaps`.
`TypeCorrect` needs both invariants and one of its own (`Typed`) for the preview's
locals.

The library states induction with an operator as a parameter, which the provers
cannot instantiate. `Induction` states it of sets instead (a set of numbers that has 0
and, with n, n + 1 has them all), from the library's well-foundedness of the natural
numbers, and derives from it that a recursive function exists for any first value and
step. With it, properties of folds and of recursive functions can be proved; none of the
modules with theorems has a `RECURSIVE` operator.

Only model-checked: `Settles`, since liveness under fairness is out of the prover's
reach, as is `ENABLED`; and the five violations, which are counterexamples and need no
proof. `ForkRoutesAgreed`, `TwinKeptInOrder` and `ServerPromises` are proved without being
in a run of their own.

## Not modelled

Scoring, the allocation optimizer, geometry and risk models compute numbers without
state; which candidates they may pick is modelled where it decides about a
status. The engine for evacuation routes builds its request with a field the request
forbids and raises on every call. User interfaces show what the services hold. The
retry policy is a formula nothing calls. The service worker caches pages and takes no
part in the queue. The database layer is not used by the services, which keep
their state in memory; a restart of the server therefore loses everything at once.
A thread switch inside `apply_event` is left out in every module. `PROJECT.json`
lists every component with what is left out of it.

## Plan

What is left, in this order:

1. `apply_event` split into its statements under the threads of `Services`.
2. The client without Web Locks: the announced lease fallback does not exist, and
   `SettledStays` then fails; which of its histories keep it is worth a theorem.
3. Overrides with accessibility and speed, and the overlay's change events.
