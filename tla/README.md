# Verification of iot-engine

TLA+ models of the parts of iot-engine in which several workers, processes and
stores have to agree, TLC configurations that check them on small instances, and
TLAPS proofs of what matters most for every size. Paths are relative to the
repository (`src/` is its root). Line numbers are those of the modelled commit.

1. [The system](#1-the-system)
2. [Modules and the code they model](#2-modules-and-the-code-they-model)
3. [Runs, bounds and what they show](#3-runs-bounds-and-what-they-show)
4. [Fairness](#4-fairness)
5. [Proofs](#5-proofs)
6. [Disagreements and observations](#6-disagreements-and-observations)
7. [What is not modelled](#7-what-is-not-modelled)
8. [Plan](#8-plan)

## 1. The system

iot-engine is a C++ service (`src/service`, about 74k lines) that connects field
devices to a database and a web front end. One process (an *instance*, identified
by a UUID made at start) runs several *Service Workers* and *collector workers*,
each an event loop on a thread of its own that runs coroutines; several instances
may share the same Redis and PostgreSQL. Components talk through

- **Redis streams with consumer groups**: an entry is delivered to one consumer,
  stays in its pending list until acknowledged, and is read again by a recovery;
- **Redis keys with scripts**: leases, reservations, pointers, latest values;
- **PostgreSQL rows**: configuration, commands, outbox events, receipts;
- **memory of one worker**: maps of connections, pending commands and timers, which
  every coroutine of that loop may have changed whenever another one resumes.

| Component | State | Operations | Hard behaviour | What makes it correct |
|---|---|---|---|---|
| Worker-local RPC (`middleware/rpc.h`, `messaging.runtime.h`) | request stream, `pending_`, claims, replies, cancellations | call, poll, cancel; read, recover, process, reply, stop | an entry delivered twice, a reply lost, cancellation between claim and handler, stop without Redis | at most one execution; an honest outcome; every call returns; stop ends |
| Transactional outbox (`messaging.service.h`, `postgres_notifier`) | outbox rows, row locks, wake channel, timer | record, dispatch, publish, commit, back off, listen | publication and mark are two stores; no periodic scan | published means sent; duplicates only by failures; no lost wake-up |
| Configuration reconciler (`configuration.runtime.h`) | change stream, receipts, advisory lock, active pointer | read, coalesce, project, mark, acknowledge, recover | stale owner of a lock, death with entries, receipts of other workers | a receipt means applied; nothing is forgotten; old never replaces new |
| Configuration snapshots (`collector.service.h`) | version keys, remembered keys, scores, pointer | project, switch, expire, erase, load | lock-free load while versions are replaced and erased | active version complete; a load is of one version; no leaks |
| Device commands (`command.service.h`, `command.runtime.h`) | operation and attempt rows, command stream | submit, claim, enqueue, record, expire, project results | three writers of a row, lost answers, crash between claim and record | outcomes are final and real; every operation ends |
| Collector worker (`collector.runtime.h`, `engine.runtime.h`) | sessions, epochs, pending commands, ingress, command and egress streams | tick, connect, disconnect, send, answer, time out, recover | a failing Redis command anywhere re-reads everything | nothing written twice; a pending command can report |
| Exclusive TCP targets (`tcp.transport.h`, `collector.runtime.h`) | lease key, `targetLeases_`, attempt of the client, timers | claim, renew, release, deadline, reload, shutdown | two clocks, late or lost commands, callbacks of an older attempt | one connection to a device; leases and sockets agree |
| Link ownership and device routes (`collector.service.h`, `collector.runtime.h`) | owner key of a link, route of a device, what a worker has bound | retain, bind, renew, erase, close | a device reconnects through another worker while the first still cleans up | a route names a live connection, or somebody is about to notice |
| Live queries (`middleware/live.h`), stream multiplexer | change stream, pending entries, subscriptions, bells, hints | announce, read, recover, ring, query | a broken read, a change during a query | what is acknowledged is shown; an open page catches up |
| Telemetry (`telemetry/`) | dispatch and consumer streams, receipts, latest values, online deadlines | fan out, store, update, expire, project, erase | repetitions, late reports, expiry against extension | one copy for each consumer; latest by observation; online only with a deadline |
| Edge nodes (`edge/`) | session key, desired and active revision, queue of wires, worker streams and their leases | claim, build, queue, send, replay, confirm; accept, project, recover, remove | snapshots built at the same time, wires lost, a worker without its lease | the node never goes back; nothing accepted is lost |
| Alert rules (`alert/`) | records, inputs, receipts, event outbox, index of deadlines | prepare, evaluate, apply, publish, drain; schedule, claim, refresh | two workers evaluate one rule; failure between commit and publication | one open record; each report counts once; a silent device raises |
| Open access (`access/`) | event stream, progress of an event at its targets | read, post, record, remove, recover | some targets fail, slow loops are overtaken | order per device; no event leaves undelivered |
| CRUD modules (`modules/`) | rows of devices, links, endpoints, models | create, update, remove under row and advisory locks | what a device is bound to changes under it | channels and models match; no deadlock between nodes |
| GB28181, VPN, authentication, observability, start-up, clients, front end | SIP sessions, peers, configuration | requests | see section 7 | not modelled |

How the modelled parts interact: a CRUD transaction records an **outbox** event (the
row trigger in `config/schema.h` sends the notification); the dispatcher appends it
to the change stream; the **reconcilers** project the database into a new
**snapshot** version and notify the collectors, which load it; the **TCP clients** of
a loaded configuration compete for their targets; a **command** goes from an API
transaction through the dispatcher to the **collector** that has the device's
session (the **route** of the device says which), and its result returns through a
stream to the row. What collectors and **edge** streams receive becomes **telemetry**:
reports fan out to the history, the real-time copy, the **alerts** and the **delivery**
to webhooks, and every change rings the **live queries** of open pages. HTTP requests
that need another worker use the **RPC**.

## 2. Modules and the code they model

Each action is a handler or the part of a coroutine between two points at which it
gives up control: a Redis or PostgreSQL command, or another `co_await`. A failing
command is an action or a disjunct of its own, also when the server has executed it.
A Lua script and a statement of PostgreSQL are one step; where a statement works on
what it saw when it began (`AlertRecords`, `Channels`), its beginning and its commit
are two.

| Module | Models | Not in the module |
|---|---|---|
| `Rpc` | `RpcRequestClient::call` (one action per `co_await`), the consumer loop (`LoopRead`, `LoopSpawn`, `LoopDrain`, `LoopStopped`), one task per entry (`TaskBegin` to `TaskSave`, `TaskRetry`), `Monitor`, `Stop` | expiry of claims and replies within the deadline (their TTLs are longer); a restart has a new stream |
| `Outbox` | `Record`; `Dispatch`, `Publish`, `Commit`, `Abort` of `OutboxService::dispatch`; `NextAvailable`, `Timer`, `Wake` of `OutboxRuntime::run`; the PostgreSQL listener; `Restart` | the payload and the kind of an event; receipt retention |
| `Delivery` | the loop of the access stream that posts events to webhooks and MQTT brokers, device by device, with the progress of each event, recovery and claiming | the HTTP and MQTT clients beyond "arrived" and "answered"; results and audits; pruning |
| `ConfigPropagation` | nothing: the promise of the reconcilers, two variables (`db`, `active`) and two actions | |
| `Reconciler` | `Reconciler::run` of every Service Worker with recovery, coalescing, receipts, lock, projection, acknowledgement; `LoseSession` ends a PostgreSQL session | the content of a configuration (it is the number of changes in it); trimming of the stream at 10000 entries |
| `Snapshots` | `config::project` pipeline by pipeline, `eraseExpiredSnapshots`, `cleanupExpiredSnapshots`, `config::load` key by key, a shared clock | the content of a key (present or not); clock skew; loss of the lock (in `Reconciler`) |
| `TargetLease` | `ClientTarget` with connects that fail for good or not, claim, renewal and release of a target's lease with their coroutines, the local deadline, reload, shutdown, crash, and commands executed late | a second target (keys, clients and map entries are per target); loss of Redis' data |
| `Channels` | the transactions that create, update and remove devices, links, endpoints and models, with the row and advisory locks they take and the triggers of the schema | columns no other row refers to; groups and permissions |
| `Routes` | the link lease and its 5 s refresh, the tick of a collector worker, binding, renewal and erasure of a device's route, sessions, reload, shutdown, crash, late scripts | a second device or link; the erasure of an older key format |
| `Command` | the rows of an operation and its attempt: submit, claim, enqueue, record, expire, project | several targets of one operation, commands of edge nodes, read-back of values |
| `Collector` | the event loop of one collector: every stream, recovery, reservation, epochs, loss of a connection, timeouts, results | the protocols' own queueing, polling and decoding; link events and the control stream |
| `CommandPath` | the composition (`INSTANCE` of `Command` and `Collector`), the routing of a submission to a session, a crash of the process | |
| `EdgeConfig` | the revisions of an edge node's configuration: requests and sessions that choose, build and queue snapshots, the queue of wires; connections that are accepted in steps (hello, publication, claim of the session key, acknowledgement), given up, turned away and replaced, sessions that die; the node's confirmation and heartbeat | firmware, commands and metadata of the node; the items of a snapshot; enrollment (the node is approved) |
| `EdgeStreams` | the streams of what nodes send, one for each worker, with lease, heartbeat, recovery by others, projection, fenced acknowledgement and removal | what a projected message does (that is `Telemetry`) |
| `ConsumerPromise` | nothing: what the telemetry streams promise their consumers | |
| `Telemetry` | the dispatch of a report to the streams of its consumers with its receipt, the consumer loops, recovery and removal | time (a loop that is a minute late is a fault); derived points and the SQL of the history |
| `Latest` | the real-time copy of a device: update, sweep of online deadlines, projection, deletion, script by script | the formatting of values |
| `AlertRecords` | the evaluation of one rule of one device: the list of devices with rules, input, conditions, the statement that creates and resolves records with its snapshot, receipts, outbox, publication, draining, users | rules over several devices; the `auto` recovery condition |
| `OfflineAlerts` | the index of offline deadlines: schedule, refresh, claim, evaluate, remove | a second device or rule |
| `LiveBus` | the reader of a Service Worker with its recovery, the bus, and the two loops that serve a page | the relay to the collectors (`LiveChangeRuntime`); keep-alive |

The modules with `MC` in front hold the instances for TLC, those that end in `Proofs`
the theorems. `PROJECT.json` maps every definition to its lines. State corresponds as
follows.

- **Streams.** In `Rpc`, `entry`, `delivered` and `pel` are the id of a request's
  entry, the group's last delivered id and its pending list; `task` is `pending_`. In
  `Reconciler`, `stream[i]` has the entry's change, its state, its owner and whether
  it is old enough to be taken over (`claimGroupMany`, 60 s). A group read returns
  new entries, or, while `recovering`, those delivered before. In `Delivery` and
  `EdgeStreams` a stream is a set of numbers in the order of publication and a
  pending list for each worker; in `Telemetry` an entry is a report and a copy number.
- **Rows** are records or functions by their key; an outbox is the set of its primary
  keys, and what has been published once is a set of publication keys.
- **`None`**, `Nothing`, `Nobody` stand for what the code leaves empty.
- **Time.** `Snapshots`, `TargetLease`, `Latest`, `OfflineAlerts` and `AlertRecords` have
  a clock; elsewhere a deadline is a flag that becomes true at some moment (`due`,
  `overdue`), so that every order of the deadline and the other steps is covered. The
  60 s of a command are one clock shared by PostgreSQL and the collectors.
- **Scaled constants.** Batch sizes, limits and grace periods of the code are
  CONSTANTS, with the code's value in their comment.
- **Faults** are failing commands, lost answers, late loops and crashes. Each module
  counts them in a variable of its own and bounds them by a constant.

## 3. Runs, bounds and what they show

A run may hold several instances that share no state: a variable `focus` says which
of them a behaviour runs, the others stay as they are; `story` chooses between
scenarios of one module whose combination would be too large.

| Run | Instance | Shows |
|---|---|---|
| `rpc` | 2 calls, one without a handler, without faults, and both may pass their deadlines; or 1 call with 4 faults and a stop. `MaxPending` 2, batch 2 | at most one execution, honest and final verdicts, delivered entries are not forgotten; every entry is answered, every call returns, a stop ends |
| `outbox` | `Outbox`: 2 events, 2 workers, batch 2, 2 attempts, 2 faults. `Delivery`: 2 events of one device, a broker and a webhook, 2 workers, 2 faults | published rows were sent, duplicates are paid for by faults, no wake-up is lost, every event settles; a device's events arrive in order, once unless a fault intervenes, and every event is delivered |
| `reconciler` | 2 workers, batch 1; 2 changes without failures ("burst"), or 1 change with a fault and a lost session ("failures") | receipts mean applied, nothing is forgotten, the reconcilers implement `ConfigPropagation` with its liveness, every entry is removed |
| `shared_records` | `TargetLease`: 2 workers, 3 ids, lease 4, validity 2, slack 1, timeout 2, 1 event. `Channels`: 2 concurrent requests on a small catalogue in several states. `Snapshots`: 2 workers, 1 collector, 3 versions of 2 keys (2 with a fault), grace 3 | one connection to a target, leases and sockets agree, a client goes on trying unless its error is not retried; channels match models, endpoints serve, no two transactions wait for each other's nodes; the pointer names a whole version, no load is torn, only a failure leaves keys behind |
| `command` | 1 command, 2 sessions, 2 faults; or 2 commands in a queue of one without store failures | outcomes are the device's own and final, a command is written again only for a failure, nothing rejected was written unless a store failed, what is in flight can report, every command settles |
| `edge` | `Routes`: 2 connections at 2 workers of one process or of two, 2 epochs, 1 mishap. `EdgeConfig`: two requests that overtake each other ("editors"), one, with a connection given up at any stage or a death, and up to three connections ("lost"), a node without declared protocols or with too many devices ("protocols"). `EdgeStreams`: 3 workers of which one is sent 2 messages and 2 faults ("crash"), or 2 workers that both are and 1 fault ("two") | clean-up removes dead routes and no live one, one of two connections stays; the node never goes back, an applied configuration is what was desired, the last claim of the session key stands until its session ends, what is pending settles; nothing accepted is lost or projected out of order, and every dead stream is emptied |
| `telemetry` | `Telemetry`: 1 report published up to 2 times, 2 workers, 2 faults (3 with the repetitions). `Latest`: window 1, time 2, 1 sweeper, 1 projection, 2 reports (1 with a projection and a deletion) | each consumer gets one copy and applies it (`KeepsPromise` is the refinement of `ConsumerPromise`); values never go back, an online device keeps its deadline, a silent one goes stale, an erased one stays erased |
| `alerts` | `AlertRecords`: 2 reports, 2 workers, silence 1, one fault or one offline evaluation. `OfflineAlerts`: duration 1, time 2, one refresh, one fault. `LiveBus`: 2 areas, 2 channels, reads of 2, 3 changes and failures | one open record, events in their order and published in the end, every report counts once; a rule that waits is in the index, a silent device raises; what is acknowledged is shown, an open page catches up |
| `reconciler_overwrite`, `command_stale`, `latest_rewind`, `offline_lost` | the smallest that show it | the disagreements of section 6 |

Why the bounds suffice.

- *Two of everything that competes.* Two workers, calls, requests or connections give
  every race for a lock, a claim or a row; a third one would repeat a role. Where a
  third has a role of its own (the recoverer of a recoverer in `EdgeStreams`, the id a
  crash leaves in `TargetLease`) there are three. The proofs of section 5 have no
  such bound.
- *One entry more than a limit.* Limits are chosen so that they are reached: batch 1
  with two changes, `MaxQueue` 1, two attempts before dead-lettering, three
  versions so that one is active, one expires and one is written.
- *Faults.* One or two at every possible moment, followed by recovery, and in
  combination with a second actor is what the code has paths for. `Rpc` with one
  call has four because a retried persistence, a failed claim and a failed read may
  meet.
- *Times.* Only the order of the durations matters: `Validity + Slack < Lease` is the
  margin between 12 s and 15 s of a target's lease, `MaxProjection + MaxRead < Grace`
  says that a projection and a load together take less than the grace period
  (`kSnapshotGraceMilliseconds`, 120 s). Nothing in the code enforces the latter; with
  equality `NoTornLoad` fails, for the retirement of a version is dated by the creation
  of its successor, before the switch.
- *Stories.* The instance of `edge` is cut into stories, each with what its hazard needs:
  overtaking needs two editors and no loss; a late claim needs a connection that is
  given up while it is accepted and another one; after that, a third connection
  is made when the first two have ended, so that what is pending can settle. Reports
  are projected in turn, but for the answers an earlier session has taken. The
  proofs have none of these limits.
- *Urgency.* Where a periodic step only delays (a refresh that is due, the time that
  passes between two turns of a loop), the MC modules let it happen when somebody is
  there to look; the modules themselves do not.
- *Symmetry* is used in `shared_records`, which checks no liveness.
- Beyond the runs, inductive invariants were explored with TLC on larger instances
  before they were proved: `RouteInv` with 2 mishaps (4.0 million states) and, by
  simulation, with three workers and connections; `AlertInv` with 3 reports and 2
  faults (6.5 million); `OfflineInv` with durations 1 and 2 and two evaluators (26
  million); `CatalogInv` with
  three concurrent requests (0.6 million, exhaustive for two requests in all) and, by
  simulation, with three devices, two collector links and twelve requests.

## 4. Fairness

Only where liveness is checked, and only what the scheduling gives: an event loop
resumes a coroutine whose command has ended, commands end (with an answer or an
error), and timers fire. That is weak fairness of the steps of a loop, a task or a
request under way; arrivals, changes, aborts, faults, crashes, reconnections and
reloads have none. A step that succeeds or fails is fair only in its success, so that
no failure is ever due, and the bounds of the instances leave every behaviour a fair
continuation: what they do not limit includes the deadlines that must pass.

- `Rpc`: the monitor runs every 100 ms; a handler is only known to end after its
  stop was requested; a caller polls again if there is an answer or its deadline has
  passed.
- `Outbox`: a back-off passes, the listener reconnects. `Delivery`: a loop goes on.
- `Reconciler`: the outbox publishes (shown in `Outbox`), entries grow old, a worker
  goes on as long as no command fails (`NoFault`; a worker that finds nothing to read
  blocks), and a session that keeps waiting for the advisory lock gets it (PostgreSQL queues lock
  requests), hence strong fairness of `Lock` only.
- `CommandPath`: the deadline passes and the expiry, which every turn of the
  dispatcher runs, happens. Nothing else is needed: no fairness of a collector.
- `Routes`: every tick of a worker runs `consumeConfig`, `consumeControl` and
  `consumeIngress`, so that between two refreshes the ingress is looked at (`turn`);
  keys expire.
- `EdgeConfig`: a builder goes on, a node without a connection makes one, accepting it
  goes on, a session serves its node or gives up, the node sends its heartbeat, what it
  sent is projected. `EdgeStreams`: the loop and the
  heartbeat of a worker run, leases expire.
- `Telemetry`, `Latest`, `AlertRecords`, `OfflineAlerts`: loops go on; sweeps and
  passes are periodic; a wanted refresh is begun (the configuration consumer retries).
- `LiveBus`: a committed change is announced, the reader and the page go on.

`Snapshots`, `TargetLease` and `Channels` have safety properties only.

## 5. Proofs

All theorems hold for every set of workers, calls, events, reports, connections or
nodes, every limit and any number of faults, within the assumption stated in the
module. These assumptions are types of the parameters, except four that say
something of the code: `Validity + Slack < Lease` (`LeaseConstants`: 12 s, 15 s and
the lateness of a loop), `MaxProjection + MaxRead < Grace` (`GraceIsLong`, see section
3), `MaxPending` and the batch sizes are positive, and names that mark an absence are
not names of workers. 35 theorems are listed in `PROJECT.json`; every one rests on an
inductive invariant, because the property alone is not inductive.

**`RpcProofs`.** `TypeCorrect`; `ExecutedAtMostOnce` (`ClaimInv`: a handler runs in the
task that won the claim, and a claim is won once, as long as the key lives);
`DeliveredNeverForgotten` (`RecoveryInv`: what was delivered and not acknowledged is in
a task, in the read at hand, or ahead of the cursor of a recovery); `TasksAreBounded`
(at most `MaxPending - 1 + BatchSize` tasks, for a finite set of requests: the limit is
tested before a batch is read); `RpcIsSafe`. `VerdictsAreHonest` needs to know where
verdicts come from (`VerdictInv`: a handler that has run, or the lack of one; reply
key and result carry it on). `DecisionsAreFinal` is an action property: `KeptInv` says
that no task of a request with a stored success is beyond the read of that reply
unless it has read it, or failed to.

**`OutboxProofs`.** For `Outbox`: `PublishedRowsWereSent`, `DuplicatesArePaidFor`
(`LockInv`, `SentInv`: the appends of an event exceed one only by what was rolled back,
and a roll-back costs a fault), `WakeupsAreNotLost` (`WakeInv`: a loop without a timer
has nothing left to publish, a hint in its channel, or a listener that is down and
wakes it when it is up again), `OutboxIsSafe`. For `Delivery`: `DeliveriesAreSafe`, with
`StreamInv` (events are taken in order and pending for one worker), `OwnInv` (who has
lost an event may post it again), `TryInv`, `PostInv` (what was posted is recorded, in
progress, or in doubt) and `OrderInv` (what arrived after an event came after that event
is done with).

**`ReconcilerProofs`.** `ReceiptsAreApplied` and `StepsImplementPromise` rest on
`LockInv` and `BatchInv`: without a lost session the worker at `activate` holds the lock,
its snapshot is not older than what is active and contains every change of its batch.
`StepsImplementPromise` is the step of the refinement (initial states and steps);
that the promise's fairness is kept is checked by the run. `ReconcilerIsSafe` adds
`OnItsWay`: a change without a receipt is in the outbox or in the stream.

**`SharedRecordProofs`.** For `TargetLease`: `AtMostOneConnection`,
`LeasesAreConsistent`. Whether a lease may be trusted depends on what commands still
on their way can do; `IInv` adds
- `ClientInv`, `ClaimsWait`: how attempt, stage, timer and configuration fit together
  (a client without attempt and timer is one that has given up, or is not wanted);
- `ClaimsAlone`: a claim that is waited for is the only command with its id, and no
  worker has that id as its lease;
- `NoStrayRelease`: no release of a trusted lease is on its way;
- `LeasesDiffer`: no two workers have the same lease;
- `AnswersBacked`: a positive answer that is still young enough to be used describes
  a key that will live for the rest of the lease it grants.

For `Snapshots`: `VersionsAreSafe`, with `ProjectorInv` (who projects has the lock and is
not late), `WriteInv` (keys are written and remembered one after the other),
`ActiveInv`, `LoadInv` (what is being loaded is active, or was when its successor was
begun) and `DoomInv` (what is erased is needed by nobody).

For `Channels`: `CatalogIsSafe`, with `CatalogInv`, and `NodeLocksAreOrdered`, which
excludes circles of any length where `NoNodeCycle` speaks of two requests. What is
committed is right because of what every open transaction knows and may do
(`TxnInv`), and what it knows stays true because of the locks it holds:
- `LocksExclude`: no two transactions have locks that exclude each other;
- `RequestInv`, `StageInv`: what a request is about and how far it is;
- `RowsInv`, `WroteInv`: every row it has written is under its lock, and the channel of
  the device it writes is at least shared;
- `ChannelInv`, `OwnerInv`: the channels and the device it works on are there, and a new
  device is its own;
- `GuardInv`, `BoundInv`: it leaves protocol and state of a channel with devices alone
  (`protect_channel_binding`), and what it binds fits (`bind_device_channel`);
- `FormInv`, `ServedInv`, `LeftInv`: the endpoint it configures serves its own device and
  the others that asked for it, and what it switches off serves nobody;
- `NodeInv`: it holds the nodes that come before the one it asks for.

A commit changes only rows under the locks of its transaction (`CommitIsCovered`), so
that what the others rely on stays (`CommitSpares`). Without a lock a request
relies on one thing only: a channel or device once seen is never absent again, for
rows are marked deleted, not removed.

**`RouteProofs`.** `RoutesAreSafe` and the action property `LiveRoutesStand`. `RouteInv`
says what a worker in the middle of its tick may still do: an event is about a
connection of the worker (`EventInv`), a binding is about the session it knows
(`BindInv`), what is known of a connection that has no worker (`HomeInv`), and
`MindInv`: the worker of the connection in the route has that identity registered, and
either its socket, or the event of its end in the stream, or is stopping; or the
script is under way; or a failure left the route to its expiry.

**`CommandProofs`.** `OutcomesAreReal`, `CommandsAreSafe`, `SettledStays`. `CommandInv` is
`TypeOK`, `AnswerInv` (what the device has answered, along ingress, results and row),
`WriteInv` (where a command can be between its reservation and the end of its packet)
and `CalmInv` (before the first failure: nothing reported as rejected is beyond the
command stream).

**`EdgeProofs`.** `EdgeStreamsAreSafe`: nothing accepted is lost, for any faults; the order
of first projections, unless a loop has passed over pending entries of another
(`overtaken`). The order needs `NumberInv`, `OwnerInv` (nobody else reads the stream of a
worker that has its lease), `ReadInv`, `SoleInv`, `HolderInv` (a worker that has swept a
stream has the first of the pending entries) and `ClosedInv` (nothing that comes before
an entry of its batch is left outside it). The attempt to prove it without
`overtaken` found four ways to break the order, which need three faults or a backlog
longer than a reading (section 6).
`ConfigurationsAreSafe` and the action property `NodesNeverGoBack` for `EdgeConfig` rest
on `EdgeConfigInv`:
- `TopInv`: no revision in use is above what the clock and the edits allow (`Top`), so
  that a revision chosen later is above everything that was sent;
- `KeyInv`: the session that was the last to claim the key has it until it has ended; the
  session the node is connected by is being accepted or open; one that is being
  accepted has its hello at hand until it is published, and no wire; one that returned
  a wire has no other;
- `FenceInv`: what a session has in its hand comes before the queue, whose wires belong
  to one revision, but for those a session returned;
- `LowInv`: at most one wire behind what the node runs is on its way, which alone makes
  no snapshot;
- `SaidInv`: what the node has reported that it runs, it still runs;
- `ContentInv`: while revisions only rise, what is sent for a revision holds all that
  was configured when it was chosen.

The attempt showed that `AppliedIsHonest` had been stated too strongly (section 6).

**`TelemetryProofs`.** `CopyIsSafe` and the action property `ValuesOnlyAdvance` for
`Latest`; `StreamsAreSafe` for `Telemetry`, and `StreamsKeepPromise`, the steps of its
refinement of `ConsumerPromise`. `AlertsAreRight` for `AlertRecords`: `InputInv` (a report
is compared with an earlier one), `HoldInv` and `ReceiptInv` (what is evaluated again was
held by two workers), `OpenInv`, and `EventInv`: the event of a resolution follows that
of its opening in every pipeline, since the statement that resolves has seen the
record and so has its opening in what it queues, or that was published.
`SilenceIsWatched` for `OfflineAlerts`: `RefreshInv` (the metadata in Redis say what the
database says unless a refresh is wanted), `SeenInv` (a watched report has its deadline
in the index, or a later one) and `WatchInv` (someone is about to find the device
silent). Its proof showed that the property had been stated too strongly: a device
that has never reported has no last report to wait from and is due at once.
`PagesAreTold` for `LiveBus`: `TruthInv`, `BellInv` (a changed channel rings; a page that
waits has queried all it was told) and `ReaderInv` (all that is acknowledged was told
unless a recovery is to come).

Only model-checked is liveness (`RpcLiveness`, `EveryEventSettles`,
`EveryEventIsDelivered`, `EveryEntryRemoved`, `EveryCommandSettles`,
`OneConnectionStays`, `PendingSettles`, `EdgeStreamsEmpty`, `SilentGoesStale`,
`EventsArePublished`, `SilentRaises`, `LiveCatchesUp`, and the fairness of the two
promises): liveness under fairness and ENABLED are beyond the prover, as is induction
over data, of which the proofs need none.

## 6. Disagreements and observations

1. **An older snapshot can replace a newer one** (`reconciler_overwrite`). The comment
   at `configuration.service.h:606-608` says a slower request can *never* overwrite a
   newer state. The lock is held by a PostgreSQL transaction and the pointer is in
   Redis: if the session ends between load and switch, another worker projects a
   newer state and the first one overwrites it. Its commit fails and it projects
   again unless its entries were taken over in the meantime.
2. **A written command can be reported as rejected** (`command_stale`).
   `consumeCommand` looks at the session epoch and at the deadline before the
   reservation. A command in flight that is read again by a recovery after its session
   has ended is published as `stale_session_epoch` or `dispatch_deadline_expired`, which
   become `REJECTED`, although it was written. `command.types.h:40` and
   `docs/edge_command_deadline.md` keep that outcome for commands that were not sent.
3. **A projection sets a newer report back** (`latest_rewind`). The comment at
   `latest.service.h:868-870` says PostgreSQL is consulted only for devices whose copy is
   missing or incomplete. `project` also writes time and state of the last report from
   the rows it has read over those of a report that came meanwhile. The value itself is
   not set back (`ValueNeverGoesBack`, proved).
4. **A renewed offline deadline is removed** (`offline_lost`). `evaluateOfflineDue` removes
   the deadlines it has evaluated by their member. One that a report renewed since it
   was claimed goes with them, and the rule does not fire until a change of the
   catalogue rebuilds the index. `SilentRaises` and `OfflineSafety` hold as long as none
   was lost in one of the three ways `lost` names (a removal, a refresh that reads the
   activity before a report, a failed evaluation).

What the models taught about the code besides, by component.

- *RPC.* A known success may be replaced by `error` when a redelivered entry cannot
  read the stored answer; `DecisionsStand` says how far a success is kept.
- *Reconciler.* The coalescing loop (`configuration.runtime.h:231-239`) falls back to the
  consumer's own pending entries and reads its own batch again until 4096 messages are
  collected; the result is right (ids are a set), the round trips are not.
- *Snapshots.* The comment at `collector.service.h:671-673` promises the complete grace
  period after a switch; the score is the creation time of the successor, so that a
  load has the grace period less the duration of that projection.
- *Commands.* A command whose egress acknowledgement fails is written to the device again
  although `reserveTransmission` exists (comment at `collector.service.h:903`);
  `RewritesAreFaults` states that failures are the only cause. A command whose result
  is lost becomes `UNKNOWN` at its deadline.
- *Targets.* A worker whose renewal failed drops its connection at once but leaves the
  key until it expires, so that its own reconnection may be refused for up to 15 s. A
  client whose connect ends in an error that `classify` does not retry (an address that
  does not parse, `tcp.transport.h:232-237`) stays in state "error" until its
  configuration changes: `ClientProceeds` excepts it by name.
- *Routes.* A refresh of a session that is cut short by a shutdown, refused or failed
  leaves the route of the earlier epoch until its expiry (15 s); a failed bind is not
  repeated in the same session: the connection heals by a renewal that returns 0, is
  closed and comes back.
- *Catalogue.* An update may lose a link assignment when the link it has read before the
  transaction equals the target; an endpoint may stay enabled without a device; a
  plain link id that names an edge link takes no lock of the node; a model can be
  removed while a device is being bound to it; that a device has no sibling registered
  alike is not protected by an index; the comment at `device.service.h:1014` expects the next start to remove what a deleted
  device left in Redis, but hydration only reads live devices.
- *Edge configuration.* A connection is accepted over several awaits and
  `kClaimScript` writes the key whoever has it (`session.service.h:25`). A connection the
  node has given up may so take the key of the one it made instead, until the next
  message or refresh of that session finds the key gone and closes it: changes wake
  nobody meanwhile, and the node connects again. `KeyIsItsOwn` says that claims are the
  only thing that takes a key away. An acknowledgement of the hello that cannot be written
  (`gateway.runtime.h:270`) ends the connection and leaves its key until it expires.
  With two half-open sessions that each return a wire the queue can
  hold a begin and a commit of an earlier revision, and a node would go back:
  `AppliedIsHonest` and `NodeNeverGoesBack` are stated for as long as no more than one
  session has returned a wire (`FewWiresReturn`). Once a smaller revision has replaced a
  larger one (`lowered`), the next edit may choose the larger one again, and the node's
  report of its first version passes for one of the second: `applied` then says the
  revision, not its content. Two concurrent `queueSnapshot` may leave the smaller revision
  desired, and the state pending although the node runs the later one; a replay that
  races `queueSnapshot` of the same revision makes the insert of the editor fail though
  the configuration is on its way; a crash between the commit of a change and
  `queueSnapshot` leaves the change undelivered until the next one or a manual sync.
- *Edge streams.* The order of a stream can be broken, beyond the bounds of the run, when
  the recovering flag is forgotten after NOGROUP; when a recovery returns the worker's own
  entries and leaves others' for a second while newer ones are read; when a lease is lost
  and retaken without a new sweep; when a worker without its lease reads the first 512
  (`edge.runtime.h:421`) of a longer backlog. `overtaken` records these; the comment at
  `gateway.runtime.h:220` relies on the order. Reading and projecting are not fenced, only
  the acknowledgement and what is published.
- *Alerts.* Receipts are written with the last batch of 256 rules only; a report that
  comes late is evaluated with its own data; the removal of a rule tells of no event, and
  an evaluation under way may leave a record of it open (`orphaned`); a report whose
  device has lost its last rule since its first evaluation is acknowledged without a look
  at the outbox (`alert.service.h:430`), so that the events that evaluation left there when
  its worker died wait as well (`stranded`); the events of a
  failed offline evaluation wait for the next telemetry or start of a worker (which
  drains the outbox, `alert.runtime.h:85`, not modelled). `created_at` is the wall clock
  of the database, taken to go forward; publication keys live for seven days.
- *Delivery.* A broker that fails keeps its worker reading its own pending events
  (`docs/open-access-mqtt.md:12-15`).
- *Real-time copy.* A projection that rebuilds a copy may race a report and drop its
  deadline (`raced`); one that began before a deletion may bring the copy back
  (`overlapped`); both are named in the properties that except them.
- *Live queries.* An error stays on a page of `serveSnapshotChannels` until the next change;
  entries a broken blocking read takes after a recovery has listed the pending ones
  stay unheard until the next recovery (`Unheard`).

## 7. What is not modelled

- **Data transformations**: framing and decoding of Modbus, S7, SL651, MQTT, DL/T 645,
  FINS and MC. The unit tests compare them with recorded frames. `Collector` keeps
  what they do to a command: it is sent, refused, answered or times out.
- **GB28181 and VPN**: a native SDK with threads of its own, and calls of the operating
  system; the claim of a GB28181 control command follows the pattern of `Rpc`.
- **Edge terminal, serial debugging, acquisition, firmware transfer, commands of edge
  nodes**: interactive sessions and transfers on top of the edge sessions.
- **The other CRUD transactions, authentication, packet log, observability, start-up**:
  one transaction or one request, no shared mutable state beyond the rows; their effect
  on other components is the outbox event.
- **The stream multiplexer**: hints whose loss the periodic passes make good.
- **Windows client and web front end**: programs of their own.
- Inside modelled parts: PostgreSQL's re-evaluation of a blocked update where a row has
  one writer at a time (claim and expiry of an attempt are atomic); loss of Redis' data;
  more than one egress packet in memory while a write is pending (`readyMessages_` keeps
  several and sends the first; the others wait for a recovery).

The models cover the code that coordinates; most of the repository transforms data or
serves single requests, so that the lines they map are a minor part of it.

## 8. Plan

1. Commands of edge nodes (list queue and deadline protocol), in the manner of `Command`.
2. The claim of GB28181 control commands.
3. Liveness of `TargetLease` (a wanted target is eventually connected when nothing fails
   any more, for `Timeout < Validity`; explored once, too long for a regular run).

To read along: start with `TargetLease` (self-contained, with time and late
commands), then `Rpc` and `Outbox`, the reconcilers, `CommandPath`, and then the
telemetry modules from `Telemetry` to `LiveBus`; `Routes` and `EdgeStreams` last.
