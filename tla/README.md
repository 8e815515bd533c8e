# payment-util in TLA+

`payment-util` is the Go library the services of a payment platform share:
transactional outbox and sagas, approvals, configuration, service registration
and leader election, resharding, job queue, audit log, rate limiting, money and
identity arithmetic, and the scaffolding around them. This directory holds TLA+
models of its stateful parts, TLC configurations that check them on small
instances, and theorems checked by TLAPS. `PROJECT.json` maps every definition
to the lines it models and lists runs, mutants, findings, hazards and theorems.

Part 1 is the inventory, part 2 says what is modelled and how it corresponds to
the code, part 3 what the runs check, part 4 what is proved, part 5 what the
modelling found in the code, part 6 what is left out, part 7 what could follow.

## 1. Inventory

| component | state | operations | hard behaviour | what makes it correct |
|---|---|---|---|---|
| outbox publisher (`outbox/append.go`, `publisher.go`) | table `tx_outbox`; each loop's batch in memory | Append, AppendDB, tick/publishOne, ReplayFailedDLQ, CleanupPublished | crash between broker and UPDATE, dropped statement errors, several replicas, refused events at the head of the batch | no event of a rolled-back transaction, none lost, status tells the truth, healthy events get out |
| outbox consumer (`consumer.go`) | table `outbox_processed`, business rows, broker offsets | Loop, processOne | redelivery, two consumers of one source, lost COMMIT answer, offset semantics | the effect of an event is applied once per service, acknowledged only when applied |
| saga (`saga.go`) | saga instances in a store; effects at services | Start, compensate, AdvanceStep, ResumeUnfinished | crashes between Saves, ignored Save errors, repeated reports, resumption during compensation | nothing skipped, states and step results tell what is in place, every saga settles |
| approval (`approval/`) | action store, audit trail | Request, Approve, Reject, MarkExecuted, Cancel | read, decide and write without a lock; expiry and cancel window; the audit event is a second call that may fail | four eyes; decided actions stay decided; the trail tells the decision |
| config center client (`configcenter/`) | copy-on-write snapshot with fallback chain, listeners | initialLoad, onEvent, maybeSwap, Get, typed readers, Bind, Close | watch and swapper write concurrently, effective times, deletions, reconnect by version, Bind against a change | a read returns the newest value in force; no received change is lost; a bound value follows |
| resharding (`reshard/`) | checkpoint per shard, target tables | Start, runShard, processBatch, Pause, Stop | crash between write and checkpoint, partial batch, stop/pause | no row skipped, checkpoint never ahead |
| leader election (`serviceregistry/election.go`, `leaderrun.go`) | etcd session and campaign queue | Campaign, RunLeaderLoop, Close | session loss while the task runs | at most one leader holds a live session; leadership passes on |
| registration (`registrar.go`, `selfregister.go`) | lease, keepalive | Register, Close | concurrent Register and Close, lease loss | no lease outlives Close |
| job queue (`jobqueue/queue.go`) | channel of 1024, unique keys, DLQ | Enqueue, Run, retry goroutines, Close | full channel, closed channel, unsynchronised map | a task runs, is retried or is in the DLQ |
| audit log (`auditlog/client.go`) | buffer, batch | Emit, flushLoop, sendBatch, Stop | drop on full, give up in a batch, Emit during Stop | events arrive in order; what is lost is counted or bounded; Stop drains |
| replay (`replay/`) | job channel, counters | Submit, worker, Close | full queue inside the multiplier, Submit after Close | counters add up |
| rate limit (`ratelimit/`) | bucket per key | Allow, SetLimit, UpdateConfig | eviction while a call holds the bucket, hot updates that overlap | what is allowed never exceeds the buckets' sizes and refills; the limits pushed last apply |
| feature flags (`featureflag/`) | flag map, poll | reload, BoolFor and readers | reload during a request, decision order | documented precedence |
| schema registry (`schema/`) | versions | Register, CheckCompatibility, Validate | compatibility relation | what is called backward compatible can be read |
| money (`money/`) | none | conversions, rounding, formatting | overflow, half-even at the boundary, smallest integer | equals the rational definition |
| shadow and identities (`shadow/`) | context mark | encoders, decoders, validators | two layouts told apart by value | round trip, main and shadow disjoint, shard stable |
| migrations (`scaffold/migrate.go`) | version table | up, down, force | partial scripts, statements behind a comment, missing files, several pods, crash before the row | the version table tells what the schema shows, without gaps |
| bootstrap, health (`scaffold/`, `healthx/`) | readiness flag | start, drain, probes | shutdown order | no traffic before ready or after drain |
| tracing, mTLS, error codes, problem details, httpx, audit middleware, Kafka adapter | none or a library's | wrappers, tables | the audit call races with its request's context | - |
| dbboot, tenant | none | deprecated placeholders | - | - |

Interactions. A business transaction and the publisher meet in `tx_outbox`;
publisher and consumer meet in the broker's topic; consumers meet in
`outbox_processed`. Saga services are called directly (synchronous) or report
through a consumer that calls AdvanceStep. Approval emits audit events through
an interface the audit log client implements. Rate limits, flags and sampler
take their configuration from config center callbacks. RunLeaderLoop is what a
service runs a publisher under when it wants only one. Everything else is
called by its service and calls nobody here.

The hazards, each at its line, are in `PROJECT.json`.

## 2. The modules

### Outbox (`Outbox.tla`, `MCOutbox.tla`, `OutboxProofs.tla`)

State: `tx` is the business transaction of each event (one event per
transaction), `row` the committed content of `tx_outbox` (status and
retry_count; "absent" before the INSERT commits and after the DELETE), `log` the
broker's topic. Each publisher has a `pc`, the selected rows it has not come to
(`batch`) and the copy it is publishing (`current`).

| action | code |
|---|---|
| Begin, AppendInTx / AppendDB, Commit, Rollback | the caller's transaction around Append; AppendDB commits by itself |
| Fetch | tick's SELECT ... ORDER BY created_at LIMIT n and the scan into memory |
| PublishOk, PublishRefused, PublishErr | the call of PublishFunc: accepted, refused for good (`Poison`), failed with the message perhaps delivered |
| MarkPublished, MarkFailed, UpdateLost | the UPDATE that follows, from the copy, conditional on event_id only; its error is dropped |
| Crash | the loop dies and is started again without its batch |
| ReplayFailedDLQ, CleanupPublished | the two administrative statements, on any subset that qualifies |

Every statement and every publication is a step of its own, so publishers,
transactions and administrators interleave freely. Metrics, headers, payloads
and error texts are left out. retry_count saturates at `RetryCap`, which is not
less than MaxRetries, so the comparison with MaxRetries is exact.

### OutboxConsumer, OutboxDelivery (`OutboxConsumer.tla`, `OutboxDelivery.tla`)

`OutboxDelivery` is the promise: an event that was offered is applied at most
once at every consuming service. `OutboxConsumer` is processOne statement by
statement: read, dedup SELECT, handler, INSERT of the dedup row (which waits for
the row lock on the primary key), COMMIT, acknowledgement. `effects` counts how
often the handler's rows of an event became visible at a service. `CumulativeAck`
chooses the reader: FALSE is a queue that redelivers each unacknowledged message
(SQS, NATS), TRUE a Kafka partition, where committing an offset acknowledges all
that precede it and a reader goes on from its own position. A rebalance that one
consumer has not noticed is two consumers with positions of their own.

### OutboxPipeline (`OutboxPipeline.tla`, `MCOutboxPipeline.tla`, `OutboxPipelineProofs.tla`)

Outbox and OutboxConsumer over one `log`; a step of the pipeline is a step of
one of them. An event that AppendDB stages outside a transaction (`LooseEvent`)
is in the table before anything commits; the run has none. It implements
OutboxDelivery with `offered` mapped to the events whose transaction committed,
fairness included.

### Saga (`Saga.tla`, `MCSaga.tla`, `SagaProofs.tla`)

One saga of `N` steps. `saved` is the instance in the store, `world` what each
step did at its service ("doubtful" when a call returned an error, a time-out
for instance, and the effect may be there). Each call of Start, ResumeUnfinished
or AdvanceStep is a worker with its copy `mem` of the instance and loop variable
`idx`; every Save is in the step of the call it follows and may be lost where
the code drops its error. A crash may come between any two steps and may hide an
Execute or Compensate that took effect. Asynchronous sagas are enrolled by the
caller and driven by step reports, which stay in `reports` and so may be
delivered any number of times. ResumeUnfinished takes them up too, as nothing in
an instance says who drives it; their steps have no Execute (ExecuteNil), so it
compensates at once. A service that was at work meanwhile then reports its
success to AdvanceStep, which does not look at the state (`late` remembers
that). The store keeps copies, as one behind SQL or
Redis does; `MemorySagaStore.Load`, which the code keeps for unit tests, shares
the slice of step results with its caller.

### Approval (`Approval.tla`, `MCApproval.tla`, `ApprovalProofs.tla`)

Approve, Reject, MarkExecuted and Cancel are four steps each: Get copies the
action, the decision is made on the copy at the clock of that step, Update
writes the copy back whatever the store holds by then, and Emit adds the event
to the trail (`audited`). A call may end after each of them: Abandoned is a
store that fails or a process that dies before the Update, EmitLost one that
dies before the Emit, or an Emit whose error the code drops (`unaudited`).
Request is Create and Emit. The decision of review is three guards (expired,
refused, voted) as in the code; an expired action is written without an Emit.
Requests carry no votes, no expiry of their own and no negative quorum, although
the code would take them. List, Get and GetState only read. MCApproval adds two
history variables: what each call read, and the actions that a call wrote over
although they had changed since. What the package promises of decisions, of the
cancel window and of the audit trail holds only of actions nobody wrote over;
four eyes hold of all.

### Config center (`ConfigCenter.tla`, `MCConfigCenter.tla`, `ConfigCenterProofs.tla`)

A snapshot maps each key to an active and a pending value; a value is the
version of the change it came from. The watch goroutine (onEvent) and the
swapper (maybeSwap) each load the snapshot, build the next one and store it;
load and store are separate steps, because no lock makes them one. `back` keeps
the actives of the snapshot before, which is as far as Get looks down the chain
of fallbacks. `Publish` and what a stream sends (`Sends`) are the server,
external: it sends changes in the order of their versions, leaves out those a
later change of the key has superseded, and in the snapshot of a stream opened
at 0 deletions. Streams break between events and the initial load may fail
(NewFromViper then starts again with an empty client). Close only ends the two
goroutines, which it waits for.

| action | code |
|---|---|
| InitWatch, ApplyEvent, InitDone, InitFailed | initialLoad and applyEvent; NewFromViper's retry |
| Disconnect, Reconnect | watchLoop's loop, resumed by maxVersion |
| WatchLoad, WatchStore | onEvent, from the Load to the Store and the advance of maxVersion |
| SwapLoad, SwapStore | maybeSwap, likewise |

`Binding` is Bind and fireListeners over the same two goroutines, seen from one
key: Bind reads what Get serves (a pending value that is due, else the active
one, else the one of the snapshot before), then registers its listener; onEvent
loads (EventLoads), stores (EventStores) and then fires, maybeSwap fires and then
stores; changes and swaps of other keys store this key as it was loaded
(`otherKey`, SwapOther); a value that does not decode (`Broken`) leaves the
target alone, and one that expires is no longer served. Two history variables
name the exceptions of the code: `missed` (a change Bind was not told of) and
`crossed` (the two goroutines were at work together).
`TypedReads` enumerates shapes of text (bare, quoted, list, map, ...) and
compares the typed readers with what a reader of the package's comments expects.
TypedReads is proved about in ConfigCenterProofs, Binding in InProcessProofs.

### Resharding (`Reshard.tla`, `CoordinationProofs.tla`)

Rows of a V1 shard are numbered by key; `Dst` is the bucket a row goes to. The
loop over a shard is a record: position `tail`, end `hi` of the batch, rows the
transformation failed for (`skip`), buckets not written yet (`left`), batches
since the last commit. WriteBucket is one bucket's upsert, WriteFails one that
fails, done or not, after which the whole batch is scanned again; EndBatch
counts the batch and saves the checkpoint (GREATEST) when it is due. Two
processes may run at once, and each may be paused, stopped, killed and started.

### Leader election and registration (`Leadership.tla`, `Registrar.tla`, `CoordinationProofs.tla`)

etcd is external and modelled by what is used: campaign keys named by their
revisions and held by leases (`keys`), endpoints held by leases. RunLeaderLoop
is Campaign, Elected (all lower keys are gone), TaskReturns; Notice is the
session's Done channel reaching the task's context, later than etcd's expiry
(LeaseLost). CampaignFails and TaskReturns include the Close that may fail to
revoke. Registrar is Register as grant, publish and adopt with a failure between
each two, KeepAlive's channel closing, and Close; overlapping Register and Close
calls included.

### Queues and accounting (`JobQueue.tla`, `AuditLog.tla`, `Replay.tla`, `InProcessProofs.tla`)

`JobQueue`: Enqueue with the unique window, the one worker, back-off goroutines
that send to the bounded channel, the DLQ, handlers that enqueue, Close and what
a send to a closed channel does. `AuditLog`: Emit with its drop, flushLoop
collecting and sending, sendBatch attempt by attempt with its early return, which
leaves the events behind the given-up one to flush's clearing of the batch, Stop
and the drain that follows, whose end is an empty buffer. `Replay`: Submit
offering copies one by one, workers,
Close, counters, with `queuedCopies` and `cutShort` as history.

### Limits, flags, schemas (`RateLimit.tla`, `FeatureFlag.tla`, `SchemaRegistry.tla`)

`RateLimit`: Allow as look-up, creation (evicting a random bucket at capacity)
and take, so that a call may hold a bucket that was evicted; UpdateConfig as the
store of the configuration and the walk over the buckets, two steps that no lock
joins, so that updates overlap (`updatesCross` is the history of that).
`FeatureFlag`: reload at New and by the poll, and BoolFor's order of lists,
percentage and default; a key's hash bucket is a constant. `SchemaRegistry`:
Register with checkBackward, checkForward and the others against Validate:
fields may be required or not and have a type or none. The first two are proved
about in InProcessProofs, the third in CoordinationProofs.

### Identities, money, shadow traffic, migrations (`Identity.tla`, `Money.tla`, `ShadowFlow.tla`, `Migrate.tla`)

`Identity` is the arithmetic of ids over radices given as constants: a kind of
id is the sequence of its fields' radices, both layouts of account ids among
them; an id is the sum of its fields, each times the radices below it, and the
marks of shadow traffic and of the second layout. Added to this are the segments
of user ids, the decoders, the validators and the sanitiser's fake ids. `Money`
computes on words of `Bits` bits that wrap as int64 does, against the rational
definition. `ShadowFlow` follows one context at a time through inbound calls,
outbound calls and background tasks (NewBackground, which leaves shadow traffic
and keeps the trace, and NewBackgroundShadow), and calls through capture,
sanitising and replay. `Migrate` is up, down and force by pods whose commands
interleave statement by statement and die between them; a statement that stands
behind a comment is passed over, and so is a version without its file. Migrate
is proved about in CoordinationProofs, the others in InProcessProofs.

### All of these in one instance (`MCServices.tla`)

The fifteen components of MCServices share no variable. `part`, chosen initially
and never changed, says which of them moves; the others rest. TLC so explores
the sum of their state graphs in one run, never a product, and each component's
properties are checked in its own part. `Fair` is each component's own fairness
(RsFair, LeFair, ...), asked of the part that moves.

## 3. The runs

| run | instance | shows |
|---|---|---|
| outbox_single | 1 publisher, 3 events (two always refused, one of these by AppendDB), batch of 2, MaxRetries of 2, 3 faults, 1 replay | atomic staging, truthful status, no loss, give-up only after MaxRetries, published rows final, retry_count never set back, the healthy event gets out unless the broker failed MaxRetries times in its turn |
| outbox_replicas_final | 2 publishers | violation: a stale failure overwrites 'published' |
| consumer_queue | queue, 2 replicas of a service and 1 of another, 2 messages of the same event or malformed, 2 faults | exactly-once effects, atomic with the dedup row, acknowledged only when processed; implements OutboxDelivery |
| consumer_kafka_ack | Kafka, 1 consumer, 2 events, 1 fault | violation: a failed message is acknowledged by its successor |
| pipeline | 1 event, 1 publisher, 2 services, faults on both sides | no effect of a rolled-back transaction; the composition implements OutboxDelivery with fairness: every committed event is applied at each service exactly once |
| approval | 3 people, 2 concurrent calls, quorum 1 or 2, time past expiry and window, 1 lost audit event | four eyes survive overwriting; of an action nobody wrote over, decided is final, votes are kept, a withdrawal lies in the window and the audit trail tells the outcome |
| approval_reject | 3 people, 2 concurrent calls | violation: a rejection is overwritten |
| saga | 4 steps, 2 compensable, 3 crashes, 2 failures, 1 lost Save | nothing skipped, what is undone is what state and step results say, a forwarding saga settles |
| saga_completed | 3 steps, 1 crash, 1 failure | violation: completed over compensated steps |
| config_center | 2 keys, 3 changes (immediate, scheduled, expiring, deleting), 1 broken stream or failed load | pending is newer than active, nothing stale without schedules, what is served goes back only by an overlapping store of the key, its deletion, time, a forgotten fallback or a newer change in the slot of a due one, due values take over, changes arrive |
| no_event_lost | the same | violation: a change is overwritten by the swapper |
| services | 15 components in turn, see below | one property each, and Progress for the seven that owe something |

The parts of `services`:

| part | instance | property |
|---|---|---|
| reshard | 2 processes, 4 rows of one shard in 2 buckets, batches of 2, commit every 2, 1 fault, 1 lost commit, 1 interrupt | CheckpointSafe: the checkpoint covers only moved rows, and the rows beyond it are bounded; Progress: all rows move, no checkpoint goes back |
| leadership | 3 nodes, 4 sessions, 2 mishaps | OneLiveLeader; Progress: leadership passes on, a task that lost its session returns |
| registrar | 2 calls, 2 faults | Progress: an endpoint nobody serves is withdrawn |
| jobs | 3 tasks (one unknown, one enqueued by another's handler), channel of 1, 1 retry | JobsAccounted; Progress: tasks settle unless a send met the close |
| audit | 4 events, buffer and batch of 2, 2 tries, 3 bad posts | EventsAccounted: events are received in order, an accepted event that is nowhere stood behind a given-up one in its batch, nothing is given up early, Stop drains; Progress: Stop returns once callers emit no more |
| replay | 2 workers, 2 submitters, 2 copies, channel of 2, 3 submits | CountersAddUp; Progress: Close returns |
| shadow | 2 traces, 1 event, depth 3 | ShadowStaysApart: what a shadow request meant writes on the shadow side, except from a NewBackground task, which writes on the main side; replays are not captured, except from such a task; requests, calls, background tasks and replays stay in one trace |
| identity | radices of 2 and 3, every id that can be encoded and any from -1 to 1000 from outside | IdsKeepMeaning: round trips, disjoint segments, stable shard, with the code's exceptions as parts |
| migrate | 2 pods, 4 versions of 2 statements (one up statement behind a comment, version 2 without up file, 3 without down file), 3 commands, 1 fault | TableTellsSchema: a clean version shows all of its script that was run, commands one at a time leave no gap but those of missing files |
| schema | 1 field, 2 versions, every kind of field | CompatHolds |
| rate | 2 merchants, 2 callers, 2 updaters, capacity 1, 3 buckets, 1 tick, 2 pushes | NoOverdraft: grants within the buckets' sizes and refills, no bucket shared, all live ones at the limits of the last update unless updates overlapped |
| flags | 3 keys, full percentage 3, 1 edit, 1 failed poll | RolloutOnlyGrows; Progress: edits are served |
| binding | 3 changes, the third undecodable; expiry, other keys | BoundFollows |
| money | 9-bit words, scale 4, up to 2 decimals | MoneyExact |
| typed | texts of up to 2 words in every shape | ReadsAlike |

Bounds. Every counter of faults, crashes, failures and replays is a constant
named in its module; TLC explores all placements of that many. Two refused
events and a batch of two fill every batch, which is what the starvation hazard
needs; two attempts separate "one too early" from "at the limit", and three
faults are enough to use them up for an event the broker would take. Two
publishers, two consumers or two concurrent calls are enough for one to act on
what the other has changed; each invariant that does not depend on there being
one of them is proved for any number. In the pipeline one event suffices for
"exactly once at each service" because events interact only through the batch
and the log, which outbox_single and consumer_queue cover with several; one
publication fault makes two messages of it, so `MaxLog` = 3 never binds. The
clock of Approval runs past ExpireAfter and CancelWindow, both zero (a vote's own
tick is in the window, the next is out). A saga of four
steps with the second and fourth not compensable has a compensable first step, a
skipped one in the middle and a failing last one. Two keys let the swapper erase
the change of a key it did not look at; three changes give a key an active, a
pending and an overtaking value. Four rows in batches of two, committed every
two, give a shard a batch that is not committed. Three nodes give a waiting
node a dead predecessor and a live one. In Money, nine bits are enough for every
wrap of negation and multiplication at every scale used; the int64 of the code
differs in nothing but the width. Account-id radices of two and three keep
carries, boundaries and the overlap of the two layouts. Caller and person
symmetry is used where no liveness is checked.

That the bounds hide nothing was also looked at by raising them: the invariants
of config_center (and GoesBackOnly) hold with 4 changes, and those of the parts
of `services` with 2 faults and 2 interrupts (reshard), 6 sessions and 3 mishaps
(leadership), 6 events (audit), 3 workers and 4 submits (replay), 3 traces of 2
events (shadow), 4 commands and 2 faults (migrate), 3 versions (schema), 2 ticks
or 3 pushes (rate), 2 edits (flags), 4 changes (binding), and a channel of 2
with 2 skips (jobs). Those of approval hold with a clock to 2 and both periods
of 1 as well.

Fairness. The publisher's ticker fires again and again and Loop runs tick on
each, so a publisher's own enabled step is eventually taken (weak fairness of
the disjunction of its steps). Consumer.Loop never pauses: weak fairness of its
steps. A queue delivers an unacknowledged message again and again, but the
consumer may be busy whenever it does: strong fairness of Read. In Saga, a call
goes on until it returns or dies, a service that was asked for a step runs it,
its report is delivered until taken, and ResumeUnfinished is called again while
a saga is forwarding, as its comment asks of the process that restarts. The
config client's loops retry for ever and its ticker fires every second. Reshard
assumes that somebody starts and resumes processes and that their loops run.
etcd expires leases and wakes waiters, and a task whose context is cancelled
returns, which RunLeaderLoop's comment asks of it. The job queue's worker runs;
a goroutine blocked on a full channel gets its turn when there is room again and
again (strong fairness of Send, as Go's channels are first come, first served).
The audit log's loop runs (weak fairness); Stop is owed only once callers emit
no more, since the drain ends when it finds the channel empty, and a caller that
keeps emitting may keep it from that. Faults are never fair and are bounded;
nothing makes a caller commit, submit, publish or stop.

Deadlock is not checked where the system may come to rest: a drained table, a
log read to its end, a settled saga, bounds that are used up.

### What the violations say

* `outbox_replicas_final`: the publisher's header claims protection against
  competing replicas; the UPDATEs are not conditional on status. With one
  publisher the same property is proved.
* `consumer_kafka_ack`: "not committed, retried next time" does not hold for
  cumulative offsets. For single acknowledgements it is proved.
* `approval_reject`: a rejection is overwritten by an approval computed from an
  older copy. Two calls at a time are enough; with one at a time it holds. In
  the same way a Cancel that read the action before its last votes, or before it
  was executed, withdraws it when `approval/doc.go:26` calls it frozen.
* `saga_completed`: ResumeUnfinished cannot tell a saga that was compensating
  from one that goes forward.
* `no_event_lost`: onEvent and maybeSwap store whole snapshots without a lock,
  so the later store drops the other's change, of any key.

Where a disagreement is narrow, the passing property states the exception the
code makes, or what the code does, and PROJECT.json quotes the document it
departs from:

* UndoneAsTold: a saga after two crashes; an event-driven one that
  ResumeUnfinished compensated while its service was at work.
* WithdrawnInWindow: a Cancel that writes over an action which has changed since
  it was read; the cancel window is not kept by such a call.
* AuditTellsOutcome: the expire event that no code emits.
* GoesBackOnly: Get goes back to the value before when a change scheduled for
  later takes the slot of a value that is due and not yet swapped.
* BoundFollows: Bind against a concurrent change, and against that case of Get.
* EventsAccounted: events behind a given-up one are neither sent nor counted
  (part LossBounded says how many).
* TableTellsSchema: statements behind a comment are recorded and never run
  (CleanIsWhole); missing files leave gaps (NoGap).
* ShadowStaysApart: a background task keeps its caller's trace, as
  `trace/background.go:46` says, and not a new one, as line 4 does (OneTrace).
* MoneyExact: 150_000 of KWD is shown as 1.500, where `money/money.go:295` and the
  test (`money_test.go:143`, which fails on the code) have KD1.000.
* CompatHolds: BACKWARD compatibility of a field that becomes required or typed
  (operator Overlooked).
* ReadsAlike: quoted words in typed reads.
* IdsKeepMeaning: fake user ids in the platform segment (part UsersApart).

## 4. What is proved

All theorems hold for every value of the constants that satisfies the module's
ASSUME; TLC evaluates each ASSUME in the runs. Where a theorem needs more, its
statement says so. There are eight proof modules: four for outbox and saga, one
each for approvals and for the config center, and two that gather the smaller
components, `CoordinationProofs` for what processes share through a database or
etcd and `InProcessProofs` for what goroutines share or compute. Each theorem
follows from an invariant that Init satisfies and every step keeps, checked on a
run first.

* `OutboxProofs`: OutboxTypes, OutboxNoPhantom, OutboxPublishedReachedBroker and
  OutboxNothingLost for any number of publishers. The invariant adds to the
  properties what publishers hold in memory: every selected or current row
  belongs to an event that had been committed (so publishing it is no phantom),
  a publisher in "sent" holds an event that is in the log (so marking it
  published is true), and a row that exists belongs to a transaction that
  staged it. The properties alone are not inductive: a batch outlives the row
  it was copied from. For one publisher (SoleFailedWasExhausted,
  SolePublishedIsFinal, SoleRetryNeverSetBack) the invariant further says that a
  copy is not older than its row: it is pending with the same retry_count, which
  is just what two publishers break.
* `OutboxConsumerProofs`: ConsumerTypes, ConsumerExactlyOnce, ConsumerAtomic,
  AckedOnlyWhenProcessed and ConsumerImplementsDelivery, for any number of
  consumers and sources. The invariant: at most one consumer of a key is between
  INSERT and COMMIT, and then the key is not in `outbox_processed`; this is the
  primary key's row lock. The refinement theorem maps Commit and CommitUnknown
  to Apply, Arrive to Offer, and all others to stuttering. AckedOnlyWhenProcessed
  needs single acknowledgements.
* `OutboxPipelineProofs`: PipelineNoPhantomEffect and PipelineImplementsDelivery,
  for any number of publishers, consumers and services, either reader and any
  faults of both sides. The invariant joins those of the two components, whose
  steps leave each other's state alone but for the log, with one fact about
  both: an effect at a service is that of an event in the log. The refinement
  maps the COMMIT of a business transaction to Offer, the consumer's COMMIT to
  Apply and every other step to stuttering; Apply's guard, that the event was
  offered, is the invariant's path from the effect through the log to the
  committed transaction. It is stated for LooseEvent = {}: AppendDB publishes
  whether a transaction commits or not.
* `SagaProofs`: SagaTypes and SagaNothingSkipped, for any number of steps and of
  concurrent calls. The invariant is about every copy of the instance, stored or
  in memory: no step before its CurrentStep was left out, and of a completed one
  no step at all; a call in its loop has not left out any step before `idx`.
  SagaUndoneAsTold, while one call at a time works on the saga (with two, TLC
  finds a ResumeUnfinished that executes what a Start is just compensating).
  UndoIInv compares every copy with the services: a status 'compensated' is
  never ahead of what was undone, and, unless a success was taken after the
  failure (`late`), a call that compensates has undone all between its loop
  variable and CurrentStep, the store is never ahead of the copy at work, and the
  report that ended an asynchronous saga was the current step's.
  CalmIInv adds, as long as no Save was lost and at most one crash happened,
  that no step behind CurrentStep was begun except by the one recovery under
  way.
* `ApprovalProofs`: ApprovalTypes and ApprovalFourEyes, for any number of people
  and concurrent calls. The invariant is that every copy of an action, in the
  store or in a call, is sound by itself: its votes are of different people
  other than the requester, and its state follows from its votes. Overwriting
  replaces a sound action by a sound one, which is why these hold although
  RejectIsFinal does not. ApprovalAuditTells, ApprovalDecidedIsFinal and
  ApprovalWithdrawnInWindow are about actions nobody wrote over, in terms of the
  history variables of MCApproval, and hold of any calls too. Their invariant
  FollowInv says that a call's copy is what it read or what a complete call makes
  of that (Decides), and that the trail of an action nobody wrote over tells its
  state, counting events that are owed by a call or were lost. A step that
  changes such an action is then one decision of the action in the store.
* `ConfigCenterProofs`: ConfigTypeCorrect, ConfigPendingIsNewer,
  ConfigNothingStale, ConfigNoEventLostUntimed and ConfigGoesBackOnly, for any
  keys and changes. The invariant of the first two is about every snapshot,
  stored or in a goroutine's hands: what waits is newer than what is active, and
  nothing is beyond maxVersion; the stream is never behind maxVersion, and the
  event at work is beyond it. So whichever of the two stores last, an ordered
  snapshot is stored and the value being routed is newer than all in it: the
  race loses changes but never puts an older version in force.
  ConfigNothingStale and ConfigNoEventLostUntimed add the case without scheduled
  changes (Untimed): then nothing waits, the swapper never stores, and what the
  watch goroutine has loaded is what is stored; every current change up to
  maxVersion is in force, and beyond it, of all the stream has sent, only the
  event at work is current. So the promise at `configcenter/client.go:11`, which
  the run no_event_lost refutes, holds where nothing is scheduled.
  ConfigGoesBackOnly is an action property: lemmas show of routing (RouteTo's
  cases) and of swapping that the new snapshot is ForwardOnly from the loaded
  one, and a store whose loaded entry of a key is the one in place inherits it
  for that key; only the key a deletion names is excepted.
  TypedReadsAgree is about `TypedReads`: reader by reader, what each shape of
  text gives, for texts of any number of words.
* `CoordinationProofs`
  - ReshardCheckpointSafe and ReshardCheckpointKept, for any number of
    processes, shards and rows, any batch size and commit rhythm. The invariant
    (LoopSafe) is about each loop: rows up to `tail` were moved or skipped,
    inside a batch each row is skipped, in the target or in a bucket that is
    left, and `tail` is at most the batches since the last commit ahead of the
    checkpoint. What no step takes back (Grows) keeps the other processes'
    loops safe.
  - LeadershipOneLiveLeader, for any number of nodes: nodes' sessions differ,
    and the key of a running task, while it lives, is the lowest.
  - MigrationsTellSchema, for any number of pods, versions and statements. The
    invariant adds what a command under way has done: the statements an up has
    run, which are those it came to but for the ones behind a comment, are in
    effect unless a down began on that version since, and, while commands run one
    at a time and no row is lost, what a command read at its start is the table
    still, but for its own changes, and what it passed over has no file.
  - SchemaChecksMeanReads, for any fields, types and number of versions: the
    witness of a refused registration is built (a message the older schema
    admits and the newer rejects), that of an accepted one is any message.
* `InProcessProofs`
  - QueueAccountsForJobs: no task is in two places at once, one that is still to
    be tried has a try left, and no more reached the DLQ early than
    handlers asked to skip.
  - AuditAccountsForEvents: what was received stands before the batch and the
    batch before the buffer; failed POSTs pay, MaxRetries each, for the events
    given up; each given-up event takes at most the rest of its batch along, all
    of it younger; what is left when the loop has drained came after Stop.
  - ReplayCountersAddUp: copies queued, cut short and still to offer are
    together at most what was submitted, and no fewer than what the begun
    Submits offered.
  - ShadowTrafficApart: a context's side is the one its request was meant for,
    unless NewBackground lies between.
  - LimiterHolds: there is a ledger, an owner for each bucket ever made and what
    each has given, such that a merchant's buckets are those it lost and its
    live one, a bucket gives no more than the largest burst and refills, and the
    ledger adds up to what was granted. The ledger is quantified in the
    invariant, so that the model needs no history for it. Of the limits the
    invariant says that an update which no other crosses has yet to apply the
    configuration in force, or has applied it.
  - BoundStructFollows: at any moment the value under way to the struct is known
    (stored and to be announced, or announced and to be stored), unless the two
    goroutines crossed or Bind missed a change. The invariant adds that what a
    goroutine is about to make active has come into effect once (Came), so that
    only expiry takes it out of effect, and that a goroutine alone at work stores
    over the snapshot it has loaded (Alone).
  - FlagRolloutOnlyGrows, an action property, from the lemma that a raised
    percentage decides no key the other way.
  - MoneyConversionsExact, for any width of a word and any even scale of which
    four fit the words: integer division by cases of sign and remainder, and
    wrapping as the one word congruent to the number. PowerAssumption states
    three facts of powers of 2 and 10 (positive, doubling), which the provers
    have no rules for; they are true of all numbers.
  - IdentitiesKeepMeaning, for any radices of at least 2 and any segments that
    follow one another (SegmentAssumption, what the constants at the head of
    identity.go satisfy). The lemmas are those of mixed-radix numbers: a field is
    read off whatever stands below and above it (FieldReads), a number is made
    up of its fields again (FieldSplits, NumberBack), the radices of each kind
    multiply to ShadowMul, so that the number of the fields never reaches the
    shadow mark and the two marks can be told from the size. The invariant lists
    what an id in hand may be: encoded from fields in range, any integer from
    outside, mapped from any id, or sanitised.

Attempts to prove corrected the models in three places. MoneyExact failed for
words too narrow for four times the scale, and its third part spoke of products
that had already wrapped: both are now stated. Get was a CASE whose arms
overlapped, of which TLC takes the first and the definition leaves open which: it
is now the nested conditions the code has. RateAssumption did not say that
limits are finitely many and natural numbers, without which there is no largest.

Only model-checked: liveness (HealthyEventsGetOut, EventuallyExactlyOnce,
ForwardingSettles, DueTakesOver, ChangesArrive, Progress), which rests on
fairness and ENABLED and is out of the prover's reach; of EventuallyExactlyOnce
the safety part is PipelineImplementsDelivery. The five violations of part 3 are
counterexamples and need no proof. The library's induction rules cannot be
instantiated by the provers; the two inductions there are (a finite set of
numbers has a largest, an up reaches the next version that was not applied) go by
the least counterexample in a well-founded order instead. Counts are
cardinalities of finite sets to which a step adds one element or takes one from,
and no definition is RECURSIVE.

## 5. Read in the code

The disagreements that a run shows are in part 3. What follows is stated by no
run, because no document contradicts the code, or the fact is a single line:

* outbox: Consumer.MaxRetries is never read (`outbox/consumer.go:48`), so a
  message whose handler always fails is delivered for ever. A saga whose process
  dies between the first two Saves stays 'started' and is never resumed
  (`saga.go:230`). Two replicas may run the same saga at once (`saga.go:364`).
* approval: expiry is looked at only when a vote comes and only while the action
  is pending, so an action with one vote never expires, although
  `approval/types.go:14` says so of every action that misses its quorum; Emit's
  error is dropped, so the trail of an action may have a hole nobody sees.
* config center: a listener is told of a value by maybeSwap before it is stored;
  MustGetJSON decodes
  over the target before it knows that decoding succeeds (`typed.go:307`); a
  broken JSON list is returned as fragments by GetStringList; JSON null reads as
  zero and not as the default; the goroutine of an initial load that times out
  may still apply an event while the client is in use (`client.go:269`); the
  chain of fallbacks is never cut (`client.go:614`).
* job queue, audit, replay: the unique map has no lock
  (`jobqueue/queue.go:171`), so the model lets one client at a time be inside
  Enqueue; Submit after Close panics, Emit after Stop is dropped or left in the
  buffer; Stop need not return while callers emit, since the drain ends when it
  finds the channel empty (`auditlog/client.go:186`); events that cannot be
  marshalled are skipped uncounted.
* resharding: two Stops at once may close the channel twice
  (`migrator.go:222`); WaitN
  fails for ever when a batch is larger than the burst (`migrator.go:403`).
* registration and election: ensureSession keeps a session that has expired
  (`election.go:127`); overlapping Register calls each get a lease and Close
  knows the last one only, so the other's endpoint stays while the process
  lives, and so does that of a Register that overlaps Close (`registrar.go:56`);
  the statement of Progress excepts both.
* feature flags: the context's binding is ignored (`flag.go:8`); percentage 0 is
  not "all off" when the default is on (`flag.go:63`).
* rate limits: a merchant's own limits are used only for the test whether it is
  limited at all; UpdateConfig stores and applies without a lock
  (`ratelimit/merchant.go:77`), so that of two overlapping calls the older may
  apply last and its limits stay: NoOverdraft says of the limits in force what
  holds of updates that do not overlap.
* schema: CheckCompatibility uses the compatibility of the previous version,
  Register that of the new one; a body that is no object is accepted, after
  which every checked registration is refused.
* money: the examples of Display disagree with line 13 of the same file on KWD;
  DivHalfToEven of the smallest integer is positive, MinorToStorage wraps
  around silently (both are in MoneyExact's statement as exceptions).
* identities: ValidateAccountIDLayout refuses ids of the second layout whose
  table is 100 or more; the deprecated ShadowAccountID maps most main accounts
  beyond ShadowAccountIDMax; the comment of ShadowUserID says 9e9 and the code
  9.01e9; FleetUserID maps an out-of-range fleet to 0.
* migrations: LockTimeout is never used; a version recorded dirty counts as
  applied and is passed over by the next `up`.
* audit middleware: the fire-and-forget call uses values of a request that may
  be over (`auditmw/middleware.go:78`).

## 6. Not modelled

Per component in `PROJECT.json`. Configuration of libraries (discovery, dialling,
tracing set-up, bootstrap, mTLS, health probes, HTTP helpers, error tables, the
Kafka writer) keeps no state over time: there is nothing for a model checker to
explore. The Redis adapter, dbboot and tenant are placeholders.

In the modelled components: payloads, headers, metrics and logging; order of
publication across batches (`publisher.go:99` promises none); schema validation
of events beyond "Append may fail"; several instances of a saga in one store
(ListUnfinished's limit, `saga.go:141`); the aliasing of vote slices in MemStore
(`coordinator.go:129`), which needs four votes to show; time in the outbox
(CleanupPublished may take any published row, so any cutoff is covered); the
rate limiter and progress report of the migrator; sanitising of fields other
than user ids; variants of feature flags; the token bucket inside
x/time/rate, which is external; SSE framing.

External and assumed: the broker stores what it acknowledges; MySQL's row lock
on a primary key and its atomic commit; etcd's leases and revisions; the config
server's order of versions.

## 7. What could follow

1. Proofs: what two calls on one saga still guarantee, the type invariants of
   the small components as theorems of their own, and the exact circumstances in
   which overlapping calls of Approval or the config client's two goroutines do
   no harm.
2. Two instances of a saga in one store and two workers, when the code has an
   owner or a lease for an instance to be checked against.
3. The readiness flag and the order of shutdown hooks, when they carry state of
   their own.

Runs stay few: a component has one run for what holds and one for each
disagreement with a document that a run can show, components without shared
state share a run, and properties are added to a run that exists before a run
is added.
