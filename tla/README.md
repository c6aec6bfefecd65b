# TLA+ models of the cross-border e-commerce backend

This directory holds a formal model of the moving parts of the repository: TLA+ modules
translated from the Go and SQL code, TLC configurations that check them on small
instances, and TLAPS proofs of what matters most for instances of every size.
`PROJECT.json` is the machine-readable index: which definition models which lines
(`map`), what each run checks (`runs`), a mutation of the code's logic that each property
catches (`mutants`), the hazards the properties are aimed at (`hazards`) and the theorems.

## 1. The system

Catalogue sources are synchronised into raw records; raw records are normalised into
versioned products; each change announces itself through a transactional outbox, a Redis
stream and idempotent consumers. A second branch keeps regulatory datasets and resolves
tariffs from them. All state is in PostgreSQL, except the streams.

```
 source adapters -> Sync -> raw_records          ingestion_run_processing
                      |                                    |
                      +-- finished run is queued --------->+
                                                           v
                                      RunProcessor (worker / operator)
                                                           |  one transaction per page
                              products, versions, changes, outbox_events, cursor
                                                           v
                                     Relay --XADD--> Redis stream
                                                           v
                            Consumer -> worker pool -> idempotency guard -> handler
                                                           |
                                     dead letters <--------+ ; replay -> outbox_events
```

| Component | State | Operations | Talks to | What is hard | What makes it correct |
|---|---|---|---|---|---|
| Outbox relay (`application/outbox`) | `outbox_events`: status, retry_count, claim_token, available_at | claim a batch, publish, record a refusal, mark published, release | PostgreSQL, Redis | several relays, leases that run out, lost replies, failed settling writes, crashes | delivered before PROCESSED; never reopened; attempts cost refusals only; every committed event is settled in the end |
| Redis publisher (`infrastructure/redis/publisher.go`) | the stream | XADD, classify an error | relay | a reply that is lost after the write | an outage is never charged to an event |
| Redis consumer (`infrastructure/redis/consumer.go`) | group cursor, pending list, in-flight set | read, reclaim, retry, dead-letter, acknowledge, recreate the group | guard, pool, dead letters | redelivery, reclaim of a message that is still being handled, group loss | nothing is acknowledged before it is handled or dead-lettered |
| Worker pool (`platform/worker`) | queue, running tasks | submit, drain | consumer | full queue, drain timeout | bounded concurrency |
| Idempotency guard (`application/idempotency`) | `idempotency_keys` | claim, inspect, complete in the handler's transaction, release | PostgreSQL | lease takeover during a handler; two-statement claim | one committed effect per event |
| Dead letters and replay (`application/dlq`) | `dlq_messages` | classify, insert once, replay | outbox | replay while copies are under way | replay never repeats an effect |
| Run processing (`application/product/process_run.go`) | `ingestion_run_processing`: status, claim, lease, cursor, counters | claim, page, progress, complete, fail, release, reset | catalogue | lost leases, operator against worker, crash after a commit | cursor, counters and applied records agree; COMPLETED means all |
| Change detection (`domain/product`, `postgres/product_batch.go`) | products, sources, versions, changes | decide, fold a page, write with guards | outbox, run processing | two pages on one product, out-of-order records, algorithm migration | versions form a chain; counters true; the newest record shows |
| Ingestion runs and sync (`application/ingestion`) | `ingestion_runs`, `raw_records` | start, persist a batch with its checkpoint, complete, fail, cancel, resume | adapters, run processing | two syncs at once, an operator who ends a run at work, lost replies to the writes that create and end it, runs that are left RUNNING with nobody to drive them | one active run per source; checkpoint and records commit together; a queued run is whole and final |
| Regulatory datasets (`application/regulatory`) | versions and their status | load, review, reject, activate, supersede | tariff resolution | two activations at once, times taken before a lock is waited for | one ACTIVE version per key, no gap or overlap in validity, an event per activation |
| Tariff resolution (`domain/regulatory/tariff.go`, `Service.ResolveTariff`) | none | read the versions in force, read their rules, pick the most specific rule of each measure | regulatory | two reads between which versions change, activations under way, candidates in no particular order, ties | a decision stands when it is repeated; the answer does not depend on the order of candidates; a tie or a gap is a HOLD |
| Source adapters (`adapters/sources`) | none; the feed is outside | fetch from a checkpoint | sync | limits, read-ahead, blank and malformed rows, a missing last newline, short and empty pages | the checkpoint is behind the rows that were returned, and not behind others |
| Source configuration (`application/source`, `sources/registry.go`, `rate_limiter.go`) | `sources`, adapter cache, token buckets | create, edit, delete; resolve an adapter; wait for a token | adapters | read-modify-write without a guard, cache filled out of order, callers that give up while others wait | an adapter fits its row; each bucket, and the source over all buckets, keeps the rate |
| Migrator (`postgres/migrator.go`) | `schema_migrations`, the schema | up, down | PostgreSQL | several releases at once, statements outside transactions, crashes, INVALID indexes | record and schema agree; versions without gap; commands end |
| Field mapping, HTTP API, platform | none | conversion, queries, plumbing | | | |

The hazards of each are listed, at the line where they bite, in `PROJECT.json`.

## 2. The modules

| Module | Models | Run by |
|---|---|---|
| `EventDelivery` | abstract specification: what the outbox promises | `Outbox` (refinement) |
| `Outbox` | relay, outbox repository, publisher's error classes | `MCOutbox` |
| `OutboxProofs` | theorems about `Outbox` | tlapm |
| `EventHandling` | abstract specification: what a consumer group promises | `EventConsumer` (refinement) |
| `EventConsumer` | consumer, pool, guard, dead letters, replay | `MCEventConsumer` |
| `RunProcessing` | processing queue, RunProcessor, operator commands | `MCRunProcessing` |
| `ProductCatalogue` | DecideTransition, DecideBatch, ApplyBatch | `MCProductCatalogue` |
| `SourceAdapter` | what Fetch answers: feed files and REST pagination | `MCIngestionSync` |
| `IngestionSync` | SyncSource, the run service, operators who end runs; extends `SourceAdapter` | `MCIngestionSync` |
| `RegulatoryDataset` | lifecycle and activation of dataset versions | `MCTariffDecision` |
| `TariffDecision` | duty decisions beside activations; extends `RegulatoryDataset` | `MCTariffDecision` |
| `SourceConfig` | source service, adapter registry, token bucket | `MCSourceConfig` |
| `Migrator` | up and down under the advisory lock | `MCMigrator` |
| `EventConsumerProofs`, `RunProcessingProofs`, `ProductCatalogueProofs`, `IngestionSyncProofs`, `SourceConfigProofs`, `MigratorProofs` | theorems about the module of that name (section 5) | tlapm |
| `RegulatoryProofs` | theorems about `RegulatoryDataset` and `TariffDecision` | tlapm |

`IngestionSync` ends where `RunProcessing` begins: `QueuedIsFinal` is what `RunProcessing`
takes for granted of a queued run. `RunProcessing` and `ProductCatalogue` model the same page
transaction from two sides, the first its claim, cursor and counters, the second its products.
`IngestionSync` composes the sync with every kind of adapter, `TariffDecision` composes decisions
with activations. `Outbox` implements `EventDelivery` (`INSTANCE EventDelivery WITH` the identity
on `status` and `copies`; `DeliverySpec` is checked by TLC and proved), and `EventConsumer`
implements `EventHandling` (its log is `stream`; `HandlingSpec` likewise): the one ends with entries
on a stream, some of them twice, and the other begins with any such stream.

Conventions. One SQL statement or Redis command is one atomic step; a transaction is one
step when its locks make it so (argued at the head of each module). Between two steps
everything else may happen. Variables and actions carry the names of columns, fields and
functions. Definitions introduced by `Bug:` are the mutations of the definition that
follows them; no specification uses them.

### Outbox

`status`, `retryCount`, `claimToken` and `due` are columns of `outbox_events` (`due` is
`available_at <= NOW()`); `pc`, `held`, `todo`, `cur` and `published` are the local variables
of `Relay.RunOnce`; `copies` counts stream entries. `Claim`, `RecordRefusal`,
`FinishBatch`, `SettleMark` and `SettleRelease` are the five places where `RunOnce` writes,
each with the alternative that the write fails; the three `Publish...` actions are the
outcomes of one XADD, `Cancelled` is the shutdown path through `publishBatch`.
`incidents` and `refusals` are history and feed the properties only.
`EventDelivery` says what all this amounts to: a row is committed, gets copies while it is
PENDING, and is settled once, as PROCESSED only after a copy.

Abstractions: the choice of rows stands for ORDER BY and SKIP LOCKED; a batch is a set, so
any order of publication is covered; a delay is "any time". A lease that runs out under a
live relay counts as a fault, since the configuration makes leases longer than batches.

### EventConsumer

Stream IDs are positions of `stream`; `lastRead` and `pel` belong to the group. A task is
a pair of a consumer and a stream ID, and stands for the lease token too. `loc` and `attempt`
are the state of `processMessage`; the `key...` variables are a row of `idempotency_keys`
per event; `dlq` is `dlq_messages`. An event may have two payloads, so that the guard's
hash comparison has something to find. `EventHandling` keeps of all this the stream, the effects,
the dead letters and the acknowledged IDs.

Abstractions: XAUTOCLAIM's minimum idle time is "any time"; reading and dispatching are two
steps, which covers the pool's queue as far as overlapping deliveries go; trimming of the
stream is left out.

### RunProcessing

A run has `RunLength` records with positions as ids. `bad` is the set of records that the
normaliser rejects, chosen once. `pc` walks through `ProcessRun`. `applied` counts how often
each record's transaction committed since the last reset. The error budget is kept in
percent, and compared without division.

### ProductCatalogue

`row[x]` is the join that `FindSnapshotsByIdentities` reads. Inserted rows are named after the
page's serial number, which replaces random UUIDs. `Fold` is
`identityFold.apply` over the records of an identity in `compareProcessingOrder`, written as a fold
over their set that takes the `Latest` one last; `Conflict` gathers the
misses that make ApplyBatch roll back; `Written` is what it leaves behind. A content stands
for the normalised product, `V1` for its fingerprint, and `Legacy` rows carry an older
algorithm. `outrun` is history: the identities that a page wrote after another page had changed
the row it read. `NewestWinsUnlessOutrun` pins the defect of section 4.2 down to these: without
such a race the newest record shows, in whatever order and pages the records come.

### SourceAdapter

A feed is a sequence of rows, sound, malformed or blank, chosen once, and a checkpoint the number
of rows before it; 0 is the empty checkpoint. `NDJSON` and `CSV` are the two stream loops: both stop
at the limit of sound rows; only CSV reads one row further to learn whether there is one, and its
checkpoint is the offset taken before. An NDJSON line at the end of the file without newline comes
together with io.EOF. `Page`, and `Token` for cursors and Link headers, are the pagination strategies.
A cursor that repeats the one it was asked with is taken for the end of the feed (strategy.go:77-80),
wherever that happens; the module has the server do so at the end of its feed only. A server that
repeats a cursor earlier has its sync complete early, and the rows behind that are not part of
`FeedLength`: that is an assumption on the server, which the code cannot check either.

### IngestionSync

The runs of one source, numbered in the order of their creation, over the feed and the answers
of `SourceAdapter`. `Check` and `Create` are the two statements of `StartRun`; `Persist` is the transaction of
`persistBatch` with the budget check behind it; `Find` and `Update` are the two statements of
`transitionRun`, between which the run may change. `Intervene` is an operator who calls
FailRun or CancelRun, `ResumeRun` one who has StartRun create a run at the checkpoint of a PARTIAL
or FAILED one. Lost replies are disjuncts of `Create`, `Persist` and `Update`. Syncs start at the beginning
or at the checkpoint of a PARTIAL or FAILED run (`SyncParams.InitialCheckpoint`).
Two things leave a RUNNING run that no sync has ever had, without a crash (`unclaimed`): SyncSource
returns when StartRun fails, which it may do after the INSERT has committed; and SyncSource always
starts a run of its own, so nobody can take over the one that `ResumeRun` made. Until somebody calls
FailRun or CancelRun with its ID, StartRun refuses to sync the source. `StrandedRuns` says that besides
these only a death or a failed write of its end leaves a run undriven, and that an unclaimed
run holds nothing.
In this repository only tests call `SyncSource` and `ResumeRun`; the module takes them as the
library they are.

### RegulatoryDataset

A version is loaded once, since (key, version) is unique. Load, review and reject are one
transaction on one row and one step. An activation is `Begin` (lock the dataset, take the
time, `Dataset.Activate`), `Look` (ActiveForUpdate: nothing found, found and locked, or found and
waited for), `Wake` (PostgreSQL looks at the row again when its lock is free; a row that is
no longer ACTIVE drops out, and the version that replaced it is not in the statement's
snapshot), and `Save` or `Refused`. Clocks may read any time, so that nothing depends on how
well those of several hosts agree. `UniqueActive` is the partial unique index, `MaySupersede`
the check of `Dataset.Supersede`.

### TariffDecision

`Coverage` and `Candidates` are the two statements of `Service.ResolveTariff`; activations go on
before, between and after them. The rules of a version are constant: they are inserted with it
and nothing updates them. The candidates are the rows of the second statement in any order, and
`MostSpecific` is the loop of `mostSpecific`, a recursive function of the number of candidates seen,
with `Consider` as its body.
A jurisdiction has several keys (sources), so two versions in force may both have a rule.
`settled` is history: no activation has taken, or takes later, a time at or before the evaluation
time. `SettledDecisionStands` says that this is the only way in which the record of what was in force may
change after a decision; a regload host whose clock is behind, or whose transaction is slow, does
change it, and the code does not exclude that.

### SourceConfig

`edit` holds the changed copy of a service call between its read and its write; `Save` is the upsert of the
whole row. `Register` puts a fixed adapter in the place of any other, as the registry does.
A resolve is `ReadSource` (the caller's), `Lookup`, `LimiterFor` and `Store`. Time is counted in ticks
and a bucket in parts of a token, `TicksPerSecond` of them each, a number that every rate divides: then
a tick adds a rate's number of parts and every debt is paid at a tick, as it is, up to a nanosecond,
in the floating-point numbers of the code. The run has two ticks a second. Three things the module makes visible and the properties
allow for: two overlapping edits lose one of them, and an edit that overlaps a deletion brings the
source back (`Put`), which nothing in the repository excludes and no property does; an adapter that was
resolved before a change of the rate keeps the old bucket beside the new one, each with a full
burst, so that `SourceRateKept` speaks of sources whose rate is not changed, whatever else is; and when a waiting caller gives up, its token goes
back, so that a newcomer may start together with one who waits behind it, within the total of
burst plus rate times time (`RateBounded`), which is the bound the code keeps.

### Migrator

Each version stands for the object its scripts create or drop. `Exec`, `Check` and `Record` are the three
statements of `runWithoutTx`, `RunInTx` the transaction of the others. `older` is the set of sessions
whose snapshots CREATE INDEX CONCURRENTLY has to outwait: those that wait for the advisory lock are
among them, which PostgreSQL resolves as a deadlock by failing one of the two. A process that dies
inside a statement leaves its backend, and the lock, until the statement ends (`gone`).
`OperatorDrops` follows the advice of ErrInvalidIndex between commands only: dropping the index
while a rerun stands between its skipped CREATE and its check would have the version recorded
without its index. A `down` that died between its statement and its bookkeeping leaves a version
that is recorded and undone; a following `up` skips it, and only running `down` again settles it.
`halfway` marks such versions, and `SchemaMatchesRecord` makes no statement on them.

## 3. The runs

| Run | Instance | Shows |
|---|---|---|
| `outbox` | 2 relays, 2 events, batches of 2, 2 attempts, 1 fault, fair | tokens on PENDING rows only, duplicates paid for, attempts equal refusals, `EventDelivery` implemented, every committed event PROCESSED or FAILED in the end |
| `consumer` | 2 consumers, 2 entries on one event, 2 payloads, 2 attempts, 2 faults | one committed effect per event, nothing acknowledged is lost, `EventHandling` implemented |
| `consumer_live` | 2 consumers, 2 entries, 1 payload, 1 fault, fair | every delivered message leaves the pending list, unless deliveries of its event overlap for ever |
| `run_processing` | 2 callers, 3 records in pages of 2, 2 commands, 2 faults, fair | cursor, counters and applied records agree; COMPLETED is whole; a queued run is COMPLETED or FAILED in the end |
| `run_processing_budget` | as `run_processing` | **violated**: section 4 |
| `catalogue` | 2 workers, 2 identities, 3 records, 2 pages | chain of versions, true counters, watermarks that rise, the newest record shows unless a page outran another |
| `catalogue_stale` | 2 workers, 1 identity, 2 records | **violated**: section 4 |
| `sync` | 2 syncs, 1 operator, 2 runs, 5 kinds of adapter, a feed of 2 rows, batches and pages of 1 | checkpoints are backed by saved rows; a queued run is whole and final; one caller feeds a source; a run that nobody drives was left by a death, a failed write of its end, a lost answer to its creation or `ResumeRun`, and a run that no sync got is empty |
| `sync_resume` | as `sync` | **violated**: section 4 |
| `regulatory` | 2 commands, 3 versions of a key and 1 of another, 1 loader and 2 reviewers, 2 times, 9 rules, 4 queries | exactly one version in force from the first activation on; events form a chain; the past stands still; no circle of waiting; decisions stand and take the most specific rules |
| `source_config` | 2 callers, 2 workers, 2 rates, 2 edits, 2 stamps, 2 buckets, 1 tick of half a second | adapters fit the row they were asked for; a bucket keeps its rate; so does the source over all its buckets while its rate stands |
| `migrator` | 2 commands, releases of 3 and 4 versions, versions 2 and 3 without transaction, any number of crashes, fair | no gap in the versions; record and schema agree; commands end |

Why these bounds are enough to be interesting. Two events and batches of two make a batch
that is half published; two attempts separate retry from failure; two relays or workers with
a token more each than they can hold at once allow a takeover and the late writes of the one
taken over; two faults allow a failure on top of a failure (a lease lost, then a crash of the
new owner), and for the outbox, whose safety is proved for any number, one suffices. Two entries on one event are a duplicate publication, and with redelivery make
three overlapping deliveries. Three records in pages of two give a full page, a short page
and an empty one. Two committed pages plus legacy rows give three versions. Two runs
and two rows let a run fail after its first row and be resumed, and a batch be one row, both
or none. With batches of one row a limit falls on, before and behind blank and malformed
rows and on the last one. Three versions of a key let a third activation wait for the second while that one
supersedes the first, or gives up; longer histories and more clock readings are left to the proof,
which covers any number.
The rules have for one query a tie that a more specific rule resolves, a tie that nothing resolves,
an unsupported rate and a missing MFN rate. Two edits and two stamps let rows differ under
one updated_at and an older row be resolved after a newer one; a token of debt and one tick
let a waiter be paid for, fire late or give up while another one waits; with one rate in force two
stamps have the adapter built anew beside one in use, which a second bucket would show. Four versions with two
releases let a rollback begin in a release that lacks the last file. Symmetry is used for payloads,
consumers, workers, identities, contents, syncs, commands, service callers and two of the versions, in runs
without liveness only.

Deadlock is checked in `migrator` and `regulatory`, where somebody can always begin anew. The other
models stop where their bounds (faults, entries, pages, commands, runs, edits) are used up and nothing
is left to do.

### Fairness

- Outbox: weak fairness of time (backoffs and abandoned leases elapse), of the steps of a
  relay that is up (`Relay.Run` polls for ever), of `Start` (the deployment restarts a
  worker); strong fairness of the broker's answers: outages may recur, but not for ever,
  without which nothing can be promised. A refusal counts as an answer.
- EventConsumer: weak fairness of reading, dispatching, the task's own steps and abandoned
  leases; handlers come to an end because the handler's context has a timeout.
  Dispatch of an entry is strongly fair: a sweep finds it again and again, at times between
  deliveries. `EventuallyAcked` admits one exception, which the code has and which only its idle
  times make unlikely: two deliveries of one event may find the key held, or lose it, turn about, and
  neither costs an attempt (`classifier.go:61`). The property says that this alternation is the
  only way for a message to stay pending.
- RunProcessing: weak fairness of the polling loop, of a call's steps and of abandoned leases.
- Migrator: weak fairness of a session that can go on (a statement ends, or fails, or is chosen
  by the deadlock detector), strong fairness of the lock, which PostgreSQL grants in the order of
  the queue. Nobody has to start, rerun or repair anything.

## 4. Findings

1. `process_run.go:342`. The error budget is looked at only by the call that committed a page,
   after its commit. If that call cannot write FAILED, or if an operator processes the FAILED
   run again without `--from-start`, the next call finds an empty page and completes the run,
   over its budget. Run `run_processing_budget`.
2. `batch.go:352-354`. The comment says that a concurrent writer makes the update miss. A
   concurrent page whose newer record matches the stored content moves only watermarks, which
   the guard on `current_version_id` does not see, so an older record may be written on top.
   Run `catalogue_stale`; `NewestWinsUnlessOutrun` in `catalogue` shows that it takes such a race.
3. `service.go:133-137` of `application/ingestion`. A FAILED run may be resumed at its
   checkpoint, but FAILED runs are not processable and never queued, so the rows saved before
   the failure are in no run that is turned into products, although `run.go:24` presents
   `Processable` as telling which runs have such records. Run `sync_resume`. Resuming a PARTIAL
   run loses nothing, and starting over at the beginning does not either.

## 5. What is proved

`OutboxProofs` proves, for any sets of events, relays and tokens and any values of the
bounds:

- `Invariance`: `Spec => []Inv`. `Inv` is `TypeOK`, `RowInv` (a token is found on PENDING rows
  only; an absent row has no attempts, a PENDING one has attempts left, a FAILED one has
  used them up) and `RelayInv` (a relay at work holds a token; it has an event at hand only
  while it records a refusal; its batch consists of committed events, and what it published
  has copies). None of the listed properties is inductive alone: that a row marked PROCESSED
  was delivered needs that `published` has copies, and that it was PENDING needs the token rule.
- `TypeCorrect`, `ClaimsArePending`: from `Inv`.
- `AttemptsCounted`: adds `RefusalInv`: no row has more attempts than refusals, and one whose
  refusal is about to be recorded under a token that still holds has a refusal to spare.
- `DuplicatesBounded`: adds `CopyInv`: the copies of an event, the relays that may still publish it
  or hand it back, and one more if it is open to the next claim, add up to at most one more
  than its incidents. The sum is what is inductive: a claim, a publication and a release each
  move one unit from one term to another, and a lost lease or reply adds one to both sides.
- `DeliveryImplemented`: `Spec => Delivery!Spec`; every step of `Next` is a step of
  `EventDelivery` or leaves its variables alone.

Assumptions: `BatchAssumption`, `AttemptsAssumption` (both positive, as the configuration
requires), `FaultsAssumption`, `RelaysAssumption` (finitely many relays), `NoneAssumption`
(NULL is not a token or an event). TLC evaluates them in the runs of `MCOutbox`.

`RegulatoryProofs` proves, for any sets of versions, keys, persons and commands, and any set of
natural numbers as clock readings:

- `RegulatoryInvariance`: `Spec => []IInv`. `IInv` is `TypeOK`, `LockInv` (an activation owns a LOADED
  version alone; what it waits for was ACTIVE once; what it has locked is still ACTIVE and locked
  by it alone), `ChainInv` (a key with a history has an ACTIVE version, and every other one was closed
  no later than that one opened), `ForceInv` and `EventsFormChain`. `OneInForce` alone is not inductive:
  nothing in it excludes an activation that closes a version which is not the last one of its
  key, and that needs the locks. The lemma at its core is `SaveForce`: an activation leaves what
  was in force before its time as it was, and puts its own version in force from then on.
- `ValiditiesFit` (`OneInForce`), `EventsTellHistory` (`EventsFormChain`), `NobodyWaitsInCircle` (`NoWaitCycle`):
  from `IInv`. Whoever is waited for owns the row, which cannot be, since owned rows are LOADED, or
  is about to save.
- `PastIsKept` (`PastStandsStill`): from `SaveForce`; every other action leaves the times alone.

Assumptions: `KeyAssumption`, `TimeAssumption`, `NoneAssumption`; TLC evaluates them in `MCTariffDecision`.

Its second half is about `TariffDecision`, for any rules, queries and jurisdictions:

- `DecisionsOnlyRead`: `DecisionSpec => Spec`. Seen from the regulatory tables, a system with decisions
  is one without, so every theorem above holds beside decisions too.
- `DecisionStands` (`SettledDecisionStands`). `DecisionInv` is `IInv`, `QuestionInv` (types of a decision) and
  `StandsInv`: while a decision is settled, no activation is under way that took a time at or before
  its evaluation time, and what it covered is what is in force then. The last part alone is not
  inductive, since an activation that is under way may commit later. The lemma at its core,
  `ForceChanges`, rests on `SaveForce`: what is in force at t changes only in the step that commits
  an activation with a time up to t.

- `DecisionTypeCorrect` (`DecisionTypeOK`), `DutyIsMostSpecific` (`ResolvesMostSpecific`). The order in which the
  candidates come must not matter, so `LoopInv` speaks of the set of rules the loop has seen: of
  each measure it holds one that none of them beats, and the measure is tied exactly when another
  of them is not beaten by it. `LoopTurns` shows this of one turn, which takes that being no more
  specific is transitive (`SpecificityOrders`: the clearing of a tie would be wrong otherwise);
  `LoopSeesAll` of the whole loop, for every sequence that has each candidate once; `DutyIsRight`
  draws the conclusion for the HOLD reasons and the resolved measures. `DutyInv` carries that
  through the decision, together with the freshness that was judged before the second read.

Assumption: `TariffAssumption` (a query is not NULL, the sources of a jurisdiction have keys, there
are finitely many rules, and an HS code has a length).

`EventConsumerProofs`, for any consumers, events, payloads, entries, retries and faults:

- `ConsumerTypeCorrect`, `ConsumerEffectAtMostOnce` (`EffectAtMostOnce`), `ConsumerNothingLost` (`NothingLost`).
  `IInv` adds `PositionInv` (whatever names a stream ID names an entry that was added) and `TaskInv`
  (only decoded messages get to the guard; a delivery stands at its XACK only when its message is
  settled). `EffectAtMostOnce` is inductive: COMPLETED is final, and only the transaction that
  writes it commits an effect. `NothingLost` is not: that a message may be acknowledged was found
  out some steps before, and what was found out then must still be so. The lemma `SettledStays` says
  that it is: dead letters and effects are never taken back and the stream only grows.
- `HandlingImplemented`: `Spec => Handling!Spec`. A handler's commit is the event's one effect, an XACK
  comes after settlement, and the rest is invisible from outside. That no effect is due to another
  group's replay alone needs `ForeignInv` besides: a delivery of such an entry is at its XACK or
  nowhere.

`RunProcessingProofs`, for any workers, runs, tokens, records, page sizes, commands and faults:

- `RunTypeCorrect`, `RunProgressExact` (`ProgressExact`), `RunCompletedIsWhole` (`CompletedIsWhole`). `IInv` adds
  `ClaimInv` (no two workers hold the same token; a row with a token is RUNNING) and `CursorInv` (the
  cursor in the hands of the run's owner is that of the row; one that is about to complete is at
  the end). Without `CursorInv` a worker might commit a page that is not the next one, or complete
  the run in the middle, since the statements themselves check only the token.

`ProductCatalogueProofs`, for any finite set of identities, any contents, times, records and workers, and any
batch size and number of pages:

- `CatalogueInvariance`: `Spec => []IInv`. `IInv` is `TypeOK`, `RowInv` (a product is named after its identity, its
  fingerprint is of its content), `ChainInv` (the versions of a product lead to its row, and one is told
  by its number), `SnapInv` (what a worker read was true once: the version it saw exists and belongs to
  the product that the identity still has), `CountInv` and `NewestInv` (the watermark of an identity that no
  page outran is the latest source time of its committed records, and the row shows a record of
  that time). `SnapInv` is what makes the rest inductive: a commit writes what was decided on an old
  row, and the guard on `current_version_id` says only that the version is still the same. Since versions
  are never rewritten, the row is then at the number and the content that were read (`SnapOutlives`),
  and the new versions continue the chain where it ends (`WrittenRow`, `ChainExtends`).
- `CatalogueTypeCorrect`, `VersionsAreChained` (`VersionsFormChain`), `CountersTellTruth` (`CountersMatchRows`), `NewestIsShown`
  (`NewestWinsUnlessOutrun`) from `IInv`; `WatermarksNeverFall` (`WatermarksRise`) from `IInv` and the step.

Both this module and the second half of `RegulatoryProofs` need what a loop over data computes. The
library's induction theorems have an operator as parameter and cannot be used; `NaturalsHave` states
induction for a set of naturals instead (from `WFMin`), `SubsetsHave` for a set of subsets of a finite
set. `FoldExists` and `LoopExists` show that the functions which define a fold over a set and a loop
exist, `FoldHas` and `LoopSeesAll` that what each step keeps holds at the end.

`IngestionSyncProofs`, for any syncs, operators, runs and faults, any feed, all five kinds of adapter, and
any batch and page size:

- `SyncTypeCorrect`, `SyncCheckpointBacked` (`CheckpointBacked`), `SyncQueuedIsFinal` (`QueuedIsFinal`), `SyncOneDriver`
  (`OneDriver`), `SyncStrandedRuns` (`StrandedRuns`). `IInv` adds `RunInv` (a run is driven by the sync
  that created it, and one at most is RUNNING), `ExtentInv` (what a run saved are the sound rows of
  an interval that begins at its start and covers its checkpoint), `DriverInv` (the driver of a
  RUNNING run stands at the end of that interval, or has saved the rest of the feed and is about to
  complete the run), `CallInv` and `FoundInv` (what a transition read is still so, or the run has ended and
  the write will miss), `Accounted` (a RUNNING run has its driver or is one of those left) and `UnclaimedInv`
(no sync holds an unclaimed run, and it stays as it was created). `AnswerShape` is the lemma about the adapters: what any of them answers at a
  checkpoint continues the interval without a gap, and ends at its next checkpoint or, when there
  is none, at the end of the feed. For the feed files that takes the least position at which the
  loop stops, which `WFMin` provides.

`MigratorProofs`, for any invocations, versions, releases and choice of no-transaction versions:

- `MigratorTypeCorrect`, `MigratorVersionTellsAll` (`VersionTellsAll`), `MigratorSchemaMatchesRecord`
  (`SchemaMatchesRecord`). `IInv` adds `Prefix` (the recorded versions are 1 to some n), `ListInv` (the holder
  of the lock has left to do exactly the known versions that are not recorded or, going down, a
  last part of the recorded ones) and `StatementInv` (what holds between the three statements of a
  no-transaction migration: its version is halfway, and its object is as the script leaves it when the
  bookkeeping is due). That nobody else is past the lock is part of `TypeOK`.

`SourceConfigProofs`, for any service callers, workers, rates, stamps, buckets and ticks:

- `SourceTypeCorrect`.
- `SourceAdapterMatches` (`AdapterMatchesSource`), from `WorkerInv` and `CacheInv`: every row in a worker's
  hands, and every row a cached adapter was built from, was once the source's under its stamp; so
  equal stamps mean equal rates, or an ambiguous stamp.
- `SourceRateBounded` (`RateBounded`), from `BucketInv`. `Accounts`: started requests, sleepers and tokens add up
  to at most the burst and what was added since. That alone is not enough, for the tokens may
  be negative; `Solvent` says of every time t from now on that what will be owed at t is owed by
  sleepers whose timers are set to later than t. It is inductive because a timer is set to the
  tick at which the debt with its own token is paid, which needs `Whole`: the rate divides what a bucket
  holds. When a sleeper gives up, the token that goes back makes up for it.
- `SourceKeepsRate` (`SourceRateKept`), from `RequestInv`: while all rates the row has had are one, there is at
  most one bucket, of that rate, and it started every request; `BucketBound` then carries
  `RateBounded` over to the source.

Assumptions of these modules: the sizes and limits are natural numbers, positive where the
configuration requires it; `Rates` are positive and divide `TicksPerSecond`; there are finitely many workers; the
values that stand for NULL are none of the values they are told from. TLC evaluates all of
them in the runs.

Only model-checked, and why:

- `EventuallySettled`, `EventuallyAcked`, `EventuallyProcessed`, `CommandsEnd`: liveness under fairness is out of the prover's reach.
- The violated properties of section 4, which are false.

## 6. Plan

Done: every module of section 2, and the proofs of section 5. To come:

1. Timing of the pool's queue against ClaimMinIdle.
2. `EventDelivery` and `EventHandling` in one specification, whose stream the relays write and the consumers
   read.

## 7. What is not modelled

Field mapping and normalisation are conversions without state; `RunProcessing` keeps whether a record
is accepted. Envelope encoding, the reading of JSON and HTTP in the adapters, credentials, and the
parsing of migration files likewise: the models keep whether they succeed. The HTTP API only reads,
except for the replay endpoint, which is `EventConsumer.Replay`. Configuration, logging and wiring have no
state of their own; limits of the configuration appear as assumptions on constants.
`Service.RecordBatch` and `RawRecordService` have no caller and are left out. The worker pool is there as a limit on
running tasks; its queue is covered by reading and dispatching being two steps. Trimming of
the stream and the lag-loss probe (which only logs) are left out: what is trimmed before it is
delivered is lost, and the retention window is chosen to make that an operator's decision. Duty
amounts and sums of rates are arithmetic on the measures that `TariffDecision` returns.
