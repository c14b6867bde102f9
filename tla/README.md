# Verification of opencode-gateway

TLA+ models of the opencode-gateway service, the TLC runs that check them and
the TLAPS proofs about them. Paths are relative to the repository root;
`PROJECT.json` maps every definition to the lines it models.

## 1. The system

The gateway collects two kinds of facts and serves read models over them.

* **Usage**: collectors on developer machines publish token and cost records to
  Kafka; a consumer POSTs them to the gateway, which books them in PostgreSQL.
* **AFK outcomes**: webhooks of code hosts are published to Kafka as normalized
  events; a second consumer writes them to PostgreSQL and keeps the closure
  projection up to date. AWX jobs register runs, change requests and executions
  through the lifecycle API; a backfill reads the code host directly.

What either consumer cannot store goes to a dead-letter topic (DLQ), which an
operator sweeps. Jobs derive dashboards, repair usage, close forgotten
executions and delete old transcripts. Dashboards, reports, an MCP server and a
frontend read.

### Inventory

| Part | State | Operations | What makes it hard | What makes it correct |
|---|---|---|---|---|
| Normalized-event validation (`app/consumer/afk_consumer.py`, `app/core/repository.py`) | none | decode, validate, map, normalise URL | three vocabularies that must agree; exceptions in the error path | valid events map; equal facts get equal identities |
| AFK outcome consumer (`app/consumer/afk_consumer.py`) | group offsets, `_committable`/`_blocked` dicts, in-flight message, tables | poll, persist with retries, DLQ, commit, recreate, stop | rebalances, crashes and lost answers between the database and the offset commit | no message is committed past unhandled; every one is handled |
| Usage-record consumer (`app/consumer/consumer.py`) | group offsets, in-flight record | poll, POST with retries, DLQ, commit | argument-less commit covers everything read | only records it gave up are skipped |
| DLQ sweep (`app/consumer/dlq_sweep.py`) | DLQ offsets, chunk | collect, classify, escalate, commit | chunks, scan budget, failures half way | nothing is passed unexamined; expired records escalate |
| AFK lifecycle (`afk_outcomes/repository/lifecycle.py`, `executions.py`, `app/api/afk_runs.py`, `afk_executions.py`) | runs, delivery batches, execution bindings, checkpoints, sessions | provision, bind, create or replay, terminal update, checkpoint, retitle, delete | READ COMMITTED transactions, lock waits, unique-index races, timeouts at commit | identities one to one, tables agree, history final, answers true |
| Usage ingest (`app/api/ingest.py`, `app/core/reconciliation.py`, `merge_policy.py`) | legacy records, sessions, canonical events, rollup | book a batch, replay merge, cost correction | two commits per record, concurrent replays | aggregates are the sums of what is stored; replays repair and erase nothing |
| Source identities (`app/core/identity.py`, `app/api/admin_resolve_source_identity.py`) | identities, parents, quarantines | resolve on ingest, quarantine, administrator's resolution | checks and writes in separate statements | overlapping sources are not booked twice |
| Closure projection (`afk_outcomes/closure_episodes.py`, `repository/closure_projection.py`) | links, episodes, unresolved records | recompute after every fact, rebuild all or a window | unlocked and in autocommit, late facts, a unique index | stored rows say what the facts say; a close keeps its row |
| Correlation and backfill (`afk_outcomes/correlation.py`, `scripts/afk_backfill.py`, `repository/crud.py`, `providers/`) | runs, entity and session links, unresolved | fetch a window, correlate, save statement by statement | repeated, interrupted, edited meanwhile | one run per change request; re-running converges |
| Execution reconciliation (`afk_outcomes/service/execution_reconciliation.py`, `scripts/correct_execution_outcome.py`) | execution bindings, audit rows | list, ask AWX, persist; correct | answers are stale when written | history is final; nothing recorded without evidence |
| Historical reconciliation, rollup script (`app/core/reconciliation.py`, `scripts/backfill_client_project_rollup.py`) | usage events, session totals, rollup | scan, detach, delete, re-sum; recompute and verify | run while ingest writes, overlapping scopes | no record is lost; repaired sums are sums |
| Daily dashboards (`app/core/*_dashboard_daily.py`, `scripts/`) | two daily tables, advisory locks | discover, recompute a bucket, delete stale, verify | overlapping and killed jobs, facts that move | equal to a recompute; counts never go back |
| Reporting (`app/api/reporting_ingest.py`, `app/core/reporting_aggregates.py`) | deliveries, trails, aggregates | accept a batch, forward merge | repeats, reordering, ties | each delivery counts once, order decides nothing |
| Ingest projections (`app/api/ingest.py`) | projects, contexts, directories, todos, messages, parts | upsert, delete and insert | autocommit, crossed requests | an undisturbed request leaves what it reported; links stay |
| Transcript retention (`scripts/retention_transcripts.py`) | transcript tables | count, select, delete in batches | parts that arrive meanwhile, a shared limit | only expired rows go |
| Query APIs and pagination (`app/api/usage.py`, `afk_outcomes.py`, `execution.py`, `pagination.py`) | none | lists, details, groups, cursors | one fact computed twice; writers between pages | both computations agree; a walk misses nothing |
| Database pool supervisor (`app/db/session.py`) | current and retired pools, wake and stop flags | connect, verify, publish, retire | wake-ups during replacement, cancellation | an open pool is published again after an outage; shutdown ends |
| Run status, migrations, authentication, configuration, MCP server, frontend | none that the others depend on | reads, I/O | - | - |

Components meet in Kafka (topics, group offsets), in HTTP (usage consumer to
`POST /ingest`; AWX to the lifecycle API) and in PostgreSQL tables. Two
processes of one consumer overlap in practice: the Kubernetes deployment has
one replica but rolls updates, and the group rebalances.

## 2. Modules

| Module | Models | Uses |
|---|---|---|
| `NormalizedEvent` | routes and identities of messages, as operators | |
| `AFKConsumer` | several AFK consumer processes, broker, tables | EXTENDS `NormalizedEvent` |
| `UsageConsumer` | the usage-record consumer and its broker | |
| `DLQSweep` | dead-letter sweep with a concurrent producer | |
| `ExecutionHistory` | abstract: what may ever happen to a recorded execution | |
| `AFKLifecycle` | lifecycle requests as database transactions | implements `ExecutionHistory` |
| `ExecutionReconciliation` | AWX passes, callbacks and corrections | implements `ExecutionHistory` |
| `UsageIngest` | `POST /ingest` and quarantine resolution | |
| `HistoricalUsage` | duplicate reconciliation and rollup script beside ingest | |
| `IngestProjections` | the other collections of an ingest body | |
| `ClosureEpisodes` | the pure episode algorithm, as operators | |
| `ClosureProjection` | recompute and rebuild, statement by statement | EXTENDS `ClosureEpisodes` |
| `Correlation` | the correlation rules and what follows from them | |
| `OutcomeBackfill` | the backfill script over the code host | uses `Correlation` |
| `Dashboards` | both daily tables and their jobs | |
| `Reporting` | reporting deliveries and their merge | |
| `TranscriptRetention` | the retention script beside ingest | |
| `PagedReads` | every paged list, walked while writers run | |
| `ChangeRequests`, `UsageQueries`, `AgentRuns` | answers of the query APIs, as operators over a database | |
| `PoolSupervisor` | the reconnect loop, shutdown, requests and probes | |
| `Values` | the value that stands for NULL | |
| `Algorithms` | what the operator modules promise of well-formed inputs | INSTANCEs `NormalizedEvent`, `Correlation`, `ChangeRequests`, `UsageQueries`, `AgentRuns`, EXTENDS `ClosureEpisodes` |
| `MCAlgorithms` | inputs for TLC | EXTENDS `Algorithms` |
| `MCMaintenance`, `MCIntake` | several state machines in one run | EXTEND them |
| other `MC...` | constants, messages and requests for TLC | the module of that name |
| `AFKConsumerProofs`, `UsageConsumerProofs`, `AFKLifecycleProofs` | theorems about the module of that name | EXTEND it |
| `SumProofs` | lemmas: induction over naturals, sums over finite sets of rows | |
| `UsageIngestProofs` | theorems about `UsageIngest` | EXTENDS it and `SumProofs` |
| `MaintenanceProofs` | theorems about `DLQSweep`, `ExecutionReconciliation`, `HistoricalUsage` and `Dashboards` | EXTENDS them and `SumProofs` |
| `ServiceProofs` | theorems about `IngestProjections`, `PagedReads`, `OutcomeBackfill`, `PoolSupervisor`, `Reporting` and `TranscriptRetention` | EXTENDS them and `SumProofs` |
| `AlgorithmProofs` | theorems about `Algorithms` and `ClosureProjection` | EXTENDS them and `SumProofs` |

`AFKConsumer` composes the message routing with the consumer: the route of a
message decides which actions it takes; `ClosureProjection` composes the
episode algorithm with the statements that store its result, `OutcomeBackfill`
the correlation rules with the statements of `crud.save`. The definitions named
`X_Something` directly before a definition `X` are mutations of `X`: each is a
plausible bug, and with it the property it is listed under in `PROJECT.json`
fails.

### How state and actions correspond to the code

**NormalizedEvent.** `Route` follows `_process_message` up to the decision
persist / dead-letter / raise; `validate_normalized_event`,
`map_normalized_event` and `normalize_repository_url` keep the branches of the
functions they are named after. Strings are classes the code tells apart (a
decodable body, an allowed action, the default port of a scheme).

**AFKConsumer.** One action per stretch between two awaits: `Poll`, `PersistOk`
and `PersistError` (an error may come after the transaction committed),
`SendToDLQOk/Error`, `CommitOk/Error`, `PollError`, `start`, `stop`,
`_signal_handler`, `Crash`. `committable`, `blocked` and `inflight` are the
fields of the class. `Assign`, `Produce` and the unique constraints of the two
tables are external. Metrics, lag gauges and the closure recompute after the
facts transaction change nothing kept here (the recompute is
`ClosureProjection`).

**UsageConsumer.** The same for `consumer.py`, one process: its commit takes no
arguments, so `_commit` moves every partition to the client's position.
`abandoned` records why `_process_message` gave a record up.

**DLQSweep.** `Collect` reads a chunk, `run_dlq_sweep` classifies it, `Publish`
escalates one record, `Commit` commits the chunk, `SweepFails` ends the run
anywhere. `pending` holds the places of the chunk that are still to be escalated. Dry runs and limits are parameters of `sweep_dlq`. Kafka's retention
of the topic and two sweeps at once are not modelled.

**AFKLifecycle.** Every SQL statement is an action of a connection, under READ
COMMITTED: run rows lock FOR UPDATE, foreign keys take share locks, an insert
waits for an uncommitted key, a timeout rolls back or, at the commit, may leave
the transaction committed with a 504. Requests are chosen from a constant set
without limit; `ValidRequests` is what the request schemas let through. The
(nullable) title stands for the compared provisioning payload, a failure
for its reason and summary, and the terminal outcome "cancelled" is folded into
"failed". `CheckpointSelect` and `CheckpointInsert` are the two unlocked
statements of a recovery checkpoint. Re-reads that only build a response body
are left out.

**ExecutionHistory.** Abstract: an execution is recorded once (`Record`), its row
may change while it runs (`Amend`) and is final when it has ended, but for an
audited correction from cancelled to completed (`CorrectOutcome`). Both modules
that write `execution_bindings` are shown to implement it, each with a
refinement mapping that keeps the columns its code may touch.

**ExecutionReconciliation.** A pass lists the oldest running bindings, looks all
jobs up and persists the answers one by one; `Callback` is the playbook's
terminal update, `ReadBinding` and `Correct` are the two transactions of the
correction script. AWX ends jobs and forgets them at any moment.

**UsageIngest.** One action per transaction of a request: `Begin`,
`ResolveCanonicalIdentity`, `Gate`, `CheckBatchOverlap`, then for each record
`CrossIdentityCheck`, one of `ProcessWinner/Identical/Divergent`, `Lookup`, one
of `InsertEvent/ReplayEvent/CorrectCost`, `NextRecord`. The handler runs in
autocommit, so anything may happen between two of them, including
`RecordFails`, `CanonicalFails` and `RequestDies`. A transaction is one step
because each takes its locks in the order record, event, session, rollup and
reads under them. A batch is kept whole: an invalid record is answered
"rejected" when the loop comes to it. The legacy comparison and the legacy fill are one step because
the compared columns never change (checked: `NothingIsErased`). Tokens are one
number, the nullable cache counts another; the wire `cached_tokens` is taken to
agree with the cache counts that a later delivery adds. One client; one session
per source.

**HistoricalUsage.** The reconciliation is one transaction, statement by
statement (`LockAndRescan`, `NullAttempts`, `DeleteEvents`, `SumSessions`,
`WriteSession`, commit or `Rollback`); the rollup script is `CountMismatches`,
`UpsertRollup`, `DeleteStaleRows`, `VerifyRollup`, each in autocommit. Ingest
appears as the transactions that meet them: counting a record in its session,
booking its event, merging a replay.

**IngestProjections.** A body is a list of statements in the handler's order
(`Statements`); each commits by itself, a failure among the directories or the
todos ends its collection (`CutShort`), one elsewhere costs one record
(`Rejected`), a death ends the request.

**ClosureEpisodes, ClosureProjection.** `derive_link_states`, its timestamp
groups and `project_closure_episodes` are operators over a set of facts. A
worker commits a fact, then finds the issues it touches, loads, upserts links,
reads the stored rows, writes episode by episode, and replaces the unresolved
records; a rebuild loads everything or a window. A statement that would make a
second current row raises.

**Correlation, OutcomeBackfill.** The five rules in order of confidence, locking,
lineage, links, outcome and unresolved entries. A pass fetches the window,
correlates each session and saves run, entities, sessions and superseded links
one statement at a time; people retitle change requests in between and the
process may die. Text is the set of references a rule would find in it.

**Dashboards.** A job discovers the buckets with activity and, for each, takes the
advisory lock, runs its queries one by one (each with its own snapshot) and
upserts; a backfill then deletes stale rows and verifies. Facts are recorded,
moved and retracted; a job may be killed and then releases its locks.

**Reporting.** `PersistDelivery` is the transaction of one delivery of a batch,
`DropPost` a lost connection. `FirstAggregate` and the forward-only merge are
operators; because no jsonb codec is registered, the merge with a stored
aggregate raises and the delivery is rejected (section 5), which the action has.

**TranscriptRetention.** Count, batch selection and deletion for each table,
children first; `LatePart` adds a row between any two of them.

**PagedReads.** `Begin` chooses an endpoint, filters and page size;
`KeysetPage`/`OffsetPage` fetch the next page with the endpoint's order and
predicate; writers insert, re-key, delete and link. A sorted result is a place
for every row: any assignment of places that follows what ORDER BY decides
(`Places`), so ties come in every order. The recursive timeline query is
`Descendants`, its paths of distinct sessions, with `DISTINCT ON`; the property
measures distance by chains of links that may repeat a session.

**ChangeRequests, UsageQueries, AgentRuns.** Each query is an operator over a
record of tables, written clause by clause (joins, filters, COALESCE, NULL). A
page of the change-request list is the set of rows whose place in the order is on it.
The tables are at rest while an answer is computed, but for the hybrid answer of
`_fetch_aggregates_rollup`: its two statements see tables of their own (`db`,
`later`), and each takes the label of each row by a lookup of its own with
`LIMIT 1` and no order (`sumPick`, `countPick`).

**Algorithms.** The algorithms have no state, so the state is the input of one of
them and never changes. `AlgorithmsAssumption` says what inputs are well formed:
the fields the parser gives a message, copies of an entity that differ in their
owner only, finite tables whose ids name one row. TLC takes the inputs from
`MCAlgorithms`; the theorems are about all of them.

**PoolSupervisor.** A step is what runs between two awaits of `_run`; a
cancellation is delivered at an await or lost in `wait_for`; `stop` waits and
closes; users acquire, hold, release and report the pool they read.

## 3. Runs

| Run | Instance | Shows |
|---|---|---|
| `afk_group` | 2 processes, 2 partitions of 2 messages, 2 failures, 2 attempts | no skipped message, sound frontiers, every message handled |
| `usage_consumer` | 2 partitions of 2 records, 3 failures | only given-up records are skipped; each record is processed |
| `sweep` | 3 records of 3 kinds, chunks of 2, limits none/1/2, 1 failure, 3 days | nothing passed unexamined; expired records escalate |
| `lifecycle` | 2 connections, 2 runs, 2 jobs (one legacy), 2 change requests | identities, agreement of the tables, the history refinement, true answers |
| `usage_ingest` | 2 requests at once, 2 sources, 4 deliveries of one record, 2 buckets, 1 resolution | rollup and session sums, repair by replay, nothing erased |
| `closure` | 2 workers, 1 issue, 2 change requests, 1 rebuild (full or windowed), 3 rows, 1 overlap of jobs | no row says more than the facts; an undisturbed job is exact; rows keep their close |
| `pool` | 3 pools, a user and a probe, an unlimited number of outages | published means open, the supervisor responds, shutdown ends with all pools closed |
| `maintenance` | dashboards: 2 jobs, 5 plans, 2 changes; reconciliation: 2 jobs, 2 passes of 1, 1 operator; history: 4 events, 2 administrators | derived tables exact, records kept, history final and evidenced |
| `intake` | reporting: 2 posts of 3 batches; projections: 2 requests, 1 failure; backfill: 2 change requests, 3 sessions, 2 edits; pages: 4 rows, sizes 1 and 2, 1 change; retention: batches of 2, limit none/3 | deliveries count once, walks exact, projections, backfill and retention as promised |
| `algorithms` | one input per initial state: 75 664 | each algorithm equals its reference definition |
| `ingest_double_count` | 1 source, first delivery and enriched replay | violated: the session counts the cache tokens twice |
| `closure_stuck` | 1 worker | violated: a recompute that meets no other raises, for good |

**Properties that join several.** Each part has its own comment in its module.

* `TablesAgree` (lifecycle): `BindingAgreesWithRun`, `BindingKeepsItsRun`,
  `SessionsAreLinked`, `CheckpointsFollowExecutions`, `CompletedIsComplete`;
  `AnswersStayTrue`: `AnswersHold` and `BoundIsFinal`.
* `SupervisorResponds` (pool): no wake-up is lost, and the pool is back for good
  once the database stays up.
* `DashboardsAreExact`, `RepairsAreExact`, `OutcomesHaveEvidence` (maintenance):
  stored rows against a recompute and the jobs' own verification; repaired sums,
  verified rollups; completions with their evidence, and passes that record only
  what AWX said last.
* `DeliveriesCountOnce` (what one delivery leaves in three tables; that the order of
  arrival decides nothing is a theorem, and an ASSUME of `MCIntake` has TLC
  evaluate it on three deliveries), `WalksAreExact`, `ProjectionsAreExact`,
  `BackfillConverges`, `RetentionIsExact` (intake).
* `EpisodesFollowFacts`, `CorrelationIsSound`, `ChangeRequestViewsAgree`,
  `UsageViewsAgree` (algorithms): two computations of one thing, in the code
  itself (list and detail) or in the code and its docstring.

**Refinement.** `LifecycleKeepsHistory` and `ReconciliationKeepsHistory` say that
`AFKLifecycle` and `ExecutionReconciliation`, whose writers meet in
`execution_bindings`, both implement `ExecutionHistory` under the mapping given
beside each property: whatever they interleave, a recorded execution keeps its
run and job, a terminal one is final, and only an audited correction moves it.

**Why the bounds are enough.** The consumers keep their dicts per partition, so
two partitions show every mixing of entries; two messages per partition give a
gap with something behind it, and two failures give a crash or rebalance on top
of a lost answer. Failures are the only bounded part of the environment, so that
"once failures stop" is expressible. The sweep needs more records than a chunk
holds. Conflicts in the lifecycle and in ingest are between two requests; there
the number of requests, timeouts, failures and deaths is unlimited, and a
third actor is played by a request that has already finished. `usage_ingest` has
one record id: two identities can each own an event for it, so the sums have two
terms, and its batches deliver it twice. Its bound of one resolution leaves out
two administrators racing each other.

The closure instance has a close and a reopening of one issue and two change
requests that declare to close it, one of which merges and is later edited to a
plain reference, so that rows become current, superseded and stale in every
order; the ambiguous cases are inputs of `algorithms`. Three rows hold the close,
the open interval and the duplicate a race may leave, and one overlap lets two
jobs interleave at every statement. `maintenance` and `intake`
hold state machines that share no modelled table: exploring their product would
show nothing new, so `focus`, chosen in the initial state, lets one of them
run. Their facts are chosen for the branches of the queries (a NULL owner or
provider, a sum past int4, a run that changes its day, tied and missing
timestamps, a cyclic session tree). Two AWX passes of one binding each show a
pass that works on a stale list. Three pools are enough for the published one,
its candidate and one being closed, since closing waits for its users.

**Symmetry** is used where only safety is checked, for interchangeable
connections, workers, jobs and administrators.

**Deadlock** is checked in `usage_ingest`, `closure` and `algorithms`. Elsewhere
the bounded instance really stops (`CHECK_DEADLOCK FALSE`): the consumers when
the stream is read, the sweep when its days are over, the lifecycle when every
request is answered and nothing applies, the pool after shutdown, the jobs and
clients of `maintenance` and `intake` when all have finished.

**Fairness.** Weak fairness of the steps of a running process (its event loop
runs what is ready), of the broker's assignment of free partitions and of the
restart of a stopped pod (Kubernetes), of the answer of PostgreSQL, Kafka or
the gateway once failures stop. `Produce`, signals, crashes, rebalances and
errors are never fair. The sweep assumes strong fairness of an unlimited write
sweep: the operator runs it again and again (a cron job); with only limited
sweeps records of unknown age at the head of a partition use up every budget.
The pool supervisor's loop and its stopper are weakly fair; connecting, testing
and the schema check are strongly fair because a database that is up again and
again answers some attempt. Requests, probes, outages and the shutdown request
are not fair.

## 4. Proofs

Every theorem holds for all values of the constants that its assumptions admit:
any number of processes, connections, jobs, rows and failures. Each is proved
the same way: an inductive invariant holds initially, every action preserves it
(one lemma per action), and it implies the property.

| Module | Theorem | States |
|---|---|---|
| `AFKConsumerProofs` | `TypeCorrect`, `CommitNeverSkips`, `DictsSound` | `[]TypeOK`, `[]NoMessageSkipped`, `[]FrontiersSound` |
| `UsageConsumerProofs` | `CommitSkipsOnlyAbandoned` | `[]OnlyAbandonedRecordsAreSkipped` |
| `AFKLifecycleProofs` | `IdentitiesStayUnique`, `TablesStayConsistent` | `[]IdentitiesAreUnique`, `[]TablesAgree` |
| | `LifecycleImplementsHistory` | the refinement of `ExecutionHistory` |
| | `CallersAreToldTheTruth`, `BindingIsFinal` | `AnswersStayTrue` and its part `BoundIsFinal` (action properties) |
| `UsageIngestProofs` | `RollupStaysExact`, `SessionsStayExact`, `AnswersAreCounted` | `[]RollupIsSumOfEvents`, `[]SessionsTrackUsage`, `[]AnsweredMeansCounted` |
| | `NothingIsEverErased` | `NothingIsErased` (action property) |
| `AlgorithmProofs` | `EveryValidMessageMaps`, `SpellingsAreOneFact` | `[]ValidatedAlwaysMaps`, `[]SpellingsConverge` |
| | `EpisodesAreTheFacts`, `CorrelationConcludesSoundly` | `[]EpisodesFollowFacts`, `[]CorrelationIsSound` |
| | `ChangeRequestsAreOneStory`, `UsageIsOneStory` | `[]ChangeRequestViewsAgree`, `[]UsageViewsAgree` |
| | `ClosureTypeCorrect`, `ClosureIsNeverInvented` | `[]TypeOK`, `[]NothingIsInvented` |
| | `AloneJobIsExact` | `[]UndisturbedJobIsExact` |
| | `RowsKeepTheirClose` | `EpisodesKeepTheirClose` (action property) |
| `ServiceProofs` | `UndisturbedRequestsAreExact` | `ProjectionsAreExact` (action property) |
| | `WalksMissNothing` | `[]WalksAreExact` |
| | `ChangeRequestKeepsItsRun` | `[]OneRunPerChangeRequest`, the safety part of `BackfillConverges` |
| | `PoolTypeCorrect`, `ServesAnOpenPool`, `StopClosesEverything` | `[]TypeOK`, `[]PublishedIsOpen`, `[]StoppedMeansClosed` |
| | `DeliveriesCount` | `[]DeliveriesCountOnce` |
| | `MergeOrderIsIrrelevant` | `MergeIsOrderFree(ds)` for deliveries with different ids |
| | `RetentionKeepsItsPromise` | `RetentionIsExact` (action property) |
| `MaintenanceProofs` | `SweepPassesOnlyExamined` | `[]NoUnexaminedRecordPassed` |
| | `EveryOutcomeHasEvidence` | `OutcomesHaveEvidence` |
| | `ReconciliationImplementsHistory` | the refinement of `ExecutionHistory` |
| | `RecordsStayBooked`, `RepairsStayExact` | `[]RecordsAreKept`, `[]RepairsAreExact` |
| | `CountsNeverGoBack` | `CountedStaysCounted` (action property) |
| | `DashboardsStayExact` | `[]DashboardsAreExact` |

**Assumptions**, all of them evaluated by TLC on the runs' instances: numeric
bounds are naturals; requests, messages, plans and facts have the types the
schemas give them (`LifecycleAssumption`, `IngestAssumption`, `UsageAssumption`,
`DashAssumption`, `ReportingAssumption`, `ClosureAssumption`,
`AlgorithmsAssumption`, `PagedAssumption`, `ProjectionAssumption`, `BackfillAssumption`, and
`RetentionAssumption`, by which a row refers to rows of its parent tables only); NULL is no row and no value (`None` lies outside the types;
`RowsAssumption` says so of the rows of closure episodes);
there are finitely many pools, old events, seeded facts, issues and change
requests. `HistAssumption`
also says that no two events of a record have the same rank `first`, which
stands for `(first_ingested_at, id)`. Nothing is assumed about the order of
steps or about failures.

**The inductive invariants**, and why the property alone is not one:

*AFKConsumer.* A commit is safe only if the dict entries it is computed from are.
`IInv == TypeOK /\ NoMessageSkipped /\ FrontiersSound /\ DownHasNoPosition /\
OnlyEventsStored`: each process' frontier, else its gap, else its read position
covers handled messages; a process that is down has read nothing; a stored
delivery means a stored event. Handled messages stay handled (`HandledStays`), so
the entries of other processes keep their meaning (`SoundKept`); marking a message
extends a frontier by one or leaves it behind a gap; what a commit sends lies
within a sound frontier (`CommitFrontierSafe`).

*UsageConsumer.* `commit()` sends positions, so `ReadIsDealtWith` says that
everything below a position was dealt with, or is the record in flight.

*AFKLifecycle.* A commit writes what its transaction decided many statements ago.
`LifecycleInv` therefore says, for every statement a transaction can be at, which
of the facts it has read still hold of the committed tables (`Sound`), and that no
two transactions hold what excludes the other: the lock of a run, a claim of a
change request, the key of an insert (`Apart`). The refinement and the action
properties follow from it step by step.

*UsageIngest.* `IngestInv == TypeOK /\ RequestsAreSound /\ Balanced /\
AnsweredMeansCounted`: a request past the legacy booking has its record stored
with the tokens it delivers; sessions and rollup are sums of stored rows; the
tables are finite. How a sum moves when a row is added or corrected is
`SumProofs` (`SumGrows`, `SumMoves`). That `SumFunctionOnSet` is well defined is
proved there by induction on the number of rows, with induction stated for a set
of naturals (`AllNaturals`), because the library's induction theorems take an
operator and cannot be instantiated here.

*OutcomeBackfill.* A run saves a link without asking who else has one, so the
property rests on what was looked up before. `BackfillInv` says that the
statements left to write are about one run and that no other run holds a change
request they claim (`Unopposed`). It holds when they are laid out because a
session claims at most one change request (`OneClaim`): only the reference rule
binds a change request with a resolving confidence, and it binds the only one
with the run's title (`OnlyOwnerIsBound`).

*PoolSupervisor.* `PoolInv`: candidate, current and replaced pool are different
pools (`RolesAreApart`); a tested candidate and the current pool are open; and
every open or closing pool is one that the task or `stop` will still come to
(`OpenPoolsAreKnown`).

*Reporting.* `RepInv` adds to the property that a post is inside its batch
(`InBatch`) and that an aggregate's last writer is a stored delivery
(`LastIsStored`). That order decides nothing is a fact about the merge:
`IsAggregate(a, S)` says what the aggregate of a set `S` of deliveries is, without
any order (each key has the value its newest giver gave); a merge makes the
aggregate of `S \cup {d}` from that of `S` (`MergeIsAggregate`), a sequence of
merges therefore that of all of them (`MergedIsAggregate`, by induction on their
number), and there is only one (`AggregateIsUnique`).

*TranscriptRetention.* `RetInv`: the selected batch is there and too old
(`BatchIsDue`), and a run that nobody disturbed has deleted only doomed rows, all
those of the tables it is done with unless its limit is spent (`Progress`). The
expired rows of the current table whose referrers are gone are then the doomed
ones that are left, so the DELETE meets no foreign key.

*IngestProjections.* `ProjectionInv`: while a request is alone, what it has left is
a suffix of its statements, and the rows are what the statements before it stand
for (`Accomplished`): the directories are those inserted so far if the DELETE is
among them, likewise the todos of each session, and a context has its links. What
makes it inductive is the order of the statements (`StatementsAre`, `NextInOrder`):
when a DELETE runs none of its rows has been written, and when a context is
written all projects are. `Each` and `TodoStatements` list sets in an order that
`SetToSeq` chooses; `Arranges` says what they list and `ComesBefore` what any such
order guarantees.

*PagedReads.* `PagedInv` says what a walk has given so far. A keyset walk has given
a row that kept its place once if it is not after the cursor, else never
(`KeysetIsSound`): a page takes the rows up to its last one, and what is after that
one is what is ahead of the new cursor (`CursorMovesOn`), wherever writers put
other rows. An undisturbed offset walk has given as many rows as its offset says,
and under a total order those with fewer rows before them (`OffsetIsSound`): a
row's place is the number of rows before it (`PlaceIsRank`), and as many rows have
places in a range as the range has numbers (`RowsInPlaces`). The timeline's depth is
the distance because a shortest chain visits no session twice
(`ShortestIsSimple`), so the query, which follows such paths only, has it.

*ClosureEpisodes.* The projector is a fold over facts in the order of their times.
The fold operator of the community modules takes an operator, so `FoldInduction`
states induction for the function a fold computes (`FoldsTo`): what holds of the
empty set, and of a part of the facts if it holds of that part without its last
fact, holds of all of them. With it: a walk's episodes are as many as its closes
and in their order, and `DeriveLinkStates` is decided by the latest group.

*Correlation.* What the engine reads of a listing besides the kept copies is the set
of its entities (`SameRangeSameLocks`), and links depend on the kept copies in
fields on which all copies agree (`LinksOfListing`), so the order of the listing
decides the copies but no link. A link is direct, inherited or noise, and
an id has only one of these kinds (`LinksAreUnique`).

*Query answers.* A row of the change-request list is on the page its place belongs to
(`PlaceHasPage`, `PagesAreApart`), and different rows have different places
because the order is total (`PlacesAreDistinct`, `ListIsOrdered`). Sums over rows
are sums over groups of sums over their rows, whatever the groups (`SumByKey` in
`SumProofs`): so groups add up to the total, rollup rows to the events with their
keys (`RollupTokens`), whatever names the lookups give them, and sessions attached
by several paths are paid for once
(`SessionsArePaidOnce`). The provider ranked first by the list's window function
is the one the detail sorts first (`SameProvider`).

*ClosureProjection.* `ClosureInv == FactsGood /\ TablesGood /\ WorkersGood`. A worker
carries out a plan it made from facts and rows that others have added to since.
`WorkersGood` therefore says of every statement a job still has to run that it is
one of `Statements(facts, episodes)`: it writes a row that is true of the facts
(`TrueRows`, `LinkIsTrue`), or updates a row that has the issue and the close of
the row it writes. Both stay true when facts are added and when another job writes
(`Keeps`: a row's issue and close never change), so plans need not be fresh.

What a job leaves that meets no other (`UndisturbedJobIsExact`) needs the
matching of old rows to new episodes and a record of what is done. `AloneOnTrack`
is that record: each row the projection of an issue calls for either
is in the table, where no statement that is left touches it, or is made by one that
is left, and no two of those are about one row (`RowsOnTrack`, `Apart`); for links
it is the same with their keys (`LinksOnTrack`). The plan of an issue makes each of
its rows once because the closes of an issue differ (`PlanIsWhole`), and plans of
different issues are about different rows (`PlansAreWhole`). Jobs load other facts
than all there are; `SameLinks` and `SameEpisodes` say that what the projection
returns depends on the relevant ones only.

*DLQSweep.* `SweepInv` adds that offsets lie within the log (`OffsetsAreWritten`),
that the chunk lies below the position (`ChunkIsRead`), and that
everything below the position was examined or is in the chunk, and of the chunk
everything but `pending` (`ReadIsDealtWith`, `ChunkIsDealtWith`).

*ExecutionReconciliation.* `ReconcileInv`: a status a pass was told is the job's
last one (`AnswersAreTrue`), and a binding an operator read without a lock is
still cancelled or has been corrected by another (`CorrectionsAreDue`).

*HistoricalUsage.* `HistInv`: the earliest event of a record is nobody's victim,
whatever scopes overlap (`EarliestIsKept`); a request that nobody disturbed still
knows the tables it summed (`RequestsAreExact`), and so does the script
(`ScriptIsExact`).

*Dashboards.* `DashInv`: a bucket belongs to at most one working job
(`LocksHold`); the event counts in a row, and those a job holds in memory, are at
most what the append-only events give (`RowsAreBehind`, `ReadsAreBehind`), from
which "never goes back" follows because the lock spans read and write; and the
buckets an undisturbed job is done with are exact (`JobIsExact`).

**What the proofs found.** The first statement of `EpisodesFollowFacts` said that
the last snapshot of a change request decides its links. Its proof failed on two
snapshots of one instant: a webhook outranks a backfill there, whose links are
then not kept. TLC had not met the case because no such pair was among its facts.
The property now says it (`LastSnapshotDecides`), and the facts of `algorithms`
contain the pair.

`RepeatedPassesSettle` said at first that two passes of the backfill are enough. It
held on an instance with two sessions and is false: looking for the argument showed
what each save does to the claims of its run (it keeps the claim of the session that
is saved and drops the others, because every other change request of the window is
linked as noise), and with that a chain. After titles were passed on from one change
request to the next, a session joins the run of its neighbour, and every further pass
sends one session back to its own run. TLC finds the counterexample with three
sessions and two edits, which `intake` has now. The property allows one pass for each
session, counts passes over one window only, and compares the tables at
the end of passes, not within them.

**Only model-checked.**

* Liveness (`EventuallyHandled`, `EveryRecordIsProcessed`, `EventuallyEscalated`,
  `SupervisorResponds`, `ShutdownEnds`): fairness and ENABLED are beyond the
  prover.
* `BackfillConverges`, as far as it says that a pass finds settled what
  as many passes as there are sessions have settled (`RepeatedPassesSettle`): the
  argument above is one about how far down a chain of sessions the claims are in
  order after each pass, and a pass is a fold over the sessions with the tables in it.
  Checked with three sessions, which may need all three passes. That no step claims a
  change request twice is proved.

## 5. Findings

The two violated properties quote a comment and an ADR; `PROJECT.json` has the
lines. Seen while modelling, without a run of their own (the models have the
code's behaviour, and their properties are stated so as to allow for it):

*Consumers and sweep*

* A tombstone, or a URL with a port out of range, raises inside the handler
  (`afk_consumer.py:834`, `app/core/repository.py:43`) and is never
  dead-lettered, against `afk_consumer.py:505-506`; its partition commits
  nothing more.
* After a rebalance a stale `_committable` entry may commit a lower offset
  (`afk_consumer.py:1088`, against the comment at 1027).
* A usage record with used-up retries is committed past, also when its DLQ
  publish failed (`consumer.py:403` and 416, against 48-49).
* A later chunk of a sweep passes a record an earlier chunk retained
  (`dlq_sweep.py:396`, against 343-346). A DLQ maximum age of 0 is documented as
  "never swept" (`README.md:291`) and escalates everything (`dlq_sweep.py:107`).

*Lifecycle and executions*

* A request answered 409 may keep its change-request claim
  (`executions.py:606-607`, against "no mutation" at
  `app/api/afk_executions.py:358`).
* A provisioning replay that omits its deliveries is accepted
  (`lifecycle.py:380`); after a retitle the identical replay is a 409; a
  terminal replay that adds a session is answered 200 and the session dropped; a
  replayed POST of a running execution is a 409 once it is terminal.
* The reconciliation always takes the oldest running executions
  (`execution_reconciliation.py:216`): if they cannot be resolved, no later one
  is reached.

*Ingest, identities and usage*

* `resolve_canonical_identity` (`app/core/identity.py:96-119`) reads
  `canonical_parent_id` from a row that `RETURNING id` does not have: the first
  request of a new source gets a 500 and only its retry is booked. Modelled in
  `ResolveCanonicalIdentity`; the unit tests mock a row with the column.
* A replay that only adds cache counts fills the legacy record and the session
  but not the event (`app/api/ingest.py:2530-2541`); a later cost correction
  that carries the counts is then a conflict. A cost-only replay that has to
  create the event (`ingest.py:2093`) leaves the old cost in the session.
* A record that has an event under two identities (it was replayed after a
  resolution) can be corrected downwards by both; the clamp at zero
  (`merge_policy.py:234-254`) then leaves the session with more tokens than its
  records brought. The proof of `SessionsTrackUsage` met this: the property
  claims equality where every record has one event, and "not less" otherwise.
* Two sources that deliver one record at the same moment are both booked. Two
  administrators may resolve one quarantine
  (`admin_resolve_source_identity.py:60`); after a resolution, replays of the
  resolved identity's earlier records are booked again under the parent
  (`identity.py:115`).
* The COALESCE lists at `ingest.py:1566-1569`, 1748-1750 and 1768-1773 end in a
  comma, which PostgreSQL rejects: of the transcripts only parts of kind text
  arrive.
* Directories are replaced by whatever a body carries; ADR 0008 (157-160)
  speaks of snapshots.
* `usage_events` is unique on the pair `scan_duplicate_groups` groups by, so the
  duplicate reconciliation finds nothing unless the index was missing; sessions
  left without an event keep their totals (`reconciliation.py:672-679`), the
  rollup is not corrected, and `_date_to_end_of_day` misses the last
  microsecond. A reconciliation that re-sums a session between the legacy and
  the canonical booking of a record drops the record from the session's total.
* The cursors of `backfill_tool_calls.py:403` and
  `backfill_usage_events.py:366` are opened outside a transaction.

*Closure, correlation and backfill*

* A windowed rebuild can regress a link or an episode (its change requests may
  have snapshots outside the window), against `closure_projection.py:422-424`.
* An open interval all of whose declarations were revoked has no episodes and so
  stays current (717-719). An empty `issue_links` snapshot is taken for a
  missing one (114-115), so the last link cannot be revoked. Two recomputes at
  once may leave a close with two rows. The current answer shows candidates of a
  record that has been resolved since (`closure_relationships.py:317-322`).
* A redelivery without a provider timestamp stores a second event
  (`crud.py:191-214`). Superseding can leave an entity without an active link
  (`crud.py:352-414`, against 336-338).
* The adapters never fill description and branch (`github.py:316-339`,
  `gitlab.py:215-229`), so two of the rules of `correlation.py:8-9` never match.
  Two backfills at once may claim one change request (`afk_backfill.py:436`).
* When titles of change requests were passed on, re-running a window resolves a
  session to another run than the pass before did, until as many passes have been
  made as there are sessions (`afk_backfill.py:421-445`, against 37-39).

*Derived tables, reports and queries*

* Reporting registers no jsonb codec: the second delivery of a resource is
  rejected, against the docstring at `reporting_aggregates.py:400-405`;
  `verify_reporting` finds no backing delivery for anything.
* A usage event without a provider stops the refresh of its bucket.
* `usage.py:515-527` numbers its placeholders wrongly when neither client nor
  model is given; the grouped records-with-context query (2362-2423) selects
  ungrouped columns; parents and children are matched by `external_session_id`
  without the source (1663, 1788, 1853); list and detail read different clocks.
* The hybrid answer may show counts of zero beside tokens: the sums and the counts
  look up a project's name separately, by `LIMIT 1` without an order
  (`usage.py:328-334` and 399-405), so for a project with two names under two
  sources they may take different ones, against the comment at 367-376. The ASSUMEs
  `TwoNamesZeroCounts` and `OneNameKeepsCounts` of `MCAlgorithms` have TLC show
  this and that one name is safe; `UsageViewsAgree` claims whole rows
  only where no second name is possible.
* Ingest binds dicts and lists to JSONB columns without a codec (`source_payload`,
  `sandboxes`, `parsed_commands`; `ingest.py:1187`, 1193, 1199, 1309, 1396), unlike its
  transcript helpers (1456-1461): where a value is given the statement always raises.
  `IngestProjections` lets any statement fail, so what it says of a request that was
  cut short covers this.
* The change-request list leaves out runs linked by an execution only, against
  the comment at `app/api/afk_outcomes.py:916-922`.
* Offset pages without a tie-breaker (`usage.py:1029` and 1590,
  `admin_quarantines.py:88`, `reporting.py:323`) may repeat or miss rows of equal
  time.
* The retention's dry run undercounts parents whose children expire in the same
  run (`retention_transcripts.py:127-129`), and a part that arrives between the
  selection and the delete aborts the script (101-110).
* The pool supervisor logs "not ready" when it is told of a failure but
  publishes the old pool until the new one is there, and `ensure_schema` has no
  timeout.

## 6. Not modelled

`PROJECT.json` lists every part. For good: frontend, MCP server, authentication,
configuration and the HTTP transports to code hosts and AWX (reads or pure
I/O), the upgrade scripts, whose constraints the models take over, and code
that nothing calls (run status, associations, `save_execution_binding`). In
modelled parts: metrics, logs, audit rows nobody reads, response wording,
single-row reads, free-text search, a usage record whose session was not found
(`ingest.py:2053-2054`), the `owning_change_request_id` stored with a link, writers that
re-time or re-link a stored part, the GitLab adapter beside the GitHub one,
client administration, and the one-shot backfills of usage events, cache-write
tokens and tool calls.

## 7. Plan

The model is complete in what section 6 leaves, and the safety properties of its
state machines are proved but for the part of `BackfillConverges` that section 4 names. When the code changes:

* a changed statement or handler changes one action, whose lemma in the proof
  module then fails where the invariant no longer holds;
* the two findings of section 5 that runs expect to be violated become passing
  properties when the code is repaired: `closure_stuck` needs the supersede before
  the insert, `ingest_double_count` the cache tokens counted once;
* left to prove is the rest of `BackfillConverges`, by the number of sessions whose
  change request is claimed by their own run.
