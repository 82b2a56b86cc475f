# Formal models of the Zentra monorepo

TLA+ models of the parts of this repository whose correctness depends on the
order in which things happen: what is modelled, what TLC checks on small
instances, what TLAPS proves for every instance, and where the code was found
to do something else than its documents say.

Source paths are abbreviated: **AR** = `src/libs/application/analysis_run/src/zentra_application_analysis_run`,
**DAR** = `src/libs/domain/analysis_run/src/zentra_domain_analysis_run`,
**PG** = `src/libs/adapters/postgres/src/zentra_adapter_postgres`,
**API** = `src/apps/api/src/zentra_api`, **F** = `src/libs/foundation`, **POOL** = F/bridge/src/wasm/pool,
**TABS** = F/sync-engine/src/cross-tab,
**SYNC** = F/sync-engine/src, **MODELS** = `src/libs/adapters/model-providers/src/zentra_adapter_model_providers`.

## 1. The system and its parts

Zentra answers analytical questions. A user asks in a *Thread*; the question is
an *Analysis Run*, committed together with a row of the durable queue
`execution_jobs`; worker loops inside the API processes claim rows under a
lease and drive an agent pipeline; its result is published, or held at a human
gate. A browser client keeps a local DuckDB pool, an offline mutation queue and
a realtime connection.

| Component | State | Operations | Interacts by | What is hard | What makes it correct |
|---|---|---|---|---|---|
| **Durable execution** (AR/execution_worker.py, DAR/execution_job.py, PG/execution_job.py) | one row per job: status, attempts, lease, cancellation mark; per worker the handler's locals and its renewal task | claim, renew, retry, complete, fail, cancel; `run_forever` | Postgres transactions with the API; calls `execute_job`, `fail_job`, `cancel_job` | leases that expire under a live worker, takeover, crash between two transactions, cancellation racing everything, an exception that ends the loop | one owner per live lease; attempts bounded; job and run agree; every job ends |
| **Analysis Run, approval, service** (DAR/model.py, AR/service.py, PG/analysis_run.py) | run status and version, approval, retry lineage | start, ask, retry, cancel, decide, publish, fail | optimistic saves (worker) against row locks (requests) | a snapshot held for a whole pipeline | terminal states are final; one Finding; one decision |
| **Work feed and Threads** (AR/thread_service.py, PG/work_feed.py) | event list, `thread_sequence` | append with the transition, stream, archive, delete | same transaction as the change; LISTEN/NOTIFY hints | two requests for one place; a missed notification | each outcome told once and truly |
| **Orchestrator loop, Board, steps** (API/orchestrator_*.py) | Board, work items, shared conflicts | fan out agents, record results, checkpoints | asyncio tasks over one Board | gather that swallows cancellation, a failed step without a message | every item ends; conflicts reach the gate |
| **Audit outbox and ledger** (API/audit_delivery.py, adapters/clickhouse/audit.py) | outbox rows, ledger rows | enqueue with the transition, flush, retry loop, timeline | Postgres row, then ClickHouse append, then a mark | crash between append and mark; a dispatcher racing a flush | not modelled, see section 9 |
| **Model routing, provider breaker** (adapters/model-providers) | per provider: state, window, probe | allow, record_success, record_failure | concurrent calls share the breaker | late results, a probe that reports nothing | one probe; a healed provider is used again |
| **Published visualizations** (AR/visualization*.py) | render rows, jobs of the same queue | request, render, publish | execution_jobs | the same lease hazards | one rendering per request |
| **Evidence erasure** (PG/erasure.py) | erasure requests, evidence rows | request, erase | one transaction | repeated requests | erased once, and for good |
| **bridge: query coordinator, table locks, worker pool** (F/bridge/src/wasm/pool) | per table: readers, writer, two queues; active queries; overflow queue; workers | query, cancel, time out, shut down | callbacks on one event loop | a set of locks taken piecemeal; a promotion that overtakes; a cancelled waiter | writers exclude; whoever is not in a circle is served |
| **sync-engine: leader election** (TABS) | leader, term and timers of each tab | start, stop, elect, heartbeat, resign | BroadcastChannel | two leaders, late timers, a leader that is gone or taken for gone | of two leaders one hears of the other; somebody leads again |
| **sync-engine: mutation queue** (SYNC/queue, SYNC/coordinator, SYNC/http) | rows and id mappings in IndexedDB; per tab a coordinator, its timers, a processor | enqueue, ask for a sync, replay with retries, put conflicts back | IndexedDB shared by all tabs, HTTP to the server, the leader election | two tabs on one row, a lost answer, a tab closed in between, merged requests | each mutation applied once, after what it depends on; none forgotten |
| **data-layer: socket client** (F/data-layer/src/realtime/socket-client.ts, provider) | sockets, timers, cursors in memory and in IndexedDB | connect, handshake, heartbeat, reconnect, disconnect, clear the cache | WebSocket events; the tab that owns the socket broadcasts to the others | events of a socket that was replaced, an attempt that outlives its disconnect, cursors read before and assigned after an await, and shared by all tabs | no cursor passes an event unseen; the owner keeps trying |
| **http interceptors, subscriptions, database** (F/http, F/data-layer, F/database) | breaker windows, subscriptions, storage | retry, open/close, subscribe | promises and sockets | late answers | bounded retries |
| **Workflows** (API/workflow_execution_service.py, API/workflow_runtime.py) | workflow runs and their steps | start, advance | the durable services above | restarts between steps | a step runs once |
| **Connector, sequences** | uploads, catalogues, campaign rows | harvest, upload, schedule | ClickHouse, Postgres | partial failure | idempotent reloads |
| Organizations, auth, query-engine, metrics, front ends, agents and prompts, infrastructure | | | | sequential, pure or rendering | not modelled, see section 9 |

`PROJECT.json` lists every component with its files and status, and every
hazard with its line and the properties that watch it.

## 2. The modules

| Module | What it is |
|---|---|
| `ExecutionJob` | a row of `execution_jobs`, the claim query and every method of the aggregate; no state |
| `AnalysisRun` | the run aggregate and its approval, as functions; no state |
| `RunLifecycle` | abstract: what a run promises to its user |
| `DurableExecution` | workers, leases, requests and faults over the two; implements `RunLifecycle` |
| `DurableExecution_proof` | theorems about durable execution |
| `TableLocks` | the reader/writer locks of the browser's DuckDB pool |
| `QueueLemmas` | lemmas about queues without duplicates, for the locks and the workers |
| `TableLocks_proof` | theorems about the locks |
| `QueryPool` | query coordinator, worker pool and worker instances over the locks |
| `QueryPool_proof` | theorems about the pool, over those about the locks |
| `LeaderElection` | the election of the tab that synchronises |
| `LeaderElection_proof` | theorems about the election |
| `MutationQueue` | the offline mutation queue that all tabs share, and its processors |
| `MutationQueue_proof` | theorems about the queue |
| `SocketClient` | the realtime socket of one tab and its cursors |
| `SocketClient_proof` | theorems about the socket client |
| `ProviderBreaker` | the circuit breaker of the model providers and the calls through it |
| `ProviderBreaker_proof` | theorems about the breaker |
| `MCDurableExecution`, `MCTableLocks`, `MCQueryPool`, `MCLeaderElection`, `MCMutationQueue`, `MCSocketClient`, `MCProviderBreaker` | small instances for TLC |

Composition: `DurableExecution` EXTENDS `ExecutionJob` and `AnalysisRun` and
instantiates `RunLifecycle` under a refinement mapping. `QueryPool` instantiates
`TableLocks` with its own lock variables: `client` is computed from where a
query stands (`LockClient`) and `cleared` is `shuttingDown`; the pool's actions
use `TakeLocks`, `ReleaseLocks` and `ClearLocks`, which are the effects of
acquireLocks, releaseLocks and clearAll without their callers. `QueryPool_proof`
instantiates `TableLocks_proof` in the same way and so has the lock manager's
theorems for the pool's own locks.

## 3. Durable execution, and how it follows the code

One action is one database transaction, or one await that decides what runs
next. Everything may happen between two transactions of one handler, which is
where the hazards are.

* `pc[w]` is the statement of `ExecutionJobWorker._execute`, and of the handler
  it awaits, that worker `w` stands before; `cur`, `snap` and `failure` are its
  locals; `renewal` is the task created at execution_worker.py:172.
* `job`, `run`, `approval`, `board`, `feed`, `retryOf`, `sequence` are rows.
  `run` keeps status, version and the number of evaluations.
* `Claim` is `claim_next` with `ExecutionJob.claim`; the WHERE clause implies
  every check of `claim()`, so one guard stands for both.
* `Load` reads the run without a lock (service.py:406) and `Publish` saves it
  with `expected_version`: `VersionMatches` is the WHERE clause of that update.
* `OpenBoard`/`BoardExists` are the insert that opens each execution: one Board
  per run is a unique key.
* `Complete`, `CancelJob`, `CancelJobRun`, `RecordFailure`, `FailLoad`,
  `FailSave` are separate transactions in the code and separate actions here.
* `Join` is the `finally` block: an error of the renewal task comes out there,
  and leaves the loop (`Die`).
* `Crash` may strike between any two transactions; `Restart` starts the process
  with the same worker id. `OutageKillsLoop` is any transaction of the worker
  that raises: nothing catches it.
* `User` actions hold a row lock for their whole transaction and are atomic.

Abstractions. Time is what methods compare: `lease_live` says that
`lease_expires_at` is in the future, so a successful renewal changes nothing; a
lease ends when nobody renews it (`OrphanExpires`) or, up to `MaxLapses` times,
under a worker that stalls (`LeaseLapses`). The retry delay `available_at` only
postpones a claim, which interleaving does anyway. Content is left out: the
evaluation's outcome is a choice between publishing and the gate. One Thread is
modelled; runs outside it have `sequence` 0. Requests refused without a change
(a wrong role, the same decision twice) are not actions. `delete_evidence`
changes no status and is left out. Visualization jobs share the queue but not
the run, and are left for their own module.

`RunLifecycle` is the user's view: a run is requested, answers once (a Finding,
a gate, or a failure), is decided once, may be cancelled until it has ended,
and is retried as a new run behind everything asked before. Leases, attempts,
crashes and versions do not exist there.

### The query pool

The browser client runs DuckDB in workers over shared files. One event loop
runs the coordinator, so an action is one synchronous piece of it, and what the
model interleaves is what the event loop may: application code (`Submit`,
`Abort`, `Shutdown`) between any two pieces, microtasks (the continuation of an
await that is over, a scheduled `processOverflowQueue`) in any order, and tasks
(a worker's message, a timer) only when no microtask is left. The number of
ticks an await takes is not kept.

* `Acquire` is a call of acquireLocks: for every table of the request it takes
  or queues at once (table-lock-manager.ts:92-124), and `Proceed` is the end of
  its `await Promise.all`. `Release` is releaseLocks with every promotion it
  makes. An entry without holders and waiters is deleted by the code and is
  `Free` here. Readers are only ever promoted together, so their queue is a set.
  A request is a set of tables, which assumes that a caller names a table once.
* `Submit` is `query` with `executeQuery` up to its first await: refusal at
  capacity, dispatch to the least busy worker, the overflow queue, or refusal
  when that is full. `pc` says where the query stands: waiting for locks, queued
  at its worker, running in DuckDB, or returned.
* `LocksAcquired` and `Finish` are what follows the two awaits of
  `executeQueryOnWorkerWithLocks`; `Answer` is the worker's message, which also
  starts its next query; `Timeout`, `Abort` and `Shutdown` are the ways a call
  ends early. `Drain` is one query of a batch of `processOverflowQueue`, which
  schedules itself again while the queue is not empty.
* `settled` are the callers that have been told, `active` is `activeQueries`.

Left out: initialisation, the restart of a failed worker, priorities (any
overflowed query may be next), metrics.

### The leader tab

A `LeaderElection` action is one callback of one tab: a timer, a message, start,
stop. `timers` are the armed one-shot timers of the manager; the heartbeat timer
runs while `isLeader`, the leader check while the channel is open.
`channel[p][q]` holds what `p` has broadcast and `q` has not handled, in order. A
tab that stops loses its channel and timers and keeps its fields, as the manager
does; a killed tab loses everything without a word. `beats` is
`consecutiveQuietHeartbeats`, on which the heartbeat's interval depends.

Time: the timers are between hundreds of milliseconds and seconds and a message
takes a few milliseconds, so a timer normally fires when everything has arrived
(`Quiet`) and the leader check finds that its leader has been heard. There are
two exceptions. The interval of the heartbeat grows from 2000 to 8000 ms
(manager.ts:628-636) and is never reset while `leaderTimeout` stays at 5000 ms,
so that after `SlowAfter` heartbeats the check deposes a leader that lives
(`LeaderSlow`), without a fault and for as long as the tabs are open; the model
bounds this by the terms a tab stands for (`MaxTerm`). And tabs get suspended:
up to `MaxLate` times a timer overtakes messages or heartbeats. Ids matter by
their order only and are numbers. Application messages on the same channel,
`dispose` and browsers without BroadcastChannel are left out.

### The mutation queue

Mutations made offline are rows of one IndexedDB table. `status`, `retry` and
`dependsOn` are columns, `mapped` is the stored table of id mappings; everything
indexed by a tab is memory and gone with it (`Close`).

* Every way to ask for a sync is an action: the debounce timer, the follow-up
  timer, a hook (`SyncByHand`), an election (`Elected`), another tab's message
  (`OnlineHeard`), the network (`GoOnline`), `Start`. `Sync(t, asked)` is
  `sync()` with the value `pendingSyncRequest` has when it is called, since a
  call that finds the mutex taken only leaves that mark, and the `finally` block
  of the running one looks at it (`EndSync`).
* `proc[t]` is the sync that runs in a tab: `pc` is the await it stands at,
  `todo` what is left of the batch, `seen` the rows as it read them, `done` the
  `completedIds` of this call of `process()`, `cur` the mutation in its hands.
  A row is read in one action (`ListPending`, `ListAgain`), marked in another
  (`Take`), carried out by the server in a third (`Carry`), and each outcome is
  written after it: `Persist` and `Complete`, `Fails` or `Conflicts` and
  `PutBack`. Another tab acts in between wherever the code awaits.
* An update of a row that somebody deleted changes nothing, in Dexie and in
  `Write`. `ClearAll` is the clearing of the cache, which the data-layer also
  does when the user changes; processors go on with what they hold.
* `contested`, `unanswered`, `stranded`, `dropped` and `split` are histories.
  They name the cases in which the code breaks a promise, so that the
  properties can say that nothing else does.

Abstracted: what a conflict's resolution writes, delays, failures of IndexedDB,
the limits of the table of mappings (1000 entries, 24 hours).
`HttpMutationAdapter.execute` never throws, so that the retry loop of
`processMutationWithRetry` makes one attempt and retries are the row's.

### The realtime socket

A `SocketClient` action is one turn of the event loop: an event of a socket, a
timer, an answer to an await, a call of the provider. `attempt` is the await of
`doConnect` and its socket; `ears` are the listeners a socket has, since a
replaced socket keeps its own and they write to the client of its successor.
`held` is the reconnect timer the client knows of, `leaked` those whose handle
was overwritten. The server may send any event at any time, again or not at all.
A tab that does not own the socket hears what the owner broadcasts (`Ingest`).

`cursor` is the topic's entry of `cursorStore`, `stored` the one this tab has
last written to IndexedDB. That is one key of all tabs, kept across sessions,
and every write replaces the whole store; so `ReadCursors` finds what this tab
has written or anything else, as a tab that has seen more, one that has seen
less and one that does not know the topic may all have written since. `applied`
is a history of the events that the queries were given. Of each cursor a
history, `from`, tells where this tab took it over; it answers for the events
after that.

Clearing the cache is four steps: `ClearCache` (disconnect, and clearResumeState
with its write), `DatabaseCleared` (clearAll, the cursors included),
`CacheCleared` (`queryClient.clear()`, and connect if the tab owned the socket
when it was called) and `ClearFails`, after which the rest does not happen. An
event that is heard, or a cursor that an attempt brings back, in between leaves
the cursor ahead of the emptied queries; since these are fetched anew from then
on, the tab takes the cursor over there.

### The provider breaker

All model calls of the API process share one breaker. Between two awaits a call
is alone, so that skipping rungs, asking `allow` and sending the request are one
action (`Walk`), and so is what an answer brings about (`Succeeds`,
`FallsThrough`). `EndsUnreported` are the ways out on which neither
`record_success` nor `record_failure` is called; `CoolDown` is the passing of
the 60 seconds. `probe` and `lost` are histories: who was let through half open,
and which provider's probe ended without a report.

## 4. What the runs check

| Run | Instance | Shows |
|---|---|---|
| `durable_safety` | 2 workers, 1 run, 2 attempts, 2 faults, 2 lapses, 1 cancellation | `TypeOK`, `Consistent` (the inductive invariant), `JobRunAgreement`, `FeedTellsOutcome`, `ApprovalAgreement`, the action properties `EndsAreFinal` and `LeaseIsOwned`, and `ImplementsLifecycle` |
| `durable_lineage` | 1 worker, 3 runs, 1 cancellation | `RetryLineage` |
| `durable_settles` | 2 workers, 1 run, 2 attempts, 2 faults, 1 lapse | `JobSettles`: every queued job ends, unless all worker loops are dead; `RunSettles`: every running run leaves `running`, unless a crash or an outage came in between |
| `locks` | 4 queries, 2 tables, every request but to read the second table alone | `TypeOK`, `Consistent` (the inductive invariant), `WritersExclude`, `EntriesCountHolders`, `NoLostWakeup`, `NoCircularWait`: every circle has a reader of several tables in it; and `EveryoneIsServed` where there is no circle |
| `pool_safety` | 4 queries, 2 workers of capacity 1, 3 active, 1 overflow slot, 1 table | `TypeOK`, `StatementsExclude`, `LocksGivenBack`, `ActiveAwaitsAnswer`, `CallersAreTold` |
| `leader_election` | 2 tabs, one late timer, one stop, one kill, slow after 1 heartbeat, terms up to 3 against a live leader | `TypeOK`, `SplitBrainHeals`: of two leaders one has news of the other; and `OneLeadsAgain`: whatever deposes a leader, one tab leads again |
| `queue_tabs` | 2 tabs, 2 mutations, a batch of 1, 2 retries, 2 faults | `AppliedOnce`, `NothingForgotten`, `SentResolved` |
| `queue_alone` | 1 tab, 2 mutations, 2 faults, 2 calls | `TypeOK`, `DependenciesFirst`, and `RequestsAreServed`: what waits when a tab is asked to sync is looked at |
| `socket_client` | 2 sockets, 3 events, 3 calls, 2 faults | `TypeOK`, `NoSilentLoss`: no cursor passes an event that the queries were not given since it was taken over; `NotStranded`: an owner is connected or will try; `StaleReadyEnds`: a dead connection is noticed |
| `provider_breaker` | 3 callers, 2 providers, window 5, threshold 3 | `TypeOK`, `OneProbe`, `ProbeAccounted`, and `CooledIsTried` |
| `durable_abandoned` | 1 run, 1 fault | violation of `NoAbandonedRun` |
| `queue_gives_up` | 1 tab, 2 mutations, 1 fault, 1 call | violation of `GivenUpOnlyBlocked` |

Bounds. Two workers are what a takeover needs: the one that lost its lease and
the one that got it. Runs meet each other only in a Thread's lineage and in
competing for workers, so one run suffices for the lease hazards and three for
a lineage (an original, its retry, and a question between them). Two attempts
give a retried and an exhausted job. Two faults allow a crash during the
recovery from a crash; two lapses let a lease change hands twice while its
first holder is still executing. `MaxFaults`, `MaxLapses` and `MaxCancels`
appear in guards only; evaluations are bounded by the code's own limit of 3.
Deadlock is not checked, since a system in which everything is finished and
the bounds are used up does stop. Symmetry over workers and runs is used in
runs without liveness properties.

Two tables and four queries are what a circular wait needs: two queries that
hold and wait crosswise, and the holders whose releases order them. The two
tables are alike, so that reading one of them alone is enough. With reads of
both, circles do happen in `locks` (section 7). In `pool_safety` two workers of
capacity one are full after two queries, the third overflows, and the fourth
meets a full pool; a single table suffices, as what several tables add is the
matter of `locks`. While both workers are busy `Drain` finds none for the
overflowed query, and as it schedules itself again as a microtask (section 7) no
answer is handled any more: in this run an overflowed query leaves the queue by an
abort or by shutdown only, and its way to a worker is covered by the theorems
alone. Two tabs are enough for split brains, for an election that
meets a stop and for a leader that is killed; a third tab and more late timers
were tried in longer explorations (section 7), and the theorems have any number.
One heartbeat is enough to be slow, as nothing else counts them; a term up to 3
lets a live leader be deposed more than once. When these depositions are used up
the leader stays, so that what `OneLeadsAgain` says for ever is checked through
finitely many of them.

Two mutations, of which the second may depend on the first and mentions its
provisional id, and a batch of one are what dependencies, mappings and a second
reading of the queue need; two tabs are what two readers of one row need. With
two tabs `MaxCalls` is 0: no tab is ever elected, and `Start` is what asks for a
sync; its timers and the end of a sync may ask for more. Elections, hooks and
stops are added by `queue_alone`. Two retries give a mutation that is put back
and one that fails for good; two faults allow a tab to be closed after an answer
was lost. The socket client needs two sockets for a replaced one that still
speaks, three events for a gap, and three calls for a tab that owns, loses and
regains the socket, or clears its cache in between. The breaker runs with the
code's own window and threshold; three callers are a probe, one that was let
through before the breaker opened, and one that comes after both.

Every property has a mutant: a definition of the model, changed as a plausible
bug would change it, under which TLC finds that property violated. The mutated
forms stand before the definitions they replace and say what they forget.

## 5. Fairness

`FairSpec` assumes that a worker holding a job goes on (weak fairness of
`Execute`: an asyncio task that is ready runs), that a process that went down
is started again (weak fairness of `Restart`: its supervisor), that time passes
(weak fairness of `OrphanExpires`), and that a job that can be claimed again
and again is claimed (strong fairness per run of `Claim`: `claim_next` orders by
`available_at, created_at`, so that nothing overtakes a waiting job for ever).
Users, faults, renewals and lapses owe nothing. A worker whose loop died stays
dead: no code restarts the task.

`TableLocks`: a caller whose locks are there goes on, and one that holds locks
releases them (the `finally` of the coordinator; DuckDB ends each statement).
`QueryPool`: microtasks run, DuckDB answers, armed timers fire; callers owe
nothing. `LeaderElection`: messages arrive (weak fairness of `Receive`), and an
armed timer, a heartbeat or a leader check fires if it could again and again
(strong fairness, as between heartbeats the network is quiet again and again).
Starting, stopping and being killed owe nothing.

`MutationQueue`: timers fire and the processor goes on (weak fairness of each
timer and of `Process`: writes to IndexedDB end, and the HTTP client has a
timeout of its own); the network, users and tabs owe nothing.
`SocketClient`: what the client itself owes is done (weak fairness of `Attempt`),
a closing socket closes, and the heartbeat timer fires when the socket is no
longer open to restart it; the server owes no event. `ProviderBreaker`: time
passes, every request is answered, fails or is cancelled, and callers call again.

## 6. What is proved

### DurableExecution_proof

It holds for every set of workers and runs and all
bounds, from the named assumptions on the constants (`MaxAttempts` is positive,
`NoWorker` and `NoRun` are nobody, the bounds are natural numbers).

* `InductiveInvariant`: `Spec => [](TypeOK /\ Consistent)`. The three
  agreements are not inductive alone. What is missing is what the code relies
  on silently, and `Consistent` adds it: a worker holds a run exactly while it
  handles one (`WorkersHoldRuns`); run and job rows appear together
  (`RowsAppearTogether`); a version in memory that still is the row's version
  *is* the row (`SnapshotsAreVersions`, which makes an optimistic save as good
  as a lock); and what has been committed when a worker stands before a
  statement (`StagesFollow`). Types and consistency are proved together, since
  a worker's writes are typed only because it holds a run.
* `TypeCorrect`, `JobsAgreeWithRuns`, `FeedIsTruthful`, `ApprovalsAgree`: its
  consequences.
* `LeasesAreOwned`: the action property `LeaseIsOwned`. No step of a worker
  ends or extends a lease of another one that is still live, also of a worker
  that lost its lease and goes on; each action either keeps the lease or is
  guarded by its owner.
* `TerminalStatesAreFinal`: the action property `EndsAreFinal`.
* `RetriesFollowTheirOriginals`: `RetryLineage`. The lemma below that maps steps
  to the lifecycle says which steps insert a run or change a place; what is
  missing for induction is that a run nobody asked for yet retries nothing and
  has no place in the Thread (`Lineage`).
* `ImplementsRunLifecycle`: `Spec => Lifecycle!Spec`. Publishing and failing
  map to `Answer`, a cancellation (by the request or by the worker) to
  `Cancel`, a decision to `Resolve`; every other worker step, lease step and
  fault is a stutter.

Layout: lemmas on the methods of the aggregates; types action by action;
`Consistent` split into what it says of one worker and of one run; lemmas for
steps that only read, that change the job, that change the run, and for
requests; then the theorems, of which the refinement is `StepImplements` for one
step. `Advances` is the common consequence: a run's
change is a newer version, and an end is final.

### TableLocks_proof

For every finite set of callers, every set of tables and every set of requests
(`FiniteQueries`, `RequestAssumption`; finiteness is what makes a reader count a
cardinality), also those with which queries deadlock.

* `InductiveInvariant`: `Spec => [](TypeOK /\ Consistent)`. `Book` says of an
  entry what the code keeps of its holders and waiters: the counter counts the
  readers, the queues hold exactly the waiters and each once, readers and a
  writer never hold together. That is not inductive without two more facts:
  somebody holds whatever is waited for, or the next caller would overtake; and
  readers wait only where a writer holds or waits, or a release could leave
  them behind.
* `TypeCorrect`, `WritersHaveExclusiveAccess`, `EntriesAgreeWithQueries`,
  `NobodyWaitsForAFreeTable`: its consequences.
* `NobodyWaitsInACircle`: `NoCircularWait`, whatever is requested: in every
  circle somebody reads several tables and has got one of them, and those
  circles do happen (section 7). What excludes circles among writers is less the
  canonical order of the tables, to which the code's comment ascribes it, than
  that acquireLocks does not await between two tables: a query takes its place
  for all its tables in one step and so gets a turn, and whoever waits to write
  a table waits for writers with an earlier turn (`InTurn`, kept by every step
  for some assignment of turns, whatever is requested). Readers are outside this
  order, as a writer's release promotes them past waiting writers; but one that
  reads a single table and holds it waits for nothing, and so closes no circle.
  In a circle without a reader of several tables that holds one, the first
  writer by turn contradicts `InTurn`; that there is a first one is the
  library's well-foundedness of `<`.

Layout: what appending to and serving from a queue does to its elements; then
one lemma per way an entry changes (a table is taken, a query queues, a reader
or a writer releases), each from `Book` to `Book`; then one lemma per action;
then the turns, action by action. `HandedOver` says table by table what giving
back does to holders and waiters, for the books and for the turns.

### MutationQueue_proof

For every set of tabs, every number of mutations with any dependencies and
references to earlier ones, every batch size, and all bounds.

`IInv` adds to the types what a processor may rely on about the mutation it
handles (`TabOK`), what the rows say of the server (`RowOK`), who may still send
a mutation (`OnceOK`) and what every tab knows of the mappings (`MapsOK`).
`AppliedOnce` alone is not inductive: a mutation that was put back may be sent
again only because it was not carried out, one on a tab's list is not carried
out yet, and no two tabs have one mutation unless it is contested. `TypesHold`,
`AppliedOnceHolds`, `NothingForgottenHolds`, `DependenciesFirstHolds` and
`SentResolvedHolds` are its consequences.

Layout: types action by action; four lemmas on what most steps leave alone, one
per part of the invariant; one lemma for all steps between syncs (`Rests`); one
per step of the processor; then the theorems.

### ProviderBreaker_proof

For every set of providers, callers and chains, any window and threshold.
`OneProbeHolds` says that a half-open provider admits no second call before some
result of it is recorded; a late failure is one, and after it and a further
cooldown a second probe may run beside the first (section 7).
`OneProbeHolds` and `ProbeAccountedHolds` need their converse, that whoever is
counted as a probe holds the mark of its provider (`ProbesMark`). `TypeCorrect`
adds that the window never outgrows its limit.

### QueryPool_proof

For every set of queries, tables, workers and requests, and every capacity. The
pool is one user of the lock manager: each of its steps is, in the instance of
`TableLocks` under `LockClient`, a call of acquireLocks, releaseLocks or
clearAll, or nothing (`LocksKeep`), so that the books of the locks stay right by
the proofs of `TableLocks_proof` and are not proved again. The inductive
invariant adds `Placed`, that a worker's queue and its current statement are
exactly the queries routed to it, each once, and `Told`, who has been told at
which stage. It holds with the lock manager's clearAll at shutdown, when
statements still run; `StatementsExclude` then follows as nothing runs that the
locks do not know.

* `WritersRunAlone`, `LocksAreGivenBack`, `ActiveQueriesAwaitAnswers`,
  `CallersHear`, `TypeCorrect`: its consequences, one per property of the run.

### SocketClient_proof

For every number of sockets, events, calls and faults; a client that may open no
socket at all has nothing to reconnect, hence `MaxSockets # 0` among the
assumptions. `NoSilentLoss` and `NotStranded` need three facts that the code
keeps without saying so: a socket has the listeners of the handshake exactly
while the attempt waits for it (`Attached`); unless a replaced socket has closed
late, the only live socket that is listened to is the current one, so that no
ACK throws between a cursor and the queries, and the cursor an attempt has read
answers for no more than the others (`Covered`); and a reconnect timer is
forgotten only when a second socket ends (`LeaksCounted`, which bounds the
counter of the type invariant). `CursorsCoverEvents`, `OwnersAreUnderWay` and
`TypeCorrect` are the consequences. Nothing is assumed of what other tabs and
sessions write.

### LeaderElection_proof

* `TypeCorrect` and `InductiveInvariant`, for every set of tabs: a leader leads
  with the term of its own election, nobody knows a term that no tab has stood
  for, no message is ahead of its sender (`Terms`), and the last word of a leader
  in every channel is that it leads (`LastWord`).
* `SplitBrainEnds`: `SplitBrainHeals`, for every set of tabs and all bounds.
  Claims are ordered by term and id (`Beats`); a claim that an existing leader
  beats, also one of a tab that has not finished its election, is contested by a
  message under way (`Contested`). When that message is handled, the leader
  answers or the claim ends, unless the claimant has learnt a higher term from a
  third tab (`Overtaken`). That exception is part of the property and not an
  artefact: a candidate of term 1 that learnt of term 3 ignores the leader of
  term 2 and becomes leader all the same (section 7).

Layout: what posting, detaching and receiving do to the channels; types; each
action as one of six kinds of steps as far as claims and channels are concerned
(`StepKinds`: it rests, a tab stands, leads, speaks, leaves or hears); then one
lemma per part of the invariant with a case for each kind.

The inductive invariants that the models state (`Consistent`, `InTurn`, `Terms`,
`LastWord`, `Contested`) were checked by TLC on instances like those of section 4
before they were proved.

### What is only model-checked

Liveness (`JobSettles`, `RunSettles`, `EveryoneIsServed`, `OneLeadsAgain`,
`RequestsAreServed`, `StaleReadyEnds`, `CooledIsTried`), which the prover does
not treat. Every invariant and action property of a passing run is stated by a
theorem, for every value of the constants and with no hypothesis besides the
named assumptions on them.

## 7. Findings

1. *A run can stay `running` for ever* (`durable_abandoned`).
   `_record_failure` commits the failed job and only then fails the run, in
   transactions of its own. A crash or an outage between them leaves a running
   run under a failed job, which cannot be claimed, cancelled or retried.
2. *A mutation is given up although nothing blocks it* (`queue_gives_up`).
   `completedIds` lives for one call of `process()`. A mutation that depends on
   one completed by an earlier call finds its dependency unmet, and when it is
   all that is left, it is marked failed.

`PROJECT.json` quotes the comment or document each of them contradicts.

Met while modelling, and visible in the models as exceptions of a property or in
explorations, without a run of their own. Of durable execution:

* A cancellation that arrives after the worker's check and before its requeue of
  a transient failure is accepted and lost: the job is queued and marked, and
  `claim_next` excludes marked rows.
* Recovery and retry do not resume: each execution starts by inserting the run's
  Board, and the second one violates its unique key, a permanent failure.
* A lost lease ends the worker loop: the renewal task's exception leaves
  `run_forever`, and the jobs behind it wait for a process restart.

Of the query pool:

* A reader and a writer of two tables can wait for each other. A writer's release
  lets all queued readers in, also those that queued behind a waiting writer
  (table-lock-manager.ts:161): one query holds Y and waits for X to write both,
  another waits for both to read them, gets X and waits for Y. Sorting the tables
  does not help, since all of them are requested at once; the comment at lines
  71-73, that it prevents deadlocks, claims more than the code does. (The circles
  that `NoCircularWait` and `EveryoneIsServed` leave.)
* `processOverflowQueue` schedules itself as a microtask while the queue is not
  empty, also when no worker is available (query-coordinator.ts:421); the
  worker's message that would free one is a task and is never handled.
* A query taken from the overflow queue and aborted while it waits for its locks
  throws into a promise nobody handles; its caller is never told
  (query-coordinator.ts:412; the exception in `CallersAreTold`).
* The worker is chosen by its queue length before the locks are awaited
  (query-coordinator.ts:257), so several queries may pass the test of
  `maxQueuePerWorker` (POOL/types) and its queue grows beyond it.
* A timed-out query is rejected but not aborted (query-coordinator.ts:226): if
  it waits for locks it is executed all the same, a write included.
* A call of `query` during the initialisation finds `pool.initialize()` returning
  at once (query-coordinator.ts:72) and marks the coordinator ready with no
  worker; the factory avoids this.
* A caller that names a table twice in a write waits for itself
  (table-lock-manager.ts:86).

Of the tabs:

* A tab may be *stranded*, without a leader and with nothing that would start an
  election (`Stranded`, the exception in `OneLeadsAgain`): after stop() in an
  election and a new start(), as `isElectionInProgress` is never reset; and after
  a leader adopted another tab of its own term by a heartbeat
  (manager.ts:793), lost it again to its resignation, and stepped down for a
  candidate that was then closed.
* A candidate that learnt of a higher term still becomes leader with its lower
  one (manager.ts:518, against the comment at :511). With two tabs this heals;
  with three, one tab can refuse the leader until further heartbeats.
* The heartbeat interval grows from 2000 to 8000 ms after three quiet heartbeats
  (manager.ts:628-636) while `leaderTimeout` stays at 5000 ms, and nothing calls
  `resetHeartbeatInterval`: a quiet leader is taken for dead again and again, so
  that no tab leads for good (`LeaderSlow`).

Of the mutation queue:

* Two tabs that read one row as pending both send it; so does a retry of a
  mutation whose answer was lost (`contested`, `unanswered`).
* A tab closed between the mark `in_progress` and the end of the mutation leaves
  a row that no session ever reads again (`stranded`).
* The table of mappings is written as each tab knows it, and a tab reads it once:
  two tabs lose each other's ids (`split`). `persistIdMappings` reports a failure
  and swallows it (queue/manager.ts:187), so that the rollback of its caller
  never runs.
* Clearing the cache, or another user's login, deletes the rows of mutations
  that were never sent (`dropped`; F/database/src/core/database.ts:309).
* `createOfflineMutationFn` returns an id that is not the row's
  (SYNC/tanstack/mutation-fn.ts:86).

Of the socket client:

* A reconnect whose ticket, opening or handshake fails is logged and not tried
  again (socket-client.ts:907; the exception `failed` in `NotStranded`).
* The close of a replaced socket disconnects its successor, which stays open; the
  ACK of an event that it delivers throws after the cursor is recorded and before
  the queries are told (the exception `raced`).
* The stored cursors belong to all tabs and outlive the session
  (socket-client.ts:380, 772-774). A tab that becomes the owner resumes from
  where another one was, though events before that may not have reached its own
  queries; a tab that writes its store moves topics back or drops topics it does
  not know; and an attempt that has read the cursors puts them back over what
  was received or cleared meanwhile. `NoSilentLoss` does not forbid these: it
  starts from whatever position was taken over.
* When `clearAll` fails, or the write before it, the client stays disconnected
  and nothing reports it but a log or the caller of `clearCache` (`ClearFails`,
  and the exception `manual` in `NotStranded`).

Of the server:

* A probe that ends in ProviderAuthError, is cancelled, or is a stream that its
  reader abandons reports nothing (MODELS/router.py:97), and its provider is not
  tried again (`lost`). A success does not clear the window of outcomes, so that
  one more failure may reopen the breaker.
* A late failure of a call from before the breaker opened clears `probing` while
  the probe is under way (MODELS/breaker.py:77); after the next cooldown a
  second probe runs beside it. `OneProbe` ends with the first result recorded
  and does not forbid this.
* `_entry` (API/audit_delivery.py:290) builds an AuditEntry with a field that its
  schema forbids and without one that it requires (clickhouse/audit.py:49-57), and
  `list_for_analysis_run` (audit_delivery.py:159) does not exist: as it stands, no
  event reaches the ledger.

## 8. Plan

Done: durable execution with its abstract lifecycle; the table locks; the query
pool; the leader election; the mutation queue; the socket client; the provider
breaker; and proofs about each of them.

Next, most important first:

1. `Board`: work items, fan-out, checkpoints, conflicts; visualization jobs on
   the durable queue; evidence erasure; event sequences and notification hints.
2. http breaker and retry, file sync, workflows, connector harvest, sequences.

## 9. What is not modelled, and why

The audit outbox and ledger: what the code does is to fail before anything is
appended (section 7), and a model of what it seems meant to do would not be one
of this code. The restart of the pool's workers, and delete and clear of the
queue manager, have no caller. The Board, the http interceptors, the session of
`auth`, file sync and shoulder taps, workflows, the connector and sequences are
planned or smaller than what is modelled.

Left out as well: the content of questions, findings and evidence; the agents
and language-model calls; SQL and query translation (`query-engine`), which is
pure; rendering and front ends; authentication, which wraps external services;
organizations and workspaces, whose handlers are one transaction each;
telemetry; configuration and migrations, whose constraints are used where the
models need them.
