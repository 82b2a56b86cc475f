------------------------------ MODULE QueryPool ------------------------------
(***************************************************************************)
(* The DuckDB query pool of the browser client: QueryCoordinator,          *)
(* WorkerPoolManager, WorkerInstance and PriorityQueue over TableLocks     *)
(* (bridge, wasm/pool).                                                    *)
(*                                                                         *)
(* One event loop runs it.  An action is one synchronous piece of it:      *)
(*   - application code (Submit, Abort, Shutdown), in a task or in a       *)
(*     microtask of its own;                                               *)
(*   - a microtask, the continuation of an await that is over              *)
(*     (LocksAcquired, Finish) or a scheduled processOverflowQueue (Drain);*)
(*   - a task: a message of a worker (Answer) or a timer (Timeout), which  *)
(*     the event loop runs only when no microtask is left.                 *)
(* The number of microtasks an await takes is not kept.                    *)
(***************************************************************************)
EXTENDS Naturals, FiniteSets, SequencesExt

CONSTANTS
  Query,              \* the calls of query(), each with an id of its own
  Table, Request,     \* as in TableLocks; a request may name no table
  Worker,             \* the workers, all initialised (createDuckDBPool)
  NoWorker, NoQuery,  \* null
  MaxQueuePerWorker, MaxActiveQueries, MaxOverflowQueueSize,
  Timed               \* the queries whose timeoutMs is positive

ASSUME PoolAssumption ==
  /\ IsFiniteSet(Query) /\ Timed \subseteq Query
  /\ Request \subseteq [tables : SUBSET Table, mode : {"read", "write"}]
  /\ NoWorker \notin Worker /\ NoQuery \notin Query
  /\ MaxQueuePerWorker \in Nat \ {0}
  /\ MaxActiveQueries \in Nat \ {0}
  /\ MaxOverflowQueueSize \in Nat \ {0}

VARIABLES
  lock, granted, want,  \* the lock manager; want is also the request
  pc,          \* where executeQuery and its callees stand with the query
  active,      \* activeQueries: timer and abort handler are armed
  settled,     \* the promise given to the caller is resolved or rejected
  aborted,     \* request.signal.aborted
  overflow,    \* overflowQueue; priorities are not told apart
  viaOverflow, \* dispatched by processOverflowQueue, not by executeQuery
  drain,       \* a processOverflowQueue is scheduled
  assigned,    \* the worker the query was routed to
  queue, current,  \* per worker: its queue and currentQuery
  shuttingDown

lockVars   == <<lock, granted, want>>
workerVars == <<queue, current>>
vars == <<lock, granted, want, pc, active, settled, aborted, overflow, viaOverflow, drain,
          assigned, queue, current, shuttingDown>>

Stage == {"new", "overflow", "locking", "queued", "running", "returned", "done"}

\* Where a query at that stage is in acquireLocks ... releaseLocks.
ClientAt(stage) ==
  CASE stage = "locking" -> "acquiring"
    [] stage \in {"queued", "running", "returned"} -> "holding"
    [] OTHER -> "idle"

LockClient == [q \in Query |-> ClientAt(pc[q])]

Locks == INSTANCE TableLocks WITH client <- LockClient, cleared <- shuttingDown

Init ==
  /\ pc = [q \in Query |-> "new"]
  /\ active = {} /\ settled = {} /\ aborted = {}
  /\ overflow = {} /\ viaOverflow = {} /\ drain = FALSE
  /\ assigned = [q \in Query |-> NoWorker]
  /\ queue = [w \in Worker |-> <<>>]
  /\ current = [w \in Worker |-> NoQuery]
  /\ shuttingDown = FALSE
  /\ Locks!Init

-----------------------------------------------------------------------------
(* Workers *)

QueueLength(w) == Len(queue[w]) + (IF current[w] = NoQuery THEN 0 ELSE 1)

\* isReady workers below capacity, the shortest queue first.
LeastBusyWorkers ==
  LET Free == {w \in Worker : ~shuttingDown /\ QueueLength(w) < MaxQueuePerWorker}
  IN {w \in Free : \A v \in Free : QueueLength(w) <= QueueLength(v)}

\* worker.execute: an idle worker starts the statement, a busy one queues it, a
\* worker that is shut down refuses it.
Execute(w, q) ==
  \/ /\ shuttingDown
     /\ pc' = [pc EXCEPT ![q] = "returned"]
     /\ UNCHANGED workerVars
  \/ /\ ~shuttingDown /\ current[w] = NoQuery
     /\ current' = [current EXCEPT ![w] = q]
     /\ pc' = [pc EXCEPT ![q] = "running"]
     /\ UNCHANGED queue
  \/ /\ ~shuttingDown /\ current[w] # NoQuery
     /\ queue' = [queue EXCEPT ![w] = Append(@, q)]
     /\ pc' = [pc EXCEPT ![q] = "queued"]
     /\ UNCHANGED current

\* Cancelling a queued query leaves it in the worker's queue.
CancelOnWorker_KeepsQueue(q) ==
  IF pc[q] = "queued"
  THEN pc' = [pc EXCEPT ![q] = "returned"] /\ UNCHANGED queue
  ELSE UNCHANGED <<queue, pc>>

\* worker.cancel and handleAbort: a queued query is looked for in the queue, leaves
\* it, and its coordinator is told; a running one runs on.
CancelOnWorker(q) ==
  IF pc[q] = "queued"
  THEN /\ \E i \in DOMAIN queue[assigned[q]] :
            /\ queue[assigned[q]][i] = q
            /\ queue' = [queue EXCEPT ![assigned[q]] = RemoveAt(@, i)]
       /\ pc' = [pc EXCEPT ![q] = "returned"]
  ELSE UNCHANGED <<queue, pc>>

-----------------------------------------------------------------------------
(* The coordinator *)

\* executeQueryOnWorkerWithLocks up to its first await.  The worker is chosen
\* before the locks are there.
Dispatch(q, r, w) ==
  /\ assigned' = [assigned EXCEPT ![q] = w]
  /\ \/ /\ r.tables = {}
        /\ want' = [want EXCEPT ![q] = r]
        /\ Execute(w, q)
        /\ UNCHANGED <<lock, granted>>
     \/ /\ r.tables # {}
        /\ Locks!TakeLocks(q, r)
        /\ pc' = [pc EXCEPT ![q] = "locking"]
        /\ UNCHANGED workerVars

\* query() and executeQuery up to their first await.
Refused(q) ==
  /\ Cardinality(active) >= MaxActiveQueries
  /\ pc' = [pc EXCEPT ![q] = "done"]
  /\ settled' = settled \cup {q}
  /\ UNCHANGED <<lockVars, workerVars, active, overflow, drain, assigned>>

Routed(q, r) ==
  /\ Cardinality(active) < MaxActiveQueries
  /\ active' = active \cup {q}
  /\ \E w \in LeastBusyWorkers : Dispatch(q, r, w)
  /\ UNCHANGED <<settled, overflow, drain>>

Overflowed(q, r) ==
  /\ Cardinality(active) < MaxActiveQueries /\ LeastBusyWorkers = {}
  /\ Cardinality(overflow) < MaxOverflowQueueSize
  /\ active' = active \cup {q}
  /\ overflow' = overflow \cup {q}
  /\ pc' = [pc EXCEPT ![q] = "overflow"]
  /\ want' = [want EXCEPT ![q] = r]
  /\ drain' = TRUE
  /\ UNCHANGED <<lock, granted, workerVars, settled, assigned>>

OverflowFull(q) ==
  /\ Cardinality(active) < MaxActiveQueries /\ LeastBusyWorkers = {}
  /\ Cardinality(overflow) >= MaxOverflowQueueSize
  /\ pc' = [pc EXCEPT ![q] = "done"]
  /\ settled' = settled \cup {q}
  /\ drain' = TRUE
  /\ UNCHANGED <<lockVars, workerVars, active, overflow, assigned>>

\* A call after shutdown or with an aborted signal throws and changes nothing.
Submit(q, r) ==
  /\ pc[q] = "new" /\ ~shuttingDown
  /\ Refused(q) \/ Routed(q, r) \/ Overflowed(q, r) \/ OverflowFull(q)
  /\ UNCHANGED <<aborted, viaOverflow, shuttingDown>>

\* The query goes to its worker while its locks are still awaited.
LocksResolved_NotAwaited(q) == pc[q] = "locking"

LocksResolved(q) == pc[q] = "locking" /\ granted[q] = want[q].tables

\* executeQuery, too, has only a finally.
RejectsThrown_Nobody(q) == FALSE

\* Who rejects the query when executeQueryOnWorkerWithLocks throws: executeQuery
\* does, processOverflowQueue has only a finally.
RejectsThrown(q) == q \notin viaOverflow

\* After the await of acquireLocks.
LocksAcquired(q) ==
  /\ LocksResolved(q)
  /\ \/ /\ q \notin aborted
        /\ Execute(assigned[q], q)
        /\ UNCHANGED <<lockVars, active, settled, drain>>
     \/ /\ q \in aborted
        /\ Locks!ReleaseLocks(q)
        /\ pc' = [pc EXCEPT ![q] = "done"]
        /\ settled' = IF RejectsThrown(q) THEN settled \cup {q} ELSE settled
        /\ active' = IF RejectsThrown(q) THEN active \ {q} ELSE active
        /\ drain' = TRUE
        /\ UNCHANGED workerVars
  /\ UNCHANGED <<aborted, overflow, viaOverflow, assigned, shuttingDown>>

\* An aborted query does not give its locks back.
Finish_AbortedKeepsLocks(q) ==
  /\ pc[q] = "returned"
  /\ IF q \in aborted THEN UNCHANGED lockVars ELSE Locks!ReleaseLocks(q)
  /\ pc' = [pc EXCEPT ![q] = "done"]
  /\ drain' = TRUE
  /\ UNCHANGED <<active, settled, aborted, overflow, viaOverflow, assigned, workerVars, shuttingDown>>

\* After the await of worker.execute: the finally blocks.
Finish(q) ==
  /\ pc[q] = "returned"
  /\ Locks!ReleaseLocks(q)
  /\ pc' = [pc EXCEPT ![q] = "done"]
  /\ drain' = TRUE
  /\ UNCHANGED <<active, settled, aborted, overflow, viaOverflow, assigned, workerVars, shuttingDown>>

\* processOverflowQueue, one query of its batch.  It schedules itself as long as
\* the queue is not empty.
Drain ==
  /\ drain
  /\ \/ /\ overflow = {} \/ shuttingDown
        /\ drain' = FALSE
        /\ UNCHANGED <<lockVars, workerVars, pc, overflow, viaOverflow, assigned>>
     \/ /\ overflow # {} /\ ~shuttingDown /\ LeastBusyWorkers = {}
        /\ UNCHANGED <<lockVars, workerVars, pc, overflow, viaOverflow, assigned, drain>>
     \/ /\ ~shuttingDown
        /\ \E q \in overflow, w \in LeastBusyWorkers :
             /\ Dispatch(q, want[q], w)
             /\ overflow' = overflow \ {q}
             /\ viaOverflow' = viaOverflow \cup {q}
        /\ drain' = (overflow' # {})
  /\ UNCHANGED <<active, settled, aborted, shuttingDown>>

MicrotaskPending ==
  drain \/ \E q \in Query : LocksResolved(q) \/ pc[q] = "returned"

\* The answer of DuckDB to the current statement of a worker, a result or an
\* error; the worker goes on to its next query.
Answer(w) ==
  LET q == current[w]
      next == IF queue[w] = <<>> THEN NoQuery ELSE Head(queue[w])
  IN /\ q # NoQuery /\ ~MicrotaskPending
     /\ current' = [current EXCEPT ![w] = next]
     /\ queue' = [queue EXCEPT ![w] = IF @ = <<>> THEN @ ELSE Tail(@)]
     /\ pc' = [p \in Query |-> CASE p = q -> "returned" [] p = next -> "running" [] OTHER -> pc[p]]
     /\ settled' = settled \cup {q}
     /\ active' = active \ {q}
     /\ UNCHANGED <<lockVars, aborted, overflow, viaOverflow, drain, assigned, shuttingDown>>

\* A cancelled query stays in activeQueries.
CancelQuery_KeepsActive(q) ==
  /\ active' = active
  /\ overflow' = overflow \ {q}
  /\ IF pc[q] = "overflow"
     THEN pc' = [pc EXCEPT ![q] = "done"] /\ UNCHANGED queue
     ELSE CancelOnWorker(q)

\* cancelQuery of an active query.
CancelQuery(q) ==
  /\ active' = active \ {q}
  /\ overflow' = overflow \ {q}
  /\ IF pc[q] = "overflow"
     THEN pc' = [pc EXCEPT ![q] = "done"] /\ UNCHANGED queue
     ELSE CancelOnWorker(q)

\* The timer: cancelQuery, then the caller is told.
Timeout(q) ==
  /\ q \in active \cap Timed /\ ~MicrotaskPending
  /\ CancelQuery(q)
  /\ settled' = settled \cup {q}
  /\ UNCHANGED <<lockVars, current, aborted, viaOverflow, drain, assigned, shuttingDown>>

\* The caller aborts: the coordinator's listener while the query is active, then
\* the worker's.
Abort(q) ==
  /\ pc[q] \notin {"new", "done"} /\ q \notin aborted
  /\ aborted' = aborted \cup {q}
  /\ IF q \in active THEN CancelQuery(q) ELSE CancelOnWorker(q) /\ UNCHANGED <<active, overflow>>
  /\ settled' = IF pc[q] \in {"overflow", "queued"} THEN settled \cup {q} ELSE settled
  /\ UNCHANGED <<lockVars, current, viaOverflow, drain, assigned, shuttingDown>>

\* shutdown up to the await of the workers' termination.
Shutdown ==
  /\ ~shuttingDown
  /\ shuttingDown' = TRUE
  /\ settled' = settled \cup active \cup {q \in Query : pc[q] \in {"queued", "running"}}
  /\ active' = {} /\ overflow' = {}
  /\ Locks!ClearLocks
  /\ queue' = [w \in Worker |-> <<>>]
  /\ current' = [w \in Worker |-> NoQuery]
  /\ pc' = [q \in Query |-> CASE pc[q] \in {"queued", "running"} -> "returned"
                              [] pc[q] = "overflow" -> "done"
                              [] OTHER -> pc[q]]
  /\ UNCHANGED <<aborted, viaOverflow, drain, assigned>>

Microtask == Drain \/ \E q \in Query : LocksAcquired(q) \/ Finish(q)
Task == (\E w \in Worker : Answer(w)) \/ (\E q \in Query : Timeout(q))
Application ==
  \/ \E q \in Query, r \in Request : Submit(q, r)
  \/ \E q \in Query : Abort(q)
  \/ Shutdown

Next == Microtask \/ Task \/ Application

Spec == Init /\ [][Next]_vars

\* Microtasks run, DuckDB ends every statement, and timers fire.
FairSpec ==
  /\ Spec
  /\ WF_vars(Drain)
  /\ \A q \in Query : WF_vars(LocksAcquired(q)) /\ WF_vars(Finish(q)) /\ WF_vars(Timeout(q))
  /\ \A w \in Worker : WF_vars(Answer(w))

-----------------------------------------------------------------------------
(* What the pool promises *)

\* Types: the lock manager's, and every query is where its stage says.
TypeOK ==
  /\ Locks!TypeOK
  /\ pc \in [Query -> Stage]
  /\ active \subseteq Query /\ settled \subseteq Query /\ aborted \subseteq Query
  /\ viaOverflow \subseteq Query
  /\ overflow = {q \in Query : pc[q] = "overflow"}
  /\ drain \in BOOLEAN /\ shuttingDown \in BOOLEAN
  /\ assigned \in [Query -> Worker \cup {NoWorker}]
  /\ queue \in [Worker -> Seq({q \in Query : pc[q] = "queued"})]
  /\ current \in [Worker -> {q \in Query : pc[q] = "running"} \cup {NoQuery}]

\* "Writers get exclusive access": two statements that DuckDB works on at once
\* never share a table that one of them writes, also when waiters are let go by
\* shutdown, when callers gave up waiting and when queries were rerouted.
StatementsExclude ==
  \A p, q \in Query :
    p # q /\ pc[p] = "running" /\ pc[q] = "running"
      /\ want[p].tables \cap want[q].tables # {}
    => want[p].mode = "read" /\ want[q].mode = "read"

\* The lock manager's books agree with the queries, and a query that is done
\* has given back every lock, on every path out of it: answered, failed, aborted
\* while it waited, timed out, shut down.
LocksGivenBack ==
  /\ Locks!EntriesCountHolders
  /\ \A q \in Query : pc[q] \in {"new", "overflow", "done"} => granted[q] = {}

\* activeQueries holds exactly the queries whose caller still waits and has not
\* aborted: these are what the capacity limit counts and shutdown rejects.
ActiveAwaitsAnswer ==
  active = {q \in Query : pc[q] # "new" /\ q \notin settled \cup aborted}

\* "Manages cancellation and timeouts": a call that has run to its end has told its
\* caller, on every path, but for one: a query taken from the overflow queue and
\* aborted while it waits for its locks throws into a promise that nobody handles.
CallersAreTold ==
  \A q \in Query : pc[q] = "done" /\ q \notin settled => q \in aborted \cap viaOverflow

-----------------------------------------------------------------------------
(* What the promises rest on *)

\* A worker's queue and its current statement are the queries routed to it, each
\* of them once.
Placed ==
  /\ \A q \in Query :
       pc[q] \in {"locking", "queued", "running", "returned"} => assigned[q] \in Worker
  /\ \A w \in Worker :
       /\ \A i, j \in DOMAIN queue[w] : queue[w][i] = queue[w][j] => i = j
       /\ Range(queue[w]) = {q \in Query : pc[q] = "queued" /\ assigned[q] = w}
       /\ \A q \in Query : current[w] = q <=> (pc[q] = "running" /\ assigned[q] = w)

\* Who is told at which stage: nobody before the call, everybody whose query has
\* come back from a worker or was under way at the shutdown.
Told ==
  /\ \A q \in Query : pc[q] = "new" => q \notin settled \cup aborted
  /\ \A q \in Query : pc[q] = "overflow" => q \in active /\ want[q] \in Request
  /\ \A q \in Query : pc[q] = "returned" => q \in settled
  /\ shuttingDown =>
       active = {} /\ \A q \in Query : pc[q] \notin {"overflow", "queued", "running"}

\* The inductive invariant, with the types.
Consistent ==
  Locks!Consistent /\ Placed /\ Told /\ ActiveAwaitsAnswer /\ CallersAreTold
=============================================================================
