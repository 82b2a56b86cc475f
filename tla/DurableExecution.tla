-------------------------- MODULE DurableExecution --------------------------
(***************************************************************************)
(* Durable execution of Analysis Runs: ExecutionJobWorker processes that   *)
(* claim leased jobs from Postgres and drive AnalysisRunService's handlers,*)
(* against the requests users make meanwhile.                              *)
(*                                                                         *)
(* One action is one database transaction (or one await that decides what  *)
(* runs next), so that everything may interleave between the transactions  *)
(* of one handler.  pc[w] is the statement worker w is about to execute;   *)
(* cur, snap and failure are the handler's locals: the claimed job's run,  *)
(* the AnalysisRun loaded without a lock, and the classified exception.    *)
(***************************************************************************)
EXTENDS ExecutionJob, AnalysisRun

CONSTANTS
  Run,                \* analysis runs, the retries included
  NoRun,              \* no run
  PipelineFailures,   \* how the pipeline may fail: transient, permanent
  MaxFaults,          \* bound: crashes and database outages
  MaxLapses,          \* bound: leases that run out under a live worker
  MaxCancels          \* bound: cancellation requests

ASSUME NoRunAssumption == NoRun \notin Run
ASSUME PipelineFailuresAssumption ==
  PipelineFailures \subseteq {"transient", "permanent"}
ASSUME BoundsAssumption ==
  MaxFaults \in Nat /\ MaxLapses \in Nat /\ MaxCancels \in Nat

VARIABLES
  job,        \* execution_jobs, one analysis job per run
  run,        \* analysis_runs
  approval,   \* human_approvals, at most one per run
  board,      \* the runs that have their analysis_workspaces row
  feed,       \* number of work-feed events of each kind, per run
  retryOf,    \* retry_of_analysis_run_id
  sequence,   \* thread_sequence: a run's place in its Thread, 0 outside one
  pc,         \* where each worker is
  cur,        \* the run whose job the worker executes
  snap,       \* the AnalysisRun the worker's handler holds in memory
  failure,    \* the classified failure being handled
  renewal,    \* the worker's renewal task
  faults, lapses, cancels   \* how much of each bound is used up

rows   == <<job, run, approval, board, feed, retryOf, sequence>>
locals == <<pc, cur, snap, failure, renewal>>
budget == <<faults, lapses, cancels>>
vars   == <<rows, locals, budget>>

FeedKind == {"approval_requested", "approval_decided", "finding_published",
             "cancel_requested", "cancelled", "retry_created"}

\* Failures as classify_execution_failure names them.
FailureKind == {"none", "transient", "permanent"}

\* "dead": an exception left run_forever, and nothing starts it again.
\* "down": the process is gone; it comes back with the same worker id.
Location == {"idle", "precheck", "loading", "opening_board", "measuring",
             "publishing", "flushing", "checking", "completing",
             "checking_failed", "recording", "fail_loading", "fail_saving",
             "cancelling", "cancelling_run", "joining", "dead", "down"}

TypeOK ==
  /\ job      \in [Run -> Job]
  /\ run      \in [Run -> RunRecord]
  /\ approval \in [Run -> ApprovalStatus]
  /\ board    \in SUBSET Run
  /\ feed     \in [Run -> [FeedKind -> Nat]]
  /\ retryOf  \in [Run -> Run \cup {NoRun}]
  /\ sequence \in [Run -> Nat]
  /\ pc       \in [Worker -> Location]
  /\ cur      \in [Worker -> Run \cup {NoRun}]
  /\ snap     \in [Worker -> RunRecord]
  /\ failure  \in [Worker -> FailureKind]
  /\ renewal  \in [Worker -> {"off", "running", "done", "error"}]
  /\ faults \in 0 .. MaxFaults /\ lapses \in 0 .. MaxLapses
  /\ cancels \in 0 .. MaxCancels

Init ==
  /\ job      = [r \in Run |-> AbsentJob]
  /\ run      = [r \in Run |-> AbsentRun]
  /\ approval = [r \in Run |-> "absent"]
  /\ board    = {}
  /\ feed     = [r \in Run |-> [k \in FeedKind |-> 0]]
  /\ retryOf  = [r \in Run |-> NoRun]
  /\ sequence = [r \in Run |-> 0]
  /\ pc       = [w \in Worker |-> "idle"]
  /\ cur      = [w \in Worker |-> NoRun]
  /\ snap     = [w \in Worker |-> AbsentRun]
  /\ failure  = [w \in Worker |-> "none"]
  /\ renewal  = [w \in Worker |-> "off"]
  /\ faults = 0 /\ lapses = 0 /\ cancels = 0

-----------------------------------------------------------------------------
(* Helpers: moving a worker, and appending to the work feed. *)

Goto(w, place) == pc' = [pc EXCEPT ![w] = place]

\* The worker stops handling its job, with all it held in memory.
Forget(w, place) ==
  /\ Goto(w, place)
  /\ cur'     = [cur EXCEPT ![w] = NoRun]
  /\ snap'    = [snap EXCEPT ![w] = AbsentRun]
  /\ failure' = [failure EXCEPT ![w] = "none"]
  /\ renewal' = [renewal EXCEPT ![w] = "off"]

\* An exception leaves _execute: `finally` runs, and then nothing catches it.
Die(w) == Forget(w, "dead")

\* append_for_analysis_run: a run outside a Thread has no feed to append to.
Announce(r, kinds) ==
  feed' = [feed EXCEPT ![r] =
             [k \in FeedKind |-> IF k \in kinds /\ sequence[r] > 0
                                THEN @[k] + 1 ELSE @[k]]]

IsTerminal(r) == run[r].status \in TerminalRunStatuses

-----------------------------------------------------------------------------
(* Requests of users.  Each is one transaction that locks the run. *)

\* Run and job are inserted in one transaction.
Insert(r) ==
  /\ run[r].status = "absent"
  /\ run' = [run EXCEPT ![r] = StartedRun]
  /\ job' = [job EXCEPT ![r] = QueuedJob]

\* latest_for_thread: the highest thread_sequence (of the one Thread modelled).
IsLatest(r) == \A other \in Run : sequence[other] <= sequence[r]

\* AnalysisRunService.start: a run outside any Thread.
Start(r) ==
  /\ Insert(r)
  /\ UNCHANGED <<approval, board, feed, retryOf, sequence, locals, budget>>

\* A Thread's first question and every follow-up, whatever its latest run does.
Ask(r) ==
  /\ Insert(r)
  /\ \E latest \in Run :
       IsLatest(latest) /\ sequence' = [sequence EXCEPT ![r] = sequence[latest] + 1]
  /\ UNCHANGED <<approval, board, feed, retryOf, locals, budget>>

\* A retry that looks at the run alone, and takes the next place anyway.
Retry_AnyOfThread(original, r) ==
  /\ run[original].status \in {"failed", "cancelled"}
  /\ Insert(r)
  /\ retryOf' = [retryOf EXCEPT ![r] = original]
  /\ IF sequence[original] > 0
     THEN \E latest \in Run :
            /\ IsLatest(latest)
            /\ sequence' = [sequence EXCEPT ![r] = sequence[latest] + 1]
            /\ feed' = [feed EXCEPT ![r]["retry_created"] = @ + 1]
     ELSE UNCHANGED <<sequence, feed>>
  /\ UNCHANGED <<approval, board, locals, budget>>

\* retry: a run of its own; within a Thread, only of its latest run.
Retry(original, r) ==
  /\ run[original].status \in {"failed", "cancelled"}
  /\ Insert(r)
  /\ retryOf' = [retryOf EXCEPT ![r] = original]
  /\ IF sequence[original] > 0
     THEN /\ IsLatest(original)
          /\ sequence' = [sequence EXCEPT ![r] = sequence[original] + 1]
          /\ feed' = [feed EXCEPT ![r]["retry_created"] = @ + 1]
     ELSE UNCHANGED <<sequence, feed>>
  /\ UNCHANGED <<approval, board, locals, budget>>

\* cancel: the job decides.  A queued job ends here, a leased one is only
\* marked, and on a completed or failed one nothing happens but the event.
Cancel(r) ==
  LET requested == CancelRequested(job[r])
  IN  /\ cancels < MaxCancels
      /\ cancels' = cancels + 1
      /\ run[r].status # "absent"
      /\ ~IsTerminal(r)
      /\ job' = [job EXCEPT ![r] = requested]
      /\ IF requested.status = "cancelled"
         THEN /\ run' = [run EXCEPT ![r] = CancelRun(@)]
              /\ Announce(r, {"cancelled"})
         ELSE /\ Announce(r, {"cancel_requested"})
              /\ UNCHANGED run
      /\ UNCHANGED <<approval, board, retryOf, sequence, locals, faults, lapses>>

\* decide, by an owner or admin, when it changes something.
Decide(r, decision) ==
  /\ CanDecideApproval(approval[r])
  /\ CanDecide(run[r])
  /\ approval' = [approval EXCEPT ![r] = DecideApproval(decision)]
  /\ run' = [run EXCEPT ![r] = DecideRun(@, decision)]
  /\ Announce(r, {"approval_decided"} \cup
                 IF decision = "approve" THEN {"finding_published"} ELSE {})
  /\ UNCHANGED <<job, board, retryOf, sequence, locals, budget>>

-----------------------------------------------------------------------------
(* The worker: claiming, and the check before execution. *)

Claim(w, r) ==
  /\ pc[w] = "idle"
  /\ Claimable(job[r])
  /\ job' = [job EXCEPT ![r] = Claimed(@, w)]
  /\ Goto(w, "precheck")
  /\ cur' = [cur EXCEPT ![w] = r]
  /\ UNCHANGED <<run, approval, board, feed, retryOf, sequence, snap, failure, renewal,
                 budget>>

CancelMarked(w) == job[cur[w]].cancel_requested

\* _execute, before the try: a marked job is cancelled without executing it;
\* otherwise the renewal task starts.
CheckBefore(w) ==
  /\ pc[w] = "precheck"
  /\ Goto(w, IF CancelMarked(w) THEN "cancelling" ELSE "loading")
  /\ renewal' = [renewal EXCEPT ![w] = IF CancelMarked(w) THEN "off" ELSE "running"]
  /\ UNCHANGED <<rows, cur, snap, failure, budget>>

-----------------------------------------------------------------------------
(* execute_job, inside the try of _execute. *)

\* The run is read without a lock and without looking at its status.
Load(w) ==
  /\ pc[w] = "loading"
  /\ snap' = [snap EXCEPT ![w] = run[cur[w]]]
  /\ Goto(w, "opening_board")
  /\ UNCHANGED <<rows, cur, failure, renewal, budget>>

\* An exception that is swallowed: the worker goes on to complete the job.
Raise_Swallowed(w, kind) ==
  /\ Goto(w, "checking")
  /\ snap' = [snap EXCEPT ![w] = AbsentRun]
  /\ UNCHANGED <<cur, failure, renewal>>

\* The exception unwinds execute_job, and with it the loaded run.
Raise(w, kind) ==
  /\ Goto(w, "checking_failed")
  /\ failure' = [failure EXCEPT ![w] = kind]
  /\ snap' = [snap EXCEPT ![w] = AbsentRun]
  /\ UNCHANGED <<cur, renewal>>

\* Every execution inserts a Board, and a run may have only one.
OpenBoard(w) ==
  /\ pc[w] = "opening_board"
  /\ cur[w] \notin board
  /\ board' = board \cup {cur[w]}
  /\ Goto(w, "measuring")
  /\ UNCHANGED <<job, run, approval, feed, retryOf, sequence, cur, snap, failure, renewal,
                 budget>>

BoardExists(w) ==
  /\ pc[w] = "opening_board"
  /\ cur[w] \in board
  /\ Raise(w, "permanent")
  /\ UNCHANGED <<rows, budget>>

\* A dependency or an agent fails, before the Board or after it.
PipelineFails(w) ==
  /\ pc[w] \in {"opening_board", "measuring"}
  /\ \E kind \in PipelineFailures : Raise(w, kind)
  /\ UNCHANGED <<rows, budget>>

\* A checkpoint between two agent steps reads the mark: CancellationRequested.
CheckpointStops(w) ==
  /\ pc[w] = "measuring"
  /\ CancelMarked(w)
  /\ Raise(w, "permanent")
  /\ UNCHANGED <<rows, budget>>

\* The last checkpoint passes and the pipeline returns its result.
PipelineReturns(w) ==
  /\ pc[w] = "measuring"
  /\ ~CancelMarked(w)
  /\ Goto(w, "publishing")
  /\ UNCHANGED <<rows, cur, snap, failure, renewal, budget>>

\* A save without the version in its WHERE clause.
VersionMatches_Unchecked(w) == TRUE

\* save(expected_version): another writer's version refuses the update.
VersionMatches(w) == run[cur[w]].version = snap[w].version

\* Evaluate the loaded run and commit it with its approval or its Finding.
Publish(w, directive) ==
  LET r == cur[w]
      evaluating == BeginEvaluation(snap[w])
  IN  /\ pc[w] = "publishing"
      /\ CanBeginEvaluation(snap[w])
      /\ CanRecordEvaluation(evaluating)
      /\ VersionMatches(w)
      /\ run' = [run EXCEPT ![r] = RecordEvaluation(evaluating, directive)]
      /\ approval' = [approval EXCEPT ![r] = IF directive = "pass" THEN @ ELSE "pending"]
      /\ Announce(r, IF directive = "pass" THEN {"finding_published"}
                                           ELSE {"approval_requested"})
      /\ Goto(w, "flushing")
      /\ snap' = [snap EXCEPT ![w] = AbsentRun]
      /\ UNCHANGED <<job, board, retryOf, sequence, cur, failure, renewal, budget>>

\* The aggregate refuses the transition, or the update finds a newer version.
PublishRefused(w) ==
  /\ pc[w] = "publishing"
  /\ ~(CanBeginEvaluation(snap[w]) /\ VersionMatches(w))
  /\ Raise(w, "permanent")
  /\ UNCHANGED <<rows, budget>>

\* The audit flush after the commit.  Delivery errors are swallowed; a
\* database error is not, and fails an execution whose result is committed.
Flush(w) ==
  /\ pc[w] = "flushing"
  /\ Goto(w, "checking")
  /\ UNCHANGED <<rows, cur, snap, failure, renewal, budget>>

FlushFails(w) ==
  /\ pc[w] = "flushing"
  /\ faults < MaxFaults
  /\ faults' = faults + 1
  /\ \E kind \in {"transient", "permanent"} : Raise(w, kind)
  /\ UNCHANGED <<rows, lapses, cancels>>

-----------------------------------------------------------------------------
(* _execute after the pipeline: cancel, complete, or record the failure. *)

CheckAfter(w) ==
  /\ pc[w] \in {"checking", "checking_failed"}
  /\ Goto(w, IF CancelMarked(w) THEN "cancelling"
             ELSE IF pc[w] = "checking" THEN "completing" ELSE "recording")
  /\ failure' = [failure EXCEPT ![w] = IF CancelMarked(w) THEN "none" ELSE @]
  /\ UNCHANGED <<rows, cur, snap, renewal, budget>>

Complete(w) ==
  /\ pc[w] = "completing"
  /\ IF OwnsLease(job[cur[w]], w)
     THEN /\ job' = [job EXCEPT ![cur[w]] = CompletedJob(@)]
          /\ Goto(w, "joining")
          /\ UNCHANGED <<cur, snap, failure, renewal>>
     ELSE Die(w) /\ UNCHANGED job
  /\ UNCHANGED <<run, approval, board, feed, retryOf, sequence, budget>>

\* _cancel: the job first, in a transaction of its own.
CancelJob(w) ==
  LET j == job[cur[w]]
  IN  /\ pc[w] = "cancelling"
      /\ \/ /\ j.status # "leased"
            /\ Goto(w, "joining")
            /\ UNCHANGED <<job, cur, snap, failure, renewal>>
         \/ /\ OwnsLease(j, w)
            /\ job' = [job EXCEPT ![cur[w]] = CancelledJob(@)]
            /\ Goto(w, "cancelling_run")
            /\ UNCHANGED <<cur, snap, failure, renewal>>
         \/ /\ j.status = "leased" /\ ~OwnsLease(j, w)
            /\ Die(w)
            /\ UNCHANGED job
      /\ UNCHANGED <<run, approval, board, feed, retryOf, sequence, budget>>

\* cancel_job: then the run, unless it has reached an end.
CancelJobRun(w) ==
  LET r == cur[w]
  IN  /\ pc[w] = "cancelling_run"
      /\ IF IsTerminal(r)
         THEN UNCHANGED <<run, feed>>
         ELSE /\ run' = [run EXCEPT ![r] = CancelRun(@)]
              /\ Announce(r, {"cancelled"})
      /\ Goto(w, "joining")
      /\ UNCHANGED <<job, approval, board, retryOf, sequence, cur, snap, failure, renewal,
                     budget>>

\* _record_failure: back to the queue, or fail the job.
RecordFailure(w) ==
  LET j == job[cur[w]]
      again == failure[w] = "transient" /\ CanRetry(j)
  IN  /\ pc[w] = "recording"
      /\ IF OwnsLease(j, w)
         THEN /\ job' = [job EXCEPT ![cur[w]] =
                           IF again THEN RequeuedJob(@) ELSE FailedJob(@)]
              /\ Goto(w, IF again THEN "joining" ELSE "fail_loading")
              /\ failure' = [failure EXCEPT ![w] = "none"]
              /\ UNCHANGED <<cur, snap, renewal>>
         ELSE Die(w) /\ UNCHANGED job
      /\ UNCHANGED <<run, approval, board, feed, retryOf, sequence, budget>>

\* fail_job: the run is read in one transaction, without a lock ...
FailLoad(w) ==
  /\ pc[w] = "fail_loading"
  /\ IF CanFail(run[cur[w]])
     THEN /\ snap' = [snap EXCEPT ![w] = run[cur[w]]]
          /\ Goto(w, "fail_saving")
          /\ UNCHANGED <<cur, failure, renewal>>
     ELSE Die(w)
  /\ UNCHANGED <<rows, budget>>

\* ... and saved in another.
FailSave(w) ==
  /\ pc[w] = "fail_saving"
  /\ IF VersionMatches(w)
     THEN /\ run' = [run EXCEPT ![cur[w]] = FailRun(snap[w])]
          /\ snap' = [snap EXCEPT ![w] = AbsentRun]
          /\ Goto(w, "joining")
          /\ UNCHANGED <<cur, failure, renewal>>
     ELSE Die(w) /\ UNCHANGED run
  /\ UNCHANGED <<job, approval, board, feed, retryOf, sequence, budget>>

\* `finally`: the renewal task is cancelled and awaited; if it has already
\* failed, its exception comes out here.
Join(w) ==
  /\ pc[w] = "joining"
  /\ IF renewal[w] = "error" THEN Die(w) ELSE Forget(w, "idle")
  /\ UNCHANGED <<rows, budget>>

-----------------------------------------------------------------------------
(* The lease: its renewal, and its end.  A renewal that succeeds moves     *)
(* lease_expires_at and so leaves lease_live as it is.                     *)

RenewalStops(w) ==
  /\ renewal[w] = "running"
  /\ job[cur[w]].status # "leased"
  /\ renewal' = [renewal EXCEPT ![w] = "done"]
  /\ UNCHANGED <<rows, pc, cur, snap, failure, budget>>

RenewalFails(w) ==
  /\ renewal[w] = "running"
  /\ job[cur[w]].status = "leased"
  /\ ~CanRenew(job[cur[w]], w)
  /\ renewal' = [renewal EXCEPT ![w] = "error"]
  /\ UNCHANGED <<rows, pc, cur, snap, failure, budget>>

\* The lease runs out under a worker that stalls for longer than lease_for.
LeaseLapses(r) ==
  /\ lapses < MaxLapses
  /\ lapses' = lapses + 1
  /\ job[r].status = "leased" /\ job[r].lease_live
  /\ job' = [job EXCEPT ![r].lease_live = FALSE]
  /\ UNCHANGED <<run, approval, board, feed, retryOf, sequence, locals, faults, cancels>>

\* Nobody renews the lease any more.
Orphaned(r) ==
  LET w == job[r].lease_owner
  IN  /\ job[r].status = "leased"
      /\ cur[w] # r \/ renewal[w] \in {"done", "error"}

OrphanExpires(r) ==
  /\ Orphaned(r)
  /\ job[r].lease_live
  /\ job' = [job EXCEPT ![r].lease_live = FALSE]
  /\ UNCHANGED <<run, approval, board, feed, retryOf, sequence, locals, budget>>

-----------------------------------------------------------------------------
(* Faults. *)

\* The process is killed between any two transactions.
Crash(w) ==
  /\ faults < MaxFaults
  /\ faults' = faults + 1
  /\ pc[w] # "down"
  /\ Forget(w, "down")
  /\ UNCHANGED <<rows, lapses, cancels>>

Restart(w) ==
  /\ pc[w] = "down"
  /\ Goto(w, "idle")
  /\ UNCHANGED <<rows, cur, snap, failure, renewal, budget>>

\* A transaction of the worker's own raises: run_forever catches nothing.
OutageKillsLoop(w) ==
  /\ faults < MaxFaults
  /\ faults' = faults + 1
  /\ pc[w] \in {"idle", "precheck", "checking", "completing", "checking_failed",
                "recording", "fail_loading", "fail_saving", "cancelling",
                "cancelling_run"}
  /\ Die(w)
  /\ UNCHANGED <<rows, lapses, cancels>>

-----------------------------------------------------------------------------

\* What worker w does with the job it holds, when nothing goes wrong outside.
Execute(w) ==
  \/ CheckBefore(w) \/ Load(w) \/ OpenBoard(w) \/ BoardExists(w)
  \/ PipelineFails(w) \/ CheckpointStops(w) \/ PipelineReturns(w)
  \/ \E d \in {"pass", "escalate"} : Publish(w, d)
  \/ PublishRefused(w) \/ Flush(w) \/ CheckAfter(w) \/ Complete(w)
  \/ CancelJob(w) \/ CancelJobRun(w) \/ RecordFailure(w) \/ FailLoad(w)
  \/ FailSave(w) \/ Join(w)

Renewal(w) == RenewalStops(w) \/ RenewalFails(w)

Fault(w) == FlushFails(w) \/ Crash(w) \/ OutageKillsLoop(w)

User(r) ==
  \/ Start(r) \/ Ask(r) \/ Cancel(r)
  \/ \E original \in Run : Retry(original, r)
  \/ \E d \in Decision : Decide(r, d)

Next ==
  \/ \E r \in Run : User(r) \/ LeaseLapses(r) \/ OrphanExpires(r)
  \/ \E w \in Worker :
       \/ \E r \in Run : Claim(w, r)
       \/ Execute(w) \/ Renewal(w) \/ Fault(w) \/ Restart(w)

Spec == Init /\ [][Next]_vars

\* A running worker goes on; a job that can be claimed is claimed in the end,
\* for claim_next takes the oldest first; time ends an abandoned lease; a
\* process that went down is started again.  Users and faults owe nothing.
Fairness ==
  /\ \A w \in Worker : WF_vars(Execute(w)) /\ WF_vars(Restart(w))
  /\ \A r \in Run : /\ SF_vars(\E w \in Worker : Claim(w, r))
                    /\ WF_vars(OrphanExpires(r))

FairSpec == Spec /\ Fairness

-----------------------------------------------------------------------------
(* Invariants. *)

\* The end a job reaches is the end its run reached, whatever a worker that
\* lost its lease still did to the run: only a published or gated run has a
\* completed job, a failed run has a failed job, a cancelled run a cancelled
\* one.  (The converses need the second transaction of _record_failure and of
\* _cancel, which a crash can take away.)
JobRunAgreement ==
  \A r \in Run :
    /\ job[r].status = "completed" =>
         run[r].status \in {"awaiting_approval", "completed", "rejected"}
    /\ run[r].status = "failed" => job[r].status = "failed"
    /\ run[r].status = "cancelled" => job[r].status = "cancelled"

\* The Thread of a run is told its outcome, once and truly: two workers that
\* execute one run, a decision and a cancellation never publish a Finding twice
\* and never announce an end the run does not have.
FeedTellsOutcome ==
  \A r \in Run : sequence[r] > 0 =>
    /\ feed[r]["finding_published"] = IF run[r].status = "completed" THEN 1 ELSE 0
    /\ feed[r]["cancelled"] = IF run[r].status = "cancelled" THEN 1 ELSE 0
    /\ feed[r]["approval_requested"] = IF approval[r] = "absent" THEN 0 ELSE 1

\* The gate and its approval are one decision: a gated run has a pending
\* approval, and an approval was granted or rejected only with its run.
ApprovalAgreement ==
  \A r \in Run :
    /\ run[r].status = "awaiting_approval" => approval[r] = "pending"
    /\ approval[r] = "granted" => run[r].status = "completed"
    /\ approval[r] = "rejected" <=> run[r].status = "rejected"

\* What is retried has failed or was cancelled, and stays so.  In a Thread no
\* two runs share a place and a retry stands right behind its original, which
\* is therefore retried once.
RetryLineage ==
  \A r1, r2 \in Run :
    /\ retryOf[r2] = r1 =>
         /\ run[r1].status \in {"failed", "cancelled"}
         /\ sequence[r2] = IF sequence[r1] = 0 THEN 0 ELSE sequence[r1] + 1
    /\ r1 # r2 /\ sequence[r1] = sequence[r2] => sequence[r1] = 0

-----------------------------------------------------------------------------
(* What the invariants above rest on; together they are inductive. *)

\* A worker holds a run exactly while it handles a job of an existing run.
WorkersHoldRuns ==
  \A w \in Worker :
    /\ cur[w] = NoRun <=> pc[w] \in {"idle", "dead", "down"}
    /\ cur[w] # NoRun => run[cur[w]].status # "absent"

\* The rows of a run appear together, and no transaction leaves a run in one
\* of the statuses it only passes through.
RowsAppearTogether ==
  \A r \in Run :
    /\ run[r].status = "absent" <=> job[r].status = "absent"
    /\ run[r].status = "absent" =>
         sequence[r] = 0 /\ \A k \in FeedKind : feed[r][k] = 0
    /\ run[r].status \in {"absent", "running"} => approval[r] = "absent"
    /\ run[r].status \notin {"pending", "evaluating"}

\* A version in memory that is still the row's version is the row: this is
\* what lets an optimistic save stand for a lock.
SnapshotsAreVersions ==
  \A w \in Worker :
    /\ pc[w] \in {"opening_board", "measuring", "publishing", "fail_saving"} =>
         /\ snap[w].version <= run[cur[w]].version
         /\ snap[w].version = run[cur[w]].version => snap[w] = run[cur[w]]
    /\ pc[w] = "fail_saving" => CanFail(snap[w])

\* What has been done when a worker stands before a statement.
StagesFollow ==
  \A w \in Worker :
    /\ pc[w] \in {"flushing", "checking", "completing"} =>
         run[cur[w]].status \in {"awaiting_approval", "completed", "rejected", "cancelled"}
    /\ pc[w] \in {"fail_loading", "fail_saving"} => job[cur[w]].status = "failed"
    /\ pc[w] = "cancelling_run" => job[cur[w]].status = "cancelled"

\* The inductive invariant.
Consistent ==
  /\ WorkersHoldRuns
  /\ RowsAppearTogether
  /\ SnapshotsAreVersions
  /\ StagesFollow
  /\ JobRunAgreement
  /\ ApprovalAgreement
  /\ FeedTellsOutcome

-----------------------------------------------------------------------------
(* Action properties. *)

\* An end is an end, for the run and for its job, whoever still holds an old
\* snapshot or an old lease ("Terminal states cannot transition").
EndsAreFinal ==
  [][\A r \in Run :
       /\ run[r].status \in TerminalRunStatuses => run'[r] = run[r]
       /\ job[r].status \in TerminalJobStatuses => job'[r] = job[r]]_vars

\* The row of a leased job belongs to the worker in lease_owner: no user, no
\* zombie and no other worker ends it or requeues it, and another one takes it
\* over only after it has expired.
LeaseIsOwned ==
  [][\A r \in Run : job[r].status = "leased" =>
       LET w == job[r].lease_owner
       IN  \/ job'[r].status = "leased" /\ (job[r].lease_live => job'[r].lease_owner = w)
           \/ job'[r].status # "leased" /\ cur[w] = r /\ pc'[w] # pc[w]]_vars

-----------------------------------------------------------------------------
(* Refinement: to its users a run is a RunLifecycle, whatever the workers do. *)

Lifecycle == INSTANCE RunLifecycle WITH
  phase     <- [r \in Run |-> run[r].status],
  gate      <- approval,
  published <- [r \in Run |-> feed[r]["finding_published"]],
  original  <- retryOf,
  place     <- sequence

ImplementsLifecycle == Lifecycle!Spec

-----------------------------------------------------------------------------
(* Liveness. *)

\* Nobody asked to cancel: a started run is published, gated or failed in the
\* end, unless a crash or an outage came in between or every loop is dead.
RunSettles ==
  \A r \in Run :
    run[r].status = "running" ~>
      \/ run[r].status # "running"
      \/ faults > 0
      \/ \A w \in Worker : pc[w] = "dead"

\* Bounded retries and the recovery of expired leases bring every job to an
\* end, through crashes, outages and lapsed leases, for as long as one worker
\* loop is alive; only the death of them all leaves a job behind.
JobSettles ==
  \A r \in Run :
    job[r].status = "queued" ~>
      \/ job[r].status \in TerminalJobStatuses
      \/ \A w \in Worker : pc[w] = "dead"

-----------------------------------------------------------------------------
(* What a document says, and the code does not do: the subject of a run in *)
(* which it is violated.                                                   *)

\* "no analysis_run can settle in a non-terminal state": a running run has a
\* job that somebody will still work on.
NoAbandonedRun ==
  \A r \in Run :
    run[r].status = "running" =>
      \/ job[r].status \in {"queued", "leased"}
      \/ \E w \in Worker : cur[w] = r /\ pc[w] \in {"cancelling_run", "fail_loading",
                                                   "fail_saving"}
=============================================================================
