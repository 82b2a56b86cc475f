----------------------- MODULE DurableExecution_proof -----------------------
(***************************************************************************)
(* Theorems about DurableExecution for every set of workers and runs,      *)
(* every number of attempts and every bound on faults, lapsed leases and   *)
(* cancellations.                                                          *)
(***************************************************************************)
EXTENDS DurableExecution, TLAPS

-----------------------------------------------------------------------------
(* What the methods of the two aggregates return. *)

\* The query and the methods of ExecutionJob keep a job a job.
LEMMA JobMethods ==
  ASSUME NEW j \in Job
  PROVE  /\ \A w \in Worker : Claimable(j) => Claimed(j, w) \in Job
         /\ \A s \in JobStatus : Released(j, s) \in Job
         /\ CancelRequested(j) \in Job
         /\ [j EXCEPT !.lease_live = FALSE] \in Job
<1>1. {"queued", "leased", "cancelled"} \subseteq JobStatus
  BY DEF JobStatus, TerminalJobStatuses
<1>2. ASSUME NEW w \in Worker, Claimable(j) PROVE Claimed(j, w) \in Job
  <2> DEFINE n == IF j.status = "queued" THEN j.attempts + 1 ELSE j.attempts
  <2>1. n \in 0 .. MaxAttempts
    BY <1>2, MaxAttemptsAssumption DEF Claimable, Job
  <2>2. Claimed(j, w) = [j EXCEPT !.status = "leased", !.attempts = n,
                                  !.lease_owner = w, !.lease_live = TRUE]
    BY DEF Claimed, Job
  <2> HIDE DEF n
  <2> QED BY <1>1, <2>1, <2>2 DEF Job
<1>3. \A s \in JobStatus : Released(j, s) \in Job
  BY DEF Released, Job
<1>4. CancelRequested(j) \in Job
  <2>1. CASE j.status \in TerminalJobStatuses
    BY <2>1 DEF CancelRequested
  <2>2. CASE j.status \notin TerminalJobStatuses
    <3> DEFINE s == IF j.status = "queued" THEN "cancelled" ELSE j.status
    <3>1. s \in JobStatus BY <1>1 DEF Job
    <3>2. CancelRequested(j) = [j EXCEPT !.cancel_requested = TRUE, !.status = s]
      BY <2>2 DEF CancelRequested, Job
    <3> HIDE DEF s
    <3> QED BY <3>1, <3>2 DEF Job
  <2> QED BY <2>1, <2>2
<1>5. [j EXCEPT !.lease_live = FALSE] \in Job
  BY DEF Job
<1> QED BY <1>2, <1>3, <1>4, <1>5

\* The row of a new job, and no row, are jobs.
LEMMA NewJob ==
  /\ AbsentJob \in Job /\ AbsentJob.status = "absent"
  /\ QueuedJob \in Job /\ QueuedJob.status = "queued"
<1>1. {"absent", "queued"} \subseteq JobStatus
  BY DEF JobStatus
<1>2. AbsentJob \in Job /\ AbsentJob.status = "absent"
  BY <1>1, MaxAttemptsAssumption DEF AbsentJob, Job
<1>3. QueuedJob \in Job /\ QueuedJob.status = "queued"
  BY <1>1, <1>2 DEF QueuedJob, Job
<1> QED BY <1>2, <1>3

\* A transition reaches its target with the next version.
LEMMA TransitionMethod ==
  ASSUME NEW r \in RunRecord, NEW s \in RunStatus
  PROVE  /\ Transition(r, s) \in RunRecord
         /\ Transition(r, s).status = s
         /\ Transition(r, s).version = r.version + 1
<1>1. Transition(r, s) \in RunRecord
  <2> DEFINE v == r.version + 1
  <2>1. v \in Nat
    BY DEF RunRecord
  <2>2. Transition(r, s) = [r EXCEPT !.status = s, !.version = v]
    BY DEF Transition
  <2> HIDE DEF v
  <2> QED BY <2>1, <2>2 DEF RunRecord
<1>2. Transition(r, s).status = s
  BY DEF Transition, RunRecord
<1>3. Transition(r, s).version = r.version + 1
  BY DEF Transition, RunRecord
<1> QED BY <1>1, <1>2, <1>3

\* A run starts running, with a version of its own.
LEMMA StartMethod ==
  /\ AbsentRun \in RunRecord /\ AbsentRun.status = "absent"
  /\ StartedRun \in RunRecord /\ StartedRun.status = "running"
<1>1. {"absent", "pending", "running"} \subseteq RunStatus
  BY DEF RunStatus
<1>2. 0 \in 0 .. MaxEvaluations
  BY DEF MaxEvaluations
<1>3. AbsentRun \in RunRecord /\ CreatedRun \in RunRecord
  BY <1>1, <1>2 DEF AbsentRun, CreatedRun, RunRecord
<1>4. AbsentRun.status = "absent"
  BY DEF AbsentRun
<1> QED BY <1>1, <1>3, <1>4, TransitionMethod DEF StartedRun

\* An evaluation of a running run moves its version, and publishes exactly
\* when it passes; a directive that asks for a human opens the gate.
LEMMA EvaluationMethod ==
  ASSUME NEW r \in RunRecord, NEW d \in {"pass", "escalate"},
         CanBeginEvaluation(r), CanRecordEvaluation(BeginEvaluation(r))
  PROVE  LET e == RecordEvaluation(BeginEvaluation(r), d) IN
         /\ e \in RunRecord
         /\ e.version > r.version
         /\ e.status = IF d = "pass" THEN "completed" ELSE "awaiting_approval"
<1> DEFINE b == BeginEvaluation(r)
           c == [b EXCEPT !.version = @ + 1, !.evaluations = @ + 1]
           s == IF d = "pass" THEN "completed" ELSE "awaiting_approval"
<1>1. {"evaluating", "completed", "awaiting_approval"} \subseteq RunStatus
  BY DEF RunStatus, TerminalRunStatuses
<1>2. b \in RunRecord /\ b.version = r.version + 1
  BY <1>1, TransitionMethod DEF BeginEvaluation
<1>3. b.evaluations + 1 \in 0 .. MaxEvaluations
  BY <1>2 DEF CanRecordEvaluation, RunRecord, MaxEvaluations
<1>4. c \in RunRecord /\ c.version = b.version + 1
  <2> HIDE DEF b
  <2>1. c \in RunRecord
    <3> DEFINE v == b.version + 1
               n == b.evaluations + 1
    <3>1. v \in Nat
      BY <1>2 DEF RunRecord
    <3>2. c = [b EXCEPT !.version = v, !.evaluations = n]
      OBVIOUS
    <3> HIDE DEF v, n, c
    <3>3. n \in 0 .. MaxEvaluations
      BY <1>3 DEF n
    <3> QED BY <1>2, <3>1, <3>2, <3>3 DEF RunRecord
  <2>2. c.version = b.version + 1
    BY <1>2 DEF RunRecord
  <2> QED BY <2>1, <2>2
<1>5. RecordEvaluation(b, d) = Transition(c, s)
  BY DEF RecordEvaluation
<1>6. s \in RunStatus
  BY <1>1
<1>7. r.version \in Nat
  BY DEF RunRecord
<1> HIDE DEF b, c, s
<1>8. /\ Transition(c, s) \in RunRecord
      /\ Transition(c, s).status = s
      /\ Transition(c, s).version = c.version + 1
  BY <1>4, <1>6, TransitionMethod
<1>9. Transition(c, s).version > r.version
  BY <1>2, <1>4, <1>7, <1>8
<1> QED BY <1>5, <1>8, <1>9 DEF b, s

-----------------------------------------------------------------------------
(* Types.  TypeOK is taken apart so that an action is looked at only where *)
(* it changes something.                                                   *)

RowsTyped ==
  /\ job      \in [Run -> Job]
  /\ run      \in [Run -> RunRecord]
  /\ approval \in [Run -> ApprovalStatus]
  /\ board    \in SUBSET Run
  /\ feed     \in [Run -> [FeedKind -> Nat]]
  /\ retryOf  \in [Run -> Run \cup {NoRun}]
  /\ sequence \in [Run -> Nat]

LocalsTyped ==
  /\ pc       \in [Worker -> Location]
  /\ cur      \in [Worker -> Run \cup {NoRun}]
  /\ snap     \in [Worker -> RunRecord]
  /\ failure  \in [Worker -> FailureKind]
  /\ renewal  \in [Worker -> {"off", "running", "done", "error"}]

BudgetTyped ==
  /\ faults \in 0 .. MaxFaults /\ lapses \in 0 .. MaxLapses
  /\ cancels \in 0 .. MaxCancels

\* The three parts are the whole, before a step and after it.
LEMMA TypeParts ==
  /\ TypeOK <=> RowsTyped /\ LocalsTyped /\ BudgetTyped
  /\ TypeOK' <=> RowsTyped' /\ LocalsTyped' /\ BudgetTyped'
BY DEF TypeOK, RowsTyped, LocalsTyped, BudgetTyped

\* The strings the actions assign are locations and failures.
LEMMA Names ==
  /\ {"idle", "precheck", "loading", "opening_board", "measuring",
      "publishing", "flushing", "checking", "completing",
      "checking_failed", "recording", "fail_loading", "fail_saving",
      "cancelling", "cancelling_run", "joining", "dead", "down"} \subseteq Location
  /\ {"none", "transient", "permanent"} \subseteq FailureKind
  /\ {"absent", "pending", "granted", "rejected"} \subseteq ApprovalStatus
BY DEF Location, FailureKind, ApprovalStatus

\* Moving a worker keeps the locals typed, whether it forgets its job or
\* raises out of it.
LEMMA MovesTyped ==
  ASSUME LocalsTyped, NEW w \in Worker, NEW p \in Location, NEW k \in FailureKind
  PROVE  /\ Goto(w, p) => pc' \in [Worker -> Location]
         /\ Forget(w, p) => LocalsTyped'
         /\ Raise(w, k) => LocalsTyped'
<1>1. Goto(w, p) => pc' \in [Worker -> Location]
  BY DEF LocalsTyped, Goto
<1>2. Forget(w, p) => LocalsTyped'
  BY StartMethod, Names DEF LocalsTyped, Goto, Forget
<1>3. Raise(w, k) => LocalsTyped'
  BY StartMethod, Names DEF LocalsTyped, Goto, Raise
<1> QED BY <1>1, <1>2, <1>3

\* Appending to the feed keeps it typed.
LEMMA AnnounceTyped ==
  ASSUME RowsTyped, NEW r \in Run, NEW kinds, Announce(r, kinds)
  PROVE  feed' \in [Run -> [FeedKind -> Nat]]
BY DEF RowsTyped, Announce

\* A committed question is a started run with a queued job.
LEMMA InsertTyped ==
  ASSUME RowsTyped, NEW r \in Run, Insert(r)
  PROVE  job' \in [Run -> Job] /\ run' \in [Run -> RunRecord]
BY StartMethod, NewJob DEF RowsTyped, Insert

\* What a user asks for keeps every row typed.
LEMMA UserTyped ==
  ASSUME TypeOK, NEW r \in Run, User(r)
  PROVE  TypeOK'
<1> USE TypeParts
<1>0. RowsTyped /\ LocalsTyped /\ BudgetTyped
  OBVIOUS
<1>1. CASE Start(r)
  <2>1. RowsTyped'
    BY <1>0, <1>1, InsertTyped DEF Start, RowsTyped
  <2> QED BY <1>0, <1>1, <2>1 DEF Start, locals, budget, LocalsTyped, BudgetTyped
<1>2. CASE Ask(r)
  <2>1. sequence' \in [Run -> Nat]
    BY <1>0, <1>2 DEF Ask, RowsTyped
  <2>2. RowsTyped'
    BY <1>0, <1>2, <2>1, InsertTyped DEF Ask, RowsTyped
  <2> QED BY <1>0, <1>2, <2>2 DEF Ask, locals, budget, LocalsTyped, BudgetTyped
<1>3. ASSUME NEW original \in Run, Retry(original, r)
      PROVE  TypeOK'
  <2>1. job' \in [Run -> Job] /\ run' \in [Run -> RunRecord]
    BY <1>0, <1>3, InsertTyped DEF Retry
  <2>2. retryOf' \in [Run -> Run \cup {NoRun}]
    BY <1>0, <1>3 DEF Retry, RowsTyped
  <2>3. sequence' \in [Run -> Nat]
    BY <1>0, <1>3 DEF Retry, RowsTyped
  <2>4. feed' \in [Run -> [FeedKind -> Nat]]
    <3>1. "retry_created" \in FeedKind BY DEF FeedKind
    <3> DEFINE n == feed[r]["retry_created"] + 1
    <3>2. n \in Nat BY <1>0, <3>1 DEF RowsTyped
    <3>3. [feed[r] EXCEPT !["retry_created"] = n] \in [FeedKind -> Nat]
      BY <1>0, <3>2 DEF RowsTyped
    <3>4. \/ feed' = feed
          \/ feed' = [feed EXCEPT ![r] = [feed[r] EXCEPT !["retry_created"] = n]]
      BY <1>0, <1>3 DEF Retry, RowsTyped
    <3> QED BY <1>0, <3>3, <3>4 DEF RowsTyped
  <2>5. RowsTyped'
    BY <1>0, <1>3, <2>1, <2>2, <2>3, <2>4 DEF Retry, RowsTyped
  <2> QED BY <1>0, <1>3, <2>5 DEF Retry, locals, budget, LocalsTyped, BudgetTyped
<1>4. CASE Cancel(r)
  <2>1. CancelRequested(job[r]) \in Job
    BY <1>0, JobMethods DEF RowsTyped
  <2>2. CancelRun(run[r]) \in RunRecord
    <3>1. "cancelled" \in RunStatus BY DEF RunStatus, TerminalRunStatuses
    <3> QED BY <1>0, <3>1, TransitionMethod DEF RowsTyped, CancelRun
  <2>3. job' \in [Run -> Job] /\ run' \in [Run -> RunRecord]
    BY <1>0, <1>4, <2>1, <2>2 DEF Cancel, RowsTyped
  <2>4. feed' \in [Run -> [FeedKind -> Nat]]
    BY <1>0, <1>4, AnnounceTyped DEF Cancel
  <2>5. RowsTyped'
    BY <1>0, <1>4, <2>3, <2>4 DEF Cancel, RowsTyped
  <2>6. BudgetTyped'
    BY <1>0, <1>4, BoundsAssumption DEF Cancel, BudgetTyped
  <2> QED BY <1>0, <1>4, <2>5, <2>6 DEF Cancel, locals, LocalsTyped
<1>5. ASSUME NEW d \in Decision, Decide(r, d)
      PROVE  TypeOK'
  <2>1. DecideRun(run[r], d) \in RunRecord
    <3>1. {"completed", "rejected"} \subseteq RunStatus
      BY DEF RunStatus, TerminalRunStatuses
    <3> QED BY <1>0, <3>1, TransitionMethod DEF RowsTyped, DecideRun
  <2>2. run' \in [Run -> RunRecord]
    BY <1>0, <1>5, <2>1 DEF Decide, RowsTyped
  <2>3. approval' \in [Run -> ApprovalStatus]
    BY <1>0, <1>5, Names DEF Decide, DecideApproval, RowsTyped
  <2>4. feed' \in [Run -> [FeedKind -> Nat]]
    BY <1>0, <1>5, AnnounceTyped DEF Decide
  <2>5. RowsTyped'
    BY <1>0, <1>5, <2>2, <2>3, <2>4 DEF Decide, RowsTyped
  <2> QED BY <1>0, <1>5, <2>5 DEF Decide, locals, budget, LocalsTyped, BudgetTyped
<1> QED BY <1>1, <1>2, <1>3, <1>4, <1>5 DEF User

\* A worker that stands before a statement of a handler holds a run.
LEMMA HoldsRun ==
  ASSUME TypeOK, WorkersHoldRuns, NEW w \in Worker, pc[w] \notin {"idle", "dead", "down"}
  PROVE  cur[w] \in Run /\ run[cur[w]].status # "absent"
BY DEF TypeOK, WorkersHoldRuns

\* What a worker does with its job keeps everything typed.
LEMMA ExecuteTyped ==
  ASSUME TypeOK, WorkersHoldRuns, NEW w \in Worker, Execute(w)
  PROVE  TypeOK'
<1> USE TypeParts
<1>0. RowsTyped /\ LocalsTyped /\ BudgetTyped
  OBVIOUS
<1>1. CASE CheckBefore(w)
  <2>1. LocalsTyped'
    BY <1>0, <1>1, Names DEF CheckBefore, Goto, LocalsTyped
  <2> QED BY <1>0, <1>1, <2>1 DEF CheckBefore, rows, budget, RowsTyped, BudgetTyped
<1>2. CASE Load(w)
  <2>1. LocalsTyped'
    BY <1>0, <1>2, Names, HoldsRun DEF Load, Goto, RowsTyped, LocalsTyped
  <2> QED BY <1>0, <1>2, <2>1 DEF Load, rows, budget, RowsTyped, BudgetTyped
<1>3. CASE OpenBoard(w)
  <2>1. LocalsTyped'
    BY <1>0, <1>3, Names DEF OpenBoard, Goto, LocalsTyped
  <2>2. RowsTyped'
    BY <1>0, <1>3, HoldsRun DEF OpenBoard, RowsTyped
  <2> QED BY <1>0, <1>3, <2>1, <2>2 DEF OpenBoard, budget, BudgetTyped
<1>4. CASE BoardExists(w)
  <2>1. LocalsTyped'
    BY <1>0, <1>4, Names, MovesTyped DEF BoardExists
  <2> QED BY <1>0, <1>4, <2>1 DEF BoardExists, rows, budget, RowsTyped, BudgetTyped
<1>5. CASE PipelineFails(w)
  <2>1. LocalsTyped'
    BY <1>0, <1>5, Names, MovesTyped, PipelineFailuresAssumption DEF PipelineFails
  <2> QED BY <1>0, <1>5, <2>1 DEF PipelineFails, rows, budget, RowsTyped, BudgetTyped
<1>6. CASE CheckpointStops(w)
  <2>1. LocalsTyped'
    BY <1>0, <1>6, Names, MovesTyped DEF CheckpointStops
  <2> QED BY <1>0, <1>6, <2>1 DEF CheckpointStops, rows, budget, RowsTyped, BudgetTyped
<1>7. CASE PipelineReturns(w)
  <2>1. LocalsTyped'
    BY <1>0, <1>7, Names DEF PipelineReturns, Goto, LocalsTyped
  <2> QED BY <1>0, <1>7, <2>1 DEF PipelineReturns, rows, budget, RowsTyped, BudgetTyped
<1>8. ASSUME NEW d \in {"pass", "escalate"}, Publish(w, d)
      PROVE  TypeOK'
  <2>1. cur[w] \in Run
    BY <1>8, HoldsRun DEF Publish
  <2>2. RecordEvaluation(BeginEvaluation(snap[w]), d) \in RunRecord
    BY <1>0, <1>8, EvaluationMethod DEF Publish, LocalsTyped
  <2>3. run' \in [Run -> RunRecord]
    BY <1>0, <1>8, <2>1, <2>2 DEF Publish, RowsTyped
  <2>4. approval' \in [Run -> ApprovalStatus]
    BY <1>0, <1>8, <2>1, Names DEF Publish, RowsTyped
  <2>5. feed' \in [Run -> [FeedKind -> Nat]]
    BY <1>0, <1>8, <2>1, AnnounceTyped DEF Publish
  <2>6. RowsTyped'
    BY <1>0, <1>8, <2>3, <2>4, <2>5 DEF Publish, RowsTyped
  <2>7. LocalsTyped'
    BY <1>0, <1>8, Names, StartMethod DEF Publish, Goto, LocalsTyped
  <2> QED BY <1>0, <1>8, <2>6, <2>7 DEF Publish, budget, BudgetTyped
<1>9. CASE PublishRefused(w)
  <2>1. LocalsTyped'
    BY <1>0, <1>9, Names, MovesTyped DEF PublishRefused
  <2> QED BY <1>0, <1>9, <2>1 DEF PublishRefused, rows, budget, RowsTyped, BudgetTyped
<1>10. CASE Flush(w)
  <2>1. LocalsTyped'
    BY <1>0, <1>10, Names DEF Flush, Goto, LocalsTyped
  <2> QED BY <1>0, <1>10, <2>1 DEF Flush, rows, budget, RowsTyped, BudgetTyped
<1>11. CASE CheckAfter(w)
  <2>1. LocalsTyped'
    BY <1>0, <1>11, Names DEF CheckAfter, Goto, LocalsTyped
  <2> QED BY <1>0, <1>11, <2>1 DEF CheckAfter, rows, budget, RowsTyped, BudgetTyped
<1>12. CASE Complete(w)
  <2>1. LocalsTyped'
    BY <1>0, <1>12, Names, MovesTyped DEF Complete, Die, Goto, LocalsTyped
  <2>2. CompletedJob(job[cur[w]]) \in Job
    <3>1. "completed" \in JobStatus BY DEF JobStatus, TerminalJobStatuses
    <3> QED BY <1>0, <1>12, <3>1, HoldsRun, JobMethods DEF Complete, CompletedJob, RowsTyped
  <2>3. RowsTyped'
    BY <1>0, <1>12, <2>2 DEF Complete, RowsTyped
  <2> QED BY <1>0, <1>12, <2>1, <2>3 DEF Complete, budget, BudgetTyped
<1>13. CASE CancelJob(w)
  <2>1. LocalsTyped'
    BY <1>0, <1>13, Names, MovesTyped DEF CancelJob, Die, Goto, LocalsTyped
  <2>2. CancelledJob(job[cur[w]]) \in Job
    <3>1. "cancelled" \in JobStatus BY DEF JobStatus, TerminalJobStatuses
    <3> QED BY <1>0, <1>13, <3>1, HoldsRun, JobMethods DEF CancelJob, CancelledJob, RowsTyped
  <2>3. RowsTyped'
    BY <1>0, <1>13, <2>2 DEF CancelJob, RowsTyped
  <2> QED BY <1>0, <1>13, <2>1, <2>3 DEF CancelJob, budget, BudgetTyped
<1>14. CASE CancelJobRun(w)
  <2>1. cur[w] \in Run
    BY <1>14, HoldsRun DEF CancelJobRun
  <2>2. CancelRun(run[cur[w]]) \in RunRecord
    <3>1. "cancelled" \in RunStatus BY DEF RunStatus, TerminalRunStatuses
    <3> QED BY <1>0, <2>1, <3>1, TransitionMethod DEF RowsTyped, CancelRun
  <2>3. run' \in [Run -> RunRecord]
    BY <1>0, <1>14, <2>2 DEF CancelJobRun, RowsTyped
  <2>4. feed' \in [Run -> [FeedKind -> Nat]]
    BY <1>0, <1>14, <2>1, AnnounceTyped DEF CancelJobRun, RowsTyped
  <2>5. RowsTyped'
    BY <1>0, <1>14, <2>3, <2>4 DEF CancelJobRun, RowsTyped
  <2>6. LocalsTyped'
    BY <1>0, <1>14, Names DEF CancelJobRun, Goto, LocalsTyped
  <2> QED BY <1>0, <1>14, <2>5, <2>6 DEF CancelJobRun, budget, BudgetTyped
<1>15. CASE RecordFailure(w)
  <2>1. LocalsTyped'
    BY <1>0, <1>15, Names, MovesTyped DEF RecordFailure, Die, Goto, LocalsTyped
  <2>2. RequeuedJob(job[cur[w]]) \in Job /\ FailedJob(job[cur[w]]) \in Job
    <3>1. {"queued", "failed"} \subseteq JobStatus BY DEF JobStatus, TerminalJobStatuses
    <3> QED BY <1>0, <1>15, <3>1, HoldsRun, JobMethods
            DEF RecordFailure, RequeuedJob, FailedJob, RowsTyped
  <2>3. RowsTyped'
    BY <1>0, <1>15, <2>2 DEF RecordFailure, RowsTyped
  <2> QED BY <1>0, <1>15, <2>1, <2>3 DEF RecordFailure, budget, BudgetTyped
<1>16. CASE FailLoad(w)
  <2>1. LocalsTyped'
    <3>1. CASE CanFail(run[cur[w]])
      <4>1. run[cur[w]] \in RunRecord
        BY <1>0, <1>16, HoldsRun DEF FailLoad, RowsTyped
      <4>2. "fail_saving" \in Location
        BY Names
      <4>3. /\ pc' = [pc EXCEPT ![w] = "fail_saving"]
            /\ snap' = [snap EXCEPT ![w] = run[cur[w]]]
            /\ UNCHANGED <<cur, failure, renewal>>
        BY <1>16, <3>1 DEF FailLoad, Goto
      <4> QED BY <1>0, <4>1, <4>2, <4>3 DEF LocalsTyped
    <3>2. CASE ~CanFail(run[cur[w]])
      <4>1. Forget(w, "dead")
        BY <1>16, <3>2 DEF FailLoad, Die
      <4> QED BY <1>0, <4>1, Names, MovesTyped
    <3> QED BY <3>1, <3>2
  <2> QED BY <1>0, <1>16, <2>1 DEF FailLoad, rows, budget, RowsTyped, BudgetTyped
<1>17. CASE FailSave(w)
  <2>1. LocalsTyped'
    BY <1>0, <1>17, Names, MovesTyped, StartMethod DEF FailSave, Die, Goto, LocalsTyped
  <2>2. FailRun(snap[w]) \in RunRecord
    <3>1. "failed" \in RunStatus BY DEF RunStatus, TerminalRunStatuses
    <3> QED BY <1>0, <3>1, TransitionMethod DEF LocalsTyped, FailRun
  <2>3. RowsTyped'
    BY <1>0, <1>17, <2>2 DEF FailSave, RowsTyped
  <2> QED BY <1>0, <1>17, <2>1, <2>3 DEF FailSave, budget, BudgetTyped
<1>18. CASE Join(w)
  <2>1. LocalsTyped'
    BY <1>0, <1>18, Names, MovesTyped DEF Join, Die
  <2> QED BY <1>0, <1>18, <2>1 DEF Join, rows, budget, RowsTyped, BudgetTyped
<1> QED BY <1>1, <1>2, <1>3, <1>4, <1>5, <1>6, <1>7, <1>8, <1>9, <1>10, <1>11,
           <1>12, <1>13, <1>14, <1>15, <1>16, <1>17, <1>18 DEF Execute

\* Claims, renewals, expiries, faults and restarts keep everything typed.
LEMMA SurroundingsTyped ==
  ASSUME TypeOK
  PROVE  /\ \A w \in Worker, r \in Run : Claim(w, r) => TypeOK'
         /\ \A r \in Run : LeaseLapses(r) \/ OrphanExpires(r) => TypeOK'
         /\ \A w \in Worker : Renewal(w) \/ Fault(w) \/ Restart(w) => TypeOK'
<1> USE TypeParts
<1>0. RowsTyped /\ LocalsTyped /\ BudgetTyped
  OBVIOUS
<1>1. ASSUME NEW w \in Worker, NEW r \in Run, Claim(w, r)
      PROVE  TypeOK'
  <2>1. Claimed(job[r], w) \in Job
    BY <1>0, <1>1, JobMethods DEF Claim, RowsTyped
  <2>2. RowsTyped'
    BY <1>0, <1>1, <2>1 DEF Claim, RowsTyped
  <2>3. LocalsTyped'
    BY <1>0, <1>1, Names DEF Claim, Goto, LocalsTyped
  <2> QED BY <1>0, <1>1, <2>2, <2>3 DEF Claim, budget, BudgetTyped
<1>2. ASSUME NEW r \in Run, LeaseLapses(r) \/ OrphanExpires(r)
      PROVE  TypeOK'
  <2>1. [job[r] EXCEPT !.lease_live = FALSE] \in Job
    BY <1>0, JobMethods DEF RowsTyped
  <2>2. RowsTyped'
    BY <1>0, <1>2, <2>1 DEF LeaseLapses, OrphanExpires, RowsTyped
  <2>3. LocalsTyped'
    BY <1>0, <1>2 DEF LeaseLapses, OrphanExpires, locals, LocalsTyped
  <2>4. BudgetTyped'
    BY <1>0, <1>2, BoundsAssumption DEF LeaseLapses, OrphanExpires, budget, BudgetTyped
  <2> QED BY <2>2, <2>3, <2>4
<1>3. ASSUME NEW w \in Worker, Renewal(w)
      PROVE  TypeOK'
  <2>1. LocalsTyped'
    BY <1>0, <1>3 DEF Renewal, RenewalStops, RenewalFails, LocalsTyped
  <2> QED BY <1>0, <1>3, <2>1
          DEF Renewal, RenewalStops, RenewalFails, rows, budget, RowsTyped, BudgetTyped
<1>4. ASSUME NEW w \in Worker, Fault(w)
      PROVE  TypeOK'
  <2>1. LocalsTyped'
    BY <1>0, <1>4, Names, MovesTyped DEF Fault, FlushFails, Crash, OutageKillsLoop, Die
  <2>2. BudgetTyped'
    BY <1>0, <1>4, BoundsAssumption
       DEF Fault, FlushFails, Crash, OutageKillsLoop, BudgetTyped
  <2> QED BY <1>0, <1>4, <2>1, <2>2
          DEF Fault, FlushFails, Crash, OutageKillsLoop, rows, RowsTyped
<1>5. ASSUME NEW w \in Worker, Restart(w)
      PROVE  TypeOK'
  <2>1. LocalsTyped'
    BY <1>0, <1>5, Names DEF Restart, Goto, LocalsTyped
  <2> QED BY <1>0, <1>5, <2>1 DEF Restart, rows, budget, RowsTyped, BudgetTyped
<1> QED BY <1>1, <1>2, <1>3, <1>4, <1>5

\* The initial state is typed.
LEMMA InitTyped == Init => TypeOK
<1> SUFFICES ASSUME Init PROVE RowsTyped /\ LocalsTyped /\ BudgetTyped
  BY TypeParts
<1>1. RowsTyped
  BY NewJob, StartMethod, Names DEF Init, RowsTyped
<1>2. LocalsTyped
  BY StartMethod, Names DEF Init, LocalsTyped
<1>3. BudgetTyped
  BY BoundsAssumption DEF Init, BudgetTyped
<1> QED BY <1>1, <1>2, <1>3

\* No step leaves the types.
LEMMA StepTyped ==
  ASSUME TypeOK, WorkersHoldRuns, [Next]_vars
  PROVE  TypeOK'
<1>1. CASE UNCHANGED vars
  BY <1>1 DEF TypeOK, vars, rows, locals, budget
<1>2. CASE Next
  BY <1>2, UserTyped, ExecuteTyped, SurroundingsTyped DEF Next
<1> QED BY <1>1, <1>2

-----------------------------------------------------------------------------
(* Consistency.  Consistent speaks of each worker and of each run: what it *)
(* says of one is named, so that a step is looked at where it happens.     *)

SettledOrGated == {"awaiting_approval", "completed", "rejected", "cancelled"}

WorkerConsistent(w) ==
  /\ cur[w] = NoRun <=> pc[w] \in {"idle", "dead", "down"}
  /\ cur[w] # NoRun => run[cur[w]].status # "absent"
  /\ pc[w] \in {"opening_board", "measuring", "publishing", "fail_saving"} =>
       /\ snap[w].version <= run[cur[w]].version
       /\ snap[w].version = run[cur[w]].version => snap[w] = run[cur[w]]
  /\ pc[w] = "fail_saving" => CanFail(snap[w])
  /\ pc[w] \in {"flushing", "checking", "completing"} =>
       run[cur[w]].status \in SettledOrGated
  /\ pc[w] \in {"fail_loading", "fail_saving"} => job[cur[w]].status = "failed"
  /\ pc[w] = "cancelling_run" => job[cur[w]].status = "cancelled"

RunConsistent(r) ==
  /\ run[r].status = "absent" <=> job[r].status = "absent"
  /\ run[r].status = "absent" =>
       sequence[r] = 0 /\ \A k \in FeedKind : feed[r][k] = 0
  /\ run[r].status \in {"absent", "running"} => approval[r] = "absent"
  /\ run[r].status \notin {"pending", "evaluating"}
  /\ job[r].status = "completed" =>
       run[r].status \in {"awaiting_approval", "completed", "rejected"}
  /\ run[r].status = "failed" => job[r].status = "failed"
  /\ run[r].status = "cancelled" => job[r].status = "cancelled"
  /\ run[r].status = "awaiting_approval" => approval[r] = "pending"
  /\ approval[r] = "granted" => run[r].status = "completed"
  /\ approval[r] = "rejected" <=> run[r].status = "rejected"
  /\ sequence[r] > 0 =>
       /\ feed[r]["finding_published"] = IF run[r].status = "completed" THEN 1 ELSE 0
       /\ feed[r]["cancelled"] = IF run[r].status = "cancelled" THEN 1 ELSE 0
       /\ feed[r]["approval_requested"] = IF approval[r] = "absent" THEN 0 ELSE 1

\* The two together are Consistent, before a step and after it.
LEMMA ConsistentParts ==
  /\ Consistent <=> /\ \A w \in Worker : WorkerConsistent(w)
                    /\ \A r \in Run : RunConsistent(r)
  /\ Consistent' <=> /\ \A w \in Worker : WorkerConsistent(w)'
                     /\ \A r \in Run : RunConsistent(r)'
<1>1. /\ (\A w \in Worker : WorkerConsistent(w)) <=>
           WorkersHoldRuns /\ SnapshotsAreVersions /\ StagesFollow
      /\ (\A w \in Worker : WorkerConsistent(w)') <=>
           WorkersHoldRuns' /\ SnapshotsAreVersions' /\ StagesFollow'
  BY DEF WorkersHoldRuns, SnapshotsAreVersions, StagesFollow, WorkerConsistent,
         SettledOrGated
<1>2. /\ (\A r \in Run : RunConsistent(r)) <=>
           RowsAppearTogether /\ JobRunAgreement /\ ApprovalAgreement /\ FeedTellsOutcome
      /\ (\A r \in Run : RunConsistent(r)') <=>
           /\ RowsAppearTogether' /\ JobRunAgreement'
           /\ ApprovalAgreement' /\ FeedTellsOutcome'
  BY DEF RowsAppearTogether, JobRunAgreement, ApprovalAgreement, FeedTellsOutcome,
         RunConsistent
<1> QED BY <1>1, <1>2 DEF Consistent

\* What every step does to a run that exists: it stays, a change is a newer
\* version, what is settled or gated stays so, and an end is final.
Advances(r) ==
  /\ run[r].status # "absent" =>
       /\ run'[r].status # "absent"
       /\ run'[r] = run[r] \/ run'[r].version > run[r].version
       /\ run[r].status \in SettledOrGated => run'[r].status \in SettledOrGated
  /\ run[r].status \in TerminalRunStatuses => run'[r] = run[r]
  /\ job[r].status \in TerminalJobStatuses => job'[r] = job[r]

SameRows(r) ==
  /\ job'[r] = job[r] /\ run'[r] = run[r] /\ approval'[r] = approval[r]
  /\ feed'[r] = feed[r] /\ sequence'[r] = sequence[r]

\* A run whose rows a step leaves alone stays consistent.
LEMMA RowsUntouched ==
  ASSUME NEW r \in Run, RunConsistent(r), SameRows(r)
  PROVE  RunConsistent(r)' /\ Advances(r)
BY DEF RunConsistent, SameRows, Advances

\* A worker that a step leaves alone stays consistent, though its run may
\* advance under it.
LEMMA WorkerUntouched ==
  ASSUME TypeOK, TypeOK', NEW w \in Worker, WorkerConsistent(w),
         cur[w] \in Run => Advances(cur[w]),
         pc'[w] = pc[w], cur'[w] = cur[w], snap'[w] = snap[w]
  PROVE  WorkerConsistent(w)'
<1>1. CASE cur[w] = NoRun
  BY <1>1 DEF WorkerConsistent
<1>2. CASE cur[w] \in Run
  <2> DEFINE r == cur[w]
  <2>1. run[r].status # "absent" /\ cur[w] # NoRun
    BY <1>2, NoRunAssumption DEF WorkerConsistent
  <2>2. /\ run'[r].status # "absent"
        /\ run'[r] = run[r] \/ run'[r].version > run[r].version
        /\ run[r].status \in SettledOrGated => run'[r].status \in SettledOrGated
    BY <1>2, <2>1 DEF Advances
  <2>3. job[r].status \in {"failed", "cancelled"} => job'[r] = job[r]
    BY <1>2 DEF Advances, TerminalJobStatuses
  <2>4. snap[w].version \in Nat /\ run[r].version \in Nat /\ run'[r].version \in Nat
    BY <1>2 DEF TypeOK, RunRecord
  <2>5. ASSUME pc[w] \in {"opening_board", "measuring", "publishing", "fail_saving"}
        PROVE  /\ snap[w].version <= run'[r].version
               /\ snap[w].version = run'[r].version => snap[w] = run'[r]
    BY <2>2, <2>4, <2>5 DEF WorkerConsistent
  <2> QED BY <2>1, <2>2, <2>3, <2>5 DEF WorkerConsistent
<1> QED BY <1>1, <1>2 DEF TypeOK

\* The status a method of ExecutionJob leaves.
LEMMA JobStatuses ==
  ASSUME NEW j \in Job
  PROVE  /\ \A w \in Worker : Claimed(j, w).status = "leased"
         /\ \A s \in JobStatus : Released(j, s).status = s
         /\ CancelRequested(j).status = IF j.status = "queued" THEN "cancelled" ELSE j.status
         /\ j.status \in TerminalJobStatuses => CancelRequested(j) = j
         /\ [j EXCEPT !.lease_live = FALSE].status = j.status
<1>1. \A w \in Worker : Claimed(j, w).status = "leased"
  BY DEF Claimed, Job
<1>2. \A s \in JobStatus : Released(j, s).status = s
  BY DEF Released, Job
<1>3. CancelRequested(j).status = IF j.status = "queued" THEN "cancelled" ELSE j.status
  BY DEF CancelRequested, Job, TerminalJobStatuses
<1>4. j.status \in TerminalJobStatuses => CancelRequested(j) = j
  BY DEF CancelRequested
<1>5. [j EXCEPT !.lease_live = FALSE].status = j.status
  BY DEF Job
<1> QED BY <1>1, <1>2, <1>3, <1>4, <1>5

\* What users ask for keeps the runs consistent, and moves no worker.
LEMMA UserConsistent ==
  ASSUME TypeOK, NEW r \in Run, RunConsistent(r), User(r)
  PROVE  /\ RunConsistent(r)' /\ Advances(r)
         /\ \A q \in Run \ {r} : SameRows(q)
         /\ UNCHANGED <<pc, cur, snap>>
<1>0. /\ job \in [Run -> Job] /\ run \in [Run -> RunRecord]
      /\ approval \in [Run -> ApprovalStatus] /\ sequence \in [Run -> Nat]
      /\ feed \in [Run -> [FeedKind -> Nat]]
      /\ {"finding_published", "cancelled", "approval_requested"} \subseteq FeedKind
  BY DEF TypeOK, FeedKind
<1>1. ASSUME Insert(r)
      PROVE  /\ run[r].status = "absent" /\ job[r].status = "absent"
             /\ run'[r].status = "running" /\ job'[r].status = "queued"
             /\ approval[r] = "absent"
             /\ \A k \in FeedKind : feed[r][k] = 0
             /\ \A q \in Run \ {r} : run'[q] = run[q] /\ job'[q] = job[q]
             /\ Advances(r)
  <2>1. run'[r] = StartedRun /\ job'[r] = QueuedJob
    BY <1>0, <1>1 DEF Insert
  <2>2. run[r].status = "absent" /\ job[r].status = "absent"
    BY <1>1 DEF Insert, RunConsistent
  <2>3. Advances(r)
    BY <2>2 DEF Advances, TerminalRunStatuses, TerminalJobStatuses
  <2> QED BY <1>0, <1>1, <2>1, <2>2, <2>3, StartMethod, NewJob DEF Insert, RunConsistent
<1>2. CASE Start(r)
  <2>1. RunConsistent(r)'
    BY <1>0, <1>1, <1>2 DEF Start, RunConsistent
  <2> QED BY <1>1, <1>2, <2>1 DEF Start, SameRows, locals
<1>3. CASE Ask(r)
  <2>1. RunConsistent(r)'
    BY <1>0, <1>1, <1>3 DEF Ask, RunConsistent
  <2>2. \A q \in Run \ {r} : SameRows(q)
    BY <1>0, <1>1, <1>3 DEF Ask, SameRows
  <2> QED BY <1>1, <1>3, <2>1, <2>2 DEF Ask, locals
<1>4. ASSUME NEW original \in Run, Retry(original, r)
      PROVE  /\ RunConsistent(r)' /\ Advances(r)
             /\ \A q \in Run \ {r} : SameRows(q)
             /\ UNCHANGED <<pc, cur, snap>>
  <2>1. Insert(r) /\ approval' = approval /\ UNCHANGED <<pc, cur, snap>>
    BY <1>4 DEF Retry, locals
  <2>2. \A k \in {"finding_published", "cancelled", "approval_requested"} :
          feed'[r][k] = feed[r][k]
    BY <1>0, <1>4 DEF Retry
  <2>3. RunConsistent(r)'
    BY <1>0, <1>1, <2>1, <2>2 DEF RunConsistent
  <2>4. \A q \in Run \ {r} : SameRows(q)
    BY <1>0, <1>1, <1>4, <2>1 DEF Retry, SameRows
  <2> QED BY <1>1, <2>1, <2>3, <2>4
<1>5. CASE Cancel(r)
  <2> DEFINE requested == CancelRequested(job[r])
  <2>1. /\ requested.status = IF job[r].status = "queued" THEN "cancelled" ELSE job[r].status
        /\ job[r].status \in TerminalJobStatuses => requested = job[r]
        /\ job'[r] = requested
    BY <1>0, <1>5, JobStatuses DEF Cancel
  <2>2. /\ run[r].status # "absent"
        /\ run[r].status \notin TerminalRunStatuses
        /\ approval' = approval /\ sequence' = sequence
        /\ UNCHANGED <<pc, cur, snap>>
    BY <1>5 DEF Cancel, IsTerminal, locals
  <2>3. CASE requested.status = "cancelled"
    <3>1. /\ run'[r].status = "cancelled"
          /\ run'[r].version > run[r].version
      <4>1. "cancelled" \in RunStatus BY DEF RunStatus, TerminalRunStatuses
      <4>2. run'[r] = CancelRun(run[r]) BY <1>0, <1>5, <2>3 DEF Cancel
      <4> QED BY <1>0, <4>1, <4>2, TransitionMethod DEF CancelRun, RunRecord
    <3>2. sequence[r] > 0 =>
            /\ feed'[r]["finding_published"] = feed[r]["finding_published"]
            /\ feed'[r]["cancelled"] = feed[r]["cancelled"] + 1
            /\ feed'[r]["approval_requested"] = feed[r]["approval_requested"]
      BY <1>0, <1>5, <2>3 DEF Cancel, Announce
    <3>3. RunConsistent(r)'
      BY <2>1, <2>2, <2>3, <3>1, <3>2 DEF RunConsistent, TerminalRunStatuses
    <3>4. Advances(r)
      BY <2>1, <2>2, <3>1 DEF Advances, SettledOrGated
    <3>5. \A q \in Run \ {r} : SameRows(q)
      BY <1>0, <1>5, <2>2, <2>3 DEF Cancel, Announce, SameRows
    <3> QED BY <2>2, <3>3, <3>4, <3>5
  <2>4. CASE requested.status # "cancelled"
    <3>1. run' = run
      BY <1>5, <2>4 DEF Cancel
    <3>2. \A k \in {"finding_published", "cancelled", "approval_requested"} :
            feed'[r][k] = feed[r][k]
      BY <1>0, <1>5, <2>4 DEF Cancel, Announce
    <3>3. RunConsistent(r)'
      BY <2>1, <2>2, <2>4, <3>1, <3>2 DEF RunConsistent, TerminalRunStatuses
    <3>4. Advances(r)
      BY <2>1, <3>1 DEF Advances
    <3>5. \A q \in Run \ {r} : SameRows(q)
      BY <1>0, <1>5, <2>2, <2>4 DEF Cancel, Announce, SameRows
    <3> QED BY <2>2, <3>3, <3>4, <3>5
  <2> QED BY <2>3, <2>4
<1>6. ASSUME NEW d \in Decision, Decide(r, d)
      PROVE  /\ RunConsistent(r)' /\ Advances(r)
             /\ \A q \in Run \ {r} : SameRows(q)
             /\ UNCHANGED <<pc, cur, snap>>
  <2>1. /\ run[r].status = "awaiting_approval" /\ approval[r] = "pending"
        /\ job' = job /\ sequence' = sequence /\ UNCHANGED <<pc, cur, snap>>
    BY <1>6 DEF Decide, CanDecide, CanDecideApproval, locals
  <2>2. /\ run'[r].status = IF d = "approve" THEN "completed" ELSE "rejected"
        /\ run'[r].version > run[r].version
    <3>1. {"completed", "rejected"} \subseteq RunStatus BY DEF RunStatus, TerminalRunStatuses
    <3>2. run'[r] = DecideRun(run[r], d) BY <1>0, <1>6 DEF Decide
    <3> QED BY <1>0, <3>1, <3>2, TransitionMethod DEF DecideRun, RunRecord
  <2>3. approval'[r] = IF d = "approve" THEN "granted" ELSE "rejected"
    BY <1>0, <1>6 DEF Decide, DecideApproval
  <2>4. sequence[r] > 0 =>
          /\ feed'[r]["finding_published"] =
               feed[r]["finding_published"] + IF d = "approve" THEN 1 ELSE 0
          /\ feed'[r]["cancelled"] = feed[r]["cancelled"]
          /\ feed'[r]["approval_requested"] = feed[r]["approval_requested"]
    BY <1>0, <1>6 DEF Decide, Announce
  <2>5. RunConsistent(r)'
    BY <2>1, <2>2, <2>3, <2>4 DEF RunConsistent
  <2>6. Advances(r)
    BY <2>1, <2>2 DEF Advances, SettledOrGated, TerminalRunStatuses
  <2>7. \A q \in Run \ {r} : SameRows(q)
    BY <1>0, <1>6, <2>1 DEF Decide, Announce, SameRows
  <2> QED BY <2>1, <2>5, <2>6, <2>7
<1> QED BY <1>2, <1>3, <1>4, <1>5, <1>6 DEF User

SameLocals(w) == pc'[w] = pc[w] /\ cur'[w] = cur[w] /\ snap'[w] = snap[w]

\* Worker w moves and the rest holds: what the lemmas below show of an action.
WorkerMoves(w) ==
  /\ \A r \in Run : RunConsistent(r)' /\ Advances(r)
  /\ WorkerConsistent(w)'
  /\ \A v \in Worker \ {w} : SameLocals(v)

\* A worker that drops its job, or raises out of it, is consistent.
LEMMA DropConsistent ==
  ASSUME TypeOK, NEW w \in Worker, WorkerConsistent(w), UNCHANGED <<job, run>>
  PROVE  /\ \A p \in {"idle", "dead", "down"} :
              Forget(w, p) => WorkerConsistent(w)' /\ \A v \in Worker \ {w} : SameLocals(v)
         /\ \A k \in FailureKind : Raise(w, k) /\ cur[w] \in Run =>
              WorkerConsistent(w)' /\ \A v \in Worker \ {w} : SameLocals(v)
<1>1. ASSUME NEW p \in {"idle", "dead", "down"}, Forget(w, p)
      PROVE  WorkerConsistent(w)' /\ \A v \in Worker \ {w} : SameLocals(v)
  <2>1. pc'[w] = p /\ cur'[w] = NoRun
    BY <1>1 DEF TypeOK, Forget, Goto
  <2>2. WorkerConsistent(w)'
    BY <2>1 DEF WorkerConsistent
  <2>3. \A v \in Worker \ {w} : SameLocals(v)
    BY <1>1 DEF TypeOK, Forget, Goto, SameLocals
  <2> QED BY <2>2, <2>3
<1>2. ASSUME NEW k \in FailureKind, Raise(w, k), cur[w] \in Run
      PROVE  WorkerConsistent(w)' /\ \A v \in Worker \ {w} : SameLocals(v)
  <2>1. pc'[w] = "checking_failed" /\ cur'[w] = cur[w]
    BY <1>2 DEF TypeOK, Raise, Goto
  <2>2. WorkerConsistent(w)'
    BY <1>2, <2>1, NoRunAssumption DEF WorkerConsistent
  <2>3. \A v \in Worker \ {w} : SameLocals(v)
    BY <1>2 DEF TypeOK, Raise, Goto, SameLocals
  <2> QED BY <2>2, <2>3
<1> QED BY <1>1, <1>2

\* The statements that only read: they move the worker and leave the rows.
LEMMA ReadingSteps ==
  ASSUME TypeOK, Consistent, NEW w \in Worker,
         \/ CheckBefore(w) \/ Load(w) \/ BoardExists(w) \/ PipelineFails(w)
         \/ CheckpointStops(w) \/ PipelineReturns(w) \/ PublishRefused(w) \/ Flush(w)
         \/ CheckAfter(w) \/ FailLoad(w) \/ Join(w) \/ OpenBoard(w)
         \/ Renewal(w) \/ Fault(w) \/ Restart(w)
  PROVE  WorkerMoves(w)
<1>0. WorkerConsistent(w) /\ WorkersHoldRuns
  BY ConsistentParts DEF Consistent
<1>1. UNCHANGED <<job, run, approval, feed, sequence>>
  BY DEF CheckBefore, Load, BoardExists, PipelineFails, CheckpointStops, PipelineReturns,
     PublishRefused, Flush, CheckAfter, FailLoad, Join, OpenBoard, Renewal, RenewalStops,
     RenewalFails, Fault, FlushFails, Crash, OutageKillsLoop, Restart, rows
<1>2. \A r \in Run : RunConsistent(r)' /\ Advances(r)
  BY <1>1, ConsistentParts, RowsUntouched DEF SameRows
<1>3. /\ pc \in [Worker -> Location] /\ cur \in [Worker -> Run \cup {NoRun}]
      /\ snap \in [Worker -> RunRecord] /\ run \in [Run -> RunRecord]
      /\ NoRun \notin Run
  BY NoRunAssumption DEF TypeOK
<1>4. pc[w] \notin {"idle", "dead", "down"} => cur[w] \in Run
  BY HoldsRun, <1>0
<1> SUFFICES WorkerConsistent(w)' /\ \A v \in Worker \ {w} : SameLocals(v)
  BY <1>2 DEF WorkerMoves
<1>5. CASE CheckBefore(w)
  BY <1>0, <1>1, <1>3, <1>4, <1>5 DEF CheckBefore, Goto, WorkerConsistent, SameLocals
<1>6. CASE Load(w)
  <2>1. /\ pc'[w] = "opening_board" /\ cur'[w] = cur[w] /\ snap'[w] = run[cur[w]]
        /\ cur[w] \in Run
    BY <1>3, <1>4, <1>6 DEF Load, Goto
  <2>2. run[cur[w]].version \in Nat
    BY <1>3, <2>1 DEF RunRecord
  <2>3. WorkerConsistent(w)'
    BY <1>0, <1>1, <1>3, <1>6, <2>1, <2>2 DEF WorkerConsistent
  <2> QED BY <1>3, <1>6, <2>3 DEF Load, Goto, SameLocals
<1>7. CASE BoardExists(w)
  BY <1>0, <1>1, <1>4, <1>7, Names, DropConsistent DEF BoardExists
<1>8. CASE PipelineFails(w)
  BY <1>0, <1>1, <1>4, <1>8, Names, PipelineFailuresAssumption, DropConsistent
     DEF PipelineFails
<1>9. CASE CheckpointStops(w)
  BY <1>0, <1>1, <1>4, <1>9, Names, DropConsistent DEF CheckpointStops
<1>10. CASE PipelineReturns(w)
  BY <1>0, <1>1, <1>3, <1>4, <1>10 DEF PipelineReturns, Goto, WorkerConsistent, SameLocals
<1>11. CASE PublishRefused(w)
  BY <1>0, <1>1, <1>4, <1>11, Names, DropConsistent DEF PublishRefused
<1>12. CASE Flush(w)
  BY <1>0, <1>1, <1>3, <1>4, <1>12 DEF Flush, Goto, WorkerConsistent, SameLocals
<1>13. CASE CheckAfter(w)
  BY <1>0, <1>1, <1>3, <1>4, <1>13 DEF CheckAfter, Goto, WorkerConsistent, SameLocals
<1>14. CASE FailLoad(w)
  <2>1. CASE CanFail(run[cur[w]])
    <3>1. /\ pc'[w] = "fail_saving" /\ cur'[w] = cur[w] /\ snap'[w] = run[cur[w]]
          /\ cur[w] \in Run /\ job[cur[w]].status = "failed"
      BY <1>0, <1>3, <1>4, <1>14, <2>1 DEF FailLoad, Goto, WorkerConsistent
    <3>2. run[cur[w]].version \in Nat
      BY <1>3, <3>1 DEF RunRecord
    <3>3. WorkerConsistent(w)'
      BY <1>0, <1>1, <1>3, <1>14, <2>1, <3>1, <3>2 DEF WorkerConsistent
    <3> QED BY <1>3, <1>14, <2>1, <3>3 DEF FailLoad, Goto, SameLocals
  <2>2. CASE ~CanFail(run[cur[w]])
    BY <1>0, <1>1, <1>14, <2>2, DropConsistent DEF FailLoad, Die
  <2> QED BY <2>1, <2>2
<1>15. CASE Join(w)
  BY <1>0, <1>1, <1>15, DropConsistent DEF Join, Die
<1>16. CASE OpenBoard(w)
  BY <1>0, <1>1, <1>3, <1>4, <1>16 DEF OpenBoard, Goto, WorkerConsistent, SameLocals
<1>17. CASE Renewal(w)
  BY <1>0, <1>1, <1>17
     DEF Renewal, RenewalStops, RenewalFails, WorkerConsistent, SameLocals
<1>18. CASE FlushFails(w)
  BY <1>0, <1>1, <1>4, <1>18, Names, DropConsistent DEF FlushFails
<1>19. CASE Crash(w) \/ OutageKillsLoop(w)
  BY <1>0, <1>1, <1>19, DropConsistent DEF Crash, OutageKillsLoop, Die
<1>20. CASE Restart(w)
  BY <1>0, <1>1, <1>3, <1>20 DEF Restart, Goto, WorkerConsistent, SameLocals
<1> QED BY <1>5, <1>6, <1>7, <1>8, <1>9, <1>10, <1>11, <1>12, <1>13, <1>14, <1>15,
           <1>16, <1>17, <1>18, <1>19, <1>20 DEF Fault

\* A worker that changes only the job of a run, from a status that is not an
\* end to one that suits the run, keeps every run consistent.
LEMMA JobChanges ==
  ASSUME TypeOK, Consistent, NEW r \in Run, NEW j, job' = [job EXCEPT ![r] = j],
         UNCHANGED <<run, approval, feed, sequence>>,
         job[r].status \in {"queued", "leased"},
         j.status # "absent",
         j.status = "completed" => run[r].status \in SettledOrGated
  PROVE  \A q \in Run : RunConsistent(q)' /\ Advances(q)
<1>1. job'[r] = j /\ \A q \in Run \ {r} : job'[q] = job[q]
  BY DEF TypeOK
<1>2. RunConsistent(r)
  BY ConsistentParts
<1>3. RunConsistent(r)' /\ Advances(r)
  BY <1>1, <1>2 DEF RunConsistent, Advances, SettledOrGated, TerminalJobStatuses
<1>4. \A q \in Run \ {r} : RunConsistent(q)' /\ Advances(q)
  BY <1>1, ConsistentParts, RowsUntouched DEF SameRows
<1> QED BY <1>3, <1>4

\* The statements that change the job.
LEMMA JobSteps ==
  ASSUME TypeOK, Consistent, NEW w \in Worker,
         Complete(w) \/ CancelJob(w) \/ RecordFailure(w)
         \/ \E r \in Run : Claim(w, r)
  PROVE  WorkerMoves(w)
<1>0. /\ WorkerConsistent(w) /\ WorkersHoldRuns
      /\ \A r \in Run : RunConsistent(r)
      /\ pc \in [Worker -> Location] /\ cur \in [Worker -> Run \cup {NoRun}]
      /\ job \in [Run -> Job]
      /\ NoRun \notin Run
  BY ConsistentParts, NoRunAssumption DEF Consistent, TypeOK
<1>1. pc[w] \notin {"idle", "dead", "down"} => cur[w] \in Run
  BY HoldsRun, <1>0
<1>2. {"queued", "completed", "failed", "cancelled"} \subseteq JobStatus
  BY DEF JobStatus, TerminalJobStatuses
<1>3. ASSUME NEW r \in Run, Claim(w, r)
      PROVE  WorkerMoves(w)
  <2>1. job' = [job EXCEPT ![r] = Claimed(job[r], w)] /\ Claimed(job[r], w).status = "leased"
    BY <1>0, <1>3, JobStatuses DEF Claim
  <2>2. job[r].status \in {"queued", "leased"}
    BY <1>3 DEF Claim, Claimable
  <2>3. \A q \in Run : RunConsistent(q)' /\ Advances(q)
    BY <1>3, <2>1, <2>2, JobChanges DEF Claim
  <2>4. pc'[w] = "precheck" /\ cur'[w] = r /\ run[r].status # "absent" /\ run' = run
    BY <1>0, <1>3, <2>2 DEF Claim, Goto, RunConsistent
  <2>5. WorkerConsistent(w)'
    BY <1>0, <2>4 DEF WorkerConsistent
  <2>6. \A v \in Worker \ {w} : SameLocals(v)
    BY <1>0, <1>3 DEF Claim, Goto, SameLocals
  <2> QED BY <2>3, <2>5, <2>6 DEF WorkerMoves
<1>4. ASSUME NEW p \in {"idle", "dead", "down"}, Forget(w, p),
             UNCHANGED <<job, run, approval, feed, sequence>>
      PROVE  WorkerMoves(w)
  <2>1. \A r \in Run : RunConsistent(r)' /\ Advances(r)
    BY <1>0, <1>4, RowsUntouched DEF SameRows
  <2> QED BY <1>0, <1>4, <2>1, DropConsistent DEF WorkerMoves
<1>5. CASE Complete(w)
  <2>1. CASE ~OwnsLease(job[cur[w]], w)
    BY <1>4, <1>5, <2>1 DEF Complete, Die
  <2>2. CASE OwnsLease(job[cur[w]], w)
    <3>1. /\ job' = [job EXCEPT ![cur[w]] = CompletedJob(job[cur[w]])]
          /\ CompletedJob(job[cur[w]]).status = "completed"
      BY <1>0, <1>1, <1>2, <1>5, <2>2, JobStatuses DEF Complete, CompletedJob
    <3>2. run[cur[w]].status \in SettledOrGated /\ job[cur[w]].status = "leased"
      BY <1>0, <1>5, <2>2 DEF Complete, WorkerConsistent, OwnsLease
    <3>3. \A q \in Run : RunConsistent(q)' /\ Advances(q)
      BY <1>1, <1>5, <2>2, <3>1, <3>2, JobChanges DEF Complete
    <3>4. pc'[w] = "joining" /\ cur'[w] = cur[w] /\ run' = run
      BY <1>0, <1>5, <2>2 DEF Complete, Goto
    <3>5. WorkerConsistent(w)'
      BY <1>0, <1>1, <1>5, <3>4 DEF Complete, WorkerConsistent
    <3>6. \A v \in Worker \ {w} : SameLocals(v)
      BY <1>0, <1>5, <2>2 DEF Complete, Goto, SameLocals
    <3> QED BY <3>3, <3>5, <3>6 DEF WorkerMoves
  <2> QED BY <2>1, <2>2
<1>6. CASE CancelJob(w)
  <2>1. CASE job[cur[w]].status # "leased"
    <3>1. pc'[w] = "joining" /\ UNCHANGED <<job, run, approval, feed, sequence, cur, snap>>
      BY <1>0, <1>6, <2>1 DEF CancelJob, OwnsLease, Goto
    <3>2. \A r \in Run : RunConsistent(r)' /\ Advances(r)
      BY <1>0, <3>1, RowsUntouched DEF SameRows
    <3>3. WorkerConsistent(w)'
      BY <1>0, <1>1, <1>6, <3>1 DEF CancelJob, WorkerConsistent
    <3>4. \A v \in Worker \ {w} : SameLocals(v)
      BY <1>0, <1>6, <2>1 DEF CancelJob, OwnsLease, Goto, SameLocals
    <3> QED BY <3>2, <3>3, <3>4 DEF WorkerMoves
  <2>2. CASE OwnsLease(job[cur[w]], w)
    <3>0. job[cur[w]].status = "leased"
      BY <2>2 DEF OwnsLease
    <3>1. /\ job' = [job EXCEPT ![cur[w]] = CancelledJob(job[cur[w]])]
          /\ CancelledJob(job[cur[w]]).status = "cancelled"
          /\ pc'[w] = "cancelling_run" /\ UNCHANGED <<cur, snap, run>>
      BY <1>0, <1>1, <1>2, <1>6, <2>2, <3>0, JobStatuses DEF CancelJob, CancelledJob, Goto
    <3>2. \A q \in Run : RunConsistent(q)' /\ Advances(q)
      BY <1>1, <1>6, <3>0, <3>1, JobChanges DEF CancelJob
    <3>3. WorkerConsistent(w)'
      BY <1>0, <1>1, <1>6, <3>1 DEF CancelJob, WorkerConsistent
    <3>4. \A v \in Worker \ {w} : SameLocals(v)
      BY <1>0, <1>6, <2>2, <3>0 DEF CancelJob, Goto, SameLocals
    <3> QED BY <3>2, <3>3, <3>4 DEF WorkerMoves
  <2>3. CASE job[cur[w]].status = "leased" /\ ~OwnsLease(job[cur[w]], w)
    BY <1>4, <1>6, <2>3 DEF CancelJob, Die
  <2> QED BY <2>1, <2>2, <2>3
<1>7. CASE RecordFailure(w)
  <2>1. CASE ~OwnsLease(job[cur[w]], w)
    BY <1>4, <1>7, <2>1 DEF RecordFailure, Die
  <2>2. CASE OwnsLease(job[cur[w]], w)
    <3> DEFINE again == failure[w] = "transient" /\ CanRetry(job[cur[w]])
               j == IF again THEN RequeuedJob(job[cur[w]]) ELSE FailedJob(job[cur[w]])
    <3>1. /\ job' = [job EXCEPT ![cur[w]] = j]
          /\ j.status = IF again THEN "queued" ELSE "failed"
          /\ pc'[w] = IF again THEN "joining" ELSE "fail_loading"
          /\ UNCHANGED <<cur, snap, run>>
      BY <1>0, <1>1, <1>2, <1>7, <2>2, JobStatuses
         DEF RecordFailure, RequeuedJob, FailedJob, Goto
    <3>2. job[cur[w]].status = "leased"
      BY <2>2 DEF OwnsLease
    <3> HIDE DEF again, j
    <3>3. \A q \in Run : RunConsistent(q)' /\ Advances(q)
      BY <1>1, <1>7, <3>1, <3>2, JobChanges DEF RecordFailure
    <3>4. WorkerConsistent(w)'
      BY <1>0, <1>1, <1>7, <3>1 DEF RecordFailure, WorkerConsistent
    <3>5. \A v \in Worker \ {w} : SameLocals(v)
      BY <1>0, <1>7, <2>2 DEF RecordFailure, Goto, SameLocals
    <3> QED BY <3>3, <3>4, <3>5 DEF WorkerMoves
  <2> QED BY <2>1, <2>2
<1> QED BY <1>3, <1>5, <1>6, <1>7

\* The statements that change the run.  What makes an optimistic save safe is
\* SnapshotsAreVersions: the run that is overwritten is the run in memory.
LEMMA RunSteps ==
  ASSUME TypeOK, Consistent, NEW w \in Worker,
         CancelJobRun(w) \/ FailSave(w) \/ \E d \in {"pass", "escalate"} : Publish(w, d)
  PROVE  WorkerMoves(w)
<1>0. /\ WorkerConsistent(w) /\ WorkersHoldRuns
      /\ \A q \in Run : RunConsistent(q)
      /\ pc \in [Worker -> Location] /\ cur \in [Worker -> Run \cup {NoRun}]
      /\ snap \in [Worker -> RunRecord]
      /\ job \in [Run -> Job] /\ run \in [Run -> RunRecord]
      /\ approval \in [Run -> ApprovalStatus] /\ sequence \in [Run -> Nat]
      /\ feed \in [Run -> [FeedKind -> Nat]]
      /\ {"finding_published", "cancelled", "approval_requested"} \subseteq FeedKind
      /\ NoRun \notin Run
  BY ConsistentParts, NoRunAssumption DEF Consistent, TypeOK, FeedKind
<1>1. PICK r \in Run : r = cur[w] /\ run[r].status # "absent"
  <2>1. pc[w] \notin {"idle", "dead", "down"}
    BY DEF CancelJobRun, FailSave, Publish
  <2> QED BY <1>0, <2>1, HoldsRun
<1>2. {"completed", "failed", "cancelled", "awaiting_approval"} \subseteq RunStatus
  BY DEF RunStatus, TerminalRunStatuses
<1>3. ASSUME RunConsistent(r)', Advances(r), \A q \in Run \ {r} : SameRows(q)
      PROVE  \A q \in Run : RunConsistent(q)' /\ Advances(q)
  BY <1>0, <1>1, <1>3, RowsUntouched
<1>4. CASE CancelJobRun(w)
  <2>1. /\ pc'[w] = "joining" /\ cur' = cur /\ snap' = snap
        /\ job[r].status = "cancelled"
        /\ UNCHANGED <<job, approval, sequence>>
    BY <1>0, <1>1, <1>4 DEF CancelJobRun, Goto, WorkerConsistent
  <2>2. CASE IsTerminal(r)
    <3>1. \A q \in Run : SameRows(q)
      BY <1>1, <1>4, <2>1, <2>2 DEF CancelJobRun, SameRows
    <3>2. \A q \in Run : RunConsistent(q)' /\ Advances(q)
      BY <1>0, <1>1, <3>1, RowsUntouched
    <3>3. WorkerConsistent(w)'
      BY <1>0, <1>1, <2>1, <2>2, <1>4 DEF CancelJobRun, WorkerConsistent
    <3> QED BY <1>0, <1>1, <1>4, <2>1, <3>2, <3>3 DEF WorkerMoves, SameLocals, CancelJobRun, Goto
  <2>3. CASE ~IsTerminal(r)
    <3>1. run'[r].status = "cancelled" /\ run'[r].version > run[r].version
      <4>1. run'[r] = CancelRun(run[r])
        BY <1>0, <1>1, <1>4, <2>3 DEF CancelJobRun
      <4> QED BY <1>0, <1>1, <1>2, <4>1, TransitionMethod DEF CancelRun, RunRecord
    <3>2. sequence[r] > 0 =>
            /\ feed'[r]["finding_published"] = feed[r]["finding_published"]
            /\ feed'[r]["cancelled"] = feed[r]["cancelled"] + 1
            /\ feed'[r]["approval_requested"] = feed[r]["approval_requested"]
      BY <1>0, <1>1, <1>4, <2>3 DEF CancelJobRun, Announce
    <3>3. run[r].status \notin TerminalRunStatuses /\ RunConsistent(r)
      BY <1>0, <1>1, <2>3 DEF IsTerminal
    <3>4. RunConsistent(r)'
      BY <2>1, <3>1, <3>2, <3>3 DEF RunConsistent, TerminalRunStatuses
    <3>5. Advances(r)
      BY <2>1, <3>1, <3>3 DEF Advances, SettledOrGated
    <3>6. \A q \in Run \ {r} : SameRows(q)
      BY <1>0, <1>1, <1>4, <2>1, <2>3 DEF CancelJobRun, Announce, SameRows
    <3>7. WorkerConsistent(w)'
      BY <1>0, <1>1, <2>1, <3>1 DEF WorkerConsistent
    <3>8. \A v \in Worker \ {w} : SameLocals(v)
      BY <1>0, <1>1, <1>4, <2>1 DEF CancelJobRun, Goto, SameLocals
    <3> QED BY <1>3, <3>4, <3>5, <3>6, <3>7, <3>8 DEF WorkerMoves
  <2> QED BY <2>2, <2>3
<1>5. CASE FailSave(w)
  <2>1. UNCHANGED <<job, approval, feed, sequence>> /\ job[r].status = "failed"
    BY <1>0, <1>1, <1>5 DEF FailSave, WorkerConsistent
  <2>2. CASE ~VersionMatches(w)
    <3>1. \A q \in Run : SameRows(q)
      BY <1>1, <1>5, <2>1, <2>2 DEF FailSave, SameRows
    <3>2. \A q \in Run : RunConsistent(q)' /\ Advances(q)
      BY <1>0, <1>1, <3>1, RowsUntouched
    <3>3. Forget(w, "dead") /\ UNCHANGED <<job, run>>
      BY <1>1, <1>5, <2>1, <2>2 DEF FailSave, Die
    <3> QED BY <1>0, <1>1, <3>2, <3>3, DropConsistent DEF WorkerMoves
  <2>3. CASE VersionMatches(w)
    <3>1. snap[w] = run[r] /\ CanFail(run[r])
      BY <1>0, <1>1, <1>5, <2>3 DEF FailSave, VersionMatches, WorkerConsistent
    <3>2. run[r].status = "running"
      BY <1>0, <1>1, <3>1 DEF CanFail, RunConsistent
    <3>3. run'[r].status = "failed" /\ run'[r].version > run[r].version
      <4>1. run'[r] = FailRun(run[r])
        BY <1>0, <1>1, <1>5, <2>3, <3>1 DEF FailSave
      <4> QED BY <1>0, <1>1, <1>2, <4>1, TransitionMethod DEF FailRun, RunRecord
    <3>4. pc'[w] = "joining" /\ cur' = cur
      BY <1>0, <1>1, <1>5, <2>3 DEF FailSave, Goto
    <3>5. RunConsistent(r)'
      BY <1>0, <1>1, <2>1, <3>2, <3>3 DEF RunConsistent
    <3>6. Advances(r)
      BY <2>1, <3>2, <3>3 DEF Advances, SettledOrGated, TerminalRunStatuses
    <3>7. \A q \in Run \ {r} : SameRows(q)
      BY <1>0, <1>1, <1>5, <2>1, <2>3 DEF FailSave, SameRows
    <3>8. WorkerConsistent(w)'
      BY <1>0, <1>1, <3>3, <3>4 DEF WorkerConsistent
    <3>9. \A v \in Worker \ {w} : SameLocals(v)
      BY <1>0, <1>1, <1>5, <2>3 DEF FailSave, Goto, SameLocals
    <3> QED BY <1>3, <3>5, <3>6, <3>7, <3>8, <3>9 DEF WorkerMoves
  <2> QED BY <2>2, <2>3
<1>6. ASSUME NEW d \in {"pass", "escalate"}, Publish(w, d)
      PROVE  WorkerMoves(w)
  <2>1. /\ snap[w] = run[r] /\ run[r].status = "running"
        /\ CanBeginEvaluation(run[r]) /\ CanRecordEvaluation(BeginEvaluation(run[r]))
    BY <1>0, <1>1, <1>6 DEF Publish, VersionMatches, CanBeginEvaluation, WorkerConsistent
  <2>2. /\ run'[r].version > run[r].version
        /\ run'[r].status = IF d = "pass" THEN "completed" ELSE "awaiting_approval"
    <3>1. run'[r] = RecordEvaluation(BeginEvaluation(run[r]), d)
      BY <1>0, <1>1, <1>6, <2>1 DEF Publish
    <3> QED BY <1>0, <1>1, <2>1, <3>1, EvaluationMethod
  <2>3. approval'[r] = IF d = "pass" THEN approval[r] ELSE "pending"
    BY <1>0, <1>1, <1>6 DEF Publish
  <2>4. sequence[r] > 0 =>
          /\ feed'[r]["finding_published"] =
               feed[r]["finding_published"] + IF d = "pass" THEN 1 ELSE 0
          /\ feed'[r]["cancelled"] = feed[r]["cancelled"]
          /\ feed'[r]["approval_requested"] =
               feed[r]["approval_requested"] + IF d = "pass" THEN 0 ELSE 1
    BY <1>0, <1>1, <1>6 DEF Publish, Announce
  <2>5. UNCHANGED <<job, sequence, cur>> /\ pc'[w] = "flushing"
    BY <1>0, <1>1, <1>6 DEF Publish, Goto
  <2>6. RunConsistent(r)'
    BY <1>0, <1>1, <2>1, <2>2, <2>3, <2>4, <2>5 DEF RunConsistent
  <2>7. Advances(r)
    BY <2>1, <2>2, <2>5 DEF Advances, SettledOrGated, TerminalRunStatuses
  <2>8. \A q \in Run \ {r} : SameRows(q)
    BY <1>0, <1>1, <1>6, <2>5 DEF Publish, Announce, SameRows
  <2>9. WorkerConsistent(w)'
    BY <1>0, <1>1, <2>2, <2>5 DEF WorkerConsistent, SettledOrGated
  <2>10. \A v \in Worker \ {w} : SameLocals(v)
    BY <1>0, <1>1, <1>6 DEF Publish, Goto, SameLocals
  <2> QED BY <1>3, <2>6, <2>7, <2>8, <2>9, <2>10 DEF WorkerMoves
<1> QED BY <1>4, <1>5, <1>6

\* The end of a lease changes no status.
LEMMA LeaseSteps ==
  ASSUME TypeOK, Consistent, NEW r \in Run, LeaseLapses(r) \/ OrphanExpires(r)
  PROVE  /\ \A q \in Run : RunConsistent(q)' /\ Advances(q)
         /\ UNCHANGED <<pc, cur, snap>>
<1>1. /\ job' = [job EXCEPT ![r] = [job[r] EXCEPT !.lease_live = FALSE]]
      /\ UNCHANGED <<run, approval, feed, sequence, pc, cur, snap>>
      /\ job[r].status = "leased"
  BY DEF LeaseLapses, OrphanExpires, Orphaned, locals
<1>2. [job[r] EXCEPT !.lease_live = FALSE].status = "leased"
  BY <1>1, JobStatuses DEF TypeOK
<1> QED BY <1>1, <1>2, JobChanges

-----------------------------------------------------------------------------
(* The theorems. *)

\* Every step keeps the inductive invariant, and lets every run advance.
LEMMA StepConsistent ==
  ASSUME TypeOK, Consistent, [Next]_vars
  PROVE  TypeOK' /\ Consistent' /\ \A r \in Run : Advances(r)
<1>1. TypeOK'
  BY StepTyped DEF Consistent
<1>2. ASSUME \A r \in Run : RunConsistent(r)' /\ Advances(r), NEW w \in Worker,
             SameLocals(w)
      PROVE  WorkerConsistent(w)'
  BY <1>1, <1>2, ConsistentParts, WorkerUntouched DEF SameLocals
<1>3. ASSUME \A r \in Run : RunConsistent(r)' /\ Advances(r),
             \A w \in Worker : SameLocals(w)
      PROVE  Consistent' /\ \A r \in Run : Advances(r)
  BY <1>2, <1>3, ConsistentParts
<1>4. ASSUME NEW w \in Worker, WorkerMoves(w)
      PROVE  Consistent' /\ \A r \in Run : Advances(r)
  BY <1>2, <1>4, ConsistentParts DEF WorkerMoves
<1>5. CASE UNCHANGED vars
  <2>1. \A r \in Run : RunConsistent(r)' /\ Advances(r)
    BY <1>5, ConsistentParts, RowsUntouched DEF SameRows, vars, rows
  <2> QED BY <1>1, <1>3, <1>5, <2>1 DEF SameLocals, vars, locals
<1>6. ASSUME NEW r \in Run, User(r)
      PROVE  Consistent' /\ \A q \in Run : Advances(q)
  <2>1. \A q \in Run : RunConsistent(q)' /\ Advances(q)
    BY <1>6, ConsistentParts, UserConsistent, RowsUntouched
  <2>2. UNCHANGED <<pc, cur, snap>>
    BY <1>6, ConsistentParts, UserConsistent
  <2> QED BY <1>3, <2>1, <2>2 DEF SameLocals
<1>7. ASSUME NEW r \in Run, LeaseLapses(r) \/ OrphanExpires(r)
      PROVE  Consistent' /\ \A q \in Run : Advances(q)
  BY <1>3, <1>7, LeaseSteps DEF SameLocals
<1>8. ASSUME NEW w \in Worker,
             Execute(w) \/ Renewal(w) \/ Fault(w) \/ Restart(w) \/ \E r \in Run : Claim(w, r)
      PROVE  Consistent' /\ \A r \in Run : Advances(r)
  BY <1>4, <1>8, ReadingSteps, JobSteps, RunSteps DEF Execute
<1> QED BY <1>1, <1>5, <1>6, <1>7, <1>8 DEF Next

\* The initial state is consistent.
LEMMA InitConsistent == Init => Consistent
<1> SUFFICES ASSUME Init PROVE Consistent
  OBVIOUS
<1>1. \A w \in Worker : WorkerConsistent(w)
  BY DEF Init, WorkerConsistent
<1>2. {"finding_published", "cancelled", "approval_requested"} \subseteq FeedKind
  BY DEF FeedKind
<1>3. \A r \in Run : RunConsistent(r)
  BY <1>2, StartMethod, NewJob DEF Init, RunConsistent
<1> QED BY <1>1, <1>3, ConsistentParts

\* The rows, the workers' locals and the bounds keep their types, and what the
\* rows say of each other and of the workers stays true, through every
\* interleaving of requests, executions, takeovers, lapsed leases and crashes.
THEOREM InductiveInvariant == Spec => [](TypeOK /\ Consistent)
<1>1. Init => TypeOK /\ Consistent
  BY InitTyped, InitConsistent
<1>2. TypeOK /\ Consistent /\ [Next]_vars => TypeOK' /\ Consistent'
  BY StepConsistent
<1> QED BY <1>1, <1>2, PTL DEF Spec

\* Type correctness: attempts never exceed max_attempts, every lease owner is
\* a worker and every status one of the enumerations.
THEOREM TypeCorrect == Spec => []TypeOK
BY InductiveInvariant, PTL

\* A job ends as its run ended: completed with a published or gated run,
\* failed or cancelled whenever its run is.
THEOREM JobsAgreeWithRuns == Spec => []JobRunAgreement
<1>1. Consistent => JobRunAgreement
  BY DEF Consistent
<1> QED BY <1>1, InductiveInvariant, PTL

\* A Thread is told each outcome once, and only the outcome its run has.
THEOREM FeedIsTruthful == Spec => []FeedTellsOutcome
<1>1. Consistent => FeedTellsOutcome
  BY DEF Consistent
<1> QED BY <1>1, InductiveInvariant, PTL

\* A gated run has its pending approval, and a decision is the run's.
THEOREM ApprovalsAgree == Spec => []ApprovalAgreement
<1>1. Consistent => ApprovalAgreement
  BY DEF Consistent
<1> QED BY <1>1, InductiveInvariant, PTL

\* Terminal states cannot transition, neither of a run nor of its job, though
\* any worker may still hold an old snapshot of the one or an old lease on the
\* other.
THEOREM TerminalStatesAreFinal == Spec => EndsAreFinal
<1>1. TypeOK /\ Consistent /\ [Next]_vars =>
        [\A r \in Run :
           /\ run[r].status \in TerminalRunStatuses => run'[r] = run[r]
           /\ job[r].status \in TerminalJobStatuses => job'[r] = job[r]]_vars
  BY StepConsistent DEF Advances
<1> QED BY <1>1, InductiveInvariant, PTL DEF Spec, EndsAreFinal

\* What a step may do to the row of a leased job.
KeepsLease(r) ==
  job[r].status = "leased" =>
    LET w == job[r].lease_owner
    IN  \/ job'[r].status = "leased" /\ (job[r].lease_live => job'[r].lease_owner = w)
        \/ job'[r].status # "leased" /\ cur[w] = r /\ pc'[w] # pc[w]

\* A cancellation marks a leased job, and a lease that runs out stays where it is.
LEMMA MarksKeepLease ==
  ASSUME NEW j \in Job, j.status = "leased"
  PROVE  /\ CancelRequested(j).status = "leased"
         /\ CancelRequested(j).lease_owner = j.lease_owner
         /\ [j EXCEPT !.lease_live = FALSE].status = "leased"
         /\ [j EXCEPT !.lease_live = FALSE].lease_owner = j.lease_owner
BY DEF CancelRequested, TerminalJobStatuses, Job

\* Every step keeps every lease: what a worker may do to a job is decided by
\* OwnsLease and by the claim query alone.
LEMMA StepKeepsLease ==
  ASSUME TypeOK, Consistent, [Next]_vars, NEW r \in Run
  PROVE  KeepsLease(r)
<1>0. /\ job \in [Run -> Job] /\ pc \in [Worker -> Location]
      /\ \A w \in Worker : pc[w] \notin {"idle", "dead", "down"} => cur[w] \in Run
  BY HoldsRun DEF TypeOK, Consistent
<1>1. ASSUME job'[r] = job[r] PROVE KeepsLease(r)
  BY <1>1 DEF KeepsLease
<1>2. ASSUME NEW q \in Run, User(q) \/ LeaseLapses(q) \/ OrphanExpires(q)
      PROVE  KeepsLease(r)
  <2>1. CASE Start(q) \/ Ask(q) \/ \E original \in Run : Retry(original, q)
    <3>1. run[q].status = "absent" /\ job' = [job EXCEPT ![q] = QueuedJob]
      BY <2>1 DEF Start, Ask, Retry, Insert
    <3>2. job[q].status = "absent"
      BY <3>1 DEF Consistent, RowsAppearTogether
    <3> QED BY <1>0, <1>1, <3>1, <3>2 DEF KeepsLease
  <2>2. CASE Cancel(q)
    BY <1>0, <2>2, MarksKeepLease DEF Cancel, KeepsLease
  <2>3. CASE \E d \in Decision : Decide(q, d)
    BY <1>1, <2>3 DEF Decide
  <2>4. CASE LeaseLapses(q) \/ OrphanExpires(q)
    <3>1. job' = [job EXCEPT ![q] = [job[q] EXCEPT !.lease_live = FALSE]]
      BY <1>0, <2>4 DEF LeaseLapses, OrphanExpires
    <3>2. CASE q # r
      BY <1>0, <1>1, <3>1, <3>2
    <3>3. CASE q = r /\ job[r].status = "leased"
      BY <1>0, <3>1, <3>3, MarksKeepLease DEF KeepsLease
    <3> QED BY <3>2, <3>3 DEF KeepsLease
  <2> QED BY <1>2, <2>1, <2>2, <2>3, <2>4 DEF User
<1>3. ASSUME NEW w \in Worker, NEW q \in Run, Claim(w, q)
      PROVE  KeepsLease(r)
  <2>1. job' = [job EXCEPT ![q] = Claimed(job[q], w)] /\ Claimed(job[q], w).status = "leased"
    BY <1>0, <1>3, JobStatuses DEF Claim
  <2>2. job[q].status = "leased" => ~job[q].lease_live
    BY <1>3 DEF Claim, Claimable
  <2> QED BY <1>0, <1>1, <2>1, <2>2 DEF KeepsLease
<1>4. ASSUME NEW w \in Worker, Complete(w) \/ CancelJob(w) \/ RecordFailure(w)
      PROVE  KeepsLease(r)
  <2>1. pc[w] \in {"completing", "cancelling", "recording"} /\ cur[w] \in Run
    BY <1>0, <1>4 DEF Complete, CancelJob, RecordFailure
  <2>2. \/ job' = job
        \/ /\ OwnsLease(job[cur[w]], w)
           /\ pc'[w] # pc[w]
           /\ \E s \in {"queued", "completed", "failed", "cancelled"} :
                job' = [job EXCEPT ![cur[w]] = Released(job[cur[w]], s)]
    BY <1>0, <1>4, <2>1
       DEF Complete, CancelJob, RecordFailure, Goto, CompletedJob, CancelledJob, RequeuedJob,
           FailedJob
  <2>3. ASSUME OwnsLease(job[cur[w]], w), pc'[w] # pc[w],
               NEW s \in {"queued", "completed", "failed", "cancelled"},
               job' = [job EXCEPT ![cur[w]] = Released(job[cur[w]], s)]
        PROVE  KeepsLease(r)
    <3>1. Released(job[cur[w]], s).status = s
      BY <1>0, <2>1, JobStatuses DEF JobStatus, TerminalJobStatuses
    <3> QED BY <1>0, <1>1, <2>1, <2>3, <3>1 DEF KeepsLease, OwnsLease
  <2> QED BY <1>1, <2>2, <2>3
<1>5. ASSUME NEW w \in Worker,
             Execute(w) \/ Renewal(w) \/ Fault(w) \/ Restart(w),
             ~(Complete(w) \/ CancelJob(w) \/ RecordFailure(w))
      PROVE  job' = job
  BY <1>5 DEF Execute, CheckBefore, Load, OpenBoard, BoardExists, PipelineFails,
     CheckpointStops, PipelineReturns, Publish, PublishRefused, Flush, CheckAfter, CancelJobRun,
     FailLoad, FailSave, Join, Renewal, RenewalStops, RenewalFails, Fault, FlushFails, Crash,
     OutageKillsLoop, Restart, rows
<1>6. CASE UNCHANGED vars
  BY <1>1, <1>6 DEF vars, rows
<1> QED BY <1>1, <1>2, <1>3, <1>4, <1>5, <1>6 DEF Next, Execute

\* _require_lease_owner and claim_next together: a leased job is ended or
\* requeued by its owner alone, and taken over only once its lease has expired,
\* for any number of workers that believe to own it.
THEOREM LeasesAreOwned == Spec => LeaseIsOwned
<1>1. TypeOK /\ Consistent /\ [Next]_vars =>
        [\A r \in Run : job[r].status = "leased" =>
           LET w == job[r].lease_owner
           IN  \/ job'[r].status = "leased" /\ (job[r].lease_live => job'[r].lease_owner = w)
               \/ job'[r].status # "leased" /\ cur[w] = r /\ pc'[w] # pc[w]]_vars
  BY StepKeepsLease DEF KeepsLease
<1> QED BY <1>1, InductiveInvariant, PTL DEF Spec, LeaseIsOwned

-----------------------------------------------------------------------------
(* Refinement: DurableExecution implements RunLifecycle. *)

Phase     == [r \in Run |-> run[r].status]
Published == [r \in Run |-> feed[r]["finding_published"]]

\* A step that changes the rows of one run changes its phase alone ...
LEMMA PhaseOfOne ==
  ASSUME TypeOK, NEW r \in Run, \A q \in Run \ {r} : run'[q] = run[q]
  PROVE  Phase' = [Phase EXCEPT ![r] = run'[r].status]
BY DEF Phase

\* ... and its feed publishes what is announced.
LEMMA PublishedOfOne ==
  ASSUME TypeOK, NEW r \in Run, NEW kinds, Announce(r, kinds)
  PROVE  Published' = [Published EXCEPT ![r] =
                         IF "finding_published" \in kinds /\ sequence[r] > 0
                         THEN @ + 1 ELSE @]
<1>1. "finding_published" \in FeedKind /\ feed \in [Run -> [FeedKind -> Nat]]
  BY DEF FeedKind, TypeOK
<1>2. \A q \in Run : feed'[q]["finding_published"] =
        IF q = r /\ "finding_published" \in kinds /\ sequence[r] > 0
        THEN feed[q]["finding_published"] + 1 ELSE feed[q]["finding_published"]
  BY <1>1 DEF Announce
<1> QED BY <1>2 DEF Published

\* A request of a user is a request, a retry, a cancellation or a decision.
LEMMA UserImplements ==
  ASSUME TypeOK, Consistent, NEW r \in Run, User(r)
  PROVE  Lifecycle!Next \/ UNCHANGED Lifecycle!vars
<1>0. /\ job \in [Run -> Job] /\ run \in [Run -> RunRecord]
      /\ approval \in [Run -> ApprovalStatus] /\ sequence \in [Run -> Nat]
      /\ feed \in [Run -> [FeedKind -> Nat]]
      /\ RunConsistent(r)
      /\ "finding_published" \in FeedKind
  BY ConsistentParts DEF TypeOK, FeedKind
<1>1. ASSUME Insert(r)
      PROVE  Phase[r] = "absent" /\ Phase' = [Phase EXCEPT ![r] = "running"]
  <2>1. run'[r].status = "running" /\ run[r].status = "absent"
    BY <1>0, <1>1, StartMethod DEF Insert
  <2>2. \A q \in Run \ {r} : run'[q] = run[q]
    BY <1>0, <1>1 DEF Insert
  <2> QED BY <2>1, <2>2, PhaseOfOne DEF Phase
<1>2. CASE Start(r)
  <2>1. Lifecycle!Request(r)
    BY <1>1, <1>2 DEF Start, Lifecycle!Request, Lifecycle!Begin, Phase
  <2> QED BY <2>1 DEF Lifecycle!Next
<1>3. CASE Ask(r)
  <2>1. Lifecycle!Request(r)
    BY <1>1, <1>3 DEF Ask, IsLatest, Lifecycle!Request, Lifecycle!Begin, Lifecycle!IsLast,
       Phase
  <2> QED BY <2>1 DEF Lifecycle!Next
<1>4. ASSUME NEW original \in Run, Retry(original, r)
      PROVE  Lifecycle!Next
  <2>1. \A q \in Run : feed'[q]["finding_published"] = feed[q]["finding_published"]
    BY <1>0, <1>4 DEF Retry
  <2>2. Insert(r) /\ Phase[original] \in {"failed", "cancelled"} /\ approval' = approval
    BY <1>4 DEF Retry, Phase
  <2>3. Published' = Published
    BY <2>1 DEF Published
  <2>4. sequence[original] \in Nat
    BY <1>0
  <2>5. Lifecycle!Retry(r, original)
    BY <1>1, <1>4, <2>2, <2>3, <2>4
       DEF Retry, IsLatest, Lifecycle!Retry, Lifecycle!Begin, Lifecycle!IsLast, Phase, Published
  <2> QED BY <2>5 DEF Lifecycle!Next
<1>5. CASE Cancel(r)
  <2> DEFINE requested == CancelRequested(job[r])
  <2>1. approval' = approval /\ retryOf' = retryOf /\ sequence' = sequence
    BY <1>5 DEF Cancel
  <2>2. Published' = Published
    <3>1. ASSUME NEW kinds \in {{"cancelled"}, {"cancel_requested"}}, Announce(r, kinds)
          PROVE  Published' = Published
      <4>1. "finding_published" \notin kinds
        OBVIOUS
      <4>2. Published' = [Published EXCEPT ![r] = @]
        BY <3>1, <4>1, PublishedOfOne
      <4> QED BY <4>2 DEF Published
    <3> QED BY <1>5, <3>1 DEF Cancel
  <2>3. CASE requested.status = "cancelled"
    <3>1. run' = [run EXCEPT ![r] = CancelRun(run[r])]
      BY <1>5, <2>3 DEF Cancel
    <3>2. run'[r].status = "cancelled"
      <4>1. "cancelled" \in RunStatus BY DEF RunStatus, TerminalRunStatuses
      <4> QED BY <1>0, <3>1, <4>1, TransitionMethod DEF CancelRun
    <3>3. Phase' = [Phase EXCEPT ![r] = "cancelled"]
      BY <1>0, <3>1, <3>2, PhaseOfOne
    <3>4. Phase[r] \in {"running", "awaiting_approval"}
      BY <1>0, <1>5 DEF Cancel, IsTerminal, RunConsistent, RunRecord, RunStatus, Phase
    <3>5. Lifecycle!Cancel(r)
      BY <2>1, <2>2, <3>3, <3>4 DEF Lifecycle!Cancel, Phase, Published
    <3> QED BY <3>5 DEF Lifecycle!Next
  <2>4. CASE requested.status # "cancelled"
    <3>1. Phase' = Phase
      BY <1>5, <2>4 DEF Cancel, Phase
    <3> QED BY <2>1, <2>2, <3>1 DEF Lifecycle!vars, Phase, Published
  <2> QED BY <2>3, <2>4
<1>6. ASSUME NEW d \in Decision, Decide(r, d)
      PROVE  Lifecycle!Next
  <2> DEFINE kinds == {"approval_decided"} \cup
                      IF d = "approve" THEN {"finding_published"} ELSE {}
  <2>1. /\ retryOf' = retryOf /\ sequence' = sequence /\ Announce(r, kinds)
        /\ approval[r] = "pending" /\ Phase[r] = "awaiting_approval"
        /\ approval' = [approval EXCEPT ![r] = IF d = "approve" THEN "granted" ELSE "rejected"]
    BY <1>6 DEF Decide, CanDecide, CanDecideApproval, DecideApproval, Phase
  <2>2. Phase' = [Phase EXCEPT ![r] = IF d = "approve" THEN "completed" ELSE "rejected"]
    <3>1. {"completed", "rejected"} \subseteq RunStatus BY DEF RunStatus, TerminalRunStatuses
    <3>2. run' = [run EXCEPT ![r] = DecideRun(run[r], d)] BY <1>6 DEF Decide
    <3>3. run'[r].status = IF d = "approve" THEN "completed" ELSE "rejected"
      BY <1>0, <3>1, <3>2, TransitionMethod DEF DecideRun
    <3> QED BY <1>0, <3>2, <3>3, PhaseOfOne
  <2>3. Published' = [Published EXCEPT ![r] =
                        IF "finding_published" \in kinds /\ sequence[r] > 0 THEN @ + 1 ELSE @]
    BY <2>1, PublishedOfOne
  <2>4. CASE d = "approve"
    <3>1. Lifecycle!Tell(r)
      BY <2>3, <2>4 DEF Lifecycle!Tell, Published
    <3>2. Lifecycle!Resolve(r)
      BY <2>1, <2>2, <2>4, <3>1 DEF Lifecycle!Resolve, Phase
    <3> QED BY <3>2 DEF Lifecycle!Next
  <2>5. CASE d # "approve"
    <3>1. Published' = Published
      BY <2>3, <2>5 DEF Published
    <3>2. Lifecycle!Resolve(r)
      BY <2>1, <2>2, <2>5, <3>1 DEF Lifecycle!Resolve, Phase, Published
    <3> QED BY <3>2 DEF Lifecycle!Next
  <2> QED BY <2>4, <2>5
<1> QED BY <1>2, <1>3, <1>4, <1>5, <1>6 DEF User

\* Of a worker's steps the user sees the answer, the failure and the end of a
\* cancellation; everything else is a stutter.
LEMMA ExecuteImplements ==
  ASSUME TypeOK, Consistent, NEW w \in Worker, Execute(w)
  PROVE  Lifecycle!Next \/ UNCHANGED Lifecycle!vars
<1>0. /\ job \in [Run -> Job] /\ run \in [Run -> RunRecord]
      /\ approval \in [Run -> ApprovalStatus] /\ sequence \in [Run -> Nat]
      /\ cur \in [Worker -> Run \cup {NoRun}]
      /\ WorkerConsistent(w) /\ WorkersHoldRuns
      /\ \A r \in Run : RunConsistent(r)
  BY ConsistentParts DEF TypeOK, Consistent
<1>1. ASSUME UNCHANGED <<run, approval, feed, retryOf, sequence>>
      PROVE  UNCHANGED Lifecycle!vars
  BY <1>1 DEF Lifecycle!vars
<1>2. ASSUME NEW d \in {"pass", "escalate"}, Publish(w, d)
      PROVE  Lifecycle!Next
  <2> DEFINE kinds == IF d = "pass" THEN {"finding_published"} ELSE {"approval_requested"}
             s == IF d = "pass" THEN "completed" ELSE "awaiting_approval"
  <2>1. PICK r \in Run : r = cur[w]
    BY <1>0, <1>2, HoldsRun DEF Publish
  <2>2. /\ snap[w] = run[r] /\ run[r].status = "running"
        /\ CanBeginEvaluation(run[r]) /\ CanRecordEvaluation(BeginEvaluation(run[r]))
    BY <1>0, <1>2, <2>1 DEF Publish, VersionMatches, CanBeginEvaluation, WorkerConsistent
  <2>3. Phase[r] = "running" /\ Phase' = [Phase EXCEPT ![r] = s]
    <3>1. run' = [run EXCEPT ![r] = RecordEvaluation(BeginEvaluation(run[r]), d)]
      BY <1>2, <2>1, <2>2 DEF Publish
    <3>2. run'[r].status = s
      BY <1>0, <2>2, <3>1, EvaluationMethod
    <3> QED BY <1>0, <2>2, <3>1, <3>2, PhaseOfOne DEF Phase
  <2>4. /\ retryOf' = retryOf /\ sequence' = sequence /\ Announce(r, kinds)
        /\ approval' = [approval EXCEPT ![r] = IF d = "pass" THEN @ ELSE "pending"]
    BY <1>2, <2>1 DEF Publish
  <2>5. Published' = [Published EXCEPT ![r] =
                        IF "finding_published" \in kinds /\ sequence[r] > 0 THEN @ + 1 ELSE @]
    BY <2>4, PublishedOfOne
  <2>6. CASE d = "pass"
    <3>1. Lifecycle!Tell(r)
      BY <2>5, <2>6 DEF Lifecycle!Tell, Published
    <3>2. approval' = approval
      BY <1>0, <2>4, <2>6
    <3>3. Lifecycle!Answer(r)
      BY <2>3, <2>4, <2>6, <3>1, <3>2 DEF Lifecycle!Answer, Phase
    <3> QED BY <3>3 DEF Lifecycle!Next
  <2>7. CASE d # "pass"
    <3>1. Published' = Published
      BY <2>5, <2>7 DEF Published
    <3>2. Lifecycle!Answer(r)
      BY <2>3, <2>4, <2>7, <3>1 DEF Lifecycle!Answer, Phase, Published
    <3> QED BY <3>2 DEF Lifecycle!Next
  <2> QED BY <2>6, <2>7
<1>3. CASE CancelJobRun(w)
  <2>1. PICK r \in Run : r = cur[w] /\ run[r].status # "absent"
    BY <1>0, <1>3, HoldsRun DEF CancelJobRun
  <2>2. CASE IsTerminal(r)
    BY <1>1, <1>3, <2>1, <2>2 DEF CancelJobRun
  <2>3. CASE ~IsTerminal(r)
    <3>1. /\ run' = [run EXCEPT ![r] = CancelRun(run[r])] /\ Announce(r, {"cancelled"})
          /\ UNCHANGED <<approval, retryOf, sequence>>
      BY <1>3, <2>1, <2>3 DEF CancelJobRun
    <3>2. run'[r].status = "cancelled"
      <4>1. "cancelled" \in RunStatus BY DEF RunStatus, TerminalRunStatuses
      <4> QED BY <1>0, <3>1, <4>1, TransitionMethod DEF CancelRun
    <3>3. Phase' = [Phase EXCEPT ![r] = "cancelled"]
      BY <1>0, <3>1, <3>2, PhaseOfOne
    <3>4. Phase[r] \in {"running", "awaiting_approval"}
      BY <1>0, <2>1, <2>3 DEF IsTerminal, RunConsistent, RunRecord, RunStatus, Phase
    <3>5. Published' = Published
      <4>1. Published' = [Published EXCEPT ![r] = @]
        BY <3>1, PublishedOfOne
      <4> QED BY <4>1 DEF Published
    <3>6. Lifecycle!Cancel(r)
      BY <3>1, <3>3, <3>4, <3>5 DEF Lifecycle!Cancel, Phase, Published
    <3> QED BY <3>6 DEF Lifecycle!Next
  <2> QED BY <2>2, <2>3
<1>4. CASE FailSave(w)
  <2>1. CASE ~VersionMatches(w)
    BY <1>1, <1>4, <2>1 DEF FailSave
  <2>2. CASE VersionMatches(w)
    <3>1. PICK r \in Run : r = cur[w]
      BY <1>0, <1>4, HoldsRun DEF FailSave
    <3>2. snap[w] = run[r] /\ CanFail(run[r])
      BY <1>0, <1>4, <2>2, <3>1 DEF FailSave, VersionMatches, WorkerConsistent
    <3>3. Phase[r] = "running"
      BY <1>0, <3>2 DEF CanFail, RunConsistent, Phase
    <3>4. run' = [run EXCEPT ![r] = FailRun(run[r])]
          /\ UNCHANGED <<approval, feed, retryOf, sequence>>
      BY <1>4, <2>2, <3>1, <3>2 DEF FailSave
    <3>5. Phase' = [Phase EXCEPT ![r] = "failed"]
      <4>1. "failed" \in RunStatus BY DEF RunStatus, TerminalRunStatuses
      <4>2. run'[r].status = "failed"
        BY <1>0, <3>4, <4>1, TransitionMethod DEF FailRun
      <4> QED BY <1>0, <3>4, <4>2, PhaseOfOne
    <3>6. Lifecycle!Answer(r)
      BY <3>3, <3>4, <3>5 DEF Lifecycle!Answer, Phase
    <3> QED BY <3>6 DEF Lifecycle!Next
  <2> QED BY <2>1, <2>2
<1>5. CASE \/ CheckBefore(w) \/ Load(w) \/ OpenBoard(w) \/ BoardExists(w)
           \/ PipelineFails(w) \/ CheckpointStops(w) \/ PipelineReturns(w)
           \/ PublishRefused(w) \/ Flush(w) \/ CheckAfter(w) \/ Complete(w)
           \/ CancelJob(w) \/ RecordFailure(w) \/ FailLoad(w) \/ Join(w)
  BY <1>1, <1>5
     DEF CheckBefore, Load, OpenBoard, BoardExists, PipelineFails, CheckpointStops,
         PipelineReturns, PublishRefused, Flush, CheckAfter, Complete, CancelJob,
         RecordFailure, FailLoad, Join, rows
<1> QED BY <1>2, <1>3, <1>4, <1>5 DEF Execute

\* Every step is a step of the lifecycle or a stutter.
LEMMA StepImplements ==
  ASSUME TypeOK, Consistent, [Next]_vars
  PROVE  Lifecycle!Next \/ UNCHANGED Lifecycle!vars
<1>1. CASE UNCHANGED <<run, approval, feed, retryOf, sequence>>
  BY <1>1 DEF Lifecycle!vars
<1>2. ASSUME NEW r \in Run, User(r)
      PROVE  Lifecycle!Next \/ UNCHANGED Lifecycle!vars
  BY <1>2, UserImplements
<1>3. ASSUME NEW w \in Worker, Execute(w)
      PROVE  Lifecycle!Next \/ UNCHANGED Lifecycle!vars
  BY <1>3, ExecuteImplements
<1>4. ASSUME NEW r \in Run, LeaseLapses(r) \/ OrphanExpires(r)
      PROVE  UNCHANGED <<run, approval, feed, retryOf, sequence>>
  BY <1>4 DEF LeaseLapses, OrphanExpires
<1>5. ASSUME NEW w \in Worker,
             Renewal(w) \/ Fault(w) \/ Restart(w) \/ \E r \in Run : Claim(w, r)
      PROVE  UNCHANGED <<run, approval, feed, retryOf, sequence>>
  BY <1>5 DEF Renewal, RenewalStops, RenewalFails, Fault, FlushFails, Crash,
     OutageKillsLoop, Restart, Claim, rows
<1>6. CASE UNCHANGED vars
  BY <1>1, <1>6 DEF vars, rows
<1> QED BY <1>1, <1>2, <1>3, <1>4, <1>5, <1>6 DEF Next

\* To its users a run is a RunLifecycle: it is answered at most once, tells its
\* Thread at most once, is decided at most once and is retried as a new run
\* behind everything asked before, whatever workers, leases and crashes do.
THEOREM ImplementsRunLifecycle == Spec => ImplementsLifecycle
<1>1. Init => Lifecycle!Init
  BY StartMethod DEF Init, Lifecycle!Init, FeedKind
<1>2. TypeOK /\ Consistent /\ [Next]_vars => [Lifecycle!Next]_(Lifecycle!vars)
  BY StepImplements
<1> QED BY <1>1, <1>2, InductiveInvariant, PTL DEF Spec, ImplementsLifecycle, Lifecycle!Spec

-----------------------------------------------------------------------------
(* Retries: what the lifecycle keeps of them, every step of the code keeps. *)

\* The inductive invariant: a run that is not asked yet retries nothing and has
\* no place.
Lineage ==
  /\ \A r \in Run : Phase[r] = "absent" => retryOf[r] = NoRun /\ sequence[r] = 0
  /\ RetryLineage

\* A fresh question comes behind everything in its Thread and retries nothing.
LEMMA RequestKeepsLineage ==
  ASSUME TypeOK, Lineage, NEW r \in Run, Lifecycle!Request(r)
  PROVE  Lineage'
<1>0. sequence \in [Run -> Nat] /\ retryOf' = retryOf
  BY DEF TypeOK, Lifecycle!Request
<1>1. /\ Phase[r] = "absent" /\ Phase'[r] = "running"
      /\ \A q \in Run \ {r} : Phase'[q] = Phase[q]
  BY DEF Lifecycle!Request, Lifecycle!Begin, Phase
<1>2. /\ sequence' \in [Run -> Nat]
      /\ \A q \in Run \ {r} : sequence'[q] = sequence[q]
      /\ sequence'[r] = 0 \/ \A q \in Run : sequence[q] < sequence'[r]
  BY <1>0, <1>1 DEF Lifecycle!Request, Lifecycle!IsLast, Lineage
<1>3. \A q \in Run : retryOf[q] # r
  BY <1>1 DEF Lineage, RetryLineage, Phase
<1>4. retryOf[r] \notin Run
  BY <1>1, NoRunAssumption DEF Lineage
<1>5. \A q \in Run : run'[q].status = Phase'[q] /\ run[q].status = Phase[q]
  BY DEF Phase
<1>6. QED  BY <1>0, <1>1, <1>2, <1>3, <1>4, <1>5 DEF Lineage, RetryLineage

\* A retry follows a run that has failed or was cancelled, behind which nothing
\* stands in its Thread.
LEMMA RetryKeepsLineage ==
  ASSUME TypeOK, Lineage, NEW r \in Run, NEW old \in Run, Lifecycle!Retry(r, old)
  PROVE  Lineage'
<1>0. sequence \in [Run -> Nat] /\ retryOf \in [Run -> Run \cup {NoRun}]
  BY DEF TypeOK
<1>1. /\ Phase[r] = "absent" /\ Phase'[r] = "running"
      /\ \A q \in Run \ {r} : Phase'[q] = Phase[q]
      /\ Phase[old] \in {"failed", "cancelled"} /\ old # r
  BY DEF Lifecycle!Retry, Lifecycle!Begin, Phase
<1>2. /\ retryOf'[r] = old
      /\ \A q \in Run \ {r} : retryOf'[q] = retryOf[q]
  BY <1>0 DEF Lifecycle!Retry
<1>3. /\ sequence' \in [Run -> Nat]
      /\ \A q \in Run \ {r} : sequence'[q] = sequence[q]
      /\ sequence'[r] = IF sequence[old] = 0 THEN 0 ELSE sequence[old] + 1
      /\ sequence'[r] = 0 \/ \A q \in Run : sequence[q] < sequence'[r]
  BY <1>0, <1>1 DEF Lifecycle!Retry, Lifecycle!IsLast, Lineage
<1>4. \A q \in Run : retryOf[q] # r
  BY <1>1 DEF Lineage, RetryLineage, Phase
<1>5. \A q \in Run : run'[q].status = Phase'[q] /\ run[q].status = Phase[q]
  BY DEF Phase
<1>6. QED  BY <1>1, <1>2, <1>3, <1>4, <1>5 DEF Lineage, RetryLineage

\* Every other step of the lifecycle leaves retries and places alone, and ends
\* only runs that have not ended.
LEMMA OtherStepsKeepLineage ==
  ASSUME TypeOK, Lineage, NEW r \in Run,
         Lifecycle!Answer(r) \/ Lifecycle!Resolve(r) \/ Lifecycle!Cancel(r)
  PROVE  Lineage'
<1>1. /\ retryOf' = retryOf /\ sequence' = sequence
      /\ Phase[r] \in {"running", "awaiting_approval"} /\ Phase'[r] # "absent"
      /\ \A q \in Run \ {r} : Phase'[q] = Phase[q]
  BY DEF Lifecycle!Answer, Lifecycle!Resolve, Lifecycle!Cancel, Phase
<1>2. \A q \in Run : run'[q].status = Phase'[q] /\ run[q].status = Phase[q]
  BY DEF Phase
<1>3. QED  BY <1>1, <1>2 DEF Lineage, RetryLineage

\* What is retried has failed or was cancelled and stays so, a retry stands right
\* behind its original, and no two runs of a Thread share a place.
THEOREM RetriesFollowTheirOriginals == Spec => []RetryLineage
<1>1. Init => Lineage
  BY StartMethod, NoRunAssumption DEF Init, Lineage, RetryLineage, Phase
<1>2. TypeOK /\ Consistent /\ Lineage /\ [Next]_vars => Lineage'
  <2> SUFFICES ASSUME TypeOK, Consistent, Lineage, [Next]_vars PROVE Lineage'
    OBVIOUS
  <2>1. CASE UNCHANGED Lifecycle!vars
    <3>1. \A q \in Run : Phase'[q] = Phase[q]
      BY <2>1 DEF Lifecycle!vars, Phase
    <3>2. \A q \in Run : run'[q].status = Phase'[q] /\ run[q].status = Phase[q]
      BY DEF Phase
    <3>3. retryOf' = retryOf /\ sequence' = sequence
      BY <2>1 DEF Lifecycle!vars
    <3>4. QED  BY <3>1, <3>2, <3>3 DEF Lineage, RetryLineage
  <2>2. CASE Lifecycle!Next
    BY <2>2, RequestKeepsLineage, RetryKeepsLineage, OtherStepsKeepLineage
       DEF Lifecycle!Next
  <2>3. QED  BY <2>1, <2>2, StepImplements
<1>3. Lineage => RetryLineage
  BY DEF Lineage
<1>4. QED  BY <1>1, <1>2, <1>3, InductiveInvariant, PTL DEF Spec

=============================================================================
