---------------------------- MODULE ExecutionJob ----------------------------
(***************************************************************************)
(* One row of the durable queue `execution_jobs`: the request to execute   *)
(* one pipeline.  This module has no state.  It gives the row's type, the  *)
(* query that picks a row, and what every method of the aggregate makes of *)
(* a row; the modules that own a queue apply them inside transactions.     *)
(*                                                                         *)
(* Time is abstracted to what the methods compare: lease_live says that    *)
(* lease_expires_at lies in the future.  The backoff instant available_at  *)
(* only delays a claim, which interleaving already does.                   *)
(***************************************************************************)
EXTENDS Naturals

CONSTANTS
  Worker,        \* worker ids (host:pid, or the configured id)
  NoWorker,      \* lease_owner IS NULL
  MaxAttempts    \* max_attempts of every job

ASSUME NoWorkerAssumption == NoWorker \notin Worker
ASSUME MaxAttemptsAssumption == MaxAttempts \in Nat \ {0}

TerminalJobStatuses == {"completed", "failed", "cancelled"}
JobStatus == {"absent", "queued", "leased"} \cup TerminalJobStatuses

Job == [status           : JobStatus,
        attempts         : 0 .. MaxAttempts,
        lease_owner      : Worker \cup {NoWorker},
        lease_live       : BOOLEAN,
        cancel_requested : BOOLEAN]

\* The row before a request has committed one.
AbsentJob == [status           |-> "absent",
              attempts         |-> 0,
              lease_owner      |-> NoWorker,
              lease_live       |-> FALSE,
              cancel_requested |-> FALSE]

\* ExecutionJob.create
QueuedJob == [AbsentJob EXCEPT !.status = "queued"]

\* A claim query that never takes over the lease of a worker that is gone.
Claimable_QueuedOnly(job) ==
  /\ job.status = "queued"
  /\ job.attempts < MaxAttempts
  /\ ~job.cancel_requested

\* The WHERE clause of claim_next, which implies every check in claim().
Claimable(job) ==
  \/ /\ job.status = "queued"
     /\ job.attempts < MaxAttempts
     /\ ~job.cancel_requested
  \/ /\ job.status = "leased"
     /\ ~job.lease_live

\* A claim that charges the recovery of an expired lease as a new attempt.
Claimed_AlwaysCounts(job, w) ==
  [job EXCEPT !.status      = "leased",
              !.attempts    = job.attempts + 1,
              !.lease_owner = w,
              !.lease_live  = TRUE]

\* Only a queued job consumes an attempt; an expired lease is taken over.
Claimed(job, w) ==
  [job EXCEPT !.status      = "leased",
              !.attempts    = IF job.status = "queued" THEN @ + 1 ELSE @,
              !.lease_owner = w,
              !.lease_live  = TRUE]

\* An owner check that forgets who owns the lease.
OwnsLease_AnyWorker(job, w) == job.status = "leased"

\* _require_lease_owner.  An expired lease still has its owner.
OwnsLease(job, w) == job.status = "leased" /\ job.lease_owner = w

\* renew() raises for a caller that lost the row, or whose lease ran out.
CanRenew(job, w) == OwnsLease(job, w) /\ job.lease_live

Released(job, status) ==
  [job EXCEPT !.status      = status,
              !.lease_owner = NoWorker,
              !.lease_live  = FALSE]

CompletedJob(job) == Released(job, "completed")
FailedJob(job)    == Released(job, "failed")
CancelledJob(job) == Released(job, "cancelled")

\* An attempt too many: the claim query never takes the row again.
CanRetry_OffByOne(job) == job.attempts <= MaxAttempts

\* retry(): the caller has checked that attempts are left.
RequeuedJob(job) == Released(job, "queued")
CanRetry(job)    == job.attempts < MaxAttempts

\* request_cancel: ends a queued job, leaves a mark on a leased one, and is
\* silently nothing on a terminal one.
CancelRequested(job) ==
  IF job.status \in TerminalJobStatuses
  THEN job
  ELSE [job EXCEPT !.cancel_requested = TRUE,
                   !.status = IF @ = "queued" THEN "cancelled" ELSE @]
=============================================================================
