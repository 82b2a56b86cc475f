---------------------------- MODULE AnalysisRun -----------------------------
(***************************************************************************)
(* The AnalysisRun aggregate and its HumanApproval, without state: the     *)
(* record a repository loads and saves, and what each method makes of it.  *)
(* The content of a run (question, finding, outcome) is left out; only     *)
(* what decides a transition is kept.                                      *)
(***************************************************************************)
EXTENDS Naturals

MaxEvaluations == 3

TerminalRunStatuses == {"completed", "rejected", "failed", "cancelled"}
RunStatus == {"absent", "pending", "running", "evaluating",
              "awaiting_approval"} \cup TerminalRunStatuses
RunRecord == [status      : RunStatus,
              version     : Nat,
              evaluations : 0 .. MaxEvaluations]

ApprovalStatus == {"absent", "pending", "granted", "rejected"}
Directive == {"pass", "review", "retry", "escalate"}
Decision == {"approve", "reject"}

AbsentRun == [status |-> "absent", version |-> 0, evaluations |-> 0]

\* A transition that forgets to move the optimistic-lock version.
Transition_SameVersion(r, target) == [r EXCEPT !.status = target]

\* _transition: every change of status is a new version.
Transition(r, target) == [r EXCEPT !.status = target, !.version = @ + 1]

\* create() followed by start(), which every caller commits together.
CreatedRun == [status |-> "pending", version |-> 1, evaluations |-> 0]
StartedRun == Transition(CreatedRun, "running")

CanBeginEvaluation(r) == r.status = "running"
BeginEvaluation(r) == Transition(r, "evaluating")

CanRecordEvaluation(r) ==
  r.status = "evaluating" /\ r.evaluations < MaxEvaluations

\* record_evaluation: publish, go round again, or open the human gate.
RecordEvaluation(r, directive) ==
  LET counted == [r EXCEPT !.version = @ + 1, !.evaluations = @ + 1]
  IN  Transition(counted,
                 IF directive = "pass" THEN "completed"
                 ELSE IF directive = "retry" /\ counted.evaluations < MaxEvaluations
                      THEN "running"
                      ELSE "awaiting_approval")

\* A fail() that also ends a run standing at the human gate.
CanFail_Gated(r) ==
  r.status \in {"pending", "running", "evaluating", "awaiting_approval"}

\* fail() refuses a run that has reached the gate or an end.
CanFail(r) == r.status \in {"pending", "running", "evaluating"}
FailRun(r) == Transition(r, "failed")

\* cancel() takes every run that has not ended, also one at the human gate;
\* its callers have checked that.
CancelRun(r) == Transition(r, "cancelled")

\* A decision that looks at its approval alone.
CanDecide_ApprovalOnly(r) == TRUE

CanDecide(r) == r.status = "awaiting_approval"
DecideRun(r, decision) ==
  Transition(r, IF decision = "approve" THEN "completed" ELSE "rejected")

\* HumanApproval.decide, for a request that changes something: the same
\* decision again is a no-op and any other one is refused.
CanDecideApproval(approval) == approval = "pending"
DecideApproval(decision) == IF decision = "approve" THEN "granted" ELSE "rejected"
=============================================================================
