---------------------------- MODULE RunLifecycle ----------------------------
(***************************************************************************)
(* What an Analysis Run promises to its users: it is asked once, answers   *)
(* once (with a published Finding, at a human gate, or by failing), can be *)
(* cancelled until it has ended, and can be retried only as a new run.     *)
(* Workers, leases, attempts and versions are not visible here.            *)
(***************************************************************************)
EXTENDS Naturals

CONSTANTS Run, NoRun

VARIABLES
  phase,      \* the status of each run
  gate,       \* its Human Approval
  published,  \* Findings its Thread was told of
  original,   \* the run it retries
  place       \* its place in its Thread, 0 outside one

vars == <<phase, gate, published, original, place>>

Init ==
  /\ phase     = [r \in Run |-> "absent"]
  /\ gate      = [r \in Run |-> "absent"]
  /\ published = [r \in Run |-> 0]
  /\ original  = [r \in Run |-> NoRun]
  /\ place     = [r \in Run |-> 0]

Begin(r) ==
  /\ phase[r] = "absent"
  /\ phase' = [phase EXCEPT ![r] = "running"]

IsLast(r) == \A other \in Run : place[other] <= place[r]

\* A fresh question takes a place behind everything asked in its Thread.
Request(r) ==
  /\ Begin(r)
  /\ \/ UNCHANGED place
     \/ \E last \in Run : /\ IsLast(last)
                         /\ place' = [place EXCEPT ![r] = place[last] + 1]
  /\ UNCHANGED <<gate, published, original>>

\* Nothing stands behind the retried run, and the retry comes to stand there.
Retry(r, old) ==
  /\ phase[old] \in {"failed", "cancelled"}
  /\ Begin(r)
  /\ original' = [original EXCEPT ![r] = old]
  /\ \/ place[old] = 0 /\ UNCHANGED place
     \/ /\ place[old] > 0
        /\ IsLast(old)
        /\ place' = [place EXCEPT ![r] = place[old] + 1]
  /\ UNCHANGED <<gate, published>>

Tell(r) == published' = [published EXCEPT ![r] = IF place[r] > 0 THEN @ + 1 ELSE @]

\* The one answer of a running run.
Answer(r) ==
  /\ phase[r] = "running"
  /\ \/ /\ phase' = [phase EXCEPT ![r] = "completed"]
        /\ Tell(r)
        /\ UNCHANGED gate
     \/ /\ phase' = [phase EXCEPT ![r] = "awaiting_approval"]
        /\ gate' = [gate EXCEPT ![r] = "pending"]
        /\ UNCHANGED published
     \/ /\ phase' = [phase EXCEPT ![r] = "failed"]
        /\ UNCHANGED <<gate, published>>
  /\ UNCHANGED <<original, place>>

\* A human decides, once, and only a run that still waits.
Resolve(r) ==
  /\ phase[r] = "awaiting_approval" /\ gate[r] = "pending"
  /\ \/ /\ phase' = [phase EXCEPT ![r] = "completed"]
        /\ gate' = [gate EXCEPT ![r] = "granted"]
        /\ Tell(r)
     \/ /\ phase' = [phase EXCEPT ![r] = "rejected"]
        /\ gate' = [gate EXCEPT ![r] = "rejected"]
        /\ UNCHANGED published
  /\ UNCHANGED <<original, place>>

Cancel(r) ==
  /\ phase[r] \in {"running", "awaiting_approval"}
  /\ phase' = [phase EXCEPT ![r] = "cancelled"]
  /\ UNCHANGED <<gate, published, original, place>>

Next ==
  \E r \in Run :
    \/ Request(r) \/ Answer(r) \/ Resolve(r) \/ Cancel(r)
    \/ \E old \in Run : Retry(r, old)

Spec == Init /\ [][Next]_vars
=============================================================================
