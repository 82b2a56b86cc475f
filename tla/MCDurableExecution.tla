------------------------- MODULE MCDurableExecution -------------------------
(* DurableExecution for TLC: small sets of workers and runs. *)
EXTENDS DurableExecution, TLC

CONSTANTS w1, w2, r1, r2, r3

TwoWorkers == {w1, w2}
OneWorker  == {w1}
ThreeRuns  == {r1, r2, r3}
TwoRuns    == {r1, r2}
OneRun     == {r1}
BothFailures == {"transient", "permanent"}

\* Neither workers nor runs are told apart by the specification.
Symmetry == Permutations(Worker) \cup Permutations(Run)
=============================================================================
