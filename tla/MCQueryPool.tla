----------------------------- MODULE MCQueryPool -----------------------------
(* QueryPool for TLC: few queries, workers and tables. *)
EXTENDS QueryPool, TLC

CONSTANTS q1, q2, q3, q4, w1, w2, t1, t2

FourQueries  == {q1, q2, q3, q4}
ThreeQueries == {q1, q2, q3}
TwoWorkers   == {w1, w2}
OneWorker    == {w1}
OneTable     == {t1}

AnyRequest == [tables : SUBSET Table, mode : {"read", "write"}]

\* Queries and workers are not told apart by the specification.
Symmetry == Permutations(Query) \cup Permutations(Worker)
=============================================================================
