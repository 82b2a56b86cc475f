---------------------------- MODULE MCTableLocks ----------------------------
(* TableLocks for TLC: which requests the callers may make. *)
EXTENDS TableLocks, TLC

CONSTANTS q1, q2, q3, q4, t1, t2

FourQueries  == {q1, q2, q3, q4}
ThreeQueries == {q1, q2, q3}
TwoTables    == {t1, t2}

AnyRequest == [tables : (SUBSET Table) \ {{}}, mode : {Read, Write}]

\* Bound: one of the two tables, which are alike, is not read alone.
FewerRequests == AnyRequest \ {[tables |-> {t2}, mode |-> Read]}

\* Queries and tables are not told apart by the specification.
Symmetry == Permutations(Query) \cup Permutations(Table)
=============================================================================
