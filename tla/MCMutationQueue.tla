-------------------------- MODULE MCMutationQueue --------------------------
(* MutationQueue for TLC: the first mutation creates an entity, which the   *)
(* second one mentions; what depends on what is chosen as they are made.    *)
EXTENDS MutationQueue, TLC

CONSTANTS t1, t2

TwoTabs == {t1, t2}
OneTab  == {t1}
FirstCreates == {1}
SecondRefers == [m \in 1..Mutations |-> IF m = 2 THEN {1} ELSE {}]
\* The specification does not tell the tabs apart.
Symmetry == Permutations(Tab)
=============================================================================
