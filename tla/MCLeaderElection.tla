-------------------------- MODULE MCLeaderElection --------------------------
(* LeaderElection for TLC. *)
EXTENDS LeaderElection

TwoTabs == {1, 2}
=============================================================================
