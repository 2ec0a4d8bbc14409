---------------------------- MODULE MCLeaderLease ----------------------------
(* Instances of LeaderLease for TLC.                                       *)
EXTENDS LeaderLease

TwoPods == {"a", "b"}

\* The clock of b is ahead by one.
FastB == [p \in TwoPods |-> IF p = "b" THEN 1 ELSE 0]
=============================================================================
