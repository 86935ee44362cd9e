----------------------------- MODULE MCLiveView -----------------------------
(* Instances of the live view for TLC.                                       *)
EXTENDS LiveProps

CONSTANTS c1, c2, p, q, s

MCRank == [x \in Pool |-> CASE x = s -> 1 [] x = p -> 2 [] x = q -> 3]
=============================================================================
