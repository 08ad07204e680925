------------------------------ MODULE MCGateway ------------------------------
(* Instances of Gateway for TLC. *)
EXTENDS Gateway, TLC

CONSTANTS q1, q2, q3, g1, g2, u1, c1

\* The second gateway's clock is a tick ahead.
MCAhead == (g1 :> 0) @@ (g2 :> 1)

Symmetry == Permutations(Requests)
==============================================================================
