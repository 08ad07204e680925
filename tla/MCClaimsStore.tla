---------------------------- MODULE MCClaimsStore ----------------------------
(* Instances of ClaimsStore for TLC. *)
EXTENDS ClaimsStore, TLC

CONSTANTS k1, k2, k3, p1, p2, a1, a2

\* Room for two more claims; the ids are in no order.
MCSeed == <<[id |-> 9997, args |-> a1, by |-> Nobody], [id |-> 8823, args |-> a2, by |-> Nobody]>>

\* One number of four digits is left.
MCRows == <<[id |-> 9998, args |-> a2, by |-> Nobody]>>

\* Two calls with the same arguments, one with others.
MCArgsOf == (k1 :> a1) @@ (k2 :> a1) @@ (k3 :> a2)
=============================================================================
