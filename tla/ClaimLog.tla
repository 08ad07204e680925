------------------------------ MODULE ClaimLog ------------------------------
(***************************************************************************)
(* What the ClaimsRepository port promises (backend/libs/ports/claims.py): *)
(* a claim is filed whole, in one step, under an id no other claim has; it *)
(* stays as it was filed; and a confirmation tells of a claim on file.     *)
(***************************************************************************)
CONSTANTS
  Ids,     \* confirmation ids
  Args     \* argument lists of submit_claim

VARIABLES
  log,     \* the claims on file
  told     \* the claims whose confirmation id a caller was given

File ==
  /\ \E claim \in log' \ log :
       /\ log' = log \cup {claim}
       /\ claim \in [id : Ids, args : Args]
       /\ \A other \in log : other.id # claim.id
  /\ UNCHANGED told

Tell ==
  /\ \E claim \in log : told' = told \cup {claim}
  /\ UNCHANGED log

Spec == told = {} /\ [][File \/ Tell]_<<log, told>>
=============================================================================
