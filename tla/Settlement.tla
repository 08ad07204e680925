----------------------------- MODULE Settlement -----------------------------
(***************************************************************************)
(* The payment split (backend/libs/policy/rules.py) and the two places of  *)
(* one claim's life where it is computed: capture, which shows it before   *)
(* the policyholder decides, and submit_claim, which reports it after      *)
(* filing.  The policy's sections come from the retrieval service and stay *)
(* cached in each worker (backend/agent/app/retrieval_client.py).          *)
(*                                                                         *)
(* A sentence is the sequence of its dollar figures, each with the         *)
(* patterns that match it; amounts are in one unit of money.               *)
(***************************************************************************)
EXTENDS Naturals, Sequences, FiniteSets

CONSTANTS
  Types,        \* claim types
  Amounts,      \* amounts that may be claimed
  Phrases,      \* figures of the policy's wording, [matches, amount]
  Policies,     \* versions of the policy document
  Workers,
  None,
  MaxPolicyEdits,  \* bound: edits of the policy
  MaxFaults        \* bound: fetches that fail and workers that restart

\* The patterns in the order they are tried.
KindOf ==
  <<"deductible", "deductible", "per_item_threshold", "limit", "limit", "limit", "limit">>
Patterns == DOMAIN KindOf
Kinds == {"deductible", "per_item_threshold", "limit"}

ASSUME SettlementAssumption ==
  /\ Amounts \subseteq Nat \ {0}
  /\ \A f \in Phrases : f.amount \in Nat /\ f.matches \subseteq Patterns /\ f.matches # {}
  /\ Policies \subseteq Seq([names : SUBSET Types, sentences : Seq(Seq(Phrases))])
  /\ None \notin Nat /\ None \notin Policies
  /\ MaxPolicyEdits \in Nat /\ MaxFaults \in Nat

------------------------------------------------------------------------------
\* extract_rules.

Matches(s) == {m \in Patterns \X DOMAIN s : m[1] \in s[m[2]].matches}

\* Patterns are tried in order, each on the whole sentence.
Before(m, n) == m[1] < n[1] \/ (m[1] = n[1] /\ m[2] < n[2])

\* The matches whose figure no earlier match of the sentence has accounted for;
\* figures are told apart by their text.
Counted(s) ==
  {m \in Matches(s) : \A n \in Matches(s) : Before(n, m) => s[n[2]].amount # s[m[2]].amount}

OfKind(s, kind) == {m \in Counted(s) : KindOf[m[1]] = kind}

\* The figure a section states for a kind: the first sentence that has one, and
\* in it the first match.
Rule(section, kind) ==
  LET has == {k \in DOMAIN section.sentences : OfKind(section.sentences[k], kind) # {}}
      s == section.sentences[CHOOSE k \in has : \A l \in has : k <= l]
      m == CHOOSE m \in OfKind(s, kind) : \A n \in OfKind(s, kind) : m = n \/ Before(m, n)
  IN  IF has = {} THEN None ELSE s[m[2]].amount

\* Mutant of Governing: the first section that names the type is taken.
FirstNamed(policy, type) ==
  LET named == {k \in DOMAIN policy : type \in policy[k].names}
  IN  IF named = {} THEN 0 ELSE CHOOSE k \in named : \A l \in named : k <= l

\* _governing_section: the first section that names the type and states a limit,
\* else the first that names it; 0 if there is none.
Governing(policy, type) ==
  LET named == {k \in DOMAIN policy : type \in policy[k].names}
      capped == {k \in named : Rule(policy[k], "limit") # None}
      best == IF capped = {} THEN named ELSE capped
  IN  IF best = {} THEN 0 ELSE CHOOSE k \in best : \A l \in best : k <= l

------------------------------------------------------------------------------
\* settle.

Least(x, y) == IF x <= y THEN x ELSE y
Less(x, y) == IF x <= y THEN 0 ELSE x - y

\* Mutant of Insurer: the cap is applied before the deductible.
InsurerCapFirst(claimed, limit, deductible) ==
  IF limit = None THEN Less(claimed, deductible) ELSE Less(Least(claimed, limit), deductible)

Insurer(claimed, limit, deductible) ==
  IF limit = None
  THEN Less(claimed, deductible)
  ELSE Least(Less(claimed, deductible), limit)

AppliedDeductible(claimed, deductible) == Least(deductible, claimed)

\* Settlement, with the parts of the policyholder's share it reports.
Settle(claimed, limit, deductible) ==
  LET insurer == Insurer(claimed, limit, deductible)
      applied == AppliedDeductible(claimed, deductible)
  IN  [claimed |-> claimed, limit |-> limit, deductible |-> deductible,
       insurer_pays |-> insurer, policyholder_pays |-> claimed - insurer,
       applied_deductible |-> applied, excess |-> (claimed - insurer) - applied,
       above_limit |-> limit # None /\ Less(claimed, deductible) > limit]

\* settlement_for: None where the policy is silent.
SettlementFor(type, claimed, policy) ==
  LET k == Governing(policy, type)
      limit == Rule(policy[k], "limit")
      deductible == Rule(policy[k], "deductible")
  IN  IF k = 0 \/ (limit = None /\ deductible = None) THEN None
      ELSE Settle(claimed, limit, IF deductible = None THEN 0 ELSE deductible)

------------------------------------------------------------------------------
VARIABLES
  policy,    \* the document as it was last ingested
  cache,     \* each worker's RetrievalClient._sections
  claim,     \* the claim in hand, [type, amount]
  stage,     \* where it is
  shown,     \* the split read back before the decision
  reported,  \* the split stated after filing
  policyEdits, faults

settlementVars == <<policy, cache, claim, stage, shown, reported, policyEdits, faults>>

SettlementInit ==
  /\ policy \in Policies
  /\ cache = [w \in Workers |-> None]
  /\ claim = None
  /\ stage = "idle"
  /\ shown = None
  /\ reported = None
  /\ policyEdits = 0
  /\ faults = 0

\* Mutant of Sections: the sections are fetched every time.
SectionsUncached(w, sections) ==
  /\ sections = policy
  /\ UNCHANGED <<cache, faults>>

\* RetrievalClient.sections: a failed fetch reads as a policy that says nothing
\* and is not cached.
Sections(w, sections) ==
  \/ /\ cache[w] # None
     /\ sections = cache[w]
     /\ UNCHANGED <<cache, faults>>
  \/ /\ cache[w] = None
     /\ sections = policy
     /\ cache' = [cache EXCEPT ![w] = policy]
     /\ UNCHANGED faults
  \/ /\ cache[w] = None
     /\ sections = <<>>
     /\ faults < MaxFaults
     /\ faults' = faults + 1
     /\ UNCHANGED cache

\* capture, and confirm's read-back.
Capture(w) ==
  /\ stage # "asked"
  /\ \E c \in [type : Types, amount : Amounts], sections \in {policy, cache[w], <<>>} :
       /\ Sections(w, sections)
       /\ claim' = c
       /\ shown' = SettlementFor(c.type, c.amount, sections)
  /\ stage' = "asked"
  /\ reported' = None
  /\ UNCHANGED <<policy, policyEdits>>

\* submit_claim, on the worker that handles the yes.  It computes the split first.
\* If its idempotency key is known, which conversations share, the confirmation of
\* the claim filed then is returned without it; if the store fails, an error.
Submit(w) ==
  /\ stage = "asked"
  /\ \E sections \in {policy, cache[w], <<>>} :
       /\ Sections(w, sections)
       /\ \/ /\ stage' = "filed"
             /\ reported' = SettlementFor(claim.type, claim.amount, sections)
          \/ /\ stage' = "unfiled"
             /\ reported' = None
  /\ UNCHANGED <<policy, claim, shown, policyEdits>>

Decline ==
  /\ stage = "asked"
  /\ stage' = "idle"
  /\ UNCHANGED <<policy, cache, claim, shown, reported, policyEdits, faults>>

\* The document is edited and ingested again.
EditPolicy ==
  /\ policyEdits < MaxPolicyEdits
  /\ policyEdits' = policyEdits + 1
  /\ policy' \in Policies
  /\ UNCHANGED <<cache, claim, stage, shown, reported, faults>>

RestartWorker(w) ==
  /\ faults < MaxFaults
  /\ faults' = faults + 1
  /\ cache' = [cache EXCEPT ![w] = None]
  /\ UNCHANGED <<policy, claim, stage, shown, reported, policyEdits>>

SettlementNext ==
  \/ \E w \in Workers : Capture(w) \/ Submit(w) \/ RestartWorker(w)
  \/ Decline
  \/ EditPolicy

SettlementSpec == SettlementInit /\ [][SettlementNext]_settlementVars

------------------------------------------------------------------------------
\* What a split must satisfy for a policyholder to check it: the shares are the
\* claim, the insurer's is within the limit, the policyholder's is the deductible
\* absorbed and the part above the cap, which is there exactly above the limit.
Fair(split) ==
  /\ split.insurer_pays \in Nat /\ split.policyholder_pays \in Nat
  /\ split.applied_deductible \in Nat /\ split.excess \in Nat
  /\ split.insurer_pays + split.policyholder_pays = split.claimed
  /\ split.limit # None => split.insurer_pays <= split.limit
  /\ split.applied_deductible + split.excess = split.policyholder_pays
  /\ split.above_limit <=> split.excess > 0

\* Every split shown or reported adds up, part by part, whichever version of the
\* policy the worker that computed it had.
SplitsAreFair ==
  \A split \in {shown, reported} \ {None} : Fair(split)

\* The split reported with a claim just filed is the one shown before the decision,
\* through any edit of the policy: only a failed fetch, a restarted worker or a
\* second worker that cached another version can change it.  Of a claim that was
\* filed before, and of one that was not filed, no split is reported at all.
ShownIsReported ==
  (/\ stage \in {"filed", "unfiled"}
   /\ faults = 0
   /\ \A v, w \in Workers : None \in {cache[v], cache[w]} \/ cache[v] = cache[w])
    => reported = IF stage = "filed" THEN shown ELSE None

\* While every fetch has succeeded and every worker runs, a claim is shown
\* without a cap only if the policy some worker holds states none for its type,
\* in whichever section: the deductible's section does not hide the cap's.
CapsAreApplied ==
  faults = 0 /\ shown # None /\ shown.limit = None =>
    \E w \in Workers :
      /\ cache[w] # None
      /\ \A k \in DOMAIN cache[w] :
           claim.type \in cache[w][k].names => Rule(cache[w][k], "limit") = None
==============================================================================
