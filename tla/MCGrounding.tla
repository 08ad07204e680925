----------------------------- MODULE MCGrounding -----------------------------
(* Instances of Grounding for TLC; amounts in hundreds of dollars. *)
EXTENDS Grounding

CONSTANTS s1, s2, p1

\* data/sample_policy.md: a limit of $25,000 and a deductible of $500; a limit
\* of $10,000, items over $2,500, and here the deductible once more.
MCStates == [s \in Sections |-> IF s = s1 THEN {250, 5} ELSE {100, 25, 5}]
MCTerms == [s \in Sections |-> IF s = s1 THEN {250, 5} ELSE {}]

\* Of a claim of $10,000, the limit of s2, s1 pays all but its deductible.
MCShares == [s \in Sections |-> [a \in Sums |-> IF s = s1 THEN {a - 5, 5} ELSE {a}]]

\* Objects, with their claim or without; one, two and three deep, in either order;
\* a call of which parse sees only the wrapping.
MCEnvelopes ==
  LET Object(key, claims) == [key |-> key, claims |-> claims, unknown |-> FALSE]
      answer == Object("answer", NoNumber)
      output == Object("output", NoNumber)
      call == Object("call", NoNumber)
  IN  {<<>>, <<Object("answer", 20)>>, <<Object("answer", 90)>>,
       <<[answer EXCEPT !.unknown = TRUE]>>, <<Object("output", 20)>>,
       <<Object("none", 20)>>, <<call>>, <<answer, Object("answer", 20)>>,
       <<Object("answer", 20), Object("output", 90)>>,
       <<Object("output", 20), answer>>, <<output, call>>, <<answer, output, answer>>}

Cite(begins, names) == [begins |-> begins, names |-> names]
Silent ==
  [cites |-> {}, names |-> {}, amounts |-> {}, compares |-> {}, numbers |-> {},
   estimates |-> FALSE, asserts |-> FALSE]

\* The limit of s1 without its name; s1 cited in full; s1 abbreviated in another
\* typography, beside a citation that fits both sections; one that fits none; s2
\* named with the item threshold put in the wrong or the right order; a policy
\* number; an estimate.
MCSentences ==
  {[Silent EXCEPT !.amounts = {250}, !.asserts = TRUE],
   [Silent EXCEPT !.cites = {Cite({s1}, {s1})}, !.amounts = {5}, !.asserts = TRUE],
   [Silent EXCEPT !.cites = {Cite({s1}, {}), Cite({s1, s2}, {})}, !.amounts = {100}],
   [Silent EXCEPT !.cites = {Cite({}, {})}, !.asserts = TRUE],
   [Silent EXCEPT !.names = {s2}, !.amounts = {15, 25}, !.asserts = TRUE,
                  !.compares = {[left |-> 15, op |-> "greater", right |-> 25]}],
   [Silent EXCEPT !.names = {s2}, !.amounts = {15, 25},
                  !.compares = {[left |-> 15, op |-> "lesser", right |-> 25]}],
   [Silent EXCEPT !.numbers = {p1}],
   [Silent EXCEPT !.estimates = TRUE]}
=============================================================================
