---------------------------- MODULE MCSettlement ----------------------------
(* Instances of Settlement for TLC; money in hundreds of dollars. *)
EXTENDS Settlement, TLC

CONSTANTS w1, w2

Fig(matches, amount) == [matches |-> matches, amount |-> amount]

\* data/sample_policy.md: "covered up to $25,000 with a $500 deductible";
\* "covered up to $10,000 total", "items exceeding $2,500".
Water == [names |-> {"water"}, sentences |-> <<<<Fig({4, 5}, 250), Fig({1}, 5)>>, <<>>>>]
Property ==
  [names |-> {"property"}, sentences |-> <<<<Fig({4, 5}, 100)>>, <<Fig({3}, 25)>>>>]

\* Sections an edit may bring in: a deductible alone, a lower cap, none.
Deductible == [names |-> {"water", "property"}, sentences |-> <<<<Fig({2}, 10)>>>>]
LowCap == [names |-> {"water"}, sentences |-> <<<<Fig({7}, 50)>>, <<Fig({5}, 80)>>>>]

SampleDocuments ==
  {<<Water, Property>>, <<Deductible, Water>>, <<Deductible>>, <<LowCap, Property>>}

\* Every wording of a sentence with two figures, of equal amounts or not: plain
\* deductibles, plain limits, and "up to $500 deductible".
Worded(a) == {Fig(m, a) : m \in {{1}, {4, 5}, {1, 5}}}
WordedDocuments ==
  {<<[names |-> {"water"}, sentences |-> <<<<f, g>>>>]>> :
     f \in Worded(5), g \in Worded(5) \cup Worded(10)}

MCPhrases ==
  Worded(5) \cup Worded(10)
  \cup {Fig({4, 5}, 250), Fig({4, 5}, 100), Fig({3}, 25), Fig({2}, 10), Fig({7}, 50),
         Fig({5}, 80)}
MCPolicies == SampleDocuments \cup WordedDocuments

\* On and just above the figures above, and the sums where a cap sets in.
MCAmounts == {5, 6, 15, 16, 255, 256}

\* Workers are interchangeable.
Symmetry == Permutations(Workers)
=============================================================================
