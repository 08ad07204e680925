------------------------------ MODULE MCRetrieval ------------------------------
(***************************************************************************)
(* An instance of Retrieval: three versions of the policy documents, one   *)
(* that repeats a heading and one with an empty section.                   *)
(***************************************************************************)
EXTENDS Retrieval, TLC

Section(i, t) == [id |-> i, text |-> t]

MCTexts == {"a", "b", "c", "d"}
MCBlank == "blank"
MCDocuments == {<<Section(1, "a"), Section(2, "b"), Section(4, MCBlank)>>,
                <<Section(1, "c"), Section(3, "d")>>,
                <<Section(2, "b"), Section(2, "d")>>}

\* One query that a word decides and one that only the embedding can answer.
MCQueries == {"word", "sense"}
MCNear == [word |-> [a |-> 1, b |-> 3, c |-> 2, d |-> 3], sense |-> [a |-> 2, b |-> 1, c |-> 4, d |-> 3]]
MCTerms == [word |-> [a |-> 2, b |-> 0, c |-> 1, d |-> 1], sense |-> [a |-> 0, b |-> 0, c |-> 0, d |-> 0]]

IngestSymmetry == Permutations(Ingests)
================================================================================
