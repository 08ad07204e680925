------------------------- MODULE MCConversationGraph -------------------------
(* Instances of ConversationGraph for TLC. *)
EXTENDS ConversationGraph

CONSTANTS c1, c2, file, agree, attack

\* "file" states c1's policy number and amount; nobody ever states c2's.
MCSays == [u \in Utterances |-> IF u = file THEN {c1} ELSE {}]

\* At most one write in a message, alone or after a search.
OneWrite == {<<>>, <<"read">>, <<c1>>, <<"read", c1>>, <<c2>>}

\* The same without the claim nobody stated, for overlapping turns.
FewCalls == {<<>>, <<"read">>, <<c1>>}

\* A message that files two claims at once.
TwoWrites == {<<>>, <<c1>>, <<c1, c2>>}
==============================================================================
