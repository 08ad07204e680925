--------------------------- MODULE MCChatPipeline ---------------------------
(* Instances of ChatPipeline for TLC. *)
EXTENDS ChatPipeline, TLC

\* Runs and workers are interchangeable; only sound for runs without liveness.
Symmetry == Permutations(Runs) \cup Permutations(Workers)
=============================================================================
