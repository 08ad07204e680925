---------------------------- MODULE TurnLifecycle ----------------------------
(***************************************************************************)
(* What the job pipeline promises of each chat run, without its queue,     *)
(* pending list, workers' program or clocks: a run is sent once, handed to *)
(* a worker at most once, gets at most one terminal event and only while a *)
(* worker has it in hand, and then is settled, or stranded if the worker   *)
(* was lost.                                                               *)
(***************************************************************************)
CONSTANT Runs

VARIABLES
  stage,      \* unsent, queued, held, settled, stranded or lost
  ended       \* the runs whose terminal event has been published

Stages == {"unsent", "queued", "held", "settled", "stranded", "lost"}

LifecycleTypeOK ==
  /\ stage \in [Runs -> Stages]
  /\ ended \in SUBSET Runs

Init ==
  /\ stage = [r \in Runs |-> "unsent"]
  /\ ended = {}

\* Every run of S moves from one stage to another.
Move(S, from, to) ==
  /\ \A r \in S : stage[r] = from
  /\ stage' = [r \in Runs |-> IF r \in S THEN to ELSE stage[r]]
  /\ UNCHANGED ended

\* Sending a run may push older, still queued ones out of a full stream.
Send(r, S) ==
  /\ stage[r] = "unsent"
  /\ \A q \in S : stage[q] = "queued"
  /\ stage' = [q \in Runs |-> IF q = r THEN "queued"
                              ELSE IF q \in S THEN "lost" ELSE stage[q]]
  /\ UNCHANGED ended

End(r) ==
  /\ stage[r] = "held"
  /\ r \notin ended
  /\ ended' = ended \cup {r}
  /\ UNCHANGED stage

Next ==
  \/ \E r \in Runs :
       \/ \E S \in SUBSET Runs : Send(r, S)
       \/ Move({r}, "queued", "held")
       \/ End(r)
       \/ Move({r}, "held", "settled")
       \/ Move({r}, "held", "stranded")
  \/ \E S \in SUBSET Runs : Move(S, "stranded", "settled")

Spec == Init /\ [][Next]_<<stage, ended>>
==============================================================================
