-------------------------- MODULE ConversationGraph --------------------------
(***************************************************************************)
(* The agent's graph on one conversation (backend/agent/app/graph/build.py *)
(* and nodes.py) as handle in worker.py invokes it: turns arrive one       *)
(* message each, every node that completes saves a checkpoint, a write     *)
(* stops at confirm for an answer, and the next message either starts a    *)
(* fresh run or resumes whatever the last checkpoint left unfinished.  A   *)
(* run may be cut off at any node (timeout, exception, crash).             *)
(*                                                                         *)
(* The checkpointer is the durable one.  What the model says and what the  *)
(* tools answer is left out; which tools it calls is its free choice.      *)
(***************************************************************************)
EXTENDS Naturals, Sequences, FiniteSets, Functions

CONSTANTS
  Turns,        \* the jobs of one conversation, one user message each
  Claims,       \* argument lists of submit_claim the model may come up with
  NoClaim,      \* pending_write is None
  Utterances,   \* what a user message may be
  Screened,     \* the utterances the guard blocks
  Affirmative,  \* the utterances confirm takes for a yes
  Says,         \* for each utterance, the claims whose number and amount it states
  Silence,      \* no resume value
  CallLists,    \* the tool calls the model may put in one message
  Replicas,     \* jobs of this conversation handled at the same time
  MaxIterations,        \* AgentSettings.max_graph_iterations
  RequireConfirmation,  \* AgentSettings.require_claim_confirmation
  MaxFaults     \* bound: runs cut off and reports lost

Reads == {"read"}

ASSUME GraphAssumption ==
  /\ NoClaim \notin Claims
  /\ Claims \cap Reads = {}
  /\ Silence \notin Utterances
  /\ Screened \subseteq Utterances
  /\ Affirmative \subseteq Utterances
  /\ Says \in [Utterances -> SUBSET Claims]
  /\ \A calls \in CallLists : calls \in Seq(Reads \cup Claims)
  /\ Replicas \in Nat
  /\ MaxIterations \in Nat \ {0}
  /\ RequireConfirmation \in BOOLEAN
  /\ MaxFaults \in Nat

VARIABLES
  saved,      \* the conversation's latest checkpoint
  state,      \* each turn's graph state while its run is going on
  phase,      \* what its worker is doing with each turn
  message,    \* its user message
  resuming,   \* handle found a checkpoint with nodes left to run
  answer,     \* resume value not yet consumed
  steps,      \* supersteps of its invocation
  faults,     \* faults so far
  executed,   \* how often submit_claim ran with each argument list
  approved,   \* how often confirm let each argument list through
  shown,      \* the claim whose read-back last reached the user, unanswered
  blind,      \* claims approved while their read-back had not been shown
  heard       \* turns whose message the graph took in

progress == <<phase, message, resuming, answer, steps>>
history == <<executed, approved, shown, blind, heard>>
vars == <<saved, state, progress, faults, history>>

Nodes == {"guard", "agent", "capture", "confirm", "tools",
          "readback", "parse", "ground", "format"}

\* Mutant of RecursionLimit: a round has only the agent and the tools node.
TwoStepsPerRound == 2 * MaxIterations

\* One superstep per node, plus one for the input.
RecursionLimit == 4 * MaxIterations

\* next: the node to run.  asked: an interrupt is on record.  said: the last
\* human message, stated: what all of them state.  calls: the tool calls of the
\* last message.  reported: the turns whose calls tool_invocations lists.
GraphState ==
  [next : Nodes \cup {"end"}, asked : BOOLEAN, said : Utterances \cup {Silence},
   stated : SUBSET Claims, calls : Seq(Reads \cup Claims),
   pending : Claims \cup {NoClaim}, iterations : 0 .. MaxIterations,
   reported : SUBSET Turns]

Blank ==
  [next |-> "end", asked |-> FALSE, said |-> Silence, stated |-> {}, calls |-> <<>>,
   pending |-> NoClaim, iterations |-> 0, reported |-> {}]

Phases == {"unsent", "received", "running", "reporting", "over"}
Active == {t \in Turns : phase[t] \in {"received", "running", "reporting"}}

Writes(calls) == {i \in DOMAIN calls : calls[i] \in Claims}
FirstWrite(calls) == calls[CHOOSE i \in Writes(calls) : \A j \in Writes(calls) : i <= j]

Init ==
  /\ saved = Blank
  /\ state = [t \in Turns |-> Blank]
  /\ phase = [t \in Turns |-> "unsent"]
  /\ message = [t \in Turns |-> Silence]
  /\ resuming = [t \in Turns |-> FALSE]
  /\ answer = [t \in Turns |-> Silence]
  /\ steps = [t \in Turns |-> 0]
  /\ faults = 0
  /\ executed = [c \in Claims |-> 0]
  /\ approved = [c \in Claims |-> 0]
  /\ shown = NoClaim
  /\ blind = {}
  /\ heard = {}

------------------------------------------------------------------------------
\* Mutant of Receive: any conversation that has a checkpoint is resumed.
ReceiveAlwaysResumes(t) ==
  /\ phase[t] = "unsent"
  /\ Cardinality(Active) < Replicas
  /\ \E u \in Utterances : message' = [message EXCEPT ![t] = u]
  /\ resuming' = [resuming EXCEPT ![t] = saved.said # Silence]
  /\ phase' = [phase EXCEPT ![t] = "received"]
  /\ UNCHANGED <<saved, state, answer, steps, faults, history>>

\* handle: aget_state decides whether the message starts a run or resumes one;
\* if it raises, the message starts one.
Receive(t) ==
  /\ phase[t] = "unsent"
  /\ Cardinality(Active) < Replicas
  /\ \E u \in Utterances : message' = [message EXCEPT ![t] = u]
  /\ \/ /\ resuming' = [resuming EXCEPT ![t] = saved.next # "end"]
        /\ UNCHANGED faults
     \/ /\ resuming' = [resuming EXCEPT ![t] = FALSE]
        /\ faults < MaxFaults
        /\ faults' = faults + 1
  /\ phase' = [phase EXCEPT ![t] = "received"]
  /\ UNCHANGED <<saved, state, answer, steps, history>>

\* ainvoke(state): the message joins the history and the run starts at guard.
BeginFresh(t) ==
  LET S == [saved EXCEPT !.next = "guard", !.asked = FALSE, !.said = message[t],
                         !.stated = @ \cup Says[message[t]], !.calls = <<>>]
  IN  /\ phase[t] = "received"
      /\ ~resuming[t]
      /\ saved' = S
      /\ state' = [state EXCEPT ![t] = S]
      /\ phase' = [phase EXCEPT ![t] = "running"]
      /\ steps' = [steps EXCEPT ![t] = 1]
      /\ heard' = heard \cup {t}
      /\ UNCHANGED <<message, resuming, answer, faults, executed, approved, shown, blind>>

\* ainvoke(Command(resume=message)): the checkpoint is picked up where it
\* stands; if another run has finished it meanwhile, there is nothing to run.
BeginResumed(t) ==
  /\ phase[t] = "received"
  /\ resuming[t]
  /\ state' = [state EXCEPT ![t] = saved]
  /\ answer' = [answer EXCEPT ![t] = message[t]]
  /\ phase' = [phase EXCEPT ![t] = IF saved.next = "end" THEN "reporting" ELSE "running"]
  /\ UNCHANGED <<saved, message, resuming, steps, faults, history>>

At(t, node) ==
  /\ phase[t] = "running"
  /\ state[t].next = node
  /\ steps[t] < RecursionLimit

\* Mutant of Complete: the resume value stays until something consumes it.
CompleteKeepingAnswer(t, S) ==
  /\ state' = [state EXCEPT ![t] = S]
  /\ saved' = S
  /\ steps' = [steps EXCEPT ![t] = @ + 1]
  /\ phase' = [phase EXCEPT ![t] = IF S.next = "end" THEN "reporting" ELSE "running"]
  /\ UNCHANGED <<message, resuming, answer, faults>>

\* A node of t's run completes: the checkpoint is written, and a resume value
\* that the first superstep did not consume is gone.
Complete(t, S) ==
  /\ state' = [state EXCEPT ![t] = S]
  /\ saved' = S
  /\ steps' = [steps EXCEPT ![t] = @ + 1]
  /\ answer' = [answer EXCEPT ![t] = Silence]
  /\ phase' = [phase EXCEPT ![t] = IF S.next = "end" THEN "reporting" ELSE "running"]
  /\ UNCHANGED <<message, resuming, faults>>

\* Mutant of Guard: per-turn outputs are not cleared.
GuardKeepsOutputs(t) ==
  LET blocked == state[t].said \in Screened
  IN  /\ At(t, "guard")
      /\ Complete(t, [state[t] EXCEPT !.pending = NoClaim,
                        !.iterations = IF blocked THEN @ ELSE 0,
                        !.next = IF blocked THEN "parse" ELSE "agent"])
      /\ UNCHANGED history

Guard(t) ==
  LET blocked == state[t].said \in Screened
  IN  /\ At(t, "guard")
      /\ Complete(t, [state[t] EXCEPT !.pending = NoClaim, !.reported = {},
                        !.iterations = IF blocked THEN @ ELSE 0,
                        !.next = IF blocked THEN "parse" ELSE "agent"])
      /\ UNCHANGED history

\* Mutant of Route: submit_claim is not listed among the write tools.
RouteAsRead(calls) == IF calls = <<>> THEN "readback" ELSE "tools"

\* route_after_agent
Route(calls) ==
  IF calls = <<>> THEN "readback" ELSE IF Writes(calls) # {} THEN "capture" ELSE "tools"

CallModel(t) ==
  /\ At(t, "agent")
  /\ state[t].iterations < MaxIterations
  /\ \E calls \in CallLists :
       Complete(t, [state[t] EXCEPT !.calls = calls, !.iterations = @ + 1,
                                    !.next = Route(calls)])
  /\ UNCHANGED history

\* The structural stop: an apology instead of a model call.
StopLooping(t) ==
  /\ At(t, "agent")
  /\ state[t].iterations >= MaxIterations
  /\ Complete(t, [state[t] EXCEPT !.calls = <<>>, !.next = "readback"])
  /\ UNCHANGED history

Capture(t) ==
  /\ At(t, "capture")
  /\ Complete(t, [state[t] EXCEPT !.pending = FirstWrite(state[t].calls),
                                  !.next = "confirm"])
  /\ UNCHANGED history

PassUnasked(t) ==
  /\ At(t, "confirm")
  /\ ~RequireConfirmation
  /\ Complete(t, [state[t] EXCEPT !.next = "tools"])
  /\ UNCHANGED history

\* The user has not stated the policy number or the amount: confirm asks for it.
RefuseUnstated(t) ==
  /\ At(t, "confirm")
  /\ RequireConfirmation
  /\ state[t].pending \notin state[t].stated
  /\ Complete(t, [state[t] EXCEPT !.pending = NoClaim, !.calls = <<>>, !.asked = FALSE,
                                  !.next = "parse"])
  /\ UNCHANGED history

\* interrupt: the run ends here and confirm is what remains to be run.
Ask(t) ==
  /\ At(t, "confirm")
  /\ RequireConfirmation
  /\ state[t].pending \in state[t].stated
  /\ answer[t] = Silence
  /\ state' = [state EXCEPT ![t].asked = TRUE]
  /\ saved' = state'[t]
  /\ phase' = [phase EXCEPT ![t] = "reporting"]
  /\ shown' = NoClaim
  /\ UNCHANGED <<message, resuming, answer, steps, faults, executed, approved, blind, heard>>

\* confirm entered again with a resume value.
Decide(t) ==
  LET claim == state[t].pending
      yes == answer[t] \in Affirmative
  IN  /\ At(t, "confirm")
      /\ RequireConfirmation
      /\ claim \in state[t].stated
      /\ answer[t] # Silence
      /\ Complete(t, IF yes
           THEN [state[t] EXCEPT !.asked = FALSE, !.next = "tools"]
           ELSE [state[t] EXCEPT !.asked = FALSE, !.next = "parse",
                                 !.pending = NoClaim, !.calls = <<>>])
      /\ approved' = [approved EXCEPT ![claim] = IF yes THEN @ + 1 ELSE @]
      /\ blind' = IF yes /\ shown # claim THEN blind \cup {claim} ELSE blind
      /\ heard' = IF state[t].asked THEN heard \cup {t} ELSE heard
      /\ shown' = NoClaim
      /\ UNCHANGED executed

\* Mutant of Execute: a call is tried again although its first attempt landed.
ExecuteWithRetry(calls, n) ==
  executed' = [c \in Claims |-> executed[c] + 2 * Cardinality({i \in 1 .. n : calls[i] = c})]

\* The first n calls of a message are carried out.
Execute(calls, n) ==
  executed' = [c \in Claims |-> executed[c] + Cardinality({i \in 1 .. n : calls[i] = c})]

\* Every call of the last message is executed, not only the pending one.
ExecuteTools(t) ==
  /\ At(t, "tools")
  /\ Execute(state[t].calls, Len(state[t].calls))
  /\ Complete(t, [state[t] EXCEPT !.pending = NoClaim, !.reported = @ \cup {t},
                                  !.calls = <<>>, !.next = "agent"])
  /\ UNCHANGED <<approved, shown, blind, heard>>

\* The four nodes that finish the answer.
Finish(t) ==
  /\ \/ /\ At(t, "readback")
        /\ Complete(t, [state[t] EXCEPT !.next = "parse"])
     \/ /\ At(t, "parse")
        /\ Complete(t, [state[t] EXCEPT !.next = "ground"])
     \/ /\ At(t, "ground")
        /\ Complete(t, [state[t] EXCEPT !.next = "format"])
     \/ /\ At(t, "format")
        /\ Complete(t, [state[t] EXCEPT !.next = "end"])
  /\ UNCHANGED history

------------------------------------------------------------------------------
\* The run is over; its state is nobody's any more.
Retire(t) ==
  /\ phase' = [phase EXCEPT ![t] = "over"]
  /\ state' = [state EXCEPT ![t] = Blank]
  /\ answer' = [answer EXCEPT ![t] = Silence]
  /\ steps' = [steps EXCEPT ![t] = 0]
  /\ UNCHANGED <<saved, message, resuming>>

\* The answer or the confirmation prompt reaches the user.
Report(t) ==
  /\ phase[t] = "reporting"
  /\ Retire(t)
  /\ shown' = IF state[t].asked THEN state[t].pending ELSE shown
  /\ UNCHANGED <<faults, executed, approved, blind, heard>>

\* A publish failed, the worker died, or the user had stopped waiting.
LoseReport(t) ==
  /\ phase[t] = "reporting"
  /\ faults < MaxFaults
  /\ faults' = faults + 1
  /\ Retire(t)
  /\ UNCHANGED history

\* The run is cut off inside a node, whose checkpoint is not written; in tools,
\* any number of the calls may already have been carried out.
CutOff(t) ==
  /\ phase[t] = "running"
  /\ faults < MaxFaults
  /\ faults' = faults + 1
  /\ IF state[t].next = "tools"
     THEN \E n \in 0 .. Len(state[t].calls) : Execute(state[t].calls, n)
     ELSE UNCHANGED executed
  /\ Retire(t)
  /\ UNCHANGED <<approved, shown, blind, heard>>

\* GraphRecursionError
OutOfSteps(t) ==
  /\ phase[t] = "running"
  /\ steps[t] >= RecursionLimit
  /\ Retire(t)
  /\ UNCHANGED <<faults, history>>

Node(t) ==
  \/ Guard(t)
  \/ CallModel(t)
  \/ StopLooping(t)
  \/ Capture(t)
  \/ PassUnasked(t)
  \/ RefuseUnstated(t)
  \/ Ask(t)
  \/ Decide(t)
  \/ ExecuteTools(t)
  \/ Finish(t)

Next ==
  \E t \in Turns :
    \/ Receive(t)
    \/ BeginFresh(t)
    \/ BeginResumed(t)
    \/ Node(t)
    \/ Report(t)
    \/ LoseReport(t)
    \/ CutOff(t)
    \/ OutOfSteps(t)

Spec == Init /\ [][Next]_vars

-----------------------------------------------------------------------------
\* Type invariant; that iterations stays in its range is the structural stop.
GraphTypeOK ==
  /\ saved \in GraphState
  /\ state \in [Turns -> GraphState]
  /\ phase \in [Turns -> Phases]
  /\ message \in [Turns -> Utterances \cup {Silence}]
  /\ resuming \in [Turns -> BOOLEAN]
  /\ answer \in [Turns -> Utterances \cup {Silence}]
  /\ steps \in [Turns -> 0 .. RecursionLimit]
  /\ faults \in 0 .. MaxFaults
  /\ executed \in [Claims -> Nat]
  /\ approved \in [Claims -> Nat]
  /\ shown \in Claims \cup {NoClaim}
  /\ blind \in SUBSET Claims
  /\ heard \in SUBSET Turns

\* No claim is filed with arguments that confirm has not let through on a yes,
\* however runs are cut off, resumed or overlap on the same conversation.
WritesWereApproved ==
  \A c \in Claims : executed[c] > 0 => approved[c] > 0

\* One yes files once: a write is carried out again only because a run was cut
\* off between the tool call and its checkpoint.
RepeatsOnlyAfterFaults ==
  \A c \in Claims : executed[c] <= approved[c] + faults

\* The loop ends by the structural stop, with an apology, and never by
\* LangGraph's recursion limit, with an error: recursion_limit leaves room for
\* every node of max_graph_iterations rounds.
NeverOutOfSteps ==
  \A t \in Turns : phase[t] = "running" => steps[t] < RecursionLimit

\* With or without confirmation, a conversation files at most one claim per
\* round and message, whatever is cut off, resumed or run twice at a time.
FilingsBounded ==
  SumFunction(executed) <= MaxIterations * Cardinality({t \in Turns : phase[t] # "unsent"})

\* A run that started at guard reports the tool calls of its own turn only,
\* although the checkpoint carries tool_invocations from turn to turn.
FreshTurnReportsOwn ==
  \A t \in Turns :
    phase[t] = "reporting" /\ ~resuming[t] => state[t].reported \subseteq {t}

\* A conversation whose turns come one at a time, none cut off or lost.
Undisturbed == Replicas = 1 /\ faults = 0

\* While nothing disturbs the conversation, every message that was handled has
\* been taken in: as the question its run started from, or as the answer to a
\* confirmation that was pending; none is spent on a checkpoint left over.
EveryMessageIsHeard ==
  Undisturbed => \A t \in Turns : phase[t] = "reporting" => t \in heard

\* While nothing disturbs the conversation, a write is approved only by an
\* answer given after its read-back was shown.
ApprovalsWereInformed == Undisturbed => blind = {}

-----------------------------------------------------------------------------
\* The inductive invariant behind WritesWereApproved and NeverOutOfSteps, for
\* RequireConfirmation and a model that puts at most one write in a message.
OneWritePerMessage == \A calls \in CallLists : \A i, j \in Writes(calls) : i = j

\* capture finds a write to lift out of the message.
HasWrite(S) == S.next = "capture" => Writes(S.calls) # {}

\* Between a write call and its execution: there is one in the message, confirm
\* reads back what the message would execute, tools executes only approved writes.
ConsentHolds(S) ==
  /\ S.next = "capture" => \A i, j \in Writes(S.calls) : i = j
  /\ S.next = "confirm" => \A i \in Writes(S.calls) : S.calls[i] = S.pending
  /\ S.next = "tools" => \A i \in Writes(S.calls) : approved[S.calls[i]] > 0

ConsentInv ==
  /\ HasWrite(saved) /\ ConsentHolds(saved)
  /\ \A t \in Turns : HasWrite(state[t]) /\ ConsentHolds(state[t])
  /\ WritesWereApproved

\* At most n supersteps were used to get to S: one for the input, one for
\* guard, two per round and up to five to finish.
StepsAccounted(S, n) ==
  /\ S.next # "end"
  /\ S.next = "guard" => n <= 1
  /\ S.next = "agent" => n <= 2 * S.iterations + 2
  /\ S.next \in {"capture", "tools"} => n <= 2 * S.iterations + 1
  /\ S.next = "confirm" => n <= 2 * S.iterations + 2
  /\ S.next = "readback" => n <= 2 * MaxIterations + 3
  /\ S.next = "parse" => n <= 2 * MaxIterations + 4
  /\ S.next = "ground" => n <= 2 * MaxIterations + 5
  /\ S.next = "format" => n <= 2 * MaxIterations + 6

StepsInv ==
  \A t \in Turns :
    /\ phase[t] = "running" => StepsAccounted(state[t], steps[t])
    /\ phase[t] \in {"unsent", "received"} => answer[t] = Silence
    /\ phase[t] \in {"unsent", "received"} \/ answer[t] # Silence => steps[t] = 0
==============================================================================
