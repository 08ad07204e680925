----------------------- MODULE ConversationGraph_proofs -----------------------
(***************************************************************************)
(* Proofs about ConversationGraph, for any number of turns, replicas,      *)
(* claims, rounds and faults: type correctness; that no claim is filed     *)
(* without a yes, when the model puts at most one write in a message; that *)
(* the loop never runs into the recursion limit, when at least four rounds *)
(* are allowed; that a turn reports its own tool calls; that an            *)
(* undisturbed conversation loses no message and approves nothing that it  *)
(* has not shown; that one yes files once on a single replica while        *)
(* nothing fails; and that rounds bound how much is filed at all.          *)
(***************************************************************************)
EXTENDS ConversationGraph, OrderLemmas, SequenceTheorems, FiniteSetTheorems, TLAPS

\* What a completed node leaves behind is well typed if its new graph state is.
LEMMA CompleteType ==
  ASSUME GraphTypeOK, NEW t \in Turns, NEW S \in GraphState,
         steps[t] < RecursionLimit, Complete(t, S)
  PROVE  /\ saved' \in GraphState
         /\ state' \in [Turns -> GraphState]
         /\ phase' \in [Turns -> Phases]
         /\ message' \in [Turns -> Utterances \cup {Silence}]
         /\ resuming' \in [Turns -> BOOLEAN]
         /\ answer' \in [Turns -> Utterances \cup {Silence}]
         /\ steps' \in [Turns -> 0 .. RecursionLimit]
         /\ faults' \in 0 .. MaxFaults
<1>1. RecursionLimit \in Nat BY GraphAssumption DEF RecursionLimit
<1>2. steps[t] + 1 \in 0 .. RecursionLimit BY <1>1 DEF GraphTypeOK
<1>3. steps' \in [Turns -> 0 .. RecursionLimit] BY <1>2 DEF GraphTypeOK, Complete
<1>4. phase' \in [Turns -> Phases] BY DEF GraphTypeOK, Complete, Phases
<1>5. QED BY <1>3, <1>4 DEF GraphTypeOK, Complete

\* Every node but an interrupted confirm completes with a well-typed state, and
\* routes to capture only a message that holds a write.
LEMMA NodeType ==
  ASSUME GraphTypeOK, NEW t \in Turns,
         \/ Guard(t) \/ CallModel(t) \/ StopLooping(t) \/ Capture(t)
         \/ PassUnasked(t) \/ RefuseUnstated(t) \/ Decide(t)
         \/ ExecuteTools(t) \/ Finish(t),
         HasWrite(state[t])
  PROVE  \E S \in GraphState : steps[t] < RecursionLimit /\ Complete(t, S) /\ HasWrite(S)
<1>0. state[t] \in GraphState BY DEF GraphTypeOK
<1>a. <<>> \in Seq(Reads \cup Claims) OBVIOUS
<1> USE DEF At, GraphState, Nodes, HasWrite
<1>1. CASE Guard(t)
  <2> DEFINE blocked == state[t].said \in Screened
             i == IF blocked THEN state[t].iterations ELSE 0
             n == IF blocked THEN "parse" ELSE "agent"
  <2>1. i \in 0 .. MaxIterations /\ n \in Nodes /\ n # "capture" BY <1>0, GraphAssumption
  <2>2. /\ steps[t] < RecursionLimit
        /\ Complete(t, [state[t] EXCEPT !.pending = NoClaim, !.reported = {},
                          !.iterations = i, !.next = n])
    BY <1>1 DEF Guard
  <2> HIDE DEF i, n
  <2>3. [state[t] EXCEPT !.pending = NoClaim, !.reported = {},
                         !.iterations = i, !.next = n] \in GraphState
    BY <1>0, <2>1
  <2>4. QED BY <1>0, <2>1, <2>2, <2>3
<1>2. CASE CallModel(t)
  <2>1. PICK calls \in CallLists :
          Complete(t, [state[t] EXCEPT !.calls = calls, !.iterations = @ + 1,
                                       !.next = Route(calls)])
    BY <1>2 DEF CallModel
  <2>2. calls \in Seq(Reads \cup Claims) BY GraphAssumption
  <2>3. Route(calls) \in Nodes BY DEF Route
  <2>4. state[t].iterations + 1 \in 0 .. MaxIterations
    <3>1. state[t].iterations < MaxIterations BY <1>2 DEF CallModel
    <3>2. state[t].iterations \in 0 .. MaxIterations BY <1>0
    <3>3. QED BY <3>1, <3>2, GraphAssumption
  <2>5. [state[t] EXCEPT !.calls = calls, !.iterations = @ + 1, !.next = Route(calls)]
          \in GraphState
    BY <1>0, <2>2, <2>3, <2>4
  <2>6. Route(calls) = "capture" => Writes(calls) # {} BY DEF Route
  <2>7. QED BY <1>2, <2>1, <2>5, <2>6 DEF CallModel
<1>3. CASE StopLooping(t)
  <2>1. [state[t] EXCEPT !.calls = <<>>, !.next = "readback"] \in GraphState
    BY <1>0, <1>a
  <2>2. QED BY <1>3, <2>1 DEF StopLooping
<1>4. CASE Capture(t)
  <2> DEFINE calls == state[t].calls
  <2>1. Writes(calls) # {} /\ calls \in Seq(Reads \cup Claims)
    BY <1>0, <1>4 DEF Capture
  <2>2. Writes(calls) \subseteq Nat
    BY <2>1, LenProperties DEF Writes
  <2>3. \E i \in Writes(calls) : \A j \in Writes(calls) : i <= j
    <3>1. PICK m \in Writes(calls) : TRUE BY <2>1
    <3>2. QED BY <2>2, <3>1, SmallestNat
  <2>4. FirstWrite(calls) \in Claims BY <2>3 DEF FirstWrite, Writes
  <2>5. [state[t] EXCEPT !.pending = FirstWrite(calls), !.next = "confirm"] \in GraphState
    BY <1>0, <2>4
  <2>6. QED BY <1>4, <2>5 DEF Capture
<1>5. CASE PassUnasked(t)
  <2>1. [state[t] EXCEPT !.next = "tools"] \in GraphState BY <1>0
  <2>2. QED BY <1>5, <2>1 DEF PassUnasked
<1>6. CASE RefuseUnstated(t)
  <2>1. [state[t] EXCEPT !.pending = NoClaim, !.calls = <<>>, !.asked = FALSE,
                         !.next = "parse"] \in GraphState
    BY <1>0, <1>a
  <2>2. QED BY <1>6, <2>1 DEF RefuseUnstated
<1>7. CASE Decide(t)
  <2>1. [state[t] EXCEPT !.asked = FALSE, !.next = "tools"] \in GraphState BY <1>0
  <2>2. [state[t] EXCEPT !.asked = FALSE, !.next = "parse",
                         !.pending = NoClaim, !.calls = <<>>] \in GraphState
    BY <1>0, <1>a
  <2>3. QED BY <1>7, <2>1, <2>2 DEF Decide
<1>8. CASE ExecuteTools(t)
  <2>1. [state[t] EXCEPT !.pending = NoClaim, !.reported = @ \cup {t},
                         !.calls = <<>>, !.next = "agent"] \in GraphState
    BY <1>0, <1>a
  <2>2. QED BY <1>8, <2>1 DEF ExecuteTools
<1>9. CASE Finish(t)
  <2> DEFINE S(n) == [state[t] EXCEPT !.next = n]
  <2>1. \A n \in {"parse", "ground", "format", "end"} :
          S(n) \in GraphState /\ S(n).next # "capture"
    BY <1>0
  <2>2. \E n \in {"parse", "ground", "format", "end"} :
          steps[t] < RecursionLimit /\ Complete(t, S(n))
    BY <1>9 DEF Finish
  <2> HIDE DEF S
  <2>3. PICK n \in {"parse", "ground", "format", "end"} :
          steps[t] < RecursionLimit /\ Complete(t, S(n))
    BY <2>2
  <2>4. S(n) \in GraphState /\ HasWrite(S(n)) BY <2>1
  <2>5. QED BY <2>3, <2>4, Zenon
<1>10. QED BY <1>1, <1>2, <1>3, <1>4, <1>5, <1>6, <1>7, <1>8, <1>9

-----------------------------------------------------------------------------
\* The number of calls of a message with given arguments is a number.
LEMMA ExecuteType ==
  ASSUME executed \in [Claims -> Nat], NEW calls, NEW n \in Nat, Execute(calls, n)
  PROVE  executed' \in [Claims -> Nat]
<1>1. ASSUME NEW c \in Claims
      PROVE  Cardinality({i \in 1 .. n : calls[i] = c}) \in Nat
  <2>1. IsFiniteSet(1 .. n) BY FS_Interval
  <2>2. IsFiniteSet({i \in 1 .. n : calls[i] = c}) BY <2>1, FS_Subset
  <2>3. QED BY <2>2, FS_CardinalityType
<1>2. QED BY <1>1 DEF Execute

\* The inductive invariant behind the type: a turn that was received carries a
\* message, and capture is only routed to with a write to lift.
TInv ==
  /\ GraphTypeOK
  /\ \A t \in Turns : phase[t] = "received" => message[t] \in Utterances
  /\ HasWrite(saved)
  /\ \A t \in Turns : HasWrite(state[t])

\* Every turn is unsent and every checkpoint blank to begin with.
LEMMA InitTInv == ASSUME Init PROVE TInv
<1>1. <<>> \in Seq(Reads \cup Claims) OBVIOUS
<1>2. Blank \in GraphState
  BY <1>1, GraphAssumption DEF Blank, GraphState
<1>3. HasWrite(Blank) BY DEF HasWrite, Blank
<1>4. GraphTypeOK
  BY <1>2, GraphAssumption DEF Init, GraphTypeOK, Phases, RecursionLimit
<1>5. QED BY <1>3, <1>4 DEF Init, TInv

\* The last step of a turn leaves nothing of its run behind.
LEMMA RetireType ==
  ASSUME TInv, NEW t \in Turns, Retire(t)
  PROVE  /\ saved' \in GraphState /\ HasWrite(saved')
         /\ state' \in [Turns -> GraphState] /\ \A u \in Turns : HasWrite(state'[u])
         /\ phase' \in [Turns -> Phases]
         /\ message' \in [Turns -> Utterances \cup {Silence}]
         /\ \A u \in Turns : phase'[u] = "received" => message'[u] \in Utterances
         /\ resuming' \in [Turns -> BOOLEAN]
         /\ answer' \in [Turns -> Utterances \cup {Silence}]
         /\ steps' \in [Turns -> 0 .. RecursionLimit]
<1>1. <<>> \in Seq(Reads \cup Claims) OBVIOUS
<1>2. Blank \in GraphState
  BY <1>1, GraphAssumption DEF Blank, GraphState
<1>3. HasWrite(Blank) BY DEF HasWrite, Blank
<1>4. RecursionLimit \in Nat BY GraphAssumption DEF RecursionLimit
<1>5. QED
  BY <1>2, <1>3, <1>4 DEF TInv, GraphTypeOK, Retire, Phases

\* Every step preserves it.
LEMMA StepTInv == ASSUME TInv, [Next]_vars PROVE TInv'
<1>0. /\ GraphTypeOK /\ HasWrite(saved)
      /\ \A t \in Turns : HasWrite(state[t])
      /\ \A t \in Turns : phase[t] = "received" => message[t] \in Utterances
      /\ RecursionLimit \in Nat
  BY GraphAssumption DEF TInv, RecursionLimit
<1>1. ASSUME NEW t \in Turns, Receive(t) PROVE TInv'
  <2>1. phase' \in [Turns -> Phases] BY <1>0, <1>1 DEF Receive, GraphTypeOK, Phases
  <2>2. message' \in [Turns -> Utterances \cup {Silence}]
    BY <1>0, <1>1 DEF Receive, GraphTypeOK
  <2>3. resuming' \in [Turns -> BOOLEAN] BY <1>0, <1>1 DEF Receive, GraphTypeOK
  <2>4. faults' \in 0 .. MaxFaults
    BY <1>0, <1>1, GraphAssumption DEF Receive, GraphTypeOK
  <2>5. UNCHANGED <<saved, state, answer, steps, executed, approved, shown, blind, heard>>
    BY <1>1 DEF Receive, history
  <2>6. \A u \in Turns : phase'[u] = "received" => message'[u] \in Utterances
    BY <1>0, <1>1 DEF Receive, GraphTypeOK
  <2>7. QED BY <1>0, <2>1, <2>2, <2>3, <2>4, <2>5, <2>6 DEF TInv, GraphTypeOK, HasWrite
<1>2. ASSUME NEW t \in Turns, BeginFresh(t) PROVE TInv'
  <2> DEFINE said == message[t]
             S == [saved EXCEPT !.next = "guard", !.asked = FALSE, !.said = said,
                                !.stated = @ \cup Says[said], !.calls = <<>>]
  <2>1. S \in GraphState
    <3>1. <<>> \in Seq(Reads \cup Claims) OBVIOUS
    <3>2. said \in Utterances \cup {Silence} BY <1>0 DEF GraphTypeOK
    <3>3. saved.stated \cup Says[said] \in SUBSET Claims
      BY <1>0, <1>2, GraphAssumption DEF GraphTypeOK, GraphState, BeginFresh
    <3> HIDE DEF said
    <3>4. QED BY <1>0, <3>1, <3>2, <3>3 DEF GraphTypeOK, GraphState, Nodes
  <2>2. S.next = "guard" BY <1>0 DEF GraphTypeOK, GraphState
  <2>3. /\ saved' = S /\ state' = [state EXCEPT ![t] = S]
        /\ phase' = [phase EXCEPT ![t] = "running"]
        /\ steps' = [steps EXCEPT ![t] = 1]
        /\ heard' = heard \cup {t}
        /\ UNCHANGED <<message, resuming, answer, faults, executed, approved, shown, blind>>
    BY <1>2 DEF BeginFresh
  <2>4. 1 \in 0 .. RecursionLimit BY GraphAssumption DEF RecursionLimit
  <2> HIDE DEF S
  <2>5. QED BY <1>0, <2>1, <2>2, <2>3, <2>4 DEF TInv, GraphTypeOK, HasWrite, Phases
<1>3. ASSUME NEW t \in Turns, BeginResumed(t) PROVE TInv'
  BY <1>0, <1>3 DEF BeginResumed, TInv, GraphTypeOK, HasWrite, Phases, history
<1>4. ASSUME NEW t \in Turns, Node(t), ~Ask(t) PROVE TInv'
  <2>1. PICK S \in GraphState :
          steps[t] < RecursionLimit /\ Complete(t, S) /\ HasWrite(S)
    BY <1>0, <1>4, NodeType DEF Node
  <2>2. /\ saved' \in GraphState
        /\ state' \in [Turns -> GraphState]
        /\ phase' \in [Turns -> Phases]
        /\ message' \in [Turns -> Utterances \cup {Silence}]
        /\ resuming' \in [Turns -> BOOLEAN]
        /\ answer' \in [Turns -> Utterances \cup {Silence}]
        /\ steps' \in [Turns -> 0 .. RecursionLimit]
        /\ faults' \in 0 .. MaxFaults
    BY <1>0, <2>1, CompleteType
  <2>3. HasWrite(saved') /\ \A u \in Turns : HasWrite(state'[u])
    BY <1>0, <2>1 DEF Complete, GraphTypeOK
  <2>4. /\ executed' \in [Claims -> Nat]
        /\ approved' \in [Claims -> Nat]
        /\ shown' \in Claims \cup {NoClaim}
        /\ blind' \in SUBSET Claims
        /\ heard' \in SUBSET Turns
    <3>1. CASE Decide(t)
      <4>1. state[t].pending \in Claims
        BY <1>0, <3>1 DEF Decide, GraphTypeOK, GraphState
      <4>2. QED BY <1>0, <3>1, <4>1 DEF Decide, GraphTypeOK
    <3>2. CASE ExecuteTools(t)
      <4>1. Len(state[t].calls) \in Nat
        BY <1>0, LenProperties DEF GraphTypeOK, GraphState
      <4>2. executed' \in [Claims -> Nat]
        BY <1>0, <3>2, <4>1, ExecuteType DEF ExecuteTools, GraphTypeOK
      <4>3. QED BY <1>0, <3>2, <4>2 DEF ExecuteTools, GraphTypeOK
    <3>3. CASE UNCHANGED history BY <1>0, <3>3 DEF history, GraphTypeOK
    <3>4. QED
      BY <1>4, <3>1, <3>2, <3>3 DEF Node, Guard, CallModel, StopLooping, Capture,
         PassUnasked, RefuseUnstated, Finish
  <2>5. \A u \in Turns : phase'[u] = "received" => message'[u] \in Utterances
    BY <1>0, <2>1 DEF Complete, GraphTypeOK
  <2>6. QED BY <2>2, <2>3, <2>4, <2>5 DEF TInv, GraphTypeOK, HasWrite
<1>5. ASSUME NEW t \in Turns, Ask(t) PROVE TInv'
  <2> DEFINE S == [state[t] EXCEPT !.asked = TRUE]
  <2>1. S \in GraphState /\ S.next = "confirm"
    BY <1>0, <1>5 DEF Ask, At, GraphTypeOK, GraphState
  <2>2. /\ state' = [state EXCEPT ![t] = S] /\ saved' = S
        /\ phase' = [phase EXCEPT ![t] = "reporting"] /\ shown' = NoClaim
        /\ UNCHANGED <<message, resuming, answer, steps, faults, executed, approved, blind, heard>>
    BY <1>0, <1>5 DEF Ask, GraphTypeOK, GraphState
  <2> HIDE DEF S
  <2>3. QED BY <1>0, <2>1, <2>2 DEF TInv, GraphTypeOK, HasWrite, Phases
<1>6. ASSUME NEW t \in Turns, Report(t) \/ LoseReport(t) \/ CutOff(t) \/ OutOfSteps(t)
      PROVE  TInv'
  <2>1. Retire(t) BY <1>6 DEF Report, LoseReport, CutOff, OutOfSteps
  <2>2. faults' \in 0 .. MaxFaults
    BY <1>0, <1>6, GraphAssumption DEF Report, LoseReport, CutOff, OutOfSteps, GraphTypeOK
  <2>3. executed' \in [Claims -> Nat]
    <3>1. CASE UNCHANGED executed BY <1>0, <3>1 DEF GraphTypeOK
    <3>2. CASE \E n \in 0 .. Len(state[t].calls) : Execute(state[t].calls, n)
      <4>1. PICK n \in 0 .. Len(state[t].calls) : Execute(state[t].calls, n) BY <3>2
      <4>2. n \in Nat BY <4>1
      <4>3. QED BY <1>0, <4>1, <4>2, ExecuteType DEF GraphTypeOK
    <3>3. QED
      BY <1>6, <3>1, <3>2 DEF Report, LoseReport, CutOff, OutOfSteps, history
  <2>4. shown' \in Claims \cup {NoClaim}
    BY <1>0, <1>6 DEF Report, LoseReport, CutOff, OutOfSteps, history,
       GraphTypeOK, GraphState
  <2>5. UNCHANGED <<approved, blind, heard>>
    BY <1>6 DEF Report, LoseReport, CutOff, OutOfSteps, history
  <2>6. QED BY <1>0, <2>1, <2>2, <2>3, <2>4, <2>5, RetireType DEF TInv, GraphTypeOK, HasWrite
<1>7. CASE UNCHANGED vars
  BY <1>0, <1>7 DEF vars, progress, history, TInv, GraphTypeOK, HasWrite
<1>8. QED
  BY <1>1, <1>2, <1>3, <1>4, <1>5, <1>6, <1>7 DEF Next

\* The inductive invariant of the types holds throughout.
LEMMA GraphInvariance == Spec => []TInv
<1>1. Init => TInv BY InitTInv
<1>2. TInv /\ [Next]_vars => TInv' BY StepTInv
<1>3. QED BY <1>1, <1>2, PTL DEF Spec

\* GraphTypeOK holds in every state: in particular the round counter of a
\* conversation never passes max_graph_iterations, whatever is cut off or
\* resumed.
THEOREM GraphTypeCorrect == Spec => []GraphTypeOK
<1>1. TInv => GraphTypeOK BY DEF TInv
<1>2. QED BY <1>1, GraphInvariance, PTL

-----------------------------------------------------------------------------
\* A node's new state carries consent on if what it routes to is covered:
\* approvals are never taken back.
LEMMA CompleteConsent ==
  ASSUME TInv, ConsentInv, NEW t \in Turns, NEW S, Complete(t, S),
         S.calls \in Seq(Reads \cup Claims), HasWrite(S),
         \A c \in Claims : approved[c] > 0 => approved'[c] > 0,
         S.next = "capture" => \A i, j \in Writes(S.calls) : i = j,
         S.next = "confirm" => \A i \in Writes(S.calls) : S.calls[i] = S.pending,
         S.next = "tools" => \A i \in Writes(S.calls) : approved'[S.calls[i]] > 0
  PROVE  /\ HasWrite(saved)' /\ ConsentHolds(saved)'
         /\ \A u \in Turns : HasWrite(state[u])' /\ ConsentHolds(state[u])'
<1>1. saved' = S /\ state' = [state EXCEPT ![t] = S] BY DEF Complete
<1>2. state'[t] = S /\ \A u \in Turns \ {t} : state'[u] = state[u]
  BY <1>1 DEF TInv, GraphTypeOK
<1>3. HasWrite(saved)' /\ ConsentHolds(saved)' BY <1>1 DEF HasWrite, ConsentHolds
<1>4. HasWrite(state[t])' /\ ConsentHolds(state[t])'
  BY <1>2 DEF HasWrite, ConsentHolds
<1>5. ASSUME NEW u \in Turns \ {t}
      PROVE  HasWrite(state[u])' /\ ConsentHolds(state[u])'
  <2>1. HasWrite(state[u]) /\ ConsentHolds(state[u]) BY DEF ConsentInv
  <2>2. state'[u] = state[u] BY <1>2
  <2>3. \A i \in Writes(state[u].calls) : state[u].calls[i] \in Claims BY DEF Writes
  <2>4. QED BY <2>1, <2>2, <2>3 DEF HasWrite, ConsentHolds
<1>6. QED BY <1>3, <1>4, <1>5

\* Only calls that are in the message are carried out.
LEMMA ExecuteOnlyCalls ==
  ASSUME executed \in [Claims -> Nat], NEW calls \in Seq(Reads \cup Claims),
         NEW n \in 0 .. Len(calls), Execute(calls, n),
         NEW c \in Claims, executed'[c] > 0
  PROVE  executed[c] > 0 \/ \E i \in Writes(calls) : calls[i] = c
<1>1. CASE {i \in 1 .. n : calls[i] = c} = {}
  <2>1. Cardinality({i \in 1 .. n : calls[i] = c}) = 0 BY <1>1, FS_EmptySet
  <2>2. executed'[c] = executed[c] + Cardinality({i \in 1 .. n : calls[i] = c})
    BY DEF Execute
  <2>3. QED BY <2>1, <2>2
<1>2. CASE {i \in 1 .. n : calls[i] = c} # {}
  <2>1. PICK i \in 1 .. n : calls[i] = c BY <1>2
  <2>2. i \in DOMAIN calls BY LenProperties
  <2>3. QED BY <2>1, <2>2 DEF Writes
<1>3. QED BY <1>1, <1>2

\* When confirmation is required and the model puts at most one write in a
\* message, every completed node passes consent on.
LEMMA NodeConsent ==
  ASSUME TInv, ConsentInv, RequireConfirmation, OneWritePerMessage,
         NEW t \in Turns, Node(t), ~Ask(t)
  PROVE  /\ HasWrite(saved)' /\ ConsentHolds(saved)'
         /\ \A u \in Turns : HasWrite(state[u])' /\ ConsentHolds(state[u])'
         /\ \A c \in Claims : approved[c] > 0 => approved'[c] > 0
<1>0. /\ state[t] \in GraphState /\ HasWrite(state[t]) /\ ConsentHolds(state[t])
      /\ state[t].calls \in Seq(Reads \cup Claims)
      /\ <<>> \in Seq(Reads \cup Claims)
      /\ approved \in [Claims -> Nat]
      /\ Writes(<<>>) = {}
  BY DEF TInv, GraphTypeOK, GraphState, ConsentInv, Writes
<1>1. CASE Guard(t)
  <2> DEFINE n == IF state[t].said \in Screened THEN "parse" ELSE "agent"
             k == IF state[t].said \in Screened THEN state[t].iterations ELSE 0
             S == [state[t] EXCEPT !.pending = NoClaim, !.reported = {},
                                   !.iterations = k, !.next = n]
  <2>1. Complete(t, S) /\ UNCHANGED approved BY <1>1 DEF Guard, history
  <2>2. n \notin {"capture", "confirm", "tools"} OBVIOUS
  <2> HIDE DEF n, k
  <2>3. S.next = n /\ S.calls = state[t].calls BY <1>0 DEF GraphState
  <2> HIDE DEF S
  <2>4. QED BY <1>0, <2>1, <2>2, <2>3, CompleteConsent DEF HasWrite
<1>2. CASE CallModel(t)
  <2>1. PICK calls \in CallLists :
          Complete(t, [state[t] EXCEPT !.calls = calls, !.iterations = @ + 1,
                                       !.next = Route(calls)])
    BY <1>2 DEF CallModel
  <2> DEFINE S == [state[t] EXCEPT !.calls = calls, !.iterations = @ + 1,
                                   !.next = Route(calls)]
  <2>2. calls \in Seq(Reads \cup Claims) BY GraphAssumption
  <2>3. S.next = Route(calls) /\ S.calls = calls BY <1>0 DEF GraphState
  <2>4. Complete(t, S) /\ UNCHANGED approved BY <1>2, <2>1 DEF CallModel, history
  <2>5. \A i, j \in Writes(calls) : i = j BY DEF OneWritePerMessage
  <2>6. /\ Route(calls) \in {"readback", "capture", "tools"}
        /\ Route(calls) = "capture" => Writes(calls) # {}
        /\ Route(calls) = "tools" => Writes(calls) = {}
    BY DEF Route
  <2> HIDE DEF S
  <2>7. QED BY <1>0, <2>2, <2>3, <2>4, <2>5, <2>6, CompleteConsent DEF HasWrite
<1>3. CASE StopLooping(t)
  <2> DEFINE S == [state[t] EXCEPT !.calls = <<>>, !.next = "readback"]
  <2>1. Complete(t, S) /\ UNCHANGED approved BY <1>3 DEF StopLooping, history
  <2>2. S.next = "readback" /\ S.calls = <<>> BY <1>0 DEF GraphState
  <2> HIDE DEF S
  <2>3. QED BY <1>0, <2>1, <2>2, CompleteConsent DEF HasWrite
<1>4. CASE Capture(t)
  <2> DEFINE calls == state[t].calls
             S == [state[t] EXCEPT !.pending = FirstWrite(calls), !.next = "confirm"]
  <2>1. Complete(t, S) /\ UNCHANGED approved BY <1>4 DEF Capture, history
  <2>2. S.next = "confirm" /\ S.calls = calls /\ S.pending = FirstWrite(calls)
    BY <1>0 DEF GraphState
  <2>3. Writes(calls) # {} /\ \A i, j \in Writes(calls) : i = j
    BY <1>0, <1>4 DEF Capture, At, HasWrite, ConsentHolds
  <2>4. Writes(calls) \subseteq Nat BY <1>0, LenProperties DEF Writes
  <2>5. PICK k \in Writes(calls) : \A i \in Writes(calls) : i = k BY <2>3
  <2>6. FirstWrite(calls) = calls[k]
    <3>1. \A i \in Writes(calls) : i <= i BY <2>4
    <3>2. \A j \in Writes(calls) : k <= j BY <2>5, <3>1
    <3>3. k = CHOOSE i \in Writes(calls) : \A j \in Writes(calls) : i <= j
      BY <2>5, <3>2
    <3>4. QED BY <3>3 DEF FirstWrite
  <2>7. \A i \in Writes(calls) : calls[i] = FirstWrite(calls) BY <2>5, <2>6
  <2> HIDE DEF S
  <2>8. QED BY <1>0, <2>1, <2>2, <2>7, CompleteConsent DEF HasWrite
<1>5. CASE PassUnasked(t) BY <1>5 DEF PassUnasked
<1>6. CASE RefuseUnstated(t)
  <2> DEFINE S == [state[t] EXCEPT !.pending = NoClaim, !.calls = <<>>, !.asked = FALSE,
                                   !.next = "parse"]
  <2>1. Complete(t, S) /\ UNCHANGED approved BY <1>6 DEF RefuseUnstated, history
  <2>2. S.next = "parse" /\ S.calls = <<>> BY <1>0 DEF GraphState
  <2> HIDE DEF S
  <2>3. QED BY <1>0, <2>1, <2>2, CompleteConsent DEF HasWrite
<1>7. CASE Decide(t)
  <2> DEFINE claim == state[t].pending
             yes == answer[t] \in Affirmative
  <2>1. /\ claim \in Claims
        /\ state[t].next = "confirm"
        /\ approved' = [approved EXCEPT ![claim] = IF yes THEN @ + 1 ELSE @]
    BY <1>0, <1>7 DEF Decide, At, GraphState
  <2>2. \A i \in Writes(state[t].calls) : state[t].calls[i] = claim
    BY <1>0, <2>1 DEF ConsentHolds
  <2>3. \A c \in Claims : approved[c] > 0 => approved'[c] > 0 BY <1>0, <2>1
  <2>4. CASE yes
    <3> DEFINE S == [state[t] EXCEPT !.asked = FALSE, !.next = "tools"]
    <3>1. Complete(t, S) BY <1>7, <2>4 DEF Decide
    <3>2. S.next = "tools" /\ S.calls = state[t].calls BY <1>0 DEF GraphState
    <3>3. approved'[claim] > 0 BY <1>0, <2>1, <2>4
    <3> HIDE DEF S
    <3>4. QED BY <1>0, <2>2, <2>3, <3>1, <3>2, <3>3, CompleteConsent DEF HasWrite
  <2>5. CASE ~yes
    <3> DEFINE S == [state[t] EXCEPT !.asked = FALSE, !.next = "parse",
                                     !.pending = NoClaim, !.calls = <<>>]
    <3>1. Complete(t, S) BY <1>7, <2>5 DEF Decide
    <3>2. S.next = "parse" /\ S.calls = <<>> BY <1>0 DEF GraphState
    <3> HIDE DEF S
    <3>3. QED BY <1>0, <2>3, <3>1, <3>2, CompleteConsent DEF HasWrite
  <2>6. QED BY <2>4, <2>5
<1>8. CASE ExecuteTools(t)
  <2> DEFINE S == [state[t] EXCEPT !.pending = NoClaim, !.reported = @ \cup {t},
                                   !.calls = <<>>, !.next = "agent"]
  <2>1. Complete(t, S) /\ UNCHANGED approved BY <1>8 DEF ExecuteTools
  <2>2. S.next = "agent" /\ S.calls = <<>> BY <1>0 DEF GraphState
  <2> HIDE DEF S
  <2>3. QED BY <1>0, <2>1, <2>2, CompleteConsent DEF HasWrite
<1>9. CASE Finish(t)
  <2>1. PICK n \in {"parse", "ground", "format", "end"} :
          Complete(t, [state[t] EXCEPT !.next = n])
    BY <1>9 DEF Finish
  <2> DEFINE S == [state[t] EXCEPT !.next = n]
  <2>2. S.next = n /\ S.calls = state[t].calls BY <1>0 DEF GraphState
  <2>3. Complete(t, S) /\ UNCHANGED approved BY <1>9, <2>1 DEF Finish, history
  <2> HIDE DEF S
  <2>4. QED BY <1>0, <2>2, <2>3, CompleteConsent DEF HasWrite
<1>10. QED
  BY <1>1, <1>2, <1>3, <1>4, <1>5, <1>6, <1>7, <1>8, <1>9 DEF Node

\* What a step has executed was executed before or was approved.
LEMMA StepExecutes ==
  ASSUME TInv, ConsentInv, [Next]_vars, NEW c \in Claims, executed'[c] > 0
  PROVE  approved[c] > 0
<1>1. executed \in [Claims -> Nat] /\ WritesWereApproved
  BY DEF TInv, GraphTypeOK, ConsentInv
<1>2. CASE UNCHANGED executed BY <1>1, <1>2 DEF WritesWereApproved
<1>3. CASE \E t \in Turns : /\ state[t].next = "tools"
                            /\ \E n \in 0 .. Len(state[t].calls) :
                                 Execute(state[t].calls, n)
  <2>1. PICK t \in Turns : /\ state[t].next = "tools"
                           /\ \E n \in 0 .. Len(state[t].calls) :
                                Execute(state[t].calls, n)
    BY <1>3
  <2> DEFINE calls == state[t].calls
  <2>2. PICK n \in 0 .. Len(calls) : Execute(calls, n) BY <2>1
  <2>3. calls \in Seq(Reads \cup Claims) BY DEF TInv, GraphTypeOK, GraphState
  <2>4. ConsentHolds(state[t]) BY DEF ConsentInv
  <2> HIDE DEF calls
  <2>5. executed[c] > 0 \/ \E i \in Writes(calls) : calls[i] = c
    BY <1>1, <2>2, <2>3, ExecuteOnlyCalls
  <2>6. \A i \in Writes(calls) : approved[calls[i]] > 0
    BY <2>1, <2>4 DEF ConsentHolds, calls
  <2>7. QED BY <1>1, <2>5, <2>6 DEF WritesWereApproved
<1>4. UNCHANGED executed \/ \E t \in Turns : CutOff(t) \/ ExecuteTools(t)
  BY DEF Next, Node, Receive, BeginFresh, BeginResumed, Guard, CallModel, StopLooping,
     Capture, PassUnasked, RefuseUnstated, Ask, Decide, Finish, Report, LoseReport,
     OutOfSteps, history, vars
<1>5. ASSUME NEW t \in Turns, ExecuteTools(t)
      PROVE  /\ state[t].next = "tools"
             /\ \E n \in 0 .. Len(state[t].calls) : Execute(state[t].calls, n)
  <2>1. Len(state[t].calls) \in Nat
    BY LenProperties DEF TInv, GraphTypeOK, GraphState
  <2>2. QED BY <1>5, <2>1 DEF ExecuteTools, At
<1>6. QED BY <1>2, <1>3, <1>4, <1>5 DEF CutOff

\* Consent is inductive, given the types.
LEMMA StepConsent ==
  ASSUME RequireConfirmation, OneWritePerMessage, TInv, ConsentInv, [Next]_vars
  PROVE  ConsentInv'
<1>0. /\ HasWrite(saved) /\ ConsentHolds(saved)
      /\ \A t \in Turns : HasWrite(state[t]) /\ ConsentHolds(state[t])
      /\ approved \in [Claims -> Nat]
      /\ state \in [Turns -> GraphState]
  BY DEF TInv, GraphTypeOK, ConsentInv
<1>1. SUFFICES /\ HasWrite(saved)' /\ ConsentHolds(saved)'
               /\ \A u \in Turns : HasWrite(state[u])' /\ ConsentHolds(state[u])'
               /\ \A c \in Claims : approved[c] > 0 => approved'[c] > 0
  <2>1. WritesWereApproved' BY <1>1, StepExecutes DEF WritesWereApproved
  <2>2. QED BY <1>1, <2>1 DEF ConsentInv
<1>2. ASSUME NEW t \in Turns, BeginFresh(t)
      PROVE  /\ HasWrite(saved)' /\ ConsentHolds(saved)'
             /\ \A u \in Turns : HasWrite(state[u])' /\ ConsentHolds(state[u])'
             /\ \A c \in Claims : approved[c] > 0 => approved'[c] > 0
  <2>1. saved'.next = "guard" /\ state' = [state EXCEPT ![t] = saved'] /\ approved' = approved
    BY <1>2 DEF BeginFresh, TInv, GraphTypeOK, GraphState
  <2>2. QED BY <1>0, <2>1 DEF HasWrite, ConsentHolds
<1>3. ASSUME NEW t \in Turns, Node(t), ~Ask(t)
      PROVE  /\ HasWrite(saved)' /\ ConsentHolds(saved)'
             /\ \A u \in Turns : HasWrite(state[u])' /\ ConsentHolds(state[u])'
             /\ \A c \in Claims : approved[c] > 0 => approved'[c] > 0
  BY <1>3, NodeConsent
<1>4. ASSUME NEW t \in Turns, Ask(t)
      PROVE  /\ HasWrite(saved)' /\ ConsentHolds(saved)'
             /\ \A u \in Turns : HasWrite(state[u])' /\ ConsentHolds(state[u])'
             /\ \A c \in Claims : approved[c] > 0 => approved'[c] > 0
  <2> DEFINE S == [state[t] EXCEPT !.asked = TRUE]
  <2>1. /\ S.next = "confirm" /\ S.calls = state[t].calls /\ S.pending = state[t].pending
        /\ state[t].next = "confirm"
    BY <1>0, <1>4 DEF Ask, At, GraphState
  <2>2. state' = [state EXCEPT ![t] = S] /\ saved' = S /\ approved' = approved
    BY <1>0, <1>4 DEF Ask
  <2> HIDE DEF S
  <2>3. QED BY <1>0, <2>1, <2>2 DEF HasWrite, ConsentHolds
<1>5. ASSUME NEW t \in Turns, Retire(t), UNCHANGED approved
      PROVE  /\ HasWrite(saved)' /\ ConsentHolds(saved)'
             /\ \A u \in Turns : HasWrite(state[u])' /\ ConsentHolds(state[u])'
             /\ \A c \in Claims : approved[c] > 0 => approved'[c] > 0
  <2>1. Blank.next = "end" BY DEF Blank
  <2>2. saved' = saved /\ state' = [state EXCEPT ![t] = Blank] BY <1>5 DEF Retire
  <2>3. QED BY <1>0, <1>5, <2>1, <2>2 DEF HasWrite, ConsentHolds
<1>6. ASSUME NEW t \in Turns,
             \/ Report(t) \/ LoseReport(t) \/ CutOff(t) \/ OutOfSteps(t)
      PROVE  Retire(t) /\ UNCHANGED approved
  BY <1>6 DEF Report, LoseReport, CutOff, OutOfSteps, history
<1>7. ASSUME NEW t \in Turns, BeginResumed(t)
      PROVE  /\ state' = [state EXCEPT ![t] = saved]
             /\ UNCHANGED <<saved, approved>>
  BY <1>7 DEF BeginResumed, history
<1>8. CASE UNCHANGED <<saved, state, approved>>
  BY <1>0, <1>8 DEF HasWrite, ConsentHolds
<1>9. ASSUME NEW t \in Turns, BeginResumed(t)
      PROVE  /\ HasWrite(saved)' /\ ConsentHolds(saved)'
             /\ \A u \in Turns : HasWrite(state[u])' /\ ConsentHolds(state[u])'
             /\ \A c \in Claims : approved[c] > 0 => approved'[c] > 0
  <2>1. state' = [state EXCEPT ![t] = saved] /\ UNCHANGED <<saved, approved>>
    BY <1>7, <1>9
  <2>2. QED BY <1>0, <2>1 DEF HasWrite, ConsentHolds
<1>10. ASSUME NEW t \in Turns, Receive(t) PROVE UNCHANGED <<saved, state, approved>>
  BY <1>10 DEF Receive, history
<1>11. UNCHANGED vars => UNCHANGED <<saved, state, approved>> BY DEF vars, history
<1>12. QED
  BY <1>2, <1>3, <1>4, <1>5, <1>6, <1>8, <1>9, <1>10, <1>11 DEF Next

\* README.md:7, nodes.py:385: claims are filed "never without confirming first".
\* With confirmation required and at most one write in a model message, no claim
\* is ever filed with arguments that confirm has not let through on a yes, for
\* any number of turns, overlapping runs, resumptions and faults.
THEOREM FiledOnlyOnAYes ==
  ASSUME RequireConfirmation, OneWritePerMessage
  PROVE  Spec => []WritesWereApproved
<1>1. Init => ConsentInv
  BY DEF Init, Blank, ConsentInv, HasWrite, ConsentHolds, WritesWereApproved
<1>2. TInv /\ ConsentInv /\ [Next]_vars => ConsentInv' BY StepConsent
<1>3. ConsentInv => WritesWereApproved BY DEF ConsentInv
<1>4. QED BY <1>1, <1>2, <1>3, GraphInvariance, PTL DEF Spec

-----------------------------------------------------------------------------
\* A node that completes within its bound leads to a node within its bound.
LEMMA NodeSteps ==
  ASSUME TInv, StepsInv, RequireConfirmation, NEW t \in Turns, Node(t), ~Ask(t)
  PROVE  \E S : /\ Complete(t, S)
                /\ S.next # "end" => StepsAccounted(S, steps[t] + 1)
<1>0. /\ state[t] \in GraphState
      /\ state[t].iterations \in 0 .. MaxIterations
      /\ MaxIterations \in Nat
      /\ steps[t] \in Nat
      /\ phase[t] = "running" => StepsAccounted(state[t], steps[t])
      /\ answer[t] # Silence => steps[t] = 0
  BY GraphAssumption DEF TInv, GraphTypeOK, GraphState, StepsInv, RecursionLimit
<1>1. StepsAccounted(state[t], steps[t])
  BY <1>0 DEF Node, Guard, CallModel, StopLooping, Capture, PassUnasked,
     RefuseUnstated, Decide, ExecuteTools, Finish, At
<1> USE DEF StepsAccounted
<1>2. CASE Guard(t)
  <2> DEFINE n == IF state[t].said \in Screened THEN "parse" ELSE "agent"
             k == IF state[t].said \in Screened THEN state[t].iterations ELSE 0
             S == [state[t] EXCEPT !.pending = NoClaim, !.reported = {},
                                   !.iterations = k, !.next = n]
  <2>1. Complete(t, S) /\ state[t].next = "guard" BY <1>2 DEF Guard, At
  <2>2. n \in {"parse", "agent"} /\ k \in Nat BY <1>0
  <2> HIDE DEF n, k
  <2>3. S.next = n /\ S.iterations = k BY <1>0 DEF GraphState
  <2> HIDE DEF S
  <2>4. StepsAccounted(S, steps[t] + 1) BY <1>0, <1>1, <2>1, <2>2, <2>3
  <2>5. QED BY <2>1, <2>4
<1>3. CASE CallModel(t)
  <2>1. PICK calls \in CallLists :
          Complete(t, [state[t] EXCEPT !.calls = calls, !.iterations = @ + 1,
                                       !.next = Route(calls)])
    BY <1>3 DEF CallModel
  <2> DEFINE S == [state[t] EXCEPT !.calls = calls, !.iterations = @ + 1,
                                   !.next = Route(calls)]
  <2>2. Complete(t, S) BY <2>1
  <2>3. S.next = Route(calls) /\ S.iterations = state[t].iterations + 1
    BY <1>0 DEF GraphState
  <2>4. state[t].next = "agent" /\ state[t].iterations < MaxIterations
    BY <1>3 DEF CallModel, At
  <2>5. Route(calls) \in {"readback", "capture", "tools"} BY DEF Route
  <2> HIDE DEF S
  <2>6. StepsAccounted(S, steps[t] + 1) BY <1>0, <1>1, <2>3, <2>4, <2>5
  <2>7. QED BY <2>2, <2>6
<1>4. CASE StopLooping(t)
  <2> DEFINE S == [state[t] EXCEPT !.calls = <<>>, !.next = "readback"]
  <2>1. Complete(t, S) /\ state[t].next = "agent" BY <1>4 DEF StopLooping, At
  <2>2. S.next = "readback" BY <1>0 DEF GraphState
  <2> HIDE DEF S
  <2>3. StepsAccounted(S, steps[t] + 1) BY <1>0, <1>1, <2>1, <2>2
  <2>4. QED BY <2>1, <2>3
<1>5. CASE Capture(t)
  <2> DEFINE S == [state[t] EXCEPT !.pending = FirstWrite(state[t].calls),
                                   !.next = "confirm"]
  <2>1. Complete(t, S) /\ state[t].next = "capture" BY <1>5 DEF Capture, At
  <2>2. S.next = "confirm" /\ S.iterations = state[t].iterations
    BY <1>0 DEF GraphState
  <2> HIDE DEF S
  <2>3. StepsAccounted(S, steps[t] + 1) BY <1>0, <1>1, <2>1, <2>2
  <2>4. QED BY <2>1, <2>3
<1>6. CASE PassUnasked(t) BY <1>6 DEF PassUnasked
<1>7. CASE RefuseUnstated(t)
  <2> DEFINE S == [state[t] EXCEPT !.pending = NoClaim, !.calls = <<>>, !.asked = FALSE,
                                   !.next = "parse"]
  <2>1. Complete(t, S) /\ state[t].next = "confirm" BY <1>7 DEF RefuseUnstated, At
  <2>2. S.next = "parse" BY <1>0 DEF GraphState
  <2> HIDE DEF S
  <2>3. StepsAccounted(S, steps[t] + 1) BY <1>0, <1>1, <2>1, <2>2
  <2>4. QED BY <2>1, <2>3
<1>8. CASE Decide(t)
  <2>1. state[t].next = "confirm" /\ steps[t] = 0 BY <1>0, <1>8 DEF Decide, At
  <2>2. CASE answer[t] \in Affirmative
    <3> DEFINE S == [state[t] EXCEPT !.asked = FALSE, !.next = "tools"]
    <3>1. Complete(t, S) BY <1>8, <2>2 DEF Decide
    <3>2. S.next = "tools" /\ S.iterations = state[t].iterations
      BY <1>0 DEF GraphState
    <3> HIDE DEF S
    <3>3. StepsAccounted(S, steps[t] + 1) BY <1>0, <2>1, <3>2
    <3>4. QED BY <3>1, <3>3
  <2>3. CASE answer[t] \notin Affirmative
    <3> DEFINE S == [state[t] EXCEPT !.asked = FALSE, !.next = "parse",
                                     !.pending = NoClaim, !.calls = <<>>]
    <3>1. Complete(t, S) BY <1>8, <2>3 DEF Decide
    <3>2. S.next = "parse" BY <1>0 DEF GraphState
    <3> HIDE DEF S
    <3>3. StepsAccounted(S, steps[t] + 1) BY <1>0, <2>1, <3>2
    <3>4. QED BY <3>1, <3>3
  <2>4. QED BY <2>2, <2>3
<1>9. CASE ExecuteTools(t)
  <2> DEFINE S == [state[t] EXCEPT !.pending = NoClaim, !.reported = @ \cup {t},
                                   !.calls = <<>>, !.next = "agent"]
  <2>1. Complete(t, S) /\ state[t].next = "tools" BY <1>9 DEF ExecuteTools, At
  <2>2. S.next = "agent" /\ S.iterations = state[t].iterations
    BY <1>0 DEF GraphState
  <2> HIDE DEF S
  <2>3. StepsAccounted(S, steps[t] + 1) BY <1>0, <1>1, <2>1, <2>2
  <2>4. QED BY <2>1, <2>3
<1>10. CASE Finish(t)
  <2>1. PICK n \in {"parse", "ground", "format", "end"} :
          /\ Complete(t, [state[t] EXCEPT !.next = n])
          /\ n = "parse" => state[t].next = "readback"
          /\ n = "ground" => state[t].next = "parse"
          /\ n = "format" => state[t].next = "ground"
    BY <1>10 DEF Finish, At
  <2> DEFINE S == [state[t] EXCEPT !.next = n]
  <2>2. S.next = n BY <1>0 DEF GraphState
  <2> HIDE DEF S
  <2>3. S.next # "end" => StepsAccounted(S, steps[t] + 1) BY <1>0, <1>1, <2>1, <2>2
  <2>4. QED BY <2>1, <2>3 DEF S
<1>11. QED
  BY <1>2, <1>3, <1>4, <1>5, <1>6, <1>7, <1>8, <1>9, <1>10 DEF Node

\* The account of supersteps is inductive, given the types.
LEMMA StepSteps ==
  ASSUME RequireConfirmation, TInv, StepsInv, [Next]_vars
  PROVE  StepsInv'
<1>0. /\ state \in [Turns -> GraphState] /\ saved \in GraphState
      /\ steps \in [Turns -> 0 .. RecursionLimit]
      /\ phase \in [Turns -> Phases]
      /\ answer \in [Turns -> Utterances \cup {Silence}]
      /\ MaxIterations \in Nat /\ RecursionLimit \in Nat
  BY GraphAssumption DEF TInv, GraphTypeOK, RecursionLimit
<1>1. ASSUME NEW t \in Turns, Receive(t) PROVE StepsInv'
  BY <1>0, <1>1 DEF Receive, StepsInv
<1>2. ASSUME NEW t \in Turns, BeginFresh(t) PROVE StepsInv'
  <2>1. /\ saved'.next = "guard" /\ state' = [state EXCEPT ![t] = saved']
        /\ steps' = [steps EXCEPT ![t] = 1] /\ answer' = answer
        /\ phase' = [phase EXCEPT ![t] = "running"]
    BY <1>0, <1>2 DEF BeginFresh, GraphState
  <2>2. answer[t] = Silence BY <1>2 DEF BeginFresh, StepsInv
  <2>3. QED BY <1>0, <2>1, <2>2 DEF StepsInv, StepsAccounted
<1>3. ASSUME NEW t \in Turns, BeginResumed(t) PROVE StepsInv'
  <2>1. /\ steps[t] = 0 /\ UNCHANGED steps
        /\ state' = [state EXCEPT ![t] = saved]
        /\ answer' = [answer EXCEPT ![t] = message[t]]
        /\ phase' = [phase EXCEPT ![t] = IF saved.next = "end" THEN "reporting" ELSE "running"]
    BY <1>3 DEF BeginResumed, StepsInv
  <2>2. saved.iterations \in Nat BY <1>0 DEF GraphState
  <2>3. saved.next # "end" => StepsAccounted(saved, 0)
    BY <1>0, <2>2 DEF StepsAccounted
  <2>4. QED BY <1>0, <2>1, <2>3 DEF StepsInv
<1>4. ASSUME NEW t \in Turns, Node(t), ~Ask(t) PROVE StepsInv'
  <2>1. PICK S : /\ Complete(t, S)
                 /\ S.next # "end" => StepsAccounted(S, steps[t] + 1)
    BY <1>4, NodeSteps
  <2>2. QED BY <1>0, <2>1 DEF Complete, StepsInv
<1>5. ASSUME NEW t \in Turns, Ask(t) PROVE StepsInv'
  BY <1>0, <1>5 DEF Ask, StepsInv
<1>6. ASSUME NEW t \in Turns, Retire(t) PROVE StepsInv'
  BY <1>0, <1>6 DEF Retire, StepsInv
<1>7. CASE UNCHANGED vars BY <1>7 DEF vars, progress, StepsInv
<1>8. QED
  BY <1>1, <1>2, <1>3, <1>4, <1>5, <1>6, <1>7
  DEF Next, Report, LoseReport, CutOff, OutOfSteps

\* With four rounds or more the account stays below the limit.
LEMMA StepsLeft ==
  ASSUME TInv, StepsInv, MaxIterations >= 4
  PROVE  NeverOutOfSteps
<1> SUFFICES ASSUME NEW t \in Turns, phase[t] = "running"
             PROVE  steps[t] < RecursionLimit
  BY DEF NeverOutOfSteps
<1>1. /\ state[t].next \in Nodes \cup {"end"}
      /\ state[t].iterations \in 0 .. MaxIterations
      /\ steps[t] \in 0 .. RecursionLimit
  BY DEF TInv, GraphTypeOK, GraphState
<1>2. StepsAccounted(state[t], steps[t]) BY DEF StepsInv
<1>3. MaxIterations \in Nat BY GraphAssumption
<1>4. steps[t] <= 2 * MaxIterations + 6
  BY <1>1, <1>2, <1>3 DEF StepsAccounted, Nodes, RecursionLimit
<1>5. QED BY <1>1, <1>3, <1>4 DEF RecursionLimit

\* README.md:251: "A bounded loop".  With confirmation required and at least four
\* rounds allowed, an invocation never uses up recursion_limit, so the loop ends
\* by the structural stop and its apology and never by GraphRecursionError.
THEOREM StructuralStopComesFirst ==
  ASSUME RequireConfirmation, MaxIterations >= 4
  PROVE  Spec => []NeverOutOfSteps
<1>1. Init => StepsInv BY DEF Init, StepsInv
<1>2. TInv /\ StepsInv /\ [Next]_vars => StepsInv' BY StepSteps
<1>3. TInv /\ StepsInv => NeverOutOfSteps BY StepsLeft
<1>4. QED BY <1>1, <1>2, <1>3, GraphInvariance, PTL DEF Spec
-----------------------------------------------------------------------------
\* A run that started at guard has reported nothing but its own turn's calls
\* since it left guard, and no run ends at guard.
FreshInv ==
  \A t \in Turns :
    /\ phase[t] \in {"running", "reporting"} /\ ~resuming[t] /\ state[t].next # "guard"
         => state[t].reported \subseteq {t}
    /\ phase[t] = "reporting" => state[t].next # "guard"

\* A node that completes leaves such a run with its own turn's calls: guard
\* clears the list and tools adds the turn itself.
LEMMA NodeFresh ==
  ASSUME TInv, FreshInv, NEW t \in Turns, Node(t), ~Ask(t)
  PROVE  \E S : Complete(t, S) /\ (~resuming[t] => S.reported \subseteq {t})
<1>0. /\ state[t] \in GraphState
      /\ phase[t] = "running"
      /\ ~resuming[t] /\ state[t].next # "guard" => state[t].reported \subseteq {t}
  BY DEF TInv, GraphTypeOK, FreshInv, Node, Guard, CallModel, StopLooping, Capture,
     PassUnasked, RefuseUnstated, Decide, ExecuteTools, Finish, At
<1>1. CASE Guard(t)
  <2>1. PICK i, n : Complete(t, [state[t] EXCEPT !.pending = NoClaim, !.reported = {},
                                   !.iterations = i, !.next = n])
    BY <1>1 DEF Guard
  <2>2. [state[t] EXCEPT !.pending = NoClaim, !.reported = {},
                         !.iterations = i, !.next = n].reported = {}
    BY <1>0 DEF GraphState
  <2>3. QED BY <2>1, <2>2
<1>2. CASE ExecuteTools(t)
  <2> DEFINE S == [state[t] EXCEPT !.pending = NoClaim, !.reported = @ \cup {t},
                                   !.calls = <<>>, !.next = "agent"]
  <2>1. Complete(t, S) /\ state[t].next # "guard" BY <1>2 DEF ExecuteTools, At
  <2>2. S.reported = state[t].reported \cup {t} BY <1>0 DEF GraphState
  <2> HIDE DEF S
  <2>3. QED BY <1>0, <2>1, <2>2
<1>3. CASE CallModel(t)
  <2>1. state[t].next # "guard" BY <1>3 DEF CallModel, At
  <2>2. PICK calls \in CallLists :
          Complete(t, [state[t] EXCEPT !.calls = calls, !.iterations = @ + 1,
                                       !.next = Route(calls)])
    BY <1>3 DEF CallModel
  <2>3. [state[t] EXCEPT !.calls = calls, !.iterations = @ + 1,
                         !.next = Route(calls)].reported = state[t].reported
    BY <1>0 DEF GraphState
  <2>4. QED BY <1>0, <2>1, <2>2, <2>3
<1>4. CASE StopLooping(t)
  <2> DEFINE S == [state[t] EXCEPT !.calls = <<>>, !.next = "readback"]
  <2>1. Complete(t, S) /\ state[t].next # "guard" BY <1>4 DEF StopLooping, At
  <2>2. S.reported = state[t].reported BY <1>0 DEF GraphState
  <2> HIDE DEF S
  <2>3. QED BY <1>0, <2>1, <2>2
<1>5. CASE Capture(t)
  <2> DEFINE S == [state[t] EXCEPT !.pending = FirstWrite(state[t].calls),
                                   !.next = "confirm"]
  <2>1. Complete(t, S) /\ state[t].next # "guard" BY <1>5 DEF Capture, At
  <2>2. S.reported = state[t].reported BY <1>0 DEF GraphState
  <2> HIDE DEF S
  <2>3. QED BY <1>0, <2>1, <2>2
<1>6. CASE PassUnasked(t)
  <2> DEFINE S == [state[t] EXCEPT !.next = "tools"]
  <2>1. Complete(t, S) /\ state[t].next # "guard" BY <1>6 DEF PassUnasked, At
  <2>2. S.reported = state[t].reported BY <1>0 DEF GraphState
  <2> HIDE DEF S
  <2>3. QED BY <1>0, <2>1, <2>2
<1>7. CASE RefuseUnstated(t)
  <2> DEFINE S == [state[t] EXCEPT !.pending = NoClaim, !.calls = <<>>, !.asked = FALSE,
                                   !.next = "parse"]
  <2>1. Complete(t, S) /\ state[t].next # "guard" BY <1>7 DEF RefuseUnstated, At
  <2>2. S.reported = state[t].reported BY <1>0 DEF GraphState
  <2> HIDE DEF S
  <2>3. QED BY <1>0, <2>1, <2>2
<1>8. CASE Decide(t)
  <2> DEFINE Y == [state[t] EXCEPT !.asked = FALSE, !.next = "tools"]
             N == [state[t] EXCEPT !.asked = FALSE, !.next = "parse",
                                   !.pending = NoClaim, !.calls = <<>>]
  <2>1. (Complete(t, Y) \/ Complete(t, N)) /\ state[t].next # "guard"
    BY <1>8 DEF Decide, At
  <2>2. Y.reported = state[t].reported /\ N.reported = state[t].reported
    BY <1>0 DEF GraphState
  <2> HIDE DEF Y, N
  <2>3. QED BY <1>0, <2>1, <2>2
<1>9. CASE Finish(t)
  <2>1. PICK n \in {"parse", "ground", "format", "end"} :
          Complete(t, [state[t] EXCEPT !.next = n])
    BY <1>9 DEF Finish
  <2> DEFINE S == [state[t] EXCEPT !.next = n]
  <2>2. Complete(t, S) /\ state[t].next # "guard" BY <1>9, <2>1 DEF Finish, At
  <2>3. S.reported = state[t].reported BY <1>0 DEF GraphState
  <2> HIDE DEF S
  <2>4. QED BY <1>0, <2>2, <2>3
<1>10. QED
  BY <1>1, <1>2, <1>3, <1>4, <1>5, <1>6, <1>7, <1>8, <1>9 DEF Node

\* It is inductive, given the types: no other turn touches this one's state.
LEMMA StepFresh ==
  ASSUME TInv, FreshInv, [Next]_vars
  PROVE  FreshInv'
<1>0. /\ state \in [Turns -> GraphState] /\ saved \in GraphState
      /\ phase \in [Turns -> Phases] /\ resuming \in [Turns -> BOOLEAN]
  BY DEF TInv, GraphTypeOK
<1>1. ASSUME NEW t \in Turns, Receive(t) PROVE FreshInv'
  <2>1. /\ phase' = [phase EXCEPT ![t] = "received"] /\ state' = state
        /\ \A u \in Turns : u # t => resuming'[u] = resuming[u]
    BY <1>0, <1>1 DEF Receive
  <2>2. QED BY <1>0, <2>1 DEF FreshInv
<1>2. ASSUME NEW t \in Turns, BeginFresh(t) PROVE FreshInv'
  <2>1. /\ saved'.next = "guard" /\ state' = [state EXCEPT ![t] = saved']
        /\ phase' = [phase EXCEPT ![t] = "running"] /\ resuming' = resuming
    BY <1>0, <1>2 DEF BeginFresh, GraphState
  <2>2. QED BY <1>0, <2>1 DEF FreshInv
<1>3. ASSUME NEW t \in Turns, BeginResumed(t) PROVE FreshInv'
  <2>1. /\ resuming[t] /\ resuming' = resuming
        /\ state' = [state EXCEPT ![t] = saved]
        /\ \A u \in Turns : u # t => phase'[u] = phase[u]
        /\ phase'[t] = "reporting" => saved.next = "end"
    BY <1>0, <1>3 DEF BeginResumed
  <2>2. QED BY <1>0, <2>1 DEF FreshInv
<1>4. ASSUME NEW t \in Turns, Node(t), ~Ask(t) PROVE FreshInv'
  <2>1. PICK S : Complete(t, S) /\ (~resuming[t] => S.reported \subseteq {t})
    BY <1>4, NodeFresh
  <2>2. /\ state' = [state EXCEPT ![t] = S] /\ resuming' = resuming
        /\ \A u \in Turns : u # t => phase'[u] = phase[u]
        /\ phase'[t] = "reporting" => S.next = "end"
    BY <1>0, <2>1 DEF Complete
  <2>3. QED BY <1>0, <2>1, <2>2 DEF FreshInv
<1>5. ASSUME NEW t \in Turns, Ask(t) PROVE FreshInv'
  <2> DEFINE S == [state[t] EXCEPT !.asked = TRUE]
  <2>1. /\ phase[t] = "running" /\ state[t].next = "confirm"
        /\ S.reported = state[t].reported /\ S.next = "confirm"
    BY <1>0, <1>5 DEF Ask, At, GraphState
  <2>2. /\ state' = [state EXCEPT ![t] = S] /\ resuming' = resuming
        /\ phase' = [phase EXCEPT ![t] = "reporting"]
    BY <1>0, <1>5 DEF Ask
  <2> HIDE DEF S
  <2>3. QED BY <1>0, <2>1, <2>2 DEF FreshInv
<1>6. ASSUME NEW t \in Turns, Retire(t) PROVE FreshInv'
  BY <1>0, <1>6 DEF Retire, FreshInv
<1>7. CASE UNCHANGED vars BY <1>7 DEF vars, progress, FreshInv
<1>8. QED
  BY <1>1, <1>2, <1>3, <1>4, <1>5, <1>6, <1>7
  DEF Next, Report, LoseReport, CutOff, OutOfSteps

\* nodes.py:164-170: carrying tool_invocations forward "makes every answer report
\* the previous turn's tool calls".  A turn that started its own run reports its
\* own tool calls only, however many runs of the conversation overlap on the one
\* checkpoint.
THEOREM FreshTurnsReportTheirOwn == Spec => []FreshTurnReportsOwn
<1>1. Init => FreshInv BY DEF Init, FreshInv
<1>2. TInv /\ FreshInv /\ [Next]_vars => FreshInv' BY StepFresh
<1>3. FreshInv => FreshTurnReportsOwn BY DEF FreshInv, FreshTurnReportsOwn
<1>4. QED BY <1>1, <1>2, <1>3, GraphInvariance, PTL DEF Spec
-----------------------------------------------------------------------------
\* A conversation whose turns come one at a time.  Between two turns the
\* checkpoint is either through or waits, asked and with its read-back shown, at
\* confirm; so what a message resumes is a question that was put to the user.
Waits(S) == S.next = "confirm" /\ S.asked /\ S.pending \in S.stated

Rested == saved.next = "end" \/ (Waits(saved) /\ shown = saved.pending)

\* The run of turn t is at work on the latest checkpoint, and t's message either
\* was taken in or is the answer its confirm is about to read.
AtWork(t) ==
  /\ saved = state[t]
  /\ IF t \in heard THEN answer[t] = Silence
     ELSE Waits(state[t]) /\ shown = state[t].pending /\ answer[t] # Silence

SoloInv ==
  Undisturbed =>
    /\ \A t, u \in Active : t = u
    /\ blind = {}
    /\ (\A t \in Turns : phase[t] \notin {"running", "reporting"}) => Rested
    /\ \A t \in Turns :
         /\ phase[t] \in {"unsent", "received"} => t \notin heard
         /\ phase[t] = "received" => (resuming[t] <=> saved.next # "end")
         /\ phase[t] = "running" => AtWork(t)
         /\ phase[t] = "reporting" =>
              /\ t \in heard /\ saved = state[t]
              /\ saved.next = "end" \/ Waits(saved)

\* With one job handled at a time, none is when another is taken.
LEMMA NobodyElse ==
  ASSUME Replicas = 1, \A t, u \in Active : t = u, Cardinality(Active) < Replicas
  PROVE  Active = {}
<1> SUFFICES ASSUME NEW t \in Active PROVE FALSE
  OBVIOUS
<1>1. Active = {t} OBVIOUS
<1>2. Cardinality({t}) = 1 BY FS_Singleton
<1>3. QED BY <1>1, <1>2

\* A node that completes has heard the message: a run that had not yet was
\* resumed at a confirm that waited, and only Decide goes on from there.
LEMMA SoloNode ==
  ASSUME RequireConfirmation, TInv, SoloInv, Undisturbed,
         NEW t \in Turns, Node(t), ~Ask(t)
  PROVE  \E S : Complete(t, S) /\ t \in heard' /\ blind' = {} /\ heard \subseteq heard'
                /\ heard' \subseteq heard \cup {t}
<1>0. /\ phase[t] = "running" /\ AtWork(t) /\ blind = {}
  BY DEF SoloInv, Node, Guard, CallModel, StopLooping, Capture, PassUnasked,
     RefuseUnstated, Ask, Decide, ExecuteTools, Finish, At
<1>1. PICK S : Complete(t, S)
  BY NodeType DEF TInv, Node
<1>2. CASE Decide(t)
  <2>1. /\ answer[t] # Silence
        /\ heard' = IF state[t].asked THEN heard \cup {t} ELSE heard
        /\ \/ blind' = blind
           \/ shown # state[t].pending
    BY <1>2 DEF Decide
  <2>2. t \notin heard BY <1>0, <2>1 DEF AtWork
  <2>3. state[t].asked /\ shown = state[t].pending BY <1>0, <2>2 DEF AtWork, Waits
  <2>4. QED BY <1>0, <1>1, <2>1, <2>3
<1>3. CASE ~Decide(t)
  <2>1. t \in heard
    <3>1. ASSUME t \notin heard PROVE FALSE
      <4>1. Waits(state[t]) BY <1>0, <3>1 DEF AtWork
      <4>2. QED
        BY <1>3, <4>1 DEF Waits, Node, Guard, CallModel, StopLooping, Capture,
           PassUnasked, RefuseUnstated, ExecuteTools, Finish, At
    <3>2. QED BY <3>1
  <2>2. UNCHANGED <<heard, blind>>
    BY <1>3 DEF Node, Guard, CallModel, StopLooping, Capture, PassUnasked,
       RefuseUnstated, ExecuteTools, Finish, history
  <2>3. QED BY <1>0, <1>1, <2>1, <2>2
<1>4. QED BY <1>2, <1>3

\* Faults are counted and never taken back.
LEMMA FaultsGrow ==
  ASSUME TInv, [Next]_vars, faults' = 0
  PROVE  faults = 0
<1>0. faults \in Nat BY GraphAssumption DEF TInv, GraphTypeOK
<1>1. ASSUME NEW t \in Turns, Receive(t) PROVE faults' \in {faults, faults + 1}
  BY <1>1 DEF Receive
<1>2. ASSUME NEW t \in Turns, BeginFresh(t) \/ BeginResumed(t) PROVE faults' = faults
  BY <1>2 DEF BeginFresh, BeginResumed
<1>3. ASSUME NEW t \in Turns, Node(t), ~Ask(t) PROVE faults' = faults
  <2>1. PICK S : Complete(t, S) BY <1>3, NodeType DEF TInv, Node
  <2>2. QED BY <2>1 DEF Complete
<1>4. ASSUME NEW t \in Turns, Ask(t) PROVE faults' = faults
  BY <1>4 DEF Ask
<1>5. ASSUME NEW t \in Turns, Report(t) \/ OutOfSteps(t) PROVE faults' = faults
  BY <1>5 DEF Report, OutOfSteps
<1>6. ASSUME NEW t \in Turns, LoseReport(t) \/ CutOff(t) PROVE faults' = faults + 1
  BY <1>6 DEF LoseReport, CutOff
<1>7. CASE UNCHANGED vars BY <1>7 DEF vars
<1>8. faults' \in {faults, faults + 1}
  BY <1>1, <1>2, <1>3, <1>4, <1>5, <1>6, <1>7 DEF Next
<1>9. QED BY <1>0, <1>8

\* Every step of an undisturbed conversation.
LEMMA StepSolo ==
  ASSUME RequireConfirmation, TInv, StepsInv, NeverOutOfSteps, SoloInv, [Next]_vars
  PROVE  SoloInv'
<1>0. /\ state \in [Turns -> GraphState] /\ saved \in GraphState
      /\ phase \in [Turns -> Phases] /\ steps \in [Turns -> 0 .. RecursionLimit]
      /\ message \in [Turns -> Utterances \cup {Silence}]
      /\ resuming \in [Turns -> BOOLEAN]
      /\ answer \in [Turns -> Utterances \cup {Silence}]
      /\ faults \in Nat /\ RecursionLimit \in Nat
  BY GraphAssumption DEF TInv, GraphTypeOK, RecursionLimit
<1>1. CASE ~Undisturbed'
  BY <1>1 DEF SoloInv
<1>2. CASE Undisturbed'
  <2>0. Replicas = 1 /\ faults' = 0 BY <1>2 DEF Undisturbed
  <2>1. faults = 0 BY <2>0, FaultsGrow
  <2>2. Undisturbed BY <2>0, <2>1 DEF Undisturbed
  <2>3. /\ \A t, u \in Active : t = u
        /\ blind = {}
        /\ (\A t \in Turns : phase[t] \notin {"running", "reporting"}) => Rested
        /\ \A t \in Turns :
             /\ phase[t] \in {"unsent", "received"} => t \notin heard
             /\ phase[t] = "received" => (resuming[t] <=> saved.next # "end")
             /\ phase[t] = "running" => AtWork(t)
             /\ phase[t] = "reporting" =>
                  /\ t \in heard /\ saved = state[t]
                  /\ saved.next = "end" \/ Waits(saved)
    BY <2>2 DEF SoloInv
  <2>4. ASSUME NEW t \in Turns, phase[t] \in {"received", "running", "reporting"}
        PROVE  \A u \in Turns \ {t} : phase[u] \notin {"received", "running", "reporting"}
    BY <2>3, <2>4 DEF Active
  <2>5. ASSUME NEW t \in Turns, Receive(t) PROVE SoloInv'
    <3>1. /\ phase[t] = "unsent" /\ phase' = [phase EXCEPT ![t] = "received"]
          /\ Cardinality(Active) < Replicas
          /\ UNCHANGED <<saved, state, answer, shown, blind, heard>>
      BY <2>5 DEF Receive, history
    <3>2. resuming' = [resuming EXCEPT ![t] = saved.next # "end"]
      BY <2>0, <2>1, <2>5 DEF Receive
    <3>3. Active = {} BY <2>0, <2>3, <3>1, NobodyElse
    <3>4. \A u \in Turns : phase[u] \notin {"received", "running", "reporting"}
      BY <3>3 DEF Active
    <3>5. Rested BY <2>3, <3>4
    <3>6. phase'[t] = "received" /\ \A u \in Turns \ {t} : phase'[u] = phase[u]
      BY <1>0, <3>1
    <3>7. resuming'[t] <=> saved.next # "end" BY <1>0, <3>2
    <3>8. \A u, v \in Active' : u = v BY <3>4, <3>6 DEF Active
    <3>9. Rested' BY <3>1, <3>5 DEF Rested, Waits
    <3>10. QED BY <2>3, <3>1, <3>4, <3>6, <3>7, <3>8, <3>9 DEF SoloInv
  <2>6. ASSUME NEW t \in Turns, phase[t] \in {"received", "running"},
               phase'[t] \in {"running", "reporting"},
               \A u \in Turns \ {t} : phase'[u] = phase[u],
               saved' = state'[t], blind' = {},
               heard \subseteq heard' /\ heard' \subseteq heard \cup {t},
               phase'[t] = "running" => AtWork(t)',
               phase'[t] = "reporting" =>
                 t \in heard' /\ (saved'.next = "end" \/ Waits(saved'))
        PROVE  SoloInv'
    <3>1. \A u \in Turns \ {t} : phase'[u] \notin {"received", "running", "reporting"}
      BY <2>4, <2>6
    <3>2. \A u, v \in Active' : u = v BY <3>1 DEF Active
    <3>3. \A u \in Turns : phase'[u] \in {"unsent", "received"} => u \notin heard'
      BY <2>3, <2>6
    <3>4. \A u \in Turns : phase'[u] = "received" => FALSE BY <2>6, <3>1
    <3>5. \A u \in Turns : phase'[u] = "running" => AtWork(u)' BY <2>6, <3>1
    <3>6. \A u \in Turns : phase'[u] = "reporting" =>
            /\ u \in heard' /\ saved' = state'[u]
            /\ saved'.next = "end" \/ Waits(saved')
      BY <2>6, <3>1
    <3>7. ~(\A u \in Turns : phase'[u] \notin {"running", "reporting"}) BY <2>6
    <3>8. QED BY <2>6, <3>2, <3>3, <3>4, <3>5, <3>6, <3>7 DEF SoloInv, Waits
  <2>7. ASSUME NEW t \in Turns, BeginFresh(t) PROVE SoloInv'
    <3>1. /\ phase[t] = "received" /\ phase'[t] = "running"
          /\ \A u \in Turns \ {t} : phase'[u] = phase[u]
          /\ saved' = state'[t] /\ heard' = heard \cup {t}
          /\ UNCHANGED <<answer, blind>>
      BY <1>0, <2>7 DEF BeginFresh
    <3>2. answer'[t] = Silence BY <3>1 DEF StepsInv
    <3>3. AtWork(t)' BY <3>1, <3>2 DEF AtWork
    <3>4. QED BY <2>3, <2>6, <3>1, <3>3
  <2>8. ASSUME NEW t \in Turns, BeginResumed(t) PROVE SoloInv'
    <3>1. /\ phase[t] = "received" /\ resuming[t]
          /\ state'[t] = saved /\ answer'[t] = message[t]
          /\ UNCHANGED <<saved, shown, blind, heard>>
          /\ \A u \in Turns \ {t} : phase'[u] = phase[u]
          /\ phase'[t] = IF saved.next = "end" THEN "reporting" ELSE "running"
      BY <1>0, <2>8 DEF BeginResumed, history
    <3>2. saved.next # "end" /\ t \notin heard BY <2>3, <3>1
    <3>3. Rested BY <2>3, <2>4, <3>1
    <3>4. Waits(saved) /\ shown = saved.pending BY <3>2, <3>3 DEF Rested
    <3>5. answer'[t] # Silence BY <3>1, GraphAssumption DEF TInv
    <3>6. AtWork(t)' BY <3>1, <3>2, <3>4, <3>5 DEF AtWork, Waits
    <3>7. QED BY <2>3, <2>6, <3>1, <3>2, <3>6
  <2>9. ASSUME NEW t \in Turns, Node(t), ~Ask(t) PROVE SoloInv'
    <3>1. PICK S : Complete(t, S) /\ t \in heard' /\ blind' = {} /\ heard \subseteq heard'
                   /\ heard' \subseteq heard \cup {t}
      BY <2>2, <2>9, SoloNode
    <3>2. phase[t] = "running"
      BY <2>9 DEF Node, Guard, CallModel, StopLooping, Capture, PassUnasked,
         RefuseUnstated, Decide, ExecuteTools, Finish, At
    <3>3. /\ saved' = S /\ state'[t] = S /\ answer'[t] = Silence
          /\ \A u \in Turns \ {t} : phase'[u] = phase[u]
          /\ phase'[t] = IF S.next = "end" THEN "reporting" ELSE "running"
      BY <1>0, <3>1 DEF Complete
    <3>4. AtWork(t)' BY <3>1, <3>3 DEF AtWork
    <3>5. QED BY <2>6, <3>1, <3>2, <3>3, <3>4
  <2>10. ASSUME NEW t \in Turns, Ask(t) PROVE SoloInv'
    <3>1. /\ phase[t] = "running" /\ phase'[t] = "reporting"
          /\ \A u \in Turns \ {t} : phase'[u] = phase[u]
          /\ saved' = state'[t]
          /\ UNCHANGED <<blind, heard>> /\ answer[t] = Silence
          /\ state'[t] = [state[t] EXCEPT !.asked = TRUE]
          /\ state[t].next = "confirm" /\ state[t].pending \in state[t].stated
      BY <1>0, <2>10 DEF Ask, At
    <3>2. t \in heard BY <2>3, <3>1 DEF AtWork
    <3>3. Waits(saved') BY <1>0, <3>1 DEF Waits, GraphState
    <3>4. QED BY <2>3, <2>6, <3>1, <3>2, <3>3
  <2>11. ASSUME NEW t \in Turns, Report(t) PROVE SoloInv'
    <3>1. /\ phase[t] = "reporting" /\ phase'[t] = "over"
          /\ \A u \in Turns \ {t} : phase'[u] = phase[u]
          /\ UNCHANGED <<saved, blind, heard>>
          /\ shown' = IF state[t].asked THEN state[t].pending ELSE shown
      BY <1>0, <2>11 DEF Report, Retire
    <3>2. \A u \in Turns : phase'[u] \notin {"received", "running", "reporting"}
      BY <2>4, <3>1
    <3>3. saved = state[t] /\ (saved.next = "end" \/ Waits(saved)) BY <2>3, <3>1
    <3>4. Rested' BY <3>1, <3>3 DEF Rested, Waits
    <3>5. \A u, v \in Active' : u = v BY <3>2 DEF Active
    <3>6. \A u \in Turns : phase'[u] \in {"unsent", "received"} => u \notin heard'
      BY <2>3, <3>1
    <3>7. QED BY <2>3, <3>1, <3>2, <3>4, <3>5, <3>6 DEF SoloInv
  <2>12. ASSUME NEW t \in Turns, LoseReport(t) \/ CutOff(t) \/ OutOfSteps(t)
         PROVE  FALSE
    <3>1. CASE LoseReport(t) \/ CutOff(t)
      BY <2>0, <2>1, <3>1 DEF LoseReport, CutOff
    <3>2. CASE OutOfSteps(t) BY <1>0, <3>2 DEF OutOfSteps, NeverOutOfSteps
    <3>3. QED BY <2>12, <3>1, <3>2
  <2>13. CASE UNCHANGED vars
    BY <2>3, <2>13 DEF vars, progress, history, SoloInv, Active, Rested, AtWork, Waits
  <2>14. QED
    BY <2>5, <2>7, <2>8, <2>9, <2>10, <2>11, <2>12, <2>13 DEF Next
<1>3. QED BY <1>1, <1>2

\* Turns that come one at a time keep to it, as long as the loop ends by its own
\* stop and not by the recursion limit.
LEMMA SoloInvariance ==
  ASSUME RequireConfirmation, MaxIterations >= 4
  PROVE  Spec => []SoloInv
<1> DEFINE HInv == TInv /\ StepsInv /\ SoloInv
<1>1. Init => HInv
  <2>1. Init => TInv BY InitTInv
  <2>2. Init => StepsInv BY DEF Init, StepsInv
  <2>3. Init => SoloInv
    BY DEF Init, SoloInv, Active, Rested, Blank
  <2>4. QED BY <2>1, <2>2, <2>3
<1>2. HInv /\ [Next]_vars => HInv'
  BY StepTInv, StepSteps, StepsLeft, StepSolo
<1>3. HInv => SoloInv OBVIOUS
<1> HIDE DEF HInv
<1>4. QED BY <1>1, <1>2, <1>3, PTL DEF Spec

\* With confirmation required and at least four rounds allowed, a conversation
\* whose turns come one at a time, none cut off and no report lost: every
\* message handled was taken in, as the question its run began with or as the
\* answer to a confirmation that waited (worker.py: handle's choice between a
\* fresh state and Command(resume)).
THEOREM UndisturbedTurnsAreHeard ==
  ASSUME RequireConfirmation, MaxIterations >= 4
  PROVE  Spec => []EveryMessageIsHeard
<1>1. SoloInv => EveryMessageIsHeard BY DEF SoloInv, EveryMessageIsHeard
<1>2. QED BY <1>1, SoloInvariance, PTL

\* The same conversation approves a claim only by an answer given after that
\* claim's own read-back had reached the user: what a turn resumes at confirm is
\* the prompt that was published last (nodes.py: confirm's interrupt).
THEOREM UndisturbedApprovalsAreInformed ==
  ASSUME RequireConfirmation, MaxIterations >= 4
  PROVE  Spec => []ApprovalsWereInformed
<1>1. SoloInv => ApprovalsWereInformed BY DEF SoloInv, ApprovalsWereInformed
<1>2. QED BY <1>1, SoloInvariance, PTL

-----------------------------------------------------------------------------
\* What a checkpoint at tools still owes: one filing of the write in its message.
Owed(S, c) ==
  IF S.next = "tools" /\ \E i \in Writes(S.calls) : S.calls[i] = c THEN 1 ELSE 0

\* A conversation whose turns come one at a time: the run at work is on the
\* latest checkpoint, so a yes is either owed there or was used up, and only a
\* fault lets a filing happen without the debt being taken off the checkpoint.
DebtInv ==
  /\ \A t, u \in Active : t = u
  /\ \A t \in Turns : phase[t] = "running" => saved = state[t]
  /\ \A i, j \in Writes(saved.calls) : i = j
  /\ \A c \in Claims : executed[c] + Owed(saved, c) <= approved[c] + faults

\* A message with one write files each argument list at most as often as it owes.
LEMMA CarriedOutOnce ==
  ASSUME NEW calls \in Seq(Reads \cup Claims), \A i, j \in Writes(calls) : i = j,
         NEW n \in 0 .. Len(calls), NEW c \in Claims
  PROVE  \/ Cardinality({i \in 1 .. n : calls[i] = c}) = 0
         \/ /\ Cardinality({i \in 1 .. n : calls[i] = c}) = 1
            /\ \E i \in Writes(calls) : calls[i] = c
<1> DEFINE I == {i \in 1 .. n : calls[i] = c}
<1>1. I \subseteq {i \in Writes(calls) : calls[i] = c} BY LenProperties DEF Writes
<1>2. CASE I = {}
  BY <1>2, FS_EmptySet
<1>3. CASE I # {}
  <2>1. PICK i \in I : TRUE BY <1>3
  <2>2. I = {i} BY <1>1, <2>1
  <2>3. Cardinality(I) = 1 BY <2>2, FS_Singleton
  <2>4. QED BY <1>1, <2>1, <2>3
<1>4. QED BY <1>2, <1>3

\* The types of what a debt is counted in.
LEMMA DebtTypes ==
  ASSUME TInv
  PROVE  /\ executed \in [Claims -> Nat] /\ approved \in [Claims -> Nat] /\ faults \in Nat
         /\ saved \in GraphState /\ state \in [Turns -> GraphState]
         /\ phase \in [Turns -> Phases]
         /\ \A S, c : Owed(S, c) \in {0, 1}
BY GraphAssumption DEF TInv, GraphTypeOK, Owed

\* A step that leaves at most the active turns active leaves at most one.
LEMMA StaysAlone ==
  ASSUME TInv, \A t, u \in Active : t = u, NEW t \in Turns,
         phase[t] \in {"received", "running", "reporting"},
         \A u \in Turns \ {t} : phase'[u] = phase[u]
  PROVE  /\ \A u, v \in Active' : u = v
         /\ \A u \in Turns \ {t} : phase'[u] \notin {"received", "running", "reporting"}
BY DEF Active

\* A node that completes: what it writes, owes and lets through.
LEMMA NodeDebt ==
  ASSUME RequireConfirmation, OneWritePerMessage, TInv, ConsentInv, DebtInv,
         NEW t \in Turns, Node(t), ~Ask(t)
  PROVE  \E S : /\ Complete(t, S)
                /\ \A i, j \in Writes(S.calls) : i = j
                /\ \A c \in Claims : executed'[c] + Owed(S, c) <= approved'[c] + faults
<1>0. /\ state[t] \in GraphState /\ ConsentHolds(state[t])
      /\ state[t].calls \in Seq(Reads \cup Claims)
      /\ executed \in [Claims -> Nat] /\ approved \in [Claims -> Nat] /\ faults \in Nat
      /\ \A R, c : Owed(R, c) \in {0, 1}
      /\ Writes(<<>>) = {}
  BY DebtTypes DEF ConsentInv, GraphState, Writes
<1>1. phase[t] = "running"
  BY DEF Node, Guard, CallModel, StopLooping, Capture, PassUnasked,
     RefuseUnstated, Ask, Decide, ExecuteTools, Finish, At
<1>2. /\ \A i, j \in Writes(state[t].calls) : i = j
      /\ \A c \in Claims : executed[c] + Owed(state[t], c) <= approved[c] + faults
  BY <1>1 DEF DebtInv
<1>3. \A c \in Claims : executed[c] <= approved[c] + faults
  BY <1>0, <1>2
<1>4. ASSUME NEW S, Complete(t, S), \A i, j \in Writes(S.calls) : i = j,
             S.next # "tools" \/ Writes(S.calls) = {}, UNCHANGED history
      PROVE  \E R : /\ Complete(t, R)
                    /\ \A i, j \in Writes(R.calls) : i = j
                    /\ \A c \in Claims : executed'[c] + Owed(R, c) <= approved'[c] + faults
  <2>1. \A c : Owed(S, c) = 0 BY <1>4 DEF Owed
  <2>2. UNCHANGED <<executed, approved>> BY <1>4 DEF history
  <2>3. \A c \in Claims : executed'[c] + Owed(S, c) <= approved'[c] + faults
    BY <1>0, <1>3, <2>1, <2>2
  <2>4. QED BY <1>4, <2>3
<1>5. CASE Guard(t)
  <2> DEFINE n == IF state[t].said \in Screened THEN "parse" ELSE "agent"
             k == IF state[t].said \in Screened THEN state[t].iterations ELSE 0
             S == [state[t] EXCEPT !.pending = NoClaim, !.reported = {},
                                   !.iterations = k, !.next = n]
  <2>1. Complete(t, S) /\ UNCHANGED history BY <1>5 DEF Guard
  <2>2. n # "tools" OBVIOUS
  <2> HIDE DEF n, k
  <2>3. S.next = n /\ S.calls = state[t].calls BY <1>0 DEF GraphState
  <2> HIDE DEF S
  <2>4. QED BY <1>2, <1>4, <2>1, <2>2, <2>3
<1>6. CASE CallModel(t)
  <2>1. PICK calls \in CallLists :
          Complete(t, [state[t] EXCEPT !.calls = calls, !.iterations = @ + 1,
                                       !.next = Route(calls)])
    BY <1>6 DEF CallModel
  <2> DEFINE S == [state[t] EXCEPT !.calls = calls, !.iterations = @ + 1,
                                   !.next = Route(calls)]
  <2>2. S.next = Route(calls) /\ S.calls = calls BY <1>0 DEF GraphState
  <2>3. Complete(t, S) /\ UNCHANGED history BY <1>6, <2>1 DEF CallModel
  <2>4. \A i, j \in Writes(calls) : i = j BY DEF OneWritePerMessage
  <2>5. Route(calls) = "tools" => Writes(calls) = {} BY DEF Route
  <2> HIDE DEF S
  <2>6. QED BY <1>4, <2>2, <2>3, <2>4, <2>5
<1>7. CASE StopLooping(t)
  <2> DEFINE S == [state[t] EXCEPT !.calls = <<>>, !.next = "readback"]
  <2>1. Complete(t, S) /\ UNCHANGED history BY <1>7 DEF StopLooping
  <2>2. S.calls = <<>> BY <1>0 DEF GraphState
  <2> HIDE DEF S
  <2>3. QED BY <1>0, <1>4, <2>1, <2>2
<1>8. CASE Capture(t)
  <2> DEFINE S == [state[t] EXCEPT !.pending = FirstWrite(state[t].calls), !.next = "confirm"]
  <2>1. Complete(t, S) /\ UNCHANGED history BY <1>8 DEF Capture
  <2>2. S.next = "confirm" /\ S.calls = state[t].calls BY <1>0 DEF GraphState
  <2> HIDE DEF S
  <2>3. QED BY <1>2, <1>4, <2>1, <2>2
<1>9. CASE PassUnasked(t) BY <1>9 DEF PassUnasked
<1>10. CASE RefuseUnstated(t)
  <2> DEFINE S == [state[t] EXCEPT !.pending = NoClaim, !.calls = <<>>, !.asked = FALSE,
                                   !.next = "parse"]
  <2>1. Complete(t, S) /\ UNCHANGED history BY <1>10 DEF RefuseUnstated
  <2>2. S.calls = <<>> BY <1>0 DEF GraphState
  <2> HIDE DEF S
  <2>3. QED BY <1>0, <1>4, <2>1, <2>2
<1>11. CASE Decide(t)
  <2> DEFINE claim == state[t].pending
             yes == answer[t] \in Affirmative
  <2>1. /\ claim \in Claims
        /\ state[t].next = "confirm"
        /\ approved' = [approved EXCEPT ![claim] = IF yes THEN @ + 1 ELSE @]
        /\ executed' = executed
    BY <1>0, <1>11 DEF Decide, At, GraphState
  <2>2. \A i \in Writes(state[t].calls) : state[t].calls[i] = claim
    BY <1>0, <2>1 DEF ConsentHolds
  <2>3. CASE yes
    <3> DEFINE S == [state[t] EXCEPT !.asked = FALSE, !.next = "tools"]
    <3>1. Complete(t, S) BY <1>11, <2>3 DEF Decide
    <3>2. S.calls = state[t].calls BY <1>0 DEF GraphState
    <3>3. /\ approved'[claim] = approved[claim] + 1
          /\ \A c \in Claims \ {claim} : approved'[c] = approved[c]
      BY <1>0, <2>1, <2>3
    <3> HIDE DEF S
    <3>4. \A c \in Claims \ {claim} : Owed(S, c) = 0 BY <2>2, <3>2 DEF Owed
    <3>5. ASSUME NEW c \in Claims
          PROVE  executed'[c] + Owed(S, c) <= approved'[c] + faults
      <4>1. /\ executed[c] \in Nat /\ approved[c] \in Nat /\ faults \in Nat
            /\ Owed(S, c) \in {0, 1} /\ executed[c] <= approved[c] + faults
            /\ executed'[c] = executed[c]
        BY <1>0, <1>3, <2>1
      <4>2. CASE c = claim
        <5>1. approved'[c] = approved[c] + 1 BY <3>3, <4>2
        <5>2. QED BY <4>1, <5>1
      <4>3. CASE c # claim
        <5>1. approved'[c] = approved[c] /\ Owed(S, c) = 0 BY <3>3, <3>4, <4>3
        <5>2. QED BY <4>1, <5>1
      <4>4. QED BY <4>2, <4>3
    <3>6. QED BY <1>2, <3>1, <3>2, <3>5
  <2>4. CASE ~yes
    <3> DEFINE S == [state[t] EXCEPT !.asked = FALSE, !.next = "parse",
                                     !.pending = NoClaim, !.calls = <<>>]
    <3>1. Complete(t, S) BY <1>11, <2>4 DEF Decide
    <3>2. S.calls = <<>> /\ S.next = "parse" BY <1>0 DEF GraphState
    <3>3. \A c \in Claims : approved'[c] = approved[c] BY <1>0, <2>1, <2>4
    <3> HIDE DEF S
    <3>4. \A c : Owed(S, c) = 0 BY <3>2 DEF Owed
    <3>5. \A c \in Claims : executed'[c] + Owed(S, c) <= approved'[c] + faults
      BY <1>0, <1>3, <2>1, <3>3, <3>4
    <3>6. QED BY <1>0, <3>1, <3>2, <3>5
  <2>5. QED BY <2>3, <2>4
<1>12. CASE ExecuteTools(t)
  <2> DEFINE S == [state[t] EXCEPT !.pending = NoClaim, !.reported = @ \cup {t},
                                   !.calls = <<>>, !.next = "agent"]
             calls == state[t].calls
  <2>1. /\ Complete(t, S) /\ UNCHANGED approved /\ Execute(calls, Len(calls))
        /\ state[t].next = "tools"
    BY <1>12 DEF ExecuteTools, At
  <2>2. S.next = "agent" /\ S.calls = <<>> BY <1>0 DEF GraphState
  <2>3. Len(calls) \in 0 .. Len(calls) BY <1>0, LenProperties
  <2>a. calls \in Seq(Reads \cup Claims) /\ \A i, j \in Writes(calls) : i = j BY <1>0, <1>2
  <2> HIDE DEF S
  <2>4. \A c : Owed(S, c) = 0 BY <2>2 DEF Owed
  <2>5. ASSUME NEW c \in Claims
        PROVE  executed'[c] + Owed(S, c) <= approved'[c] + faults
    <3> DEFINE k == Cardinality({i \in 1 .. Len(calls) : calls[i] = c})
    <3>1. executed'[c] = executed[c] + k BY <2>1 DEF Execute
    <3>2. k = 0 \/ (k = 1 /\ \E i \in Writes(calls) : calls[i] = c)
      <4> HIDE DEF calls
      <4>1. QED BY <2>3, <2>a, CarriedOutOnce
    <3>3. k <= Owed(state[t], c) BY <2>1, <3>2 DEF Owed
    <3> HIDE DEF k, calls
    <3>4. /\ executed[c] \in Nat /\ approved'[c] = approved[c] /\ approved[c] \in Nat
          /\ faults \in Nat /\ Owed(state[t], c) \in {0, 1} /\ Owed(S, c) = 0
          /\ executed[c] + Owed(state[t], c) <= approved[c] + faults
      BY <1>0, <1>2, <2>1, <2>4
    <3>5. QED BY <3>1, <3>2, <3>3, <3>4
  <2>6. QED BY <1>0, <2>1, <2>2, <2>5
<1>13. CASE Finish(t)
  <2>1. PICK n \in {"parse", "ground", "format", "end"} :
          Complete(t, [state[t] EXCEPT !.next = n])
    BY <1>13 DEF Finish
  <2> DEFINE S == [state[t] EXCEPT !.next = n]
  <2>2. S.next = n /\ S.calls = state[t].calls BY <1>0 DEF GraphState
  <2>3. Complete(t, S) /\ UNCHANGED history BY <1>13, <2>1 DEF Finish
  <2> HIDE DEF S
  <2>4. QED BY <1>2, <1>4, <2>1, <2>2, <2>3
<1>14. QED
  BY <1>5, <1>6, <1>7, <1>8, <1>9, <1>10, <1>11, <1>12, <1>13 DEF Node

\* Every step keeps the debts covered.
LEMMA StepDebt ==
  ASSUME RequireConfirmation, OneWritePerMessage, Replicas = 1,
         TInv, ConsentInv, DebtInv, [Next]_vars
  PROVE  DebtInv'
<1>0. /\ executed \in [Claims -> Nat] /\ approved \in [Claims -> Nat] /\ faults \in Nat
      /\ saved \in GraphState /\ state \in [Turns -> GraphState]
      /\ phase \in [Turns -> Phases]
      /\ \A S, c : Owed(S, c) \in {0, 1}
  BY DebtTypes
<1>1. /\ \A t, u \in Active : t = u
      /\ \A t \in Turns : phase[t] = "running" => saved = state[t]
      /\ \A i, j \in Writes(saved.calls) : i = j
      /\ \A c \in Claims : executed[c] + Owed(saved, c) <= approved[c] + faults
  BY DEF DebtInv
<1>2. ASSUME NEW t \in Turns, Receive(t) PROVE DebtInv'
  <2>1. /\ UNCHANGED <<saved, state, executed, approved>>
        /\ phase' = [phase EXCEPT ![t] = "received"]
        /\ Cardinality(Active) < Replicas
        /\ faults' \in {faults, faults + 1}
    BY <1>2 DEF Receive, history
  <2>2. Active = {} BY <1>1, <2>1, NobodyElse
  <2>3. \A u, v \in Active' : u = v BY <1>0, <2>1, <2>2 DEF Active
  <2>4. \A u \in Turns : phase'[u] = "running" => phase[u] = "running"
    BY <1>0, <2>1
  <2>5. \A c \in Claims : executed[c] + Owed(saved, c) <= approved[c] + faults'
    BY <1>0, <1>1, <2>1
  <2>6. QED BY <1>1, <2>1, <2>3, <2>4, <2>5 DEF DebtInv, Owed
<1>3. ASSUME NEW t \in Turns, phase[t] \in {"received", "running", "reporting"},
             \A u \in Turns \ {t} : phase'[u] = phase[u],
             phase'[t] = "running" => saved' = state'[t],
             \A i, j \in Writes(saved'.calls) : i = j,
             \A c \in Claims : executed'[c] + Owed(saved', c) <= approved'[c] + faults'
      PROVE  DebtInv'
  <2>1. /\ \A u, v \in Active' : u = v
        /\ \A u \in Turns \ {t} : phase'[u] \notin {"received", "running", "reporting"}
    BY <1>1, <1>3, StaysAlone
  <2>2. \A u \in Turns : phase'[u] = "running" => saved' = state'[u] BY <1>3, <2>1
  <2>3. \A c : Owed(saved', c) = Owed(saved, c)' BY DEF Owed, Writes
  <2>4. QED BY <1>3, <2>1, <2>2, <2>3 DEF DebtInv, Writes
<1>4. ASSUME NEW t \in Turns, BeginFresh(t) PROVE DebtInv'
  <2>1. /\ saved'.next = "guard" /\ saved'.calls = <<>>
        /\ state' = [state EXCEPT ![t] = saved']
        /\ phase[t] = "received" /\ phase' = [phase EXCEPT ![t] = "running"]
        /\ UNCHANGED <<executed, approved, faults>>
    BY <1>0, <1>4 DEF BeginFresh, GraphState
  <2>2. \A c : Owed(saved', c) = 0 BY <2>1 DEF Owed
  <2>3. \A c \in Claims : executed'[c] + Owed(saved', c) <= approved'[c] + faults'
    BY <1>0, <1>1, <2>1, <2>2
  <2>4. Writes(saved'.calls) = {} BY <2>1 DEF Writes
  <2>5. state'[t] = saved' /\ \A u \in Turns \ {t} : phase'[u] = phase[u] BY <1>0, <2>1
  <2>6. QED BY <1>3, <2>1, <2>3, <2>4, <2>5
<1>5. ASSUME NEW t \in Turns, BeginResumed(t) PROVE DebtInv'
  <2>1. /\ state' = [state EXCEPT ![t] = saved]
        /\ phase[t] = "received"
        /\ phase' = [phase EXCEPT ![t] = IF saved.next = "end" THEN "reporting" ELSE "running"]
        /\ UNCHANGED <<saved, executed, approved, faults>>
    BY <1>5 DEF BeginResumed, history
  <2>2. state'[t] = saved' /\ \A u \in Turns \ {t} : phase'[u] = phase[u] BY <1>0, <2>1
  <2>3. QED BY <1>1, <1>3, <2>1, <2>2
<1>6. ASSUME NEW t \in Turns, Node(t), ~Ask(t) PROVE DebtInv'
  <2>1. PICK S : /\ Complete(t, S)
                 /\ \A i, j \in Writes(S.calls) : i = j
                 /\ \A c \in Claims : executed'[c] + Owed(S, c) <= approved'[c] + faults
    BY <1>6, NodeDebt
  <2>2. phase[t] = "running"
    BY <1>6 DEF Node, Guard, CallModel, StopLooping, Capture, PassUnasked,
       RefuseUnstated, Ask, Decide, ExecuteTools, Finish, At
  <2>3. /\ saved' = S /\ state'[t] = S /\ faults' = faults
        /\ \A u \in Turns \ {t} : phase'[u] = phase[u]
    BY <1>0, <2>1 DEF Complete
  <2>4. QED BY <1>3, <2>1, <2>2, <2>3
<1>7. ASSUME NEW t \in Turns, Ask(t) PROVE DebtInv'
  <2>1. /\ phase[t] = "running" /\ state[t].next = "confirm"
        /\ state' = [state EXCEPT ![t] = [state[t] EXCEPT !.asked = TRUE]]
        /\ saved' = state'[t]
        /\ phase' = [phase EXCEPT ![t] = "reporting"]
        /\ UNCHANGED <<executed, approved, faults>>
    BY <1>0, <1>7 DEF Ask, At
  <2>2. saved'.next = "confirm" /\ saved'.calls = saved.calls
    BY <1>0, <1>1, <2>1 DEF GraphState
  <2>3. \A c : Owed(saved', c) = 0 BY <2>2 DEF Owed
  <2>4. \A c \in Claims : executed'[c] + Owed(saved', c) <= approved'[c] + faults'
    <3>1. ASSUME NEW c \in Claims
          PROVE  executed'[c] + Owed(saved', c) <= approved'[c] + faults'
      <4>1. /\ executed[c] \in Nat /\ approved[c] \in Nat /\ Owed(saved, c) \in {0, 1}
            /\ executed[c] + Owed(saved, c) <= approved[c] + faults
        BY <1>0, <1>1
      <4>2. executed'[c] = executed[c] /\ approved'[c] = approved[c] /\ faults' = faults
        BY <2>1
      <4>3. Owed(saved', c) = 0 BY <2>3
      <4>4. QED BY <1>0, <4>1, <4>2, <4>3
    <3>2. QED BY <3>1
  <2>5. \A u \in Turns \ {t} : phase'[u] = phase[u] BY <1>0, <2>1
  <2>6. \A i, j \in Writes(saved'.calls) : i = j BY <1>1, <2>2
  <2>7. phase[t] \in {"received", "running", "reporting"} /\ phase'[t] # "running"
    BY <1>0, <2>1
  <2>8. QED BY <1>3, <2>4, <2>5, <2>6, <2>7
<1>8. ASSUME NEW t \in Turns, Retire(t), phase[t] \in {"running", "reporting"},
             \A c \in Claims : executed'[c] + Owed(saved, c) <= approved'[c] + faults'
      PROVE  DebtInv'
  <2>1. /\ saved' = saved /\ phase'[t] = "over"
        /\ \A u \in Turns \ {t} : phase'[u] = phase[u]
    BY <1>0, <1>8 DEF Retire
  <2>2. QED BY <1>1, <1>3, <1>8, <2>1
<1>9. ASSUME NEW t \in Turns, Report(t) \/ LoseReport(t) \/ OutOfSteps(t) PROVE DebtInv'
  <2>1. /\ Retire(t) /\ phase[t] \in {"running", "reporting"}
        /\ UNCHANGED <<executed, approved>> /\ faults' \in {faults, faults + 1}
    BY <1>9 DEF Report, LoseReport, OutOfSteps, history
  <2>2. \A c \in Claims : executed'[c] + Owed(saved, c) <= approved'[c] + faults'
    BY <1>0, <1>1, <2>1
  <2>3. QED BY <1>8, <2>1, <2>2
<1>10. ASSUME NEW t \in Turns, CutOff(t) PROVE DebtInv'
  <2>1. /\ Retire(t) /\ phase[t] = "running" /\ approved' = approved /\ faults' = faults + 1
        /\ saved = state[t]
    BY <1>1, <1>10 DEF CutOff
  <2>2. ASSUME NEW c \in Claims
        PROVE  executed'[c] + Owed(saved, c) <= approved'[c] + faults'
    <3>1. CASE saved.next # "tools"
      <4>1. executed' = executed BY <1>10, <2>1, <3>1 DEF CutOff
      <4>2. QED BY <1>0, <1>1, <2>1, <4>1
    <3>2. CASE saved.next = "tools"
      <4> DEFINE calls == saved.calls
      <4>1. PICK n \in 0 .. Len(calls) : Execute(calls, n)
        BY <1>10, <2>1, <3>2 DEF CutOff
      <4> DEFINE k == Cardinality({i \in 1 .. n : calls[i] = c})
      <4>2. executed'[c] = executed[c] + k BY <4>1 DEF Execute
      <4>3. calls \in Seq(Reads \cup Claims) BY <1>0 DEF GraphState
      <4>4. k \in {0, 1} BY <1>1, <4>1, <4>3, CarriedOutOnce
      <4> HIDE DEF k, calls
      <4>5. /\ executed[c] \in Nat /\ approved'[c] = approved[c] /\ approved[c] \in Nat
            /\ faults \in Nat /\ faults' = faults + 1 /\ Owed(saved, c) \in {0, 1}
            /\ executed[c] + Owed(saved, c) <= approved[c] + faults
        BY <1>0, <1>1, <2>1
      <4>6. QED BY <4>2, <4>4, <4>5
    <3>3. QED BY <3>1, <3>2
  <2>3. QED BY <1>8, <2>1, <2>2
<1>11. CASE UNCHANGED vars
  BY <1>1, <1>11 DEF vars, progress, history, DebtInv, Active, Owed
<1>12. QED
  BY <1>2, <1>4, <1>5, <1>6, <1>7, <1>9, <1>10, <1>11 DEF Next

\* One yes files once.  With confirmation required, at most one write in a model
\* message and one turn of the conversation handled at a time, an argument list
\* is filed at most once for every yes to it and every fault: ToolNode's
\* checkpoint takes the call off the message, and only a run cut off between the
\* call and that checkpoint, or a checkpoint lost, repeats it.
THEOREM OneYesFilesOnce ==
  ASSUME RequireConfirmation, OneWritePerMessage, Replicas = 1
  PROVE  Spec => []RepeatsOnlyAfterFaults
<1>1. Init => ConsentInv /\ DebtInv
  BY DEF Init, Blank, ConsentInv, HasWrite, ConsentHolds, WritesWereApproved,
     DebtInv, Active, Owed, Writes
<1>2. TInv /\ ConsentInv /\ DebtInv /\ [Next]_vars => ConsentInv' /\ DebtInv'
  BY StepConsent, StepDebt
<1>3. TInv /\ DebtInv => RepeatsOnlyAfterFaults
  <2> SUFFICES ASSUME TInv, DebtInv, NEW c \in Claims
               PROVE  executed[c] <= approved[c] + faults
    BY DEF RepeatsOnlyAfterFaults
  <2>1. executed[c] + Owed(saved, c) <= approved[c] + faults BY DEF DebtInv
  <2>2. executed[c] \in Nat /\ approved[c] \in Nat /\ faults \in Nat /\ Owed(saved, c) \in {0, 1}
    BY DebtTypes
  <2>3. QED BY <2>1, <2>2
<1>4. QED BY <1>1, <1>2, <1>3, GraphInvariance, PTL DEF Spec

-----------------------------------------------------------------------------
\* The rounds a run at S has used up for filing: at agent those completed, between
\* the model's message and its execution one less than were begun, and all of
\* them once it goes on to the answer.
RoundsUsed(S) ==
  CASE S.next = "guard" -> 0
    [] S.next = "agent" -> S.iterations
    [] S.next \in {"capture", "confirm", "tools"} -> S.iterations - 1
    [] OTHER -> MaxIterations

\* What each turn has used up; a turn that is over may have used every round.
Spent ==
  [t \in Turns |->
     CASE phase[t] \in {"unsent", "received"} -> 0
       [] phase[t] = "running" -> RoundsUsed(state[t])
       [] OTHER -> MaxIterations]

\* A checkpoint on the way to tools has begun a round and holds at most one write.
InRound(S) ==
  /\ S.next \in {"capture", "confirm", "tools"} => S.iterations >= 1
  /\ \A i, j \in Writes(S.calls) : i = j

\* Every filing was paid for with a round that some turn has used up.
FilingsInv ==
  /\ InRound(saved) /\ \A t \in Turns : InRound(state[t])
  /\ SumFunction(executed) <= SumFunction(Spent)

\* How many rounds are used up is a number of rounds.
LEMMA RoundsType ==
  ASSUME NEW S \in GraphState, InRound(S)
  PROVE  RoundsUsed(S) \in 0 .. MaxIterations
<1>1. S.iterations \in 0 .. MaxIterations /\ MaxIterations \in Nat
  BY GraphAssumption DEF GraphState
<1>2. QED BY <1>1 DEF RoundsUsed, InRound

\* So is what a turn has used up.
LEMMA SpentType ==
  ASSUME TInv, \A t \in Turns : InRound(state[t])
  PROVE  Spent \in [Turns -> 0 .. MaxIterations] /\ MaxIterations \in Nat
<1>1. \A t \in Turns : RoundsUsed(state[t]) \in 0 .. MaxIterations
  BY RoundsType DEF TInv, GraphTypeOK
<1>2. MaxIterations \in Nat BY GraphAssumption
<1>3. QED BY <1>1, <1>2 DEF Spent

\* Carrying out the calls of a message with at most one write files at most once.
LEMMA FilesOnce ==
  ASSUME TInv, IsFiniteSet(Claims),
         NEW calls \in Seq(Reads \cup Claims), \A i, j \in Writes(calls) : i = j,
         NEW n \in 0 .. Len(calls), Execute(calls, n)
  PROVE  SumFunction(executed') \in {SumFunction(executed), SumFunction(executed) + 1}
<1>0. executed \in [Claims -> Nat] /\ executed \in [Claims -> Int]
  BY DEF TInv, GraphTypeOK
<1> DEFINE k(c) == Cardinality({i \in 1 .. n : calls[i] = c})
<1>1. \A c \in Claims : k(c) = 0 \/ (k(c) = 1 /\ \E i \in Writes(calls) : calls[i] = c)
  BY CarriedOutOnce
<1>2. executed' = [c \in Claims |-> executed[c] + k(c)] BY DEF Execute
<1> HIDE DEF k
<1>3. CASE \A c \in Claims : k(c) = 0
  <2>1. \A c \in Claims : executed[c] + k(c) = executed[c] BY <1>0, <1>3
  <2>2. executed' = executed BY <1>0, <1>2, <2>1
  <2>3. QED BY <2>2
<1>4. CASE \E c \in Claims : k(c) # 0
  <2>1. PICK c \in Claims : k(c) # 0 BY <1>4
  <2>2. k(c) = 1 /\ \E i \in Writes(calls) : calls[i] = c BY <1>1, <2>1
  <2>3. \A d \in Claims \ {c} : k(d) = 0 BY <1>1, <2>2
  <2>4. executed' \in [Claims -> Int] BY <1>0, <1>1, <1>2
  <2>5. \A d \in Claims \ {c} : executed'[d] = executed[d] BY <1>0, <1>2, <2>3
  <2>6. executed'[c] - executed[c] = 1 BY <1>0, <1>2, <2>2
  <2>7. SumFunction(executed') = SumFunction(executed) + (executed'[c] - executed[c])
    BY <1>0, <2>4, <2>5, SumOfChange
  <2>8. QED BY <2>6, <2>7
<1>5. QED BY <1>3, <1>4

\* A step in which turn t uses up at least as many rounds as are filed with.
LEMMA RoundsPay ==
  ASSUME TInv, FilingsInv, TInv', IsFiniteSet(Claims), IsFiniteSet(Turns),
         NEW t \in Turns, NEW d \in {0, 1},
         SumFunction(executed') \in {SumFunction(executed), SumFunction(executed) + d},
         InRound(saved'), \A u \in Turns : InRound(state'[u]),
         Spent'[t] >= Spent[t] + d, \A u \in Turns \ {t} : Spent'[u] = Spent[u]
  PROVE  FilingsInv'
<1>1. InRound(saved)' /\ \A u \in Turns : InRound(state[u])'
  BY DEF InRound, Writes
<1>2. Spent \in [Turns -> 0 .. MaxIterations] /\ MaxIterations \in Nat
  BY SpentType DEF FilingsInv
<1>3. Spent' \in [Turns -> 0 .. MaxIterations]
  <2>1. \A u \in Turns : InRound(state'[u]) BY DEF FilingsInv
  <2>2. \A u \in Turns : state'[u] \in GraphState BY DEF TInv, GraphTypeOK
  <2>3. \A u \in Turns : RoundsUsed(state'[u]) \in 0 .. MaxIterations
    BY <2>1, <2>2, RoundsType
  <2>4. Spent' = [u \in Turns |->
                    CASE phase'[u] \in {"unsent", "received"} -> 0
                      [] phase'[u] = "running" -> RoundsUsed(state'[u])
                      [] OTHER -> MaxIterations]
    BY DEF Spent, RoundsUsed
  <2>5. QED BY <1>2, <2>3, <2>4
<1>4. /\ Spent \in [Turns -> Int] /\ Spent' \in [Turns -> Int]
      /\ Spent \in [Turns -> Nat] /\ Spent' \in [Turns -> Nat]
  BY <1>2, <1>3
<1>5. SumFunction(Spent') = SumFunction(Spent) + (Spent'[t] - Spent[t])
  BY <1>4, SumOfChange
<1>6. SumFunction(Spent) \in Nat /\ SumFunction(Spent') \in Nat BY <1>4, SumType
<1>7. SumFunction(executed) \in Nat
  BY SumType DEF TInv, GraphTypeOK
<1>8. SumFunction(executed) <= SumFunction(Spent) BY DEF FilingsInv
<1>9. SumFunction(executed') <= SumFunction(Spent')
  <2>1. Spent'[t] \in Nat /\ Spent[t] \in Nat BY <1>4
  <2>2. Spent'[t] - Spent[t] >= d BY <2>1
  <2>3. QED BY <1>5, <1>6, <1>7, <1>8, <2>1, <2>2
<1>10. QED BY <1>1, <1>9 DEF FilingsInv

\* A node that completes uses up no fewer rounds than before, and tools one more.
LEMMA NodeRounds ==
  ASSUME OneWritePerMessage, IsFiniteSet(Claims), TInv, FilingsInv,
         NEW t \in Turns, Node(t), ~Ask(t)
  PROVE  \E S \in GraphState, d \in {0, 1} :
           /\ Complete(t, S) /\ InRound(S) /\ phase[t] = "running"
           /\ RoundsUsed(S) >= RoundsUsed(state[t]) + d
           /\ SumFunction(executed') \in {SumFunction(executed), SumFunction(executed) + d}
<1>0. /\ state[t] \in GraphState /\ InRound(state[t]) /\ HasWrite(state[t])
      /\ state[t].calls \in Seq(Reads \cup Claims)
      /\ state[t].iterations \in 0 .. MaxIterations /\ MaxIterations \in Nat
      /\ RoundsUsed(state[t]) \in 0 .. MaxIterations
      /\ Writes(<<>>) = {}
  <2>1. /\ state[t] \in GraphState /\ InRound(state[t]) /\ HasWrite(state[t])
        /\ MaxIterations \in Nat
    BY GraphAssumption DEF FilingsInv, TInv, GraphTypeOK
  <2>2. RoundsUsed(state[t]) \in 0 .. MaxIterations BY <2>1, RoundsType
  <2>3. Writes(<<>>) = {} BY DEF Writes
  <2>4. QED BY <2>1, <2>2, <2>3 DEF GraphState
<1>1. phase[t] = "running"
  BY DEF Node, Guard, CallModel, StopLooping, Capture, PassUnasked,
     RefuseUnstated, Ask, Decide, ExecuteTools, Finish, At
<1>2. PICK S \in GraphState : Complete(t, S)
  BY NodeType DEF TInv, Node
<1>3. \A R : Complete(t, R) => R = S BY <1>2 DEF Complete
<1>4. S.iterations \in 0 .. MaxIterations BY <1>2 DEF GraphState
<1>5. ASSUME UNCHANGED executed, InRound(S), RoundsUsed(S) >= RoundsUsed(state[t])
      PROVE  \E R \in GraphState, d \in {0, 1} :
               /\ Complete(t, R) /\ InRound(R) /\ phase[t] = "running"
               /\ RoundsUsed(R) >= RoundsUsed(state[t]) + d
               /\ SumFunction(executed') \in {SumFunction(executed), SumFunction(executed) + d}
  <2>1. SumFunction(executed') = SumFunction(executed) BY <1>5
  <2>2. RoundsUsed(S) >= RoundsUsed(state[t]) + 0 BY <1>0, <1>5
  <2>3. QED BY <1>1, <1>2, <1>5, <2>1, <2>2
<1>6. CASE Guard(t)
  <2> DEFINE n == IF state[t].said \in Screened THEN "parse" ELSE "agent"
             k == IF state[t].said \in Screened THEN state[t].iterations ELSE 0
  <2>1. S = [state[t] EXCEPT !.pending = NoClaim, !.reported = {},
                             !.iterations = k, !.next = n]
    BY <1>3, <1>6 DEF Guard
  <2>2. n \in {"parse", "agent"} OBVIOUS
  <2> HIDE DEF n, k
  <2>3. S.next = n /\ S.calls = state[t].calls BY <1>0, <2>1 DEF GraphState
  <2>4. state[t].next = "guard" /\ UNCHANGED executed BY <1>6 DEF Guard, At, history
  <2>5. RoundsUsed(state[t]) = 0 BY <2>4 DEF RoundsUsed
  <2>6. InRound(S) BY <1>0, <2>2, <2>3 DEF InRound
  <2>7. RoundsUsed(S) \in 0 .. MaxIterations BY <2>6, RoundsType
  <2>8. QED BY <1>5, <2>4, <2>5, <2>6, <2>7
<1>7. CASE CallModel(t)
  <2>1. PICK calls \in CallLists :
          S = [state[t] EXCEPT !.calls = calls, !.iterations = @ + 1, !.next = Route(calls)]
    BY <1>3, <1>7 DEF CallModel
  <2>2. /\ S.next = Route(calls) /\ S.calls = calls
        /\ S.iterations = state[t].iterations + 1
    BY <1>0, <2>1 DEF GraphState
  <2>3. \A i, j \in Writes(calls) : i = j BY DEF OneWritePerMessage
  <2>4. Route(calls) \in {"readback", "capture", "tools"} BY DEF Route
  <2>5. state[t].next = "agent" /\ UNCHANGED executed BY <1>7 DEF CallModel, At, history
  <2>6. RoundsUsed(state[t]) = state[t].iterations BY <2>5 DEF RoundsUsed
  <2>7. InRound(S) BY <1>0, <2>2, <2>3 DEF InRound
  <2>8. RoundsUsed(S) >= state[t].iterations
    BY <1>0, <2>2, <2>4 DEF RoundsUsed
  <2>9. QED BY <1>5, <2>5, <2>6, <2>7, <2>8
<1>8. CASE StopLooping(t) \/ RefuseUnstated(t) \/ Finish(t)
           \/ (Decide(t) /\ answer[t] \notin Affirmative)
  <2>1. /\ S.next \in {"readback", "parse", "ground", "format", "end"}
        /\ S.calls = <<>> \/ S.calls = state[t].calls
    <3>1. CASE StopLooping(t)
      <4>1. S = [state[t] EXCEPT !.calls = <<>>, !.next = "readback"]
        BY <1>3, <3>1 DEF StopLooping
      <4>2. QED BY <1>0, <4>1 DEF GraphState
    <3>2. CASE RefuseUnstated(t)
      <4>1. S = [state[t] EXCEPT !.pending = NoClaim, !.calls = <<>>, !.asked = FALSE,
                                 !.next = "parse"]
        BY <1>3, <3>2 DEF RefuseUnstated
      <4>2. QED BY <1>0, <4>1 DEF GraphState
    <3>3. CASE Finish(t)
      <4>1. PICK n \in {"parse", "ground", "format", "end"} :
              S = [state[t] EXCEPT !.next = n]
        BY <1>3, <3>3 DEF Finish
      <4>2. QED BY <1>0, <4>1 DEF GraphState
    <3>4. CASE Decide(t) /\ answer[t] \notin Affirmative
      <4>1. S = [state[t] EXCEPT !.asked = FALSE, !.next = "parse",
                                 !.pending = NoClaim, !.calls = <<>>]
        BY <1>3, <3>4 DEF Decide
      <4>2. QED BY <1>0, <4>1 DEF GraphState
    <3>5. QED BY <1>8, <3>1, <3>2, <3>3, <3>4
  <2>2. UNCHANGED executed
    BY <1>8 DEF StopLooping, RefuseUnstated, Finish, Decide, history
  <2>3. InRound(S) BY <1>0, <2>1 DEF InRound
  <2>4. RoundsUsed(S) = MaxIterations BY <2>1 DEF RoundsUsed
  <2>5. QED BY <1>0, <1>5, <2>2, <2>3, <2>4
<1>9. CASE Capture(t) \/ PassUnasked(t) \/ (Decide(t) /\ answer[t] \in Affirmative)
  <2>1. /\ S.next \in {"confirm", "tools"}
        /\ S.calls = state[t].calls /\ S.iterations = state[t].iterations
    <3>1. CASE Capture(t)
      <4>1. S = [state[t] EXCEPT !.pending = FirstWrite(state[t].calls), !.next = "confirm"]
        BY <1>3, <3>1 DEF Capture
      <4>2. QED BY <1>0, <4>1 DEF GraphState
    <3>2. CASE PassUnasked(t)
      <4>1. S = [state[t] EXCEPT !.next = "tools"] BY <1>3, <3>2 DEF PassUnasked
      <4>2. QED BY <1>0, <4>1 DEF GraphState
    <3>3. CASE Decide(t) /\ answer[t] \in Affirmative
      <4>1. S = [state[t] EXCEPT !.asked = FALSE, !.next = "tools"]
        BY <1>3, <3>3 DEF Decide
      <4>2. QED BY <1>0, <4>1 DEF GraphState
    <3>4. QED BY <1>9, <3>1, <3>2, <3>3
  <2>2. /\ UNCHANGED executed
        /\ state[t].next \in {"capture", "confirm"}
    BY <1>9 DEF Capture, PassUnasked, Decide, At, history
  <2>3. InRound(S) BY <1>0, <2>1, <2>2 DEF InRound
  <2>4. RoundsUsed(S) = state[t].iterations - 1 BY <2>1 DEF RoundsUsed
  <2>5. RoundsUsed(state[t]) = state[t].iterations - 1 BY <2>2 DEF RoundsUsed
  <2>6. QED BY <1>0, <1>5, <2>2, <2>3, <2>4, <2>5
<1>10. CASE ExecuteTools(t)
  <2>1. S = [state[t] EXCEPT !.pending = NoClaim, !.reported = @ \cup {t},
                             !.calls = <<>>, !.next = "agent"]
    BY <1>3, <1>10 DEF ExecuteTools
  <2>2. S.next = "agent" /\ S.calls = <<>> /\ S.iterations = state[t].iterations
    BY <1>0, <2>1 DEF GraphState
  <2>3. state[t].next = "tools" /\ Execute(state[t].calls, Len(state[t].calls))
    BY <1>10 DEF ExecuteTools, At
  <2>4. Len(state[t].calls) \in 0 .. Len(state[t].calls) BY <1>0, LenProperties
  <2>5. \A i, j \in Writes(state[t].calls) : i = j BY <1>0 DEF InRound
  <2>6. SumFunction(executed') \in {SumFunction(executed), SumFunction(executed) + 1}
    BY <1>0, <2>3, <2>4, <2>5, FilesOnce
  <2>7. InRound(S) BY <1>0, <2>2 DEF InRound
  <2>8. RoundsUsed(S) = state[t].iterations BY <2>2 DEF RoundsUsed
  <2>9. RoundsUsed(state[t]) = state[t].iterations - 1 BY <2>3 DEF RoundsUsed
  <2>10. RoundsUsed(S) >= RoundsUsed(state[t]) + 1 BY <1>0, <2>8, <2>9
  <2>11. QED BY <1>1, <1>2, <2>6, <2>7, <2>10
<1>11. QED BY <1>6, <1>7, <1>8, <1>9, <1>10 DEF Node

\* Every step keeps the filings paid for.
LEMMA StepFilings ==
  ASSUME OneWritePerMessage, IsFiniteSet(Claims), IsFiniteSet(Turns),
         TInv, FilingsInv, [Next]_vars
  PROVE  FilingsInv'
<1>0. /\ state \in [Turns -> GraphState] /\ saved \in GraphState
      /\ phase \in [Turns -> Phases]
      /\ InRound(saved) /\ \A t \in Turns : InRound(state[t])
      /\ MaxIterations \in Nat
      /\ \A t \in Turns : RoundsUsed(state[t]) \in 0 .. MaxIterations
      /\ RoundsUsed(saved) \in 0 .. MaxIterations
  BY GraphAssumption, RoundsType DEF TInv, GraphTypeOK, FilingsInv
<1>1. TInv' BY StepTInv
<1>2. ASSUME NEW t \in Turns, NEW d \in {0, 1},
             SumFunction(executed') \in {SumFunction(executed), SumFunction(executed) + d},
             InRound(saved'), \A u \in Turns : InRound(state'[u]),
             \A u \in Turns \ {t} : phase'[u] = phase[u] /\ state'[u] = state[u],
             Spent'[t] >= Spent[t] + d
      PROVE  FilingsInv'
  <2>1. \A u \in Turns \ {t} : Spent'[u] = Spent[u] BY <1>2 DEF Spent, RoundsUsed
  <2>2. QED BY <1>1, <1>2, <2>1, RoundsPay
<1>3. \A t \in Turns : Spent[t] = CASE phase[t] \in {"unsent", "received"} -> 0
                                    [] phase[t] = "running" -> RoundsUsed(state[t])
                                    [] OTHER -> MaxIterations
  BY DEF Spent
<1>4. \A t \in Turns : Spent'[t] = CASE phase'[t] \in {"unsent", "received"} -> 0
                                     [] phase'[t] = "running" -> RoundsUsed(state'[t])
                                     [] OTHER -> MaxIterations
  BY DEF Spent, RoundsUsed
<1>5. ASSUME NEW t \in Turns, Receive(t) PROVE FilingsInv'
  <2>1. /\ UNCHANGED <<saved, state, executed>> /\ phase[t] = "unsent"
        /\ phase' = [phase EXCEPT ![t] = "received"]
    BY <1>5 DEF Receive, history
  <2>2. Spent[t] = 0 /\ Spent'[t] = 0 BY <1>0, <1>3, <1>4, <2>1
  <2>3. Spent'[t] >= Spent[t] + 0 BY <2>2
  <2>4. SumFunction(executed') = SumFunction(executed) BY <2>1
  <2>5. QED BY <1>0, <1>2, <2>1, <2>3, <2>4
<1>6. ASSUME NEW t \in Turns, BeginFresh(t) PROVE FilingsInv'
  <2>1. /\ saved'.next = "guard" /\ saved'.calls = <<>>
        /\ state' = [state EXCEPT ![t] = saved']
        /\ phase[t] = "received" /\ phase' = [phase EXCEPT ![t] = "running"]
        /\ executed' = executed
    BY <1>0, <1>6 DEF BeginFresh, GraphState
  <2>2. state'[t] = saved' /\ phase'[t] = "running" BY <1>0, <2>1
  <2>3. RoundsUsed(state'[t]) = 0 BY <2>1, <2>2 DEF RoundsUsed
  <2>4. Spent'[t] >= Spent[t] + 0 BY <1>0, <1>3, <1>4, <2>1, <2>2, <2>3
  <2>5. InRound(saved') BY <2>1 DEF InRound, Writes
  <2>6. SumFunction(executed') = SumFunction(executed) BY <2>1
  <2>7. QED BY <1>0, <1>2, <2>1, <2>4, <2>5, <2>6
<1>7. ASSUME NEW t \in Turns, BeginResumed(t) PROVE FilingsInv'
  <2>1. /\ UNCHANGED <<saved, executed>>
        /\ state' = [state EXCEPT ![t] = saved] /\ phase[t] = "received"
        /\ phase' = [phase EXCEPT ![t] = IF saved.next = "end" THEN "reporting" ELSE "running"]
    BY <1>7 DEF BeginResumed, history
  <2>2. state'[t] = saved /\ phase'[t] \in {"running", "reporting"} BY <1>0, <2>1
  <2>3. Spent[t] = 0 /\ Spent'[t] >= 0 BY <1>0, <1>3, <1>4, <2>1, <2>2
  <2>4. Spent'[t] >= Spent[t] + 0 BY <2>3
  <2>5. SumFunction(executed') = SumFunction(executed) BY <2>1
  <2>6. QED BY <1>0, <1>2, <2>1, <2>4, <2>5
<1>8. ASSUME NEW t \in Turns, Node(t), ~Ask(t) PROVE FilingsInv'
  <2>1. PICK S \in GraphState, d \in {0, 1} :
          /\ Complete(t, S) /\ InRound(S) /\ phase[t] = "running"
          /\ RoundsUsed(S) >= RoundsUsed(state[t]) + d
          /\ SumFunction(executed') \in {SumFunction(executed), SumFunction(executed) + d}
    BY <1>8, NodeRounds
  <2>2. /\ saved' = S /\ state' = [state EXCEPT ![t] = S]
        /\ phase' = [phase EXCEPT ![t] = IF S.next = "end" THEN "reporting" ELSE "running"]
    BY <2>1 DEF Complete
  <2>3. Spent[t] = RoundsUsed(state[t]) BY <1>3, <2>1
  <2>4. RoundsUsed(S) \in 0 .. MaxIterations BY <2>1, RoundsType
  <2>5. Spent'[t] \in {RoundsUsed(S), MaxIterations} BY <1>0, <1>4, <2>2
  <2>6. Spent'[t] >= Spent[t] + d BY <1>0, <2>1, <2>3, <2>4, <2>5
  <2>7. QED BY <1>0, <1>2, <2>1, <2>2, <2>6
<1>9. ASSUME NEW t \in Turns, Ask(t) PROVE FilingsInv'
  <2>1. /\ state' = [state EXCEPT ![t] = [state[t] EXCEPT !.asked = TRUE]]
        /\ saved' = state'[t] /\ phase[t] = "running" /\ executed' = executed
        /\ phase' = [phase EXCEPT ![t] = "reporting"]
    BY <1>0, <1>9 DEF Ask, At
  <2>2. InRound(saved')
    BY <1>0, <2>1 DEF InRound, GraphState
  <2>3. Spent'[t] = MaxIterations /\ Spent[t] = RoundsUsed(state[t])
    BY <1>0, <1>3, <1>4, <2>1
  <2>4. Spent'[t] >= Spent[t] + 0 BY <1>0, <2>3
  <2>5. SumFunction(executed') = SumFunction(executed) BY <2>1
  <2>6. QED BY <1>0, <1>2, <2>1, <2>2, <2>4, <2>5
<1>10. ASSUME NEW t \in Turns, Retire(t)
       PROVE  /\ InRound(saved') /\ \A u \in Turns : InRound(state'[u])
              /\ \A u \in Turns \ {t} : phase'[u] = phase[u] /\ state'[u] = state[u]
              /\ Spent'[t] = MaxIterations
  <2>1. InRound(Blank) BY DEF InRound, Blank, Writes
  <2>2. /\ saved' = saved /\ state' = [state EXCEPT ![t] = Blank]
        /\ phase' = [phase EXCEPT ![t] = "over"]
    BY <1>10 DEF Retire
  <2>3. QED BY <1>0, <1>4, <2>1, <2>2
<1>11. ASSUME NEW t \in Turns, Report(t) \/ LoseReport(t) \/ OutOfSteps(t)
       PROVE  FilingsInv'
  <2>1. Retire(t) /\ executed' = executed /\ phase[t] \in {"running", "reporting"}
    BY <1>11 DEF Report, LoseReport, OutOfSteps, history
  <2>2. Spent'[t] >= Spent[t] + 0 BY <1>0, <1>3, <1>10, <2>1
  <2>3. SumFunction(executed') = SumFunction(executed) BY <2>1
  <2>4. QED BY <1>2, <1>10, <2>1, <2>2, <2>3
<1>12. ASSUME NEW t \in Turns, CutOff(t) PROVE FilingsInv'
  <2>1. Retire(t) /\ phase[t] = "running" BY <1>12 DEF CutOff
  <2>2. Spent[t] = RoundsUsed(state[t]) BY <1>3, <2>1
  <2>3. CASE state[t].next = "tools"
    <3>1. PICK n \in 0 .. Len(state[t].calls) : Execute(state[t].calls, n)
      BY <1>12, <2>3 DEF CutOff
    <3>2. state[t].calls \in Seq(Reads \cup Claims) BY <1>0 DEF GraphState
    <3>3. \A i, j \in Writes(state[t].calls) : i = j BY <1>0 DEF InRound
    <3>4. SumFunction(executed') \in {SumFunction(executed), SumFunction(executed) + 1}
      BY <3>1, <3>2, <3>3, FilesOnce
    <3>5. state[t].iterations \in 0 .. MaxIterations BY <1>0 DEF GraphState
    <3>6. Spent[t] = state[t].iterations - 1 BY <2>2, <2>3 DEF RoundsUsed
    <3>7. Spent'[t] >= Spent[t] + 1 BY <1>0, <1>10, <2>1, <3>5, <3>6
    <3>8. QED BY <1>2, <1>10, <2>1, <3>4, <3>7
  <2>4. CASE state[t].next # "tools"
    <3>1. executed' = executed BY <1>12, <2>4 DEF CutOff
    <3>2. Spent'[t] >= Spent[t] + 0 BY <1>0, <1>10, <2>1, <2>2
    <3>3. SumFunction(executed') = SumFunction(executed) BY <3>1
    <3>4. QED BY <1>2, <1>10, <2>1, <3>2, <3>3
  <2>5. QED BY <2>3, <2>4
<1>13. CASE UNCHANGED vars
  <2>1. UNCHANGED <<saved, state, phase, executed>> BY <1>13 DEF vars, progress, history
  <2>2. Spent' = Spent BY <2>1 DEF Spent, RoundsUsed
  <2>3. QED BY <2>1, <2>2 DEF FilingsInv, InRound
<1>14. QED
  BY <1>5, <1>6, <1>7, <1>8, <1>9, <1>11, <1>12, <1>13 DEF Next

\* max_graph_iterations bounds what is filed.  With or without confirmation, any
\* number of the conversation's turns handled at a time on its one checkpoint,
\* and whatever is cut off or resumed, a model that puts at most one write in a
\* message files at most one claim per round of every turn that was sent.
THEOREM RoundsBoundFilings ==
  ASSUME OneWritePerMessage, IsFiniteSet(Claims), IsFiniteSet(Turns)
  PROVE  Spec => []FilingsBounded
<1>1. Init => FilingsInv
  <2>1. SUFFICES ASSUME Init PROVE FilingsInv OBVIOUS
  <2>2. executed \in [Claims -> Nat] /\ \A c \in Claims : executed[c] = 0
    BY <2>1 DEF Init
  <2>3. SumFunction(executed) <= 0 * Cardinality({})
    <3>1. \A c \in Claims : executed[c] <= 0 BY <2>2
    <3>2. QED BY <2>2, <3>1, SumBound
  <2>4. SumFunction(executed) <= 0
    <3>1. Cardinality({}) = 0 BY FS_EmptySet
    <3>2. QED BY <2>3, <3>1
  <2>5. SumFunction(executed) \in Nat BY <2>2, SumType
  <2>6. Spent = [t \in Turns |-> 0] BY <2>1 DEF Init, Spent
  <2>7. SumFunction(Spent) \in Nat
    <3>1. Spent \in [Turns -> Nat] BY <2>6
    <3>2. QED BY <3>1, SumType
  <2>8. InRound(saved) /\ \A t \in Turns : InRound(state[t])
    BY <2>1 DEF Init, InRound, Blank, Writes
  <2>9. QED BY <2>4, <2>5, <2>7, <2>8 DEF FilingsInv
<1>2. TInv /\ FilingsInv /\ [Next]_vars => FilingsInv' BY StepFilings
<1>3. TInv /\ FilingsInv => FilingsBounded
  <2>1. SUFFICES ASSUME TInv, FilingsInv PROVE FilingsBounded OBVIOUS
  <2> DEFINE sent == {t \in Turns : phase[t] # "unsent"}
  <2>2. Spent \in [Turns -> 0 .. MaxIterations] /\ MaxIterations \in Nat
    BY <2>1, SpentType DEF FilingsInv
  <2>3. Spent \in [Turns -> Nat] /\ \A t \in Turns : Spent[t] <= MaxIterations BY <2>2
  <2>4. \A t \in Turns \ sent : Spent[t] = 0 BY DEF Spent
  <2>5. sent \in SUBSET Turns OBVIOUS
  <2>6. IsFiniteSet(sent) /\ Cardinality(sent) \in Nat
    BY <2>5, FS_Subset, FS_CardinalityType
  <2> HIDE DEF sent
  <2>7. SumFunction(Spent) <= MaxIterations * Cardinality(sent)
    BY <2>2, <2>3, <2>4, <2>5, SumBound
  <2>8. SumFunction(executed) <= SumFunction(Spent) BY <2>1 DEF FilingsInv
  <2>9. SumFunction(executed) \in Nat /\ SumFunction(Spent) \in Nat
    BY <2>1, <2>3, SumType DEF TInv, GraphTypeOK
  <2>10. MaxIterations * Cardinality(sent) \in Nat BY <2>2, <2>6
  <2>11. SumFunction(executed) <= MaxIterations * Cardinality(sent)
    BY <2>7, <2>8, <2>9, <2>10
  <2>12. QED BY <2>11 DEF FilingsBounded, sent
<1>4. QED BY <1>1, <1>2, <1>3, GraphInvariance, PTL DEF Spec
==============================================================================
