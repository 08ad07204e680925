------------------------- MODULE ChatPipeline_proofs -------------------------
(***************************************************************************)
(* Proofs about ChatPipeline, for any sets of runs and workers and any     *)
(* values of the bounds: type correctness, at most one worker per job,     *)
(* event logs that are numbered without gaps and closed by their only      *)
(* terminal event, that the pipeline implements TurnLifecycle, that no     *)
(* delivered turn is dropped silently, that the queue depth counts the     *)
(* busy workers and the faults only, that callers are told whole answers,  *)
(* and that they wait for a run that is prompt.                            *)
(***************************************************************************)
EXTENDS ChatPipeline, SequenceTheorems, FiniteSetTheorems, TLAPS

\* Every report a graph run can lead to is a sequence of event types that ends
\* with its only terminal one (_emit_tool_calls, then the tail of handle).
LEMMA ReportsCloseOnce ==
  ASSUME NEW report \in Reports
  PROVE  report \in Seq(EventTypes) /\ ClosesOnce(report)
<1>1. PICK n \in 0 .. MaxTools, ending \in Endings : report = ToolEnds(n) \o ending
  BY DEF Reports
<1>2. n \in Nat
  BY WorkerAssumption
<1>3. ToolEnds(n) \in Seq(EventTypes) /\ Len(ToolEnds(n)) = n
  <2>1. ToolEnds(n) \in [1 .. n -> EventTypes]
    BY DEF ToolEnds, EventTypes
  <2>2. QED BY <1>2, <2>1
<1>4. \A i \in 1 .. n : ToolEnds(n)[i] = "tool_end"
  BY <1>2 DEF ToolEnds
<1>5. ending \in Seq(EventTypes) /\ Len(ending) \in {2, 3}
  <2>1. CASE ending = <<"confirm", "sources", "done">>
    BY <2>1 DEF EventTypes, TerminalTypes
  <2>2. CASE ending = <<"token", "sources", "done">>
    BY <2>2 DEF EventTypes, TerminalTypes
  <2>3. CASE ending = <<"sources", "done">>
    BY <2>3 DEF EventTypes, TerminalTypes
  <2>4. QED BY <2>1, <2>2, <2>3 DEF Endings
<1>6. \A i \in 1 .. Len(ending) : ending[i] \in TerminalTypes <=> i = Len(ending)
  <2>1. CASE ending = <<"confirm", "sources", "done">>
    BY <2>1 DEF TerminalTypes
  <2>2. CASE ending = <<"token", "sources", "done">>
    BY <2>2 DEF TerminalTypes
  <2>3. CASE ending = <<"sources", "done">>
    BY <2>3 DEF TerminalTypes
  <2>4. QED BY <2>1, <2>2, <2>3 DEF Endings
<1>7. /\ report \in Seq(EventTypes)
      /\ Len(report) = n + Len(ending)
      /\ \A i \in 1 .. n : report[i] = ToolEnds(n)[i]
      /\ \A i \in n + 1 .. n + Len(ending) : report[i] = ending[i - n]
  BY <1>1, <1>2, <1>3, <1>5, ConcatProperties
<1>8. Len(report) = n + Len(ending) /\ Len(ending) \in {2, 3}
  BY <1>5, <1>7
<1>9. \A i \in 1 .. Len(report) : report[i] \in TerminalTypes <=> i = Len(report)
  <2> SUFFICES ASSUME NEW i \in 1 .. Len(report)
               PROVE  report[i] \in TerminalTypes <=> i = Len(report)
    OBVIOUS
  <2>1. CASE i \in 1 .. n
    <3>1. report[i] = "tool_end" BY <1>4, <1>7, <2>1
    <3>2. Len(report) > n BY <1>2, <1>8
    <3>3. i # Len(report) BY <1>2, <2>1, <3>2
    <3>4. QED BY <3>1, <3>3 DEF TerminalTypes
  <2>2. CASE i \in n + 1 .. n + Len(ending)
    <3>1. i - n \in 1 .. Len(ending) BY <1>2, <1>5, <2>2
    <3>2. report[i] = ending[i - n] BY <1>7, <2>2
    <3>3. i = Len(report) <=> i - n = Len(ending) BY <1>2, <1>8, <2>2
    <3>4. QED BY <1>6, <3>1, <3>2, <3>3
  <2>3. QED BY <1>2, <1>8, <2>1, <2>2
<1>10. QED BY <1>2, <1>8, <1>7, <1>9 DEF ClosesOnce

-----------------------------------------------------------------------------
\* Each queue operation keeps Redis's state well typed.
LEMMA EnqueueType ==
  ASSUME QueueTypeOK, NEW r \in Runs, Enqueue(r)
  PROVE  QueueTypeOK'
<1>1. PICK k \in 0 .. Len(stream) :
        stream' = SubSeq(Append(stream, r), k + 1, Len(Append(stream, r)))
  BY DEF Enqueue
<1>2. Append(stream, r) \in Seq(Runs)
  BY AppendProperties DEF QueueTypeOK
<1>3. \A i \in k + 1 .. Len(Append(stream, r)) : Append(stream, r)[i] \in Runs
  BY <1>2, ElementOfSeq, LenProperties DEF QueueTypeOK
<1>4. stream' \in Seq(Runs)
  BY <1>1, <1>2, <1>3, SubSeqProperties, LenProperties DEF QueueTypeOK
<1>5. QED BY <1>4 DEF Enqueue, QueueTypeOK

\* XADD on an event log keeps it a log of events.
LEMMA PublishType ==
  ASSUME QueueTypeOK, NEW r \in Runs, NEW e \in Event, Publish(r, e)
  PROVE  QueueTypeOK'
<1>1. Append(events[r], e) \in Seq(Event)
  BY AppendProperties DEF QueueTypeOK
<1>2. QED BY <1>1 DEF QueueTypeOK, Publish

\* So do handing out an entry, taking it off, burying it and XCLAIMing the
\* stalled ones.
LEMMA OtherQueueOpsType ==
  ASSUME QueueTypeOK, NEW r \in Runs, NEW w \in Workers,
         \/ Deliver(w, r)
         \/ AckEntry(r)
         \/ DeadLetterEntry(r)
         \/ ReclaimStalled(w)
         \/ UNCHANGED queueVars
  PROVE  QueueTypeOK'
<1>1. CASE Deliver(w, r) BY <1>1 DEF QueueTypeOK, Deliver
<1>2. CASE AckEntry(r) BY <1>2 DEF QueueTypeOK, AckEntry
<1>3. CASE DeadLetterEntry(r) BY <1>3 DEF QueueTypeOK, DeadLetterEntry
<1>4. CASE ReclaimStalled(w) BY <1>4 DEF QueueTypeOK, ReclaimStalled
<1>5. CASE UNCHANGED queueVars BY <1>5 DEF QueueTypeOK, queueVars
<1>6. QED BY <1>1, <1>2, <1>3, <1>4, <1>5

-----------------------------------------------------------------------------
IInv == TypeOK /\ HandlingInv

\* Steps that touch neither the workers' program nor the logs.
LEMMA HandlingUntouched ==
  ASSUME HandlingInv, UNCHANGED <<pc, job, seq, todo, events, delivered>>
  PROVE  HandlingInv'
BY DEF HandlingInv, OneHandler, HandsMatchProgram, TodoMatchesProgram,
       LogOpenWhileHandled, UndeliveredLogEmpty, EventLogOrdered, Ended, IsTerminal

\* Publishing the next-numbered event on an open, ordered log keeps all logs
\* ordered, and closes this one exactly if the event is terminal.
LEMMA PublishExtendsLog ==
  ASSUME QueueTypeOK, EventLogOrdered,
         NEW r \in Runs, NEW e \in Event,
         ~Ended(r), e.seq = Len(events[r]), Publish(r, e)
  PROVE  /\ EventLogOrdered'
         /\ Len(events'[r]) = Len(events[r]) + 1
         /\ Ended(r)' <=> IsTerminal(e)
         /\ \A q \in Runs \ {r} : events'[q] = events[q]
<1>1. /\ events[r] \in Seq(Event)
      /\ events'[r] = Append(events[r], e)
      /\ \A q \in Runs \ {r} : events'[q] = events[q]
  BY DEF QueueTypeOK, Publish
<1>2. /\ Len(events'[r]) = Len(events[r]) + 1
      /\ \A i \in 1 .. Len(events[r]) : events'[r][i] = events[r][i]
      /\ events'[r][Len(events[r]) + 1] = e
      /\ Len(events[r]) \in Nat
      /\ DOMAIN events[r] = 1 .. Len(events[r])
      /\ DOMAIN events'[r] = 1 .. Len(events[r]) + 1
  <2>1. events'[r] \in Seq(Event) BY <1>1, AppendProperties
  <2>2. QED BY <1>1, <2>1, AppendProperties, LenProperties
<1>3. \A i \in 1 .. Len(events[r]) : ~IsTerminal(events[r][i])
  BY <1>2 DEF Ended
<1>4. ASSUME NEW q \in Runs, NEW i \in DOMAIN events'[q]
      PROVE  /\ events'[q][i].seq = i - 1
             /\ IsTerminal(events'[q][i]) => i = Len(events'[q])
  <2>1. CASE q # r BY <1>1, <1>4, <2>1 DEF EventLogOrdered
  <2>2. CASE q = r /\ i = Len(events[r]) + 1 BY <1>2, <2>2
  <2>3. CASE q = r /\ i \in 1 .. Len(events[r])
    BY <1>2, <1>3, <2>3 DEF EventLogOrdered
  <2>4. QED BY <1>2, <1>4, <2>1, <2>2, <2>3
<1>5. EventLogOrdered' BY <1>4 DEF EventLogOrdered, IsTerminal
<1>6. Ended(r)' <=> IsTerminal(e)
  <2>1. Ended(r)' <=> \E i \in 1 .. Len(events[r]) + 1 : IsTerminal(events'[r][i])
    BY <1>2 DEF Ended, IsTerminal
  <2>2. QED BY <1>2, <1>3, <2>1
<1>7. QED BY <1>1, <1>2, <1>5, <1>6

-----------------------------------------------------------------------------
\* An error event on its own is a publication that closes its run exactly once.
LEMMA ErrorClosesOnce ==
  /\ <<"error">> \in Seq(EventTypes) /\ ClosesOnce(<<"error">>)
  /\ <<"started">> \in Seq(EventTypes)
BY DEF ClosesOnce, EventTypes, TerminalTypes

\* Type correctness of the workers' own variables, one action at a time.
LEMMA WorkerStepType ==
  ASSUME IInv, NEW w \in Workers, WorkerStep(w) \/ WorkerFault(w)
  PROVE  WorkerTypeOK'
<1> USE WorkerAssumption DEF WorkerTypeOK, Goto, LetGo, PCs
<1>0. WorkerTypeOK BY DEF IInv, TypeOK
<1>1. CASE Reclaim(w) BY <1>0, <1>1 DEF Reclaim
<1>2. CASE Consume(w) BY <1>0, <1>2 DEF Consume
<1>3. CASE ConsumeNothing(w) BY <1>0, <1>3 DEF ConsumeNothing
<1>4. CASE Expire(w) BY <1>0, <1>4, ErrorClosesOnce DEF Expire
<1>5. CASE Start(w) BY <1>0, <1>5, ErrorClosesOnce DEF Start
<1>6. CASE Emit(w)
  <2>1. todo[w] # <<>> /\ todo[w] \in Seq(EventTypes)
    BY <1>0, <1>6 DEF Emit, IInv, HandlingInv, TodoMatchesProgram, ClosesOnce, Publishing
  <2>2. Tail(todo[w]) \in Seq(EventTypes) BY <2>1, HeadTailProperties
  <2>3. After(pc[w]) \in PCs BY <1>6 DEF Emit, After, Publishing
  <2>4. QED BY <1>0, <1>6, <2>2, <2>3 DEF Emit
<1>7. CASE GraphReturns(w) BY <1>0, <1>7, ReportsCloseOnce DEF GraphReturns
<1>8. CASE GraphFails(w) BY <1>0, <1>8, ErrorClosesOnce DEF GraphFails
<1>9. CASE Ack(w) BY <1>0, <1>9 DEF Ack
<1>10. CASE DeadLetter(w) BY <1>0, <1>10 DEF DeadLetter
<1>11. CASE AckDead(w) BY <1>0, <1>11 DEF AckDead
<1>12. CASE EmitFails(w) BY <1>0, <1>12 DEF EmitFails, Fault
<1>13. CASE AckFails(w) BY <1>0, <1>13 DEF AckFails, Fault
<1>14. CASE Crash(w) BY <1>0, <1>14 DEF Crash, Fault
<1>15. CASE Restart(w) BY <1>0, <1>15 DEF Restart
<1>16. QED
  BY <1>1, <1>2, <1>3, <1>4, <1>5, <1>6, <1>7, <1>8, <1>9, <1>10, <1>11,
     <1>12, <1>13, <1>14, <1>15 DEF WorkerStep, WorkerFault

\* What a publishing worker publishes is an event of a run it has in hand.
LEMMA NextEventType ==
  ASSUME IInv, NEW w \in Workers, pc[w] \in Publishing
  PROVE  /\ job[w] \in Runs
         /\ todo[w] # <<>> /\ todo[w] \in Seq(EventTypes)
         /\ [type |-> Head(todo[w]), seq |-> seq[w]] \in Event
         /\ seq[w] = Len(events[job[w]])
         /\ ~Ended(job[w])
<1>1. WorkerTypeOK /\ HandlingInv BY DEF IInv, TypeOK
<1>2. job[w] \in Runs
  BY <1>1 DEF HandlingInv, HandsMatchProgram, WorkerTypeOK, Publishing, Holding, PCs
<1>3. todo[w] # <<>> /\ todo[w] \in Seq(EventTypes)
  <2>1. CASE pc[w] = "starting"
    <3>1. todo[w] = <<"started">> BY <1>1, <2>1 DEF HandlingInv, TodoMatchesProgram
    <3>2. <<"started">> # <<>> OBVIOUS
    <3>3. QED BY <3>1, <3>2, ErrorClosesOnce
  <2>2. CASE pc[w] \in {"reporting", "failing"}
    <3>1. ClosesOnce(todo[w]) BY <1>1, <2>2 DEF HandlingInv, TodoMatchesProgram
    <3>2. todo[w] # <<>> BY <3>1 DEF ClosesOnce
    <3>3. todo[w] \in Seq(EventTypes) BY <1>1 DEF WorkerTypeOK
    <3>4. QED BY <3>2, <3>3
  <2>3. QED BY <2>1, <2>2 DEF Publishing
<1>4. Head(todo[w]) \in EventTypes BY <1>3, HeadTailProperties
<1>5. [type |-> Head(todo[w]), seq |-> seq[w]] \in Event
  BY <1>1, <1>4 DEF WorkerTypeOK, Event
<1>6. QED BY <1>1, <1>2, <1>3, <1>5 DEF HandlingInv, LogOpenWhileHandled

\* Every step of a worker leaves queue_redis.py's state well typed.
LEMMA WorkerStepQueueType ==
  ASSUME IInv, NEW w \in Workers, WorkerStep(w) \/ WorkerFault(w)
  PROVE  QueueTypeOK'
<1>0. QueueTypeOK /\ WorkerTypeOK /\ HandlingInv BY DEF IInv, TypeOK
<1>1. CASE pc[w] \in Publishing /\ (Emit(w) \/ EmitFails(w))
  <2>1. CASE Publish(job[w], [type |-> Head(todo[w]), seq |-> seq[w]])
    BY <1>0, <1>1, <2>1, NextEventType, PublishType
  <2>2. CASE UNCHANGED queueVars
    BY <1>0, <2>2 DEF QueueTypeOK, queueVars
  <2>3. QED BY <1>1, <2>1, <2>2 DEF Emit, EmitFails
<1>2. CASE Consume(w)
  BY <1>0, <1>2, OtherQueueOpsType DEF Consume
<1>3. CASE Reclaim(w)
  BY <1>0, <1>3 DEF Reclaim, QueueTypeOK, ReclaimStalled
<1>4. CASE Ack(w) \/ AckFails(w) \/ DeadLetter(w) \/ AckDead(w)
  <2>1. job[w] \in Runs
    BY <1>0, <1>4 DEF HandlingInv, HandsMatchProgram, WorkerTypeOK, Holding, PCs,
                      Ack, AckFails, DeadLetter, AckDead
  <2>2. AckEntry(job[w]) \/ DeadLetterEntry(job[w]) \/ UNCHANGED queueVars
    BY <1>4 DEF Ack, AckFails, DeadLetter, AckDead
  <2>3. QED BY <1>0, <2>1, <2>2, OtherQueueOpsType
<1>5. CASE UNCHANGED queueVars
  BY <1>0, <1>5 DEF QueueTypeOK, queueVars
<1>6. QED
  BY <1>1, <1>2, <1>3, <1>4, <1>5
  DEF WorkerStep, WorkerFault, Emit, EmitFails, ConsumeNothing, Expire, Start,
      GraphReturns, GraphFails, Crash, Restart

-----------------------------------------------------------------------------
\* A step of worker w that leaves the logs alone and only shortens its own hold:
\* it moves within the loop, lets go of its job, or turns to the next stretch.
LEMMA HandlingKept ==
  ASSUME IInv, NEW w \in Workers, NEW p \in PCs,
         UNCHANGED <<events, delivered>>,
         pc' = [pc EXCEPT ![w] = p],
         \/ p \in Holding /\ pc[w] \in Holding /\ UNCHANGED job
         \/ p \notin Holding /\ job' = [job EXCEPT ![w] = NoRun] /\ seq'[w] = 0,
         \A v \in Workers \ {w} : todo'[v] = todo[v] /\ seq'[v] = seq[v],
         p = "starting" => todo'[w] = <<"started">>,
         p \in {"reporting", "failing"} => ClosesOnce(todo'[w]),
         p \in {"picked", "running"} \cup Publishing =>
           /\ pc[w] \in {"picked", "running"} \cup Publishing
           /\ seq'[w] = seq[w]
  PROVE  HandlingInv'
<1> USE DEF WorkerTypeOK
<1>0. WorkerTypeOK /\ HandlingInv BY DEF IInv, TypeOK
<1>1. /\ pc'[w] = p
      /\ \A v \in Workers \ {w} : pc'[v] = pc[v] /\ job'[v] = job[v]
      /\ job'[w] = job[w] \/ job'[w] = NoRun
      /\ p \in Holding <=> job'[w] # NoRun
  BY <1>0 DEF HandlingInv, HandsMatchProgram
<1>2. OneHandler'
  <2> SUFFICES ASSUME NEW u \in Workers, NEW v \in Workers,
                      job'[u] = job'[v], job'[u] # NoRun
               PROVE  u = v
    BY DEF OneHandler
  <2>1. job'[u] = job[u] BY <1>1
  <2>2. job'[v] = job[v] BY <1>1
  <2>3. QED BY <1>0, <2>1, <2>2 DEF HandlingInv, OneHandler
<1>3. HandsMatchProgram' BY <1>0, <1>1 DEF HandlingInv, HandsMatchProgram
<1>4. TodoMatchesProgram'
  BY <1>0, <1>1 DEF HandlingInv, TodoMatchesProgram, ClosesOnce
<1>5. LogOpenWhileHandled'
  <2>1. ASSUME NEW v \in Workers, pc'[v] \in {"picked", "running"} \cup Publishing
        PROVE  seq'[v] = Len(events[job'[v]]) /\ ~Ended(job'[v])
    <3>1. pc[v] \in {"picked", "running"} \cup Publishing /\ seq'[v] = seq[v]
      BY <1>1, <2>1
    <3>2. job'[v] = job[v]
      BY <1>0, <1>1, <2>1 DEF Holding, Publishing, PCs
    <3>3. QED BY <1>0, <3>1, <3>2 DEF HandlingInv, LogOpenWhileHandled
  <2>2. QED BY <2>1 DEF LogOpenWhileHandled, Ended, IsTerminal
<1>6. UndeliveredLogEmpty' /\ EventLogOrdered'
  BY <1>0 DEF HandlingInv, UndeliveredLogEmpty, EventLogOrdered, IsTerminal
<1>7. QED BY <1>2, <1>3, <1>4, <1>5, <1>6 DEF HandlingInv

\* Taking a delivered job in hand: nobody else holds it, and its log is empty.
LEMMA HandlingConsume ==
  ASSUME IInv, NEW w \in Workers, Consume(w)
  PROVE  HandlingInv'
<1>0. WorkerTypeOK /\ QueueTypeOK /\ HandlingInv BY DEF IInv, TypeOK
<1>1. PICK r \in Runs : Deliver(w, r) /\ job' = [job EXCEPT ![w] = r]
  BY DEF Consume
<1>2. /\ r \notin delivered
      /\ delivered' = delivered \cup {r}
      /\ UNCHANGED <<events, seq, todo>>
  BY <1>1 DEF Deliver, IsNextEntry, Consume
<1>3. /\ pc[w] = "consume" /\ pc'[w] = "picked"
      /\ job'[w] = r
      /\ \A v \in Workers \ {w} : pc'[v] = pc[v] /\ job'[v] = job[v]
  BY <1>0, <1>1 DEF Consume, Goto, WorkerTypeOK
<1>4. r # NoRun BY WorkerAssumption
<1>5. \A v \in Workers : job[v] # r
  BY <1>0, <1>2, <1>4 DEF HandlingInv, HandsMatchProgram
<1>6. OneHandler'
  <2> SUFFICES ASSUME NEW u \in Workers, NEW v \in Workers,
                      job'[u] = job'[v], job'[u] # NoRun
               PROVE  u = v
    BY DEF OneHandler
  <2>1. CASE u = w \/ v = w BY <1>3, <1>5, <2>1
  <2>2. CASE u # w /\ v # w BY <1>0, <1>3, <2>2 DEF HandlingInv, OneHandler
  <2>3. QED BY <2>1, <2>2
<1>7. HandsMatchProgram'
  <2> SUFFICES ASSUME NEW v \in Workers
               PROVE  /\ pc'[v] \in Holding <=> job'[v] # NoRun
                      /\ IF job'[v] = NoRun THEN seq'[v] = 0 ELSE job'[v] \in delivered'
    BY DEF HandsMatchProgram
  <2>1. CASE v = w BY <1>2, <1>3, <1>4, <2>1 DEF Holding, PCs
  <2>2. CASE v # w BY <1>0, <1>2, <1>3, <2>2 DEF HandlingInv, HandsMatchProgram
  <2>3. QED BY <2>1, <2>2
<1>8. TodoMatchesProgram'
  <2> SUFFICES ASSUME NEW v \in Workers
               PROVE  /\ pc'[v] = "starting" => todo[v] = <<"started">>
                      /\ pc'[v] \in {"reporting", "failing"} => ClosesOnce(todo[v])
    BY <1>2 DEF TodoMatchesProgram, ClosesOnce
  <2>1. CASE v = w BY <1>3, <2>1
  <2>2. CASE v # w BY <1>0, <1>3, <2>2 DEF HandlingInv, TodoMatchesProgram
  <2>3. QED BY <2>1, <2>2
<1>9. LogOpenWhileHandled'
  <2> SUFFICES ASSUME NEW v \in Workers, pc'[v] \in {"picked", "running"} \cup Publishing
               PROVE  seq[v] = Len(events[job'[v]]) /\ ~Ended(job'[v])
    BY <1>2 DEF LogOpenWhileHandled, Ended, IsTerminal
  <2>1. CASE v = w
    <3>1. events[r] = <<>> BY <1>0, <1>2 DEF HandlingInv, UndeliveredLogEmpty
    <3>2. seq[w] = 0
      BY <1>0, <1>3 DEF HandlingInv, HandsMatchProgram, Holding
    <3>3. Len(<<>>) = 0 /\ DOMAIN <<>> = {} OBVIOUS
    <3>4. ~Ended(r) BY <3>1, <3>3 DEF Ended
    <3>5. QED BY <1>3, <2>1, <3>1, <3>2, <3>3, <3>4
  <2>2. CASE v # w BY <1>0, <1>3, <2>2 DEF HandlingInv, LogOpenWhileHandled
  <2>3. QED BY <2>1, <2>2
<1>10. UndeliveredLogEmpty' /\ EventLogOrdered'
  BY <1>0, <1>2 DEF HandlingInv, UndeliveredLogEmpty, EventLogOrdered, IsTerminal
<1>11. QED BY <1>6, <1>7, <1>8, <1>9, <1>10 DEF HandlingInv

-----------------------------------------------------------------------------
\* A stretch that ends with its only terminal event still does once its first
\* event is published, and that event was not the terminal one.
LEMMA TailClosesOnce ==
  ASSUME NEW s \in Seq(EventTypes), ClosesOnce(s), Tail(s) # <<>>
  PROVE  ClosesOnce(Tail(s)) /\ Head(s) \notin TerminalTypes
<1>1. s # <<>> /\ \A i \in DOMAIN s : s[i] \in TerminalTypes <=> i = Len(s)
  BY DEF ClosesOnce
<1>2. /\ Tail(s) \in Seq(EventTypes)
      /\ Len(Tail(s)) = Len(s) - 1
      /\ Head(s) = s[1]
      /\ \A i \in 1 .. Len(Tail(s)) : Tail(s)[i] = s[i + 1]
  BY <1>1, HeadTailProperties
<1>3. DOMAIN s = 1 .. Len(s) /\ Len(s) \in Nat
  BY LenProperties
<1>4. DOMAIN Tail(s) = 1 .. Len(Tail(s)) /\ Len(Tail(s)) \in Nat
  BY <1>2, LenProperties
<1>5. Len(Tail(s)) # 0
  BY <1>2, EmptySeq
<1>6. \A i \in 1 .. Len(Tail(s)) : Tail(s)[i] \in TerminalTypes <=> i = Len(Tail(s))
  <2> SUFFICES ASSUME NEW i \in 1 .. Len(Tail(s))
               PROVE  Tail(s)[i] \in TerminalTypes <=> i = Len(Tail(s))
    OBVIOUS
  <2>1. i + 1 \in 1 .. Len(s) BY <1>2, <1>3, <1>4
  <2>2. s[i + 1] \in TerminalTypes <=> i + 1 = Len(s) BY <1>1, <1>3, <2>1
  <2>3. i + 1 = Len(s) <=> i = Len(Tail(s)) BY <1>2, <1>3
  <2>4. QED BY <1>2, <2>2, <2>3
<1>7. Head(s) \notin TerminalTypes
  <2>1. 1 \in 1 .. Len(s) /\ 1 # Len(s) BY <1>2, <1>3, <1>4, <1>5
  <2>2. QED BY <1>1, <1>2, <1>3, <2>1
<1>8. QED BY <1>4, <1>6, <1>7 DEF ClosesOnce

\* Publishing, whether handle goes on to the next event or the call failed
\* after its XADD: only w's own log and counter change, and w either goes on
\* with an open log or has left handle.
LEMMA HandlingPublished ==
  ASSUME IInv, NEW w \in Workers, NEW p \in Holding,
         pc[w] \in Publishing,
         Publish(job[w], [type |-> Head(todo[w]), seq |-> seq[w]]),
         pc' = [pc EXCEPT ![w] = p],
         UNCHANGED job,
         \A v \in Workers \ {w} : todo'[v] = todo[v] /\ seq'[v] = seq[v],
         p = "starting" => todo'[w] = <<"started">>,
         p \in {"reporting", "failing"} => ClosesOnce(todo'[w]),
         p \in {"picked", "running"} \cup Publishing =>
           seq'[w] = seq[w] + 1 /\ Head(todo[w]) \notin TerminalTypes
  PROVE  HandlingInv'
<1>0. WorkerTypeOK /\ QueueTypeOK /\ HandlingInv BY DEF IInv, TypeOK
<1>r. PICK r \in Runs : r = job[w] BY NextEventType
<1>e. PICK e \in Event : e = [type |-> Head(todo[w]), seq |-> seq[w]]
  BY NextEventType
<1>1. /\ ~Ended(r) /\ e.seq = Len(events[r]) /\ seq[w] = Len(events[r])
      /\ IsTerminal(e) <=> Head(todo[w]) \in TerminalTypes
  BY NextEventType, <1>r, <1>e DEF IsTerminal
<1>2. EventLogOrdered BY <1>0 DEF HandlingInv
<1>3. /\ EventLogOrdered'
      /\ Len(events'[r]) = Len(events[r]) + 1
      /\ Ended(r)' <=> IsTerminal(e)
      /\ \A q \in Runs \ {r} : events'[q] = events[q]
  BY <1>0, <1>1, <1>2, <1>r, <1>e, PublishExtendsLog
<1>4. /\ pc'[w] = p
      /\ \A v \in Workers \ {w} : pc'[v] = pc[v]
      /\ delivered' = delivered
  BY <1>0 DEF WorkerTypeOK, Publish
<1>5. pc[w] \in Holding /\ r # NoRun /\ r \in delivered
  BY <1>0, <1>r, WorkerAssumption
  DEF HandlingInv, HandsMatchProgram, Publishing, Holding, PCs
<1>6. \A v \in Workers \ {w} : job[v] # r
  BY <1>0, <1>5, <1>r DEF HandlingInv, OneHandler
<1>7. OneHandler' BY <1>0 DEF HandlingInv, OneHandler
<1>8. HandsMatchProgram'
  <2> SUFFICES ASSUME NEW v \in Workers
               PROVE  /\ pc'[v] \in Holding <=> job[v] # NoRun
                      /\ IF job[v] = NoRun THEN seq'[v] = 0 ELSE job[v] \in delivered
    BY <1>4 DEF HandsMatchProgram
  <2>1. CASE v = w BY <1>4, <1>5, <1>r, <2>1
  <2>2. CASE v # w BY <1>0, <1>4, <2>2 DEF HandlingInv, HandsMatchProgram
  <2>3. QED BY <2>1, <2>2
<1>9. TodoMatchesProgram'
  <2> SUFFICES ASSUME NEW v \in Workers
               PROVE  /\ pc'[v] = "starting" => todo'[v] = <<"started">>
                      /\ pc'[v] \in {"reporting", "failing"} => ClosesOnce(todo'[v])
    BY DEF TodoMatchesProgram, ClosesOnce
  <2>1. CASE v = w BY <1>4, <2>1
  <2>2. CASE v # w BY <1>0, <1>4, <2>2 DEF HandlingInv, TodoMatchesProgram
  <2>3. QED BY <2>1, <2>2
<1>10. LogOpenWhileHandled'
  <2> SUFFICES ASSUME NEW v \in Workers, pc'[v] \in {"picked", "running"} \cup Publishing
               PROVE  seq'[v] = Len(events'[job'[v]]) /\ ~Ended(job[v])'
    BY DEF LogOpenWhileHandled, Ended, IsTerminal
  <2>1. CASE v = w
    <3>1. ~IsTerminal(e) BY <1>1, <1>4, <2>1
    <3>2. seq'[w] = seq[w] + 1 BY <1>4, <2>1
    <3>3. job'[w] = r BY <1>r
    <3>4. ~Ended(job[w])' BY <1>3, <3>1, <3>3 DEF Ended, IsTerminal
    <3>5. QED BY <1>1, <1>3, <2>1, <3>2, <3>3, <3>4
  <2>2. CASE v # w
    <3>1. pc[v] \in {"picked", "running"} \cup Publishing BY <1>4, <2>2
    <3>2. job[v] \in Runs \ {r}
      BY <1>0, <1>6, <2>2, <3>1
      DEF HandlingInv, HandsMatchProgram, WorkerTypeOK, Publishing, Holding, PCs
    <3>3. events'[job[v]] = events[job[v]] BY <1>3, <3>2
    <3>4. seq[v] = Len(events[job[v]]) /\ ~Ended(job[v])
      BY <1>0, <3>1 DEF HandlingInv, LogOpenWhileHandled
    <3>5. job'[v] = job[v] OBVIOUS
    <3>6. QED BY <2>2, <3>3, <3>4, <3>5 DEF Ended, IsTerminal
  <2>3. QED BY <2>1, <2>2
<1>11. UndeliveredLogEmpty'
  BY <1>0, <1>3, <1>4, <1>5 DEF HandlingInv, UndeliveredLogEmpty
<1>12. QED BY <1>3, <1>7, <1>8, <1>9, <1>10, <1>11 DEF HandlingInv

-----------------------------------------------------------------------------
\* Every step and every fault of a worker keeps its program, its hands, its
\* counter and the logs in agreement.
LEMMA WorkerStepHandling ==
  ASSUME IInv, NEW w \in Workers, WorkerStep(w) \/ WorkerFault(w)
  PROVE  HandlingInv'
<1> USE DEF Goto, Holding, PCs, Publishing
<1>0. WorkerTypeOK /\ QueueTypeOK /\ HandlingInv BY DEF IInv, TypeOK
<1>1. pc[w] \in Holding <=> job[w] # NoRun
  BY <1>0 DEF HandlingInv, HandsMatchProgram
<1>2. job[w] = NoRun => seq[w] = 0
  BY <1>0 DEF HandlingInv, HandsMatchProgram
<1>3. CASE Reclaim(w)
  <2>1. job[w] = NoRun BY <1>1, <1>3 DEF Reclaim
  <2>2. job' = [job EXCEPT ![w] = NoRun] BY <1>0, <1>3, <2>1 DEF Reclaim, WorkerTypeOK
  <2>3. QED BY <1>2, <1>3, <2>1, <2>2, HandlingKept DEF Reclaim, ReclaimStalled
<1>4. CASE Consume(w) BY <1>4, HandlingConsume
<1>5. CASE ConsumeNothing(w)
  <2>1. job[w] = NoRun BY <1>1, <1>5 DEF ConsumeNothing
  <2>2. job' = [job EXCEPT ![w] = NoRun]
    BY <1>0, <1>5, <2>1 DEF ConsumeNothing, WorkerTypeOK
  <2>3. QED BY <1>2, <1>5, <2>1, <2>2, HandlingKept DEF ConsumeNothing, queueVars
<1>6. CASE Expire(w)
  <2>1. todo'[w] = <<"error">> /\ \A v \in Workers \ {w} : todo'[v] = todo[v]
    BY <1>0, <1>6 DEF Expire, WorkerTypeOK
  <2>2. QED BY <1>6, <2>1, ErrorClosesOnce, HandlingKept DEF Expire, queueVars
<1>7. CASE Start(w)
  <2>1. todo'[w] = <<"started">> /\ \A v \in Workers \ {w} : todo'[v] = todo[v]
    BY <1>0, <1>7 DEF Start, WorkerTypeOK
  <2>2. QED BY <1>7, <2>1, HandlingKept DEF Start, queueVars
<1>8. CASE Emit(w)
  <2>1. /\ pc[w] \in Publishing
        /\ Publish(job[w], [type |-> Head(todo[w]), seq |-> seq[w]])
        /\ todo[w] \in Seq(EventTypes) /\ todo[w] # <<>>
    BY <1>8, NextEventType DEF Emit
  <2>2. /\ seq'[w] = seq[w] + 1 /\ todo'[w] = Tail(todo[w])
        /\ \A v \in Workers \ {w} : todo'[v] = todo[v] /\ seq'[v] = seq[v]
        /\ UNCHANGED job
    BY <1>0, <1>8 DEF Emit, WorkerTypeOK
  <2>3. pc[w] = "starting" => todo[w] = <<"started">>
    BY <1>0 DEF HandlingInv, TodoMatchesProgram
  <2>4. Tail(<<"started">>) = <<>> /\ Head(<<"started">>) = "started" OBVIOUS
  <2>5. pc[w] \in {"reporting", "failing"} => ClosesOnce(todo[w])
    BY <1>0 DEF HandlingInv, TodoMatchesProgram
  <2>6. CASE Tail(todo[w]) = <<>>
    <3> DEFINE p == After(pc[w])
    <3>1. /\ pc[w] = "starting" => p = "running"
          /\ pc[w] = "reporting" => p = "acking"
          /\ pc[w] = "failing" => p = "burying"
      BY DEF After
    <3>2. pc' = [pc EXCEPT ![w] = p] BY <1>8, <2>6 DEF Emit
    <3>3. p \in Holding BY <2>1, <3>1
    <3>4. p \notin Publishing \cup {"picked"} BY <2>1, <3>1
    <3>5. p = "running" => Head(todo[w]) \notin TerminalTypes
      BY <2>1, <2>3, <2>4, <3>1 DEF TerminalTypes
    <3> HIDE DEF p
    <3>6. QED BY <2>1, <2>2, <3>2, <3>3, <3>4, <3>5, HandlingPublished
  <2>7. CASE Tail(todo[w]) # <<>>
    <3>1. pc[w] # "starting" BY <2>3, <2>4, <2>7
    <3>2. ClosesOnce(Tail(todo[w])) /\ Head(todo[w]) \notin TerminalTypes
      BY <2>1, <2>5, <2>7, <3>1, TailClosesOnce
    <3>3. pc' = [pc EXCEPT ![w] = pc[w]] /\ pc[w] \in Holding
      BY <1>8, <2>1, <2>7 DEF Emit
    <3>4. QED
      <4>1. PICK p \in Holding : p = pc[w] BY <3>3
      <4>2. pc' = [pc EXCEPT ![w] = p] BY <3>3, <4>1
      <4>3. QED BY <2>1, <2>2, <3>1, <3>2, <4>1, <4>2, HandlingPublished
  <2>8. QED BY <2>6, <2>7
<1>9. CASE EmitFails(w)
  <2>1. pc' = [pc EXCEPT ![w] = "burying"] /\ pc[w] \in Publishing
    BY <1>9 DEF EmitFails
  <2>2. UNCHANGED <<job, seq>> /\ \A v \in Workers \ {w} : todo'[v] = todo[v]
    BY <1>0, <1>9 DEF EmitFails, WorkerTypeOK
  <2>3. CASE UNCHANGED queueVars
    BY <2>1, <2>2, <2>3, HandlingKept DEF queueVars
  <2>4. CASE Publish(job[w], [type |-> Head(todo[w]), seq |-> seq[w]])
    BY <2>1, <2>2, <2>4, HandlingPublished
  <2>5. QED BY <1>9, <2>3, <2>4 DEF EmitFails
<1>10. CASE GraphReturns(w)
  <2>1. PICK report \in Reports : todo' = [todo EXCEPT ![w] = report]
    BY <1>10 DEF GraphReturns
  <2>2. todo'[w] = report /\ \A v \in Workers \ {w} : todo'[v] = todo[v]
    BY <1>0, <2>1 DEF WorkerTypeOK
  <2>3. QED BY <1>10, <2>2, ReportsCloseOnce, HandlingKept DEF GraphReturns, queueVars
<1>11. CASE GraphFails(w)
  <2>1. todo'[w] = <<"error">> /\ \A v \in Workers \ {w} : todo'[v] = todo[v]
    BY <1>0, <1>11 DEF GraphFails, WorkerTypeOK
  <2>2. QED BY <1>11, <2>1, ErrorClosesOnce, HandlingKept DEF GraphFails, queueVars
<1>12. CASE AckFails(w) \/ DeadLetter(w)
  <2>1. UNCHANGED <<events, delivered, job, seq, todo>>
    BY <1>12 DEF AckFails, DeadLetter, AckEntry, DeadLetterEntry, queueVars
  <2>2. QED
    <3>1. CASE AckFails(w) BY <2>1, <3>1, HandlingKept DEF AckFails
    <3>2. CASE DeadLetter(w) BY <2>1, <3>2, HandlingKept DEF DeadLetter
    <3>3. QED BY <1>12, <3>1, <3>2
<1>13. CASE Ack(w) \/ AckDead(w) \/ Crash(w)
  <2>1. UNCHANGED <<events, delivered>>
    BY <1>13 DEF Ack, AckDead, Crash, AckEntry, queueVars
  <2>2. /\ job' = [job EXCEPT ![w] = NoRun] /\ seq'[w] = 0
        /\ \A v \in Workers \ {w} : todo'[v] = todo[v] /\ seq'[v] = seq[v]
    BY <1>0, <1>13 DEF Ack, AckDead, Crash, LetGo, WorkerTypeOK
  <2>3. PICK p \in {"reclaim", "down"} : pc' = [pc EXCEPT ![w] = p]
    BY <1>13 DEF Ack, AckDead, Crash
  <2>4. QED BY <2>1, <2>2, <2>3, HandlingKept
<1>14. CASE Restart(w)
  <2>1. job[w] = NoRun BY <1>1, <1>14 DEF Restart
  <2>2. job' = [job EXCEPT ![w] = NoRun] BY <1>0, <1>14, <2>1 DEF Restart, WorkerTypeOK
  <2>3. QED BY <1>2, <1>14, <2>1, <2>2, HandlingKept DEF Restart, queueVars
<1>15. QED
  BY <1>3, <1>4, <1>5, <1>6, <1>7, <1>8, <1>9, <1>10, <1>11, <1>12, <1>13, <1>14
  DEF WorkerStep, WorkerFault

-----------------------------------------------------------------------------
\* Nothing is queued, published or in hand to begin with.
LEMMA InitIInv == ASSUME Init PROVE IInv
<1> USE QueueAssumption, WorkerAssumption DEF Init, QueueInit, WorkerInit, ClientInit
<1>1. QueueTypeOK
  BY DEF QueueTypeOK
<1>2. WorkerTypeOK
  BY DEF WorkerTypeOK, PCs
<1>3. TypeOK
  BY <1>1, <1>2 DEF TypeOK, ClientStates
<1>4. DOMAIN <<>> = {} OBVIOUS
<1>5. HandlingInv
  BY <1>4 DEF HandlingInv, OneHandler, HandsMatchProgram, TodoMatchesProgram,
     LogOpenWhileHandled, UndeliveredLogEmpty, EventLogOrdered, Holding, Publishing
<1>6. QED BY <1>3, <1>5 DEF IInv

\* The induction step: callers' steps and the clock leave the workers alone, and
\* the workers leave the callers alone.
LEMMA StepIInv == ASSUME IInv, [Next]_vars PROVE IInv'
<1> USE DEF clientVars, workerVars
<1>0. TypeOK /\ QueueTypeOK /\ WorkerTypeOK /\ HandlingInv BY DEF IInv, TypeOK
<1>1. ASSUME NEW r \in Runs, Refuse(r) \/ Admit(r) PROVE IInv'
  <2>1. UNCHANGED <<queueVars, workerVars>> BY <1>1 DEF Refuse, Admit
  <2>2. TypeOK'
    BY <1>0, <1>1, <2>1 DEF TypeOK, QueueTypeOK, WorkerTypeOK, queueVars,
       Refuse, Admit, Become, ClientStates
  <2>3. HandlingInv' BY <1>0, <2>1, HandlingUntouched DEF queueVars
  <2>4. QED BY <2>2, <2>3 DEF IInv
<1>2. ASSUME NEW r \in Runs, Submit(r) PROVE IInv'
  <2>1. QueueTypeOK' BY <1>0, <1>2, EnqueueType DEF Submit
  <2>2. TypeOK'
    BY <1>0, <1>2, <2>1 DEF TypeOK, WorkerTypeOK, Submit, Become, ClientStates
  <2>3. HandlingInv' BY <1>0, <1>2, HandlingUntouched DEF Submit, Enqueue
  <2>4. QED BY <2>2, <2>3 DEF IInv
<1>3. ASSUME NEW r \in Runs, Hear(r) PROVE IInv'
  <2>1. UNCHANGED <<queueVars, workerVars, surface>> BY <1>3 DEF Hear
  <2>2. QueueTypeOK' /\ WorkerTypeOK'
    BY <1>0, <2>1 DEF QueueTypeOK, WorkerTypeOK, queueVars
  <2>3. client' \in [Runs -> ClientStates]
    BY <1>0, <1>3 DEF TypeOK, Hear, Become, ClientStates, Closed
  <2>4. told' \in [Runs -> BOOLEAN]
    <3>1. \E b \in BOOLEAN : told' = [told EXCEPT ![r] = b]
      BY <1>0, <1>3 DEF TypeOK, Hear
    <3>2. QED BY <1>0, <3>1 DEF TypeOK
  <2>5. cursor' \in [Runs -> Nat] BY <1>0, <1>3 DEF TypeOK, Hear
  <2>6. HandlingInv' BY <1>0, <2>1, HandlingUntouched DEF queueVars
  <2>7. QED BY <1>0, <2>1, <2>2, <2>3, <2>4, <2>5, <2>6 DEF IInv, TypeOK
<1>4. ASSUME NEW r \in Runs, GiveUp(r) \/ HangUp(r) PROVE IInv'
  <2>1. UNCHANGED <<queueVars, workerVars, surface, cursor>> BY <1>4 DEF GiveUp, HangUp
  <2>2. QueueTypeOK' /\ WorkerTypeOK'
    BY <1>0, <2>1 DEF QueueTypeOK, WorkerTypeOK, queueVars
  <2>3. client' \in [Runs -> ClientStates]
    BY <1>0, <1>4 DEF TypeOK, GiveUp, HangUp, Become, ClientStates, Closed
  <2>4. told' \in [Runs -> BOOLEAN]
    <3>1. \E b \in BOOLEAN : told' = [told EXCEPT ![r] = b]
      BY <1>0, <1>4 DEF TypeOK, GiveUp, HangUp
    <3>2. QED BY <1>0, <3>1 DEF TypeOK
  <2>5. HandlingInv' BY <1>0, <2>1, HandlingUntouched DEF queueVars
  <2>6. QED BY <1>0, <2>1, <2>2, <2>3, <2>4, <2>5 DEF IInv, TypeOK
<1>5. ASSUME NEW w \in Workers, AgentStep(w) \/ AgentFault(w) PROVE IInv'
  <2>1. WorkerStep(w) \/ WorkerFault(w) BY <1>5 DEF AgentStep, AgentFault
  <2>2. UNCHANGED clientVars BY <1>5 DEF AgentStep, AgentFault
  <2>3. QueueTypeOK' /\ WorkerTypeOK' /\ HandlingInv'
    BY <2>1, WorkerStepQueueType, WorkerStepType, WorkerStepHandling
  <2>4. QED BY <1>0, <2>2, <2>3 DEF IInv, TypeOK
<1>6. ASSUME Tick PROVE IInv'
  <2>1. age' \in [Runs -> 0 .. JobTimeout + 1]
    BY <1>0, <1>6, QueueAssumption DEF QueueTypeOK, Tick, Late
  <2>2. elapsed' \in [Workers -> 0 .. RunTimeout]
    BY <1>0, <1>6, WorkerAssumption DEF WorkerTypeOK, Tick
  <2>3. TypeOK'
    BY <1>0, <1>6, <2>1, <2>2 DEF TypeOK, QueueTypeOK, WorkerTypeOK, Tick
  <2>4. HandlingInv' BY <1>0, <1>6, HandlingUntouched DEF Tick
  <2>5. QED BY <2>3, <2>4 DEF IInv
<1>7. CASE UNCHANGED vars
  <2>1. TypeOK'
    BY <1>0, <1>7 DEF TypeOK, QueueTypeOK, WorkerTypeOK, vars, queueVars
  <2>2. HandlingInv' BY <1>0, <1>7, HandlingUntouched DEF vars, queueVars
  <2>3. QED BY <2>1, <2>2 DEF IInv
<1>8. QED
  BY <1>1, <1>2, <1>3, <1>4, <1>5, <1>6, <1>7 DEF Next, ClientStep

\* TypeOK and HandlingInv hold of every behaviour, faults included, for any
\* number of runs and workers and any bounds.
THEOREM Invariance == Spec => []IInv
<1>1. Init => IInv BY InitIInv
<1>2. IInv /\ [Next]_vars => IInv' BY StepIInv
<1>3. QED BY <1>1, <1>2, PTL DEF Spec

\* Type correctness of the pipeline.
THEOREM TypeCorrect == Spec => []TypeOK
<1>1. IInv => TypeOK BY DEF IInv
<1>2. QED BY <1>1, Invariance, PTL

\* No crash, reclaim or restart ever puts one job in two workers' hands.
THEOREM AtMostOneHandler == Spec => []OneHandler
<1>1. IInv => OneHandler BY DEF IInv, HandlingInv
<1>2. QED BY <1>1, Invariance, PTL

\* Every run's event stream is numbered without gaps and holds at most one
\* terminal event, in last place, whichever publishes fail.
THEOREM LogsAreOrdered == Spec => []EventLogOrdered
<1>1. IInv => EventLogOrdered BY DEF IInv, HandlingInv
<1>2. QED BY <1>1, Invariance, PTL

-----------------------------------------------------------------------------
\* The refinement of TurnLifecycle.

Unsent == {"new", "refused", "admitted"}

\* What has not been sent is neither in the stream nor has it been delivered
\* (enqueue is the only XADD on jobs:chat, and comes after the admission check).
SentInv ==
  \A r \in Runs : client[r] \in Unsent => ~InStream(r) /\ r \notin delivered

LInv == IInv /\ SentInv

\* A step that leaves a run's position alone leaves its stage alone.
LEMMA SamePositionSameStage ==
  ASSUME NEW r \in Runs,
         (client[r] \in Unsent)' <=> (client[r] \in Unsent),
         (r \in delivered)' <=> (r \in delivered),
         InStream(r)' <=> InStream(r),
         Held(r)' <=> Held(r),
         (owner[r] = NoWorker)' <=> (owner[r] = NoWorker)
  PROVE  StageOf(r)' = StageOf(r)
BY DEF StageOf, Unsent

\* XADD with trimming: the new entry is in the stream, and every other entry
\* was in it before.
LEMMA EnqueueStream ==
  ASSUME QueueTypeOK, NEW r \in Runs, Enqueue(r)
  PROVE  InStream(r)' /\ \A q \in Runs \ {r} : InStream(q)' => InStream(q)
<1> DEFINE longer == Append(stream, r)
<1>1. stream \in Seq(Runs) BY DEF QueueTypeOK
<1>2. PICK k \in 0 .. Len(stream) : stream' = SubSeq(longer, k + 1, Len(longer))
  BY DEF Enqueue
<1>3. /\ longer \in Seq(Runs) /\ Len(longer) = Len(stream) + 1
      /\ \A i \in 1 .. Len(stream) : longer[i] = stream[i]
      /\ longer[Len(stream) + 1] = r
      /\ Len(stream) \in Nat
  BY <1>1, AppendProperties, LenProperties
<1> HIDE DEF longer
<1>4. \A i \in k + 1 .. Len(longer) : longer[i] \in Runs
  BY <1>3, ElementOfSeq
<1>5. /\ Len(stream') = Len(longer) - k
      /\ DOMAIN stream' = 1 .. Len(longer) - k
      /\ \A i \in 1 .. Len(longer) - k : stream'[i] = longer[k + i]
  <2>1. k + 1 \in Nat /\ k + 1 <= Len(longer) BY <1>3
  <2>2. SubSeq(longer, k + 1, Len(longer)) =
          [i \in 1 .. Len(longer) - k |-> longer[k + i]]
    BY <1>3, <2>1
  <2>3. QED BY <1>2, <1>3, <2>2
<1>6. InStream(r)'
  <2>1. Len(longer) - k \in DOMAIN stream' BY <1>3, <1>5
  <2>2. stream'[Len(longer) - k] = longer[Len(longer)] BY <1>3, <1>5, <2>1
  <2>3. QED BY <1>3, <2>1, <2>2 DEF InStream
<1>7. ASSUME NEW q \in Runs \ {r}, InStream(q)' PROVE InStream(q)
  <2>1. PICK i \in DOMAIN stream' : stream'[i] = q BY <1>7 DEF InStream
  <2>2. k + i \in 1 .. Len(longer) /\ longer[k + i] = q BY <1>3, <1>5, <2>1
  <2>3. k + i \in 1 .. Len(stream) BY <1>3, <1>7, <2>2
  <2>4. k + i \in DOMAIN stream /\ stream[k + i] = q BY <1>1, <1>3, <2>2, <2>3
  <2>5. QED BY <2>4 DEF InStream
<1>8. QED BY <1>6, <1>7

-----------------------------------------------------------------------------
\* The queue is empty before anybody has sent anything.
LEMMA InitLInv == ASSUME Init PROVE LInv
<1>1. SentInv
  BY DEF Init, QueueInit, SentInv, InStream
<1>2. QED BY <1>1, InitIInv DEF LInv

\* No step sends a run without its caller's knowing.
LEMMA StepLInv == ASSUME LInv, [Next]_vars PROVE LInv'
<1>0. /\ IInv /\ SentInv /\ QueueTypeOK
      /\ client \in [Runs -> ClientStates]
  BY DEF LInv, IInv, TypeOK
<1>1. IInv' BY <1>0, StepIInv
<1>2. ASSUME UNCHANGED <<stream, delivered>>,
             \A r \in Runs : client'[r] \in Unsent => client[r] \in Unsent
      PROVE  SentInv'
  BY <1>0, <1>2 DEF SentInv, InStream
<1>3. ASSUME NEW r \in Runs, Submit(r) PROVE SentInv'
  <2>1. /\ \A q \in Runs \ {r} : InStream(q)' => InStream(q)
        /\ delivered' = delivered
    BY <1>0, <1>3, EnqueueStream DEF Submit, Enqueue
  <2>2. client'[r] = "waiting" /\ \A q \in Runs \ {r} : client'[q] = client[q]
    BY <1>0, <1>3 DEF Submit, Become
  <2>3. QED BY <1>0, <2>1, <2>2 DEF SentInv, Unsent
<1>4. ASSUME NEW w \in Workers, Consume(w), UNCHANGED clientVars PROVE SentInv'
  <2>1. PICK r \in Runs : Deliver(w, r) BY <1>4 DEF Consume
  <2>2. InStream(r) /\ delivered' = delivered \cup {r} /\ stream' = stream
    BY <2>1 DEF Deliver, InStream
  <2>3. QED BY <1>0, <1>4, <2>2 DEF SentInv, InStream, clientVars
<1>5. ASSUME NEW w \in Workers, WorkerStep(w) \/ WorkerFault(w), ~Consume(w)
      PROVE  UNCHANGED <<stream, delivered>>
  BY <1>5 DEF WorkerStep, WorkerFault, Reclaim, ReclaimStalled, ConsumeNothing, Expire,
     Start, Emit, Publish, EmitFails, GraphReturns, GraphFails, Ack, AckEntry, AckFails,
     DeadLetter, DeadLetterEntry, AckDead, Crash, Restart, queueVars
<1>6. ASSUME NEW r \in Runs,
             Refuse(r) \/ Admit(r) \/ Hear(r) \/ GiveUp(r) \/ HangUp(r)
      PROVE  /\ UNCHANGED <<stream, delivered>>
             /\ \A q \in Runs : client'[q] \in Unsent => client[q] \in Unsent
  <2>1. UNCHANGED <<stream, delivered>>
    BY <1>6 DEF Refuse, Admit, Hear, GiveUp, HangUp, queueVars
  <2>2. \A q \in Runs \ {r} : client'[q] = client[q]
    BY <1>0, <1>6 DEF Refuse, Admit, Hear, GiveUp, HangUp, Become
  <2>3. client'[r] \in Unsent => client[r] \in Unsent
    BY <1>0, <1>6 DEF Refuse, Admit, Hear, GiveUp, HangUp, Become, Unsent
  <2>4. QED BY <2>1, <2>2, <2>3
<1>7. ASSUME NEW w \in Workers, AgentStep(w) \/ AgentFault(w) PROVE SentInv'
  <2>1. (WorkerStep(w) \/ WorkerFault(w)) /\ UNCHANGED client
    BY <1>7 DEF AgentStep, AgentFault, clientVars
  <2>2. CASE Consume(w)
    BY <1>4, <1>7, <2>2 DEF AgentStep, AgentFault
  <2>3. CASE ~Consume(w) BY <1>2, <1>5, <2>1, <2>3
  <2>4. QED BY <2>2, <2>3
<1>8. ASSUME Tick \/ UNCHANGED vars PROVE SentInv'
  <2>1. UNCHANGED <<stream, delivered, client>>
    BY <1>8 DEF Tick, vars, queueVars, clientVars
  <2>2. QED BY <1>2, <2>1
<1>9. SentInv'
  BY <1>2, <1>3, <1>6, <1>7, <1>8 DEF Next, ClientStep
<1>10. QED BY <1>1, <1>9 DEF LInv

-----------------------------------------------------------------------------
\* The abstract state the pipeline maps to.
LStage == [r \in Runs |-> StageOf(r)]
LEnded == {r \in Runs : Ended(r)}

\* A step that changes no stage and ends no run is a stutter of the lifecycle.
LEMMA Stutters ==
  ASSUME \A r \in Runs : StageOf(r)' = StageOf(r),
         \A r \in Runs : Ended(r)' <=> Ended(r)
  PROVE  UNCHANGED <<LStage, LEnded>>
BY DEF LStage, LEnded

\* A step that takes the runs of one stage to another is a Move.
LEMMA Moves ==
  ASSUME NEW S \in SUBSET Runs, NEW from, NEW to,
         \A r \in S : StageOf(r) = from /\ StageOf(r)' = to,
         \A r \in Runs \ S : StageOf(r)' = StageOf(r),
         \A r \in Runs : Ended(r)' <=> Ended(r)
  PROVE  Lifecycle!Move(S, from, to)
<1>1. \A r \in S : LStage[r] = from BY DEF LStage
<1>2. LStage' = [r \in Runs |-> IF r \in S THEN to ELSE LStage[r]] BY DEF LStage
<1>3. LEnded' = LEnded BY DEF LEnded
<1>4. QED BY <1>1, <1>2, <1>3 DEF Lifecycle!Move, LStage, LEnded

\* enqueue is a Send: the run is queued and what was trimmed is lost.
LEMMA SubmitSends ==
  ASSUME LInv, NEW r \in Runs, Submit(r)
  PROVE  Lifecycle!Next
<1>0. /\ QueueTypeOK /\ SentInv /\ client \in [Runs -> ClientStates]
      /\ HandlingInv /\ WorkerTypeOK
  BY DEF LInv, IInv, TypeOK
<1>1. /\ InStream(r)' /\ \A q \in Runs \ {r} : InStream(q)' => InStream(q)
      /\ UNCHANGED <<delivered, owner, events, job>>
  BY <1>0, EnqueueStream DEF Submit, Enqueue, workerVars
<1>2. /\ client[r] = "admitted" /\ client'[r] = "waiting"
      /\ \A q \in Runs \ {r} : client'[q] = client[q]
  BY <1>0 DEF Submit, Become
<1>3. StageOf(r) = "unsent" /\ StageOf(r)' = "queued"
  BY <1>0, <1>1, <1>2 DEF StageOf, SentInv, Unsent
<1> DEFINE S == {q \in Runs \ {r} : StageOf(q) = "queued" /\ ~InStream(q)'}
<1>4. \A q \in S : StageOf(q) = "queued" /\ StageOf(q)' = "lost"
  BY <1>1, <1>2 DEF StageOf
<1>5. \A q \in Runs \ (S \cup {r}) : StageOf(q)' = StageOf(q)
  BY <1>1, <1>2 DEF StageOf, Held
<1>6. LEnded' = LEnded BY <1>1 DEF LEnded, Ended, IsTerminal
<1>7. S \in SUBSET Runs /\ r \notin S OBVIOUS
<1> HIDE DEF S
<1>8. LStage' = [q \in Runs |-> IF q = r THEN "queued"
                                ELSE IF q \in S THEN "lost" ELSE LStage[q]]
  BY <1>3, <1>4, <1>5, <1>7 DEF LStage
<1>9. LStage[r] = "unsent" /\ \A q \in S : LStage[q] = "queued"
  BY <1>3, <1>4, <1>7 DEF LStage
<1>10. Lifecycle!Send(r, S)
  BY <1>6, <1>8, <1>9 DEF Lifecycle!Send, LStage, LEnded
<1>11. QED BY <1>7, <1>10 DEF Lifecycle!Next

\* What the caller does otherwise is no step of the run's life.
LEMMA ClientStutters ==
  ASSUME LInv, NEW r \in Runs,
         Refuse(r) \/ Admit(r) \/ Hear(r) \/ GiveUp(r) \/ HangUp(r)
  PROVE  UNCHANGED <<LStage, LEnded>>
<1>0. client \in [Runs -> ClientStates] BY DEF LInv, IInv, TypeOK
<1>1. UNCHANGED <<stream, delivered, owner, events, job>>
  BY DEF Refuse, Admit, Hear, GiveUp, HangUp, queueVars, workerVars
<1>2. \A q \in Runs \ {r} : client'[q] = client[q]
  BY <1>0 DEF Refuse, Admit, Hear, GiveUp, HangUp, Become
<1>3. client'[r] \in Unsent <=> client[r] \in Unsent
  BY <1>0 DEF Refuse, Admit, Hear, GiveUp, HangUp, Become, Unsent
<1>4. \A q \in Runs : StageOf(q)' = StageOf(q)
  BY <1>1, <1>2, <1>3 DEF StageOf, InStream, Held, Unsent
<1>5. \A q \in Runs : Ended(q)' <=> Ended(q) BY <1>1 DEF Ended, IsTerminal
<1>6. QED BY <1>4, <1>5, Stutters

\* A worker that lets go of its job with the entry acked settles the run; one
\* that dies holding it strands it.
LEMMA LettingGo ==
  ASSUME LInv, NEW w \in Workers, pc[w] \in Holding,
         job' = [job EXCEPT ![w] = NoRun],
         UNCHANGED <<stream, delivered, events, client>>,
         UNCHANGED owner \/ AckEntry(job[w])
  PROVE  \E r \in Runs :
           \/ Lifecycle!Move({r}, "held", "settled")
           \/ Lifecycle!Move({r}, "held", "stranded")
<1>0. /\ QueueTypeOK /\ SentInv /\ HandlingInv /\ WorkerTypeOK
  BY DEF LInv, IInv, TypeOK
<1>1. PICK r \in Runs : r = job[w] /\ r \in delivered /\ r # NoRun
  BY <1>0 DEF HandlingInv, HandsMatchProgram, WorkerTypeOK
<1>2. Held(r) /\ ~Held(r)'
  <2>1. \A v \in Workers \ {w} : job[v] # r
    BY <1>0, <1>1 DEF HandlingInv, OneHandler
  <2>2. job'[w] = NoRun /\ \A v \in Workers \ {w} : job'[v] = job[v]
    BY <1>0 DEF WorkerTypeOK
  <2>3. QED BY <1>1, <2>1, <2>2 DEF Held
<1>3. \A q \in Runs \ {r} : Held(q)' <=> Held(q)
  <2>1. \A q \in Runs : q # NoRun BY WorkerAssumption
  <2>2. QED BY <1>0, <1>1, <2>1 DEF Held, WorkerTypeOK
<1>4. client[r] \notin Unsent BY <1>0, <1>1 DEF SentInv
<1>5. \A q \in Runs \ {r} : owner'[q] = owner[q]
  BY <1>0, <1>1 DEF AckEntry, QueueTypeOK
<1>6. StageOf(r) = "held" BY <1>1, <1>2, <1>4 DEF StageOf, Unsent
<1>7. StageOf(r)' \in {"settled", "stranded"}
  BY <1>1, <1>2, <1>4 DEF StageOf, Unsent
<1>8. \A q \in Runs \ {r} : StageOf(q)' = StageOf(q)
  BY <1>3, <1>5, SamePositionSameStage DEF InStream
<1>9. \A q \in Runs : Ended(q)' <=> Ended(q) BY DEF Ended, IsTerminal
<1>10. ASSUME NEW to \in {"settled", "stranded"}, StageOf(r)' = to
       PROVE  Lifecycle!Move({r}, "held", to)
  BY <1>6, <1>8, <1>9, <1>10, Moves
<1>11. QED BY <1>7, <1>10

\* Publishing is the End of the run in hand if the event is terminal.
LEMMA PublishingEnds ==
  ASSUME LInv, NEW w \in Workers, pc[w] \in Publishing,
         Publish(job[w], [type |-> Head(todo[w]), seq |-> seq[w]]),
         UNCHANGED <<job, client>>
  PROVE  (\E r \in Runs : Lifecycle!End(r)) \/ UNCHANGED <<LStage, LEnded>>
<1>0. /\ QueueTypeOK /\ SentInv /\ HandlingInv /\ WorkerTypeOK /\ IInv
  BY DEF LInv, IInv, TypeOK
<1>1. PICK r \in Runs : r = job[w] /\ r \in delivered /\ Held(r)
  BY <1>0, NextEventType, WorkerAssumption DEF HandlingInv, HandsMatchProgram, Held
<1>e. PICK e \in Event : e = [type |-> Head(todo[w]), seq |-> seq[w]]
  BY <1>0, NextEventType
<1>2. /\ ~Ended(r)
      /\ Ended(r)' <=> IsTerminal(e)
      /\ \A q \in Runs \ {r} : events'[q] = events[q]
  <2>1. ~Ended(r) /\ e.seq = Len(events[r]) BY <1>0, <1>1, <1>e, NextEventType
  <2>2. EventLogOrdered BY <1>0 DEF HandlingInv
  <2>3. Publish(r, e) BY <1>1, <1>e
  <2>4. QED BY <1>0, <2>1, <2>2, <2>3, PublishExtendsLog
<1>3. UNCHANGED <<stream, delivered, owner>> BY DEF Publish
<1>4. \A q \in Runs : StageOf(q)' = StageOf(q)
  BY <1>3, SamePositionSameStage DEF InStream, Held
<1>5. \A q \in Runs \ {r} : Ended(q)' <=> Ended(q)
  BY <1>2 DEF Ended, IsTerminal
<1>6. CASE ~IsTerminal(e)
  BY <1>2, <1>4, <1>5, <1>6, Stutters
<1>7. CASE IsTerminal(e)
  <2>1. StageOf(r) = "held" BY <1>0, <1>1 DEF StageOf, SentInv, Unsent
  <2>2. LStage[r] = "held" /\ r \notin LEnded BY <1>2, <2>1 DEF LStage, LEnded
  <2>3. LEnded' = LEnded \cup {r} BY <1>2, <1>5, <1>7 DEF LEnded
  <2>4. LStage' = LStage BY <1>4 DEF LStage
  <2>5. Lifecycle!End(r) BY <2>2, <2>3, <2>4 DEF Lifecycle!End, LStage, LEnded
  <2>6. QED BY <2>5
<1>8. QED BY <1>6, <1>7

\* consume hands over one queued run, to a worker whose hands were empty.
LEMMA ConsumeHandsOver ==
  ASSUME LInv, NEW w \in Workers, Consume(w), UNCHANGED client
  PROVE  \E r \in Runs : Lifecycle!Move({r}, "queued", "held")
<1>0. /\ QueueTypeOK /\ SentInv /\ HandlingInv /\ WorkerTypeOK
  BY DEF LInv, IInv, TypeOK
<1>1. PICK r \in Runs : Deliver(w, r) /\ job' = [job EXCEPT ![w] = r]
  BY DEF Consume
<1>2. /\ InStream(r) /\ r \notin delivered /\ stream' = stream
      /\ delivered' = delivered \cup {r} /\ events' = events
      /\ \A q \in Runs \ {r} : owner'[q] = owner[q]
  BY <1>0, <1>1 DEF Deliver, IsNextEntry, InStream, QueueTypeOK
<1>3. job[w] = NoRun
  BY <1>0 DEF Consume, HandlingInv, HandsMatchProgram, Holding, WorkerTypeOK
<1>4. Held(r)' /\ \A q \in Runs \ {r} : Held(q)' <=> Held(q)
  <2>1. job'[w] = r /\ \A v \in Workers \ {w} : job'[v] = job[v]
    BY <1>0, <1>1 DEF WorkerTypeOK
  <2>2. \A q \in Runs : q # NoRun BY WorkerAssumption
  <2>3. QED BY <1>3, <2>1, <2>2 DEF Held
<1>5. client[r] \notin Unsent BY <1>0, <1>2 DEF SentInv
<1>6. StageOf(r) = "queued" /\ StageOf(r)' = "held"
  <2>1. r \in delivered' BY <1>2
  <2>2. QED BY <1>2, <1>4, <1>5, <2>1 DEF StageOf, Unsent
<1>7. \A q \in Runs \ {r} : StageOf(q)' = StageOf(q)
  BY <1>2, <1>4, SamePositionSameStage DEF InStream
<1>8. \A q \in Runs : Ended(q)' <=> Ended(q) BY <1>2 DEF Ended, IsTerminal
<1>9. Lifecycle!Move({r}, "queued", "held") BY <1>6, <1>7, <1>8, Moves
<1>10. QED BY <1>9

\* XAUTOCLAIM settles the stranded runs whose entries were trimmed, and moves
\* the other stalled entries between consumers.
LEMMA ReclaimSettles ==
  ASSUME LInv, NEW w \in Workers, Reclaim(w), UNCHANGED client
  PROVE  \E S \in SUBSET Runs : Lifecycle!Move(S, "stranded", "settled")
<1>0. QueueTypeOK /\ SentInv BY DEF LInv, IInv, TypeOK
<1>1. UNCHANGED <<stream, delivered, events, job>>
  BY DEF Reclaim, ReclaimStalled
<1>2. PICK stalled \in SUBSET Pending :
        owner' = [r \in Runs |-> IF r \notin stalled THEN owner[r]
                                 ELSE IF InStream(r) THEN w ELSE NoWorker]
  BY DEF Reclaim, ReclaimStalled
<1> DEFINE S == {r \in Runs : StageOf(r) = "stranded" /\ owner'[r] = NoWorker}
<1>3. \A r \in S : StageOf(r) = "stranded" /\ StageOf(r)' = "settled"
  BY <1>1 DEF StageOf, Held
<1>4. ASSUME NEW r \in Runs \ S PROVE StageOf(r)' = StageOf(r)
  <2>1. CASE StageOf(r) = "stranded"
    BY <1>1, <1>4, <2>1 DEF StageOf, Held
  <2>2. CASE StageOf(r) # "stranded"
    <3>1. owner[r] = NoWorker => owner'[r] = NoWorker
      BY <1>2 DEF Pending
    <3>2. QED BY <1>1, <2>2, <3>1 DEF StageOf, InStream, Held
  <2>3. QED BY <2>1, <2>2
<1>5. \A r \in Runs : Ended(r)' <=> Ended(r) BY <1>1 DEF Ended, IsTerminal
<1>6. S \in SUBSET Runs OBVIOUS
<1> HIDE DEF S
<1>7. Lifecycle!Move(S, "stranded", "settled") BY <1>3, <1>4, <1>5, <1>6, Moves
<1>8. QED BY <1>6, <1>7

\* Between these, a worker changes nothing of a run's life.
LEMMA WorkerStutters ==
  ASSUME LInv, NEW w \in Workers, UNCHANGED client,
         \/ ConsumeNothing(w) \/ Expire(w) \/ Start(w) \/ GraphReturns(w)
         \/ GraphFails(w) \/ DeadLetter(w) \/ Restart(w) \/ AckFails(w)
  PROVE  UNCHANGED <<LStage, LEnded>>
<1>0. /\ QueueTypeOK /\ HandlingInv /\ WorkerTypeOK
  BY DEF LInv, IInv, TypeOK
<1>1. UNCHANGED <<stream, delivered, events, job>>
  BY DEF ConsumeNothing, Expire, Start, GraphReturns, GraphFails, DeadLetter,
     DeadLetterEntry, Restart, AckFails, AckEntry, queueVars
<1>2. UNCHANGED owner \/ (AckFails(w) /\ AckEntry(job[w]))
  BY DEF ConsumeNothing, Expire, Start, GraphReturns, GraphFails, DeadLetter,
     DeadLetterEntry, Restart, AckFails, queueVars
<1>3. \A q \in Runs : StageOf(q)' = StageOf(q)
  <2>1. CASE UNCHANGED owner
    BY <1>1, <2>1, SamePositionSameStage DEF InStream, Held
  <2>2. CASE AckFails(w) /\ AckEntry(job[w])
    <3>1. job[w] \in delivered /\ job[w] # NoRun
      BY <1>0, <2>2 DEF AckFails, HandlingInv, HandsMatchProgram, Holding, PCs
    <3>2. \A q \in Runs : q # job[w] => owner'[q] = owner[q]
      BY <1>0, <2>2 DEF AckEntry, QueueTypeOK
    <3>3. \A q \in Runs : q # job[w] => StageOf(q)' = StageOf(q)
      BY <1>1, <3>2, SamePositionSameStage DEF InStream, Held
    <3>4. \A q \in Runs : q = job[w] => StageOf(q)' = StageOf(q)
      BY <1>1, <3>1 DEF StageOf, InStream, Held
    <3>5. QED BY <3>3, <3>4
  <2>3. QED BY <1>2, <2>1, <2>2
<1>4. \A q \in Runs : Ended(q)' <=> Ended(q) BY <1>1 DEF Ended, IsTerminal
<1>5. QED BY <1>3, <1>4, Stutters

-----------------------------------------------------------------------------
\* Every step of a worker, fault or not, is a step of the lifecycle or none.
LEMMA WorkerImplements ==
  ASSUME LInv, NEW w \in Workers, UNCHANGED client,
         WorkerStep(w) \/ WorkerFault(w)
  PROVE  Lifecycle!Next \/ UNCHANGED <<LStage, LEnded>>
<1>0. /\ QueueTypeOK /\ HandlingInv /\ WorkerTypeOK
  BY DEF LInv, IInv, TypeOK
<1>1. CASE Reclaim(w)
  BY <1>1, ReclaimSettles DEF Lifecycle!Next
<1>2. CASE Consume(w)
  BY <1>2, ConsumeHandsOver DEF Lifecycle!Next
<1>3. CASE \/ ConsumeNothing(w) \/ Expire(w) \/ Start(w) \/ GraphReturns(w)
           \/ GraphFails(w) \/ DeadLetter(w) \/ Restart(w) \/ AckFails(w)
  BY <1>3, WorkerStutters
<1>4. CASE Emit(w)
  <2>1. UNCHANGED <<job, client>> BY <1>4 DEF Emit
  <2>2. (\E r \in Runs : Lifecycle!End(r)) \/ UNCHANGED <<LStage, LEnded>>
    BY <1>4, <2>1, PublishingEnds DEF Emit
  <2>3. QED BY <2>2 DEF Lifecycle!Next
<1>5. CASE EmitFails(w)
  <2>1. pc[w] \in Publishing /\ UNCHANGED <<job, client>> BY <1>5 DEF EmitFails
  <2>2. CASE UNCHANGED queueVars
    <3>1. UNCHANGED <<stream, delivered, owner, events>> BY <2>2 DEF queueVars
    <3>2. \A q \in Runs : StageOf(q)' = StageOf(q)
      BY <2>1, <3>1, SamePositionSameStage DEF InStream, Held
    <3>3. \A q \in Runs : Ended(q)' <=> Ended(q) BY <3>1 DEF Ended, IsTerminal
    <3>4. QED BY <3>2, <3>3, Stutters
  <2>3. CASE Publish(job[w], [type |-> Head(todo[w]), seq |-> seq[w]])
    <3>1. (\E r \in Runs : Lifecycle!End(r)) \/ UNCHANGED <<LStage, LEnded>>
      BY <2>1, <2>3, PublishingEnds
    <3>2. QED BY <3>1 DEF Lifecycle!Next
  <2>4. QED BY <1>5, <2>2, <2>3 DEF EmitFails
<1>6. ASSUME pc[w] \in Holding,
             job' = [job EXCEPT ![w] = NoRun],
             UNCHANGED <<stream, delivered, events>>,
             UNCHANGED owner \/ AckEntry(job[w])
      PROVE  Lifecycle!Next
  <2>1. \E r \in Runs :
           \/ Lifecycle!Move({r}, "held", "settled")
           \/ Lifecycle!Move({r}, "held", "stranded")
    BY <1>6, LettingGo
  <2>2. QED BY <2>1 DEF Lifecycle!Next
<1>7. CASE Ack(w) \/ AckDead(w)
  <2>1. /\ pc[w] \in Holding /\ AckEntry(job[w])
        /\ job' = [job EXCEPT ![w] = NoRun]
        /\ UNCHANGED <<stream, delivered, events>>
    BY <1>7 DEF Ack, AckDead, AckEntry, LetGo, Holding, PCs
  <2>2. QED BY <1>6, <2>1
<1>8. CASE Crash(w)
  <2>1. /\ job' = [job EXCEPT ![w] = NoRun]
        /\ UNCHANGED <<stream, delivered, owner, events>>
    BY <1>8 DEF Crash, LetGo, queueVars
  <2>2. CASE pc[w] \in Holding BY <1>6, <2>1, <2>2
  <2>3. CASE pc[w] \notin Holding
    <3>1. job[w] = NoRun BY <1>0, <2>3 DEF HandlingInv, HandsMatchProgram
    <3>2. job' = job BY <1>0, <2>1, <3>1 DEF WorkerTypeOK
    <3>3. \A q \in Runs : StageOf(q)' = StageOf(q)
      BY <2>1, <3>2, SamePositionSameStage DEF InStream, Held
    <3>4. \A q \in Runs : Ended(q)' <=> Ended(q) BY <2>1 DEF Ended, IsTerminal
    <3>5. QED BY <3>3, <3>4, Stutters
  <2>4. QED BY <2>2, <2>3
<1>9. QED
  BY <1>1, <1>2, <1>3, <1>4, <1>5, <1>7, <1>8 DEF WorkerStep, WorkerFault

\* Before anything is sent every run is unsent and none has ended.
LEMMA InitImplements == ASSUME Init PROVE Lifecycle!Init
<1>1. \A r \in Runs : StageOf(r) = "unsent"
  BY DEF Init, ClientInit, StageOf
<1>2. \A r \in Runs : ~Ended(r) BY DEF Init, QueueInit, Ended
<1>3. QED BY <1>1, <1>2 DEF Lifecycle!Init

\* Every step of the pipeline is a step of the lifecycle or none.
LEMMA StepImplements ==
  ASSUME LInv, [Next]_vars
  PROVE  Lifecycle!Next \/ UNCHANGED <<LStage, LEnded>>
<1>1. ASSUME NEW r \in Runs, Submit(r) PROVE Lifecycle!Next
  BY <1>1, SubmitSends
<1>2. ASSUME NEW r \in Runs,
             Refuse(r) \/ Admit(r) \/ Hear(r) \/ GiveUp(r) \/ HangUp(r)
      PROVE  UNCHANGED <<LStage, LEnded>>
  BY <1>2, ClientStutters
<1>3. ASSUME NEW w \in Workers, AgentStep(w) \/ AgentFault(w)
      PROVE  Lifecycle!Next \/ UNCHANGED <<LStage, LEnded>>
  <2>1. (WorkerStep(w) \/ WorkerFault(w)) /\ UNCHANGED client
    BY <1>3 DEF AgentStep, AgentFault, clientVars
  <2>2. QED BY <2>1, WorkerImplements
<1>4. ASSUME Tick \/ UNCHANGED vars PROVE UNCHANGED <<LStage, LEnded>>
  <2>1. UNCHANGED <<stream, delivered, owner, events, job, client>>
    BY <1>4 DEF Tick, vars, queueVars, workerVars, clientVars
  <2>2. \A q \in Runs : StageOf(q)' = StageOf(q)
    BY <2>1, SamePositionSameStage DEF InStream, Held
  <2>3. \A q \in Runs : Ended(q)' <=> Ended(q) BY <2>1 DEF Ended, IsTerminal
  <2>4. QED BY <2>2, <2>3, Stutters
<1>5. QED BY <1>1, <1>2, <1>3, <1>4 DEF Next, ClientStep

\* What the queue, the workers and the callers do together is what the
\* lifecycle promises: through crashes, failed Redis calls, reclaims and
\* trimming, a run is handed over at most once (XREADGROUP ">"), ends at most
\* once and only in a worker's hands, and is settled or stranded after that.
THEOREM PipelineImplementsLifecycle == Spec => LifecycleSpec
<1>1. Init => LInv /\ Lifecycle!Init BY InitLInv, InitImplements
<1>2. LInv /\ [Next]_vars => LInv' BY StepLInv
<1>3. LInv /\ [Next]_vars => [Lifecycle!Next]_<<LStage, LEnded>>
  BY StepImplements
<1>4. QED
  BY <1>1, <1>2, <1>3, PTL DEF Spec, LifecycleSpec, Lifecycle!Spec, LStage, LEnded
-----------------------------------------------------------------------------
\* Ack and dead_letter.  handle comes to its ack only with the terminal event
\* published and to the ack of a dead letter only with the entry copied; a
\* delivered entry that is still in the stream leaves the pending list in no
\* other way.
SettledInv ==
  /\ \A w \in Workers :
       /\ pc[w] = "acking" => Ended(job[w])
       /\ pc[w] = "buried" => job[w] \in dead
  /\ \A r \in delivered :
       owner[r] = NoWorker /\ InStream(r) => Ended(r) \/ r \in dead

SInv == LInv /\ SettledInv

\* A step of worker w that ends no run twice and unburies none keeps the
\* invariant, if w comes to an ack only with cause and takes nothing off the
\* pending list without.
LEMMA SettledKept ==
  ASSUME SInv, NEW w \in Workers, NEW p \in PCs,
         UNCHANGED <<stream, delivered>>,
         pc' = [pc EXCEPT ![w] = p],
         \A v \in Workers \ {w} : job'[v] = job[v],
         \A r \in Runs : Ended(r) => Ended(r)',
         dead \subseteq dead',
         p = "acking" => Ended(job[w])' /\ job'[w] = job[w],
         p = "buried" => job'[w] \in dead',
         \A r \in delivered :
           owner'[r] = NoWorker /\ InStream(r)
             => owner[r] = NoWorker \/ Ended(r) \/ r \in dead
  PROVE  SettledInv'
<1>0. /\ SettledInv /\ WorkerTypeOK /\ QueueTypeOK /\ HandlingInv
  BY DEF SInv, LInv, IInv, TypeOK
<1>1. pc'[w] = p /\ \A v \in Workers \ {w} : pc'[v] = pc[v]
  BY <1>0 DEF WorkerTypeOK
<1>2. ASSUME NEW v \in Workers
      PROVE  /\ pc'[v] = "acking" => Ended(job[v])' /\ job'[v] = job[v]
             /\ pc'[v] = "buried" => job'[v] \in dead'
  <2>1. CASE v = w BY <1>1, <2>1
  <2>2. CASE v # w
    <3>1. pc'[v] = pc[v] /\ job'[v] = job[v] BY <1>1, <2>2
    <3>2. CASE pc[v] = "acking"
      <4>1. job[v] \in Runs
        BY <1>0, <3>2 DEF HandlingInv, HandsMatchProgram, Holding, PCs, WorkerTypeOK
      <4>2. PICK r \in Runs : r = job[v] BY <4>1
      <4>3. Ended(r)' BY <1>0, <3>2, <4>2 DEF SettledInv
      <4>4. job'[v] = r BY <3>1, <4>2
      <4>5. Ended(job[v])' BY <4>3, <4>4 DEF Ended, IsTerminal
      <4>6. QED BY <3>1, <3>2, <4>5
    <3>3. CASE pc[v] = "buried" BY <1>0, <3>1, <3>3 DEF SettledInv
    <3>4. QED BY <3>1, <3>2, <3>3
  <2>3. QED BY <2>1, <2>2
<1>3. ASSUME NEW r \in delivered, owner'[r] = NoWorker, InStream(r)
      PROVE  Ended(r)' \/ r \in dead'
  <2>1. r \in Runs BY <1>0 DEF QueueTypeOK
  <2>2. owner[r] = NoWorker \/ Ended(r) \/ r \in dead BY <1>3
  <2>3. Ended(r) \/ r \in dead BY <1>0, <1>3, <2>2 DEF SettledInv
  <2>4. QED BY <2>1, <2>3
<1>4. \A v \in Workers : pc'[v] = "acking" => Ended(job[v])'
  BY <1>2
<1>5. \A v \in Workers : pc'[v] = "buried" => job'[v] \in dead'
  BY <1>2
<1>6. \A r \in delivered' : owner'[r] = NoWorker /\ InStream(r)' => Ended(r)' \/ r \in dead'
  BY <1>3 DEF InStream
<1>7. QED BY <1>4, <1>5, <1>6 DEF SettledInv

\* Publishing ends the run in hand if the stretch is over and was to close it,
\* and reopens none.
LEMMA PublishingEndsTheLast ==
  ASSUME IInv, NEW w \in Workers, pc[w] \in Publishing,
         Publish(job[w], [type |-> Head(todo[w]), seq |-> seq[w]]),
         UNCHANGED job
  PROVE  /\ \A r \in Runs : Ended(r) => Ended(r)'
         /\ pc[w] = "reporting" /\ Tail(todo[w]) = <<>> => Ended(job[w])'
<1>0. /\ QueueTypeOK /\ HandlingInv BY DEF IInv, TypeOK
<1>1. PICK r \in Runs : r = job[w] BY NextEventType
<1>e. PICK e \in Event : e = [type |-> Head(todo[w]), seq |-> seq[w]]
  BY NextEventType
<1>2. /\ ~Ended(r)
      /\ Ended(r)' <=> IsTerminal(e)
      /\ \A q \in Runs \ {r} : events'[q] = events[q]
  <2>1. ~Ended(r) /\ e.seq = Len(events[r]) BY <1>1, <1>e, NextEventType
  <2>2. EventLogOrdered BY <1>0 DEF HandlingInv
  <2>3. Publish(r, e) BY <1>1, <1>e
  <2>4. QED BY <1>0, <2>1, <2>2, <2>3, PublishExtendsLog
<1>3. \A q \in Runs : Ended(q) => Ended(q)'
  <2>1. \A q \in Runs \ {r} : Ended(q) => Ended(q)' BY <1>2 DEF Ended, IsTerminal
  <2>2. QED BY <1>2, <2>1
<1>4. ASSUME pc[w] = "reporting", Tail(todo[w]) = <<>>
      PROVE  Ended(r)'
  <2>1. ClosesOnce(todo[w]) BY <1>0, <1>4 DEF HandlingInv, TodoMatchesProgram
  <2>2. todo[w] # <<>> /\ todo[w] \in Seq(EventTypes) BY NextEventType
  <2>3. /\ Len(Tail(todo[w])) = Len(todo[w]) - 1 /\ Head(todo[w]) = todo[w][1]
        /\ Len(todo[w]) \in Nat /\ DOMAIN todo[w] = 1 .. Len(todo[w])
    BY <2>2, HeadTailProperties, LenProperties
  <2>4. Len(<<>>) = 0 OBVIOUS
  <2>5. Len(todo[w]) = 1
    <3>1. Len(Tail(todo[w])) = 0 BY <1>4, <2>4, Zenon
    <3> DEFINE n == Len(todo[w])
    <3>2. n \in Nat /\ n - 1 = 0 BY <2>3, <3>1, Zenon
    <3> HIDE DEF n
    <3>3. n = 1 BY <3>2
    <3>4. QED BY <3>3 DEF n
  <2>6. 1 \in DOMAIN todo[w] BY <2>3, <2>5
  <2>7. Head(todo[w]) \in TerminalTypes BY <2>1, <2>3, <2>5, <2>6 DEF ClosesOnce
  <2>8. IsTerminal(e) BY <1>e, <2>7 DEF IsTerminal
  <2>9. QED BY <1>2, <2>8
<1>5. job'[w] = r BY <1>1
<1>6. ASSUME pc[w] = "reporting", Tail(todo[w]) = <<>>
      PROVE  Ended(job[w])'
  BY <1>4, <1>5, <1>6 DEF Ended, IsTerminal
<1>7. QED BY <1>3, <1>6
\* consume: the entry enters the pending list, so nothing has settled.
LEMMA SettledConsume ==
  ASSUME SInv, NEW w \in Workers, Consume(w)
  PROVE  SettledInv'
<1>0. /\ SettledInv /\ WorkerTypeOK /\ QueueTypeOK /\ HandlingInv
  BY DEF SInv, LInv, IInv, TypeOK
<1>1. PICK r \in Runs : Deliver(w, r) /\ job' = [job EXCEPT ![w] = r]
  BY DEF Consume
<1>2. /\ UNCHANGED <<stream, dead, events>>
      /\ delivered' = delivered \cup {r}
      /\ owner'[r] # NoWorker /\ \A q \in Runs \ {r} : owner'[q] = owner[q]
  BY <1>0, <1>1, QueueAssumption DEF Deliver, QueueTypeOK
<1>3. /\ pc'[w] = "picked"
      /\ \A v \in Workers \ {w} : pc'[v] = pc[v] /\ job'[v] = job[v]
  BY <1>0, <1>1 DEF Consume, Goto, WorkerTypeOK
<1>4. \A v \in Workers : /\ pc'[v] = "acking" => Ended(job[v]) /\ job'[v] = job[v]
                         /\ pc'[v] = "buried" => job'[v] \in dead'
  BY <1>0, <1>2, <1>3 DEF SettledInv
<1>5. \A v \in Workers : pc'[v] = "acking" => Ended(job[v])'
  BY <1>2, <1>4 DEF Ended, IsTerminal
<1>6. ASSUME NEW q \in delivered', owner'[q] = NoWorker, InStream(q)'
      PROVE  Ended(q)' \/ q \in dead'
  <2>1. q \in delivered /\ owner[q] = NoWorker /\ InStream(q)
    BY <1>0, <1>2, <1>6 DEF InStream, QueueTypeOK
  <2>2. Ended(q) \/ q \in dead BY <1>0, <2>1 DEF SettledInv
  <2>3. QED BY <1>2, <2>2 DEF Ended, IsTerminal
<1>7. QED BY <1>4, <1>5, <1>6 DEF SettledInv

\* Every step and every fault of a worker.
LEMMA WorkerStepSettled ==
  ASSUME SInv, NEW w \in Workers, WorkerStep(w) \/ WorkerFault(w)
  PROVE  SettledInv'
<1> USE DEF Goto, PCs
<1>0. /\ IInv /\ SettledInv /\ WorkerTypeOK /\ QueueTypeOK /\ HandlingInv
  BY DEF SInv, LInv, IInv, TypeOK
<1>1. CASE Reclaim(w)
  <2>1. UNCHANGED <<stream, delivered, events, dead, job>>
    BY <1>1 DEF Reclaim, ReclaimStalled
  <2>2. \A r \in Runs : Ended(r) => Ended(r)' BY <2>1 DEF Ended, IsTerminal
  <2>3. \A r \in Runs : owner'[r] = NoWorker /\ InStream(r) => owner[r] = NoWorker
    BY <1>1, QueueAssumption DEF Reclaim, ReclaimStalled
  <2>4. \A r \in delivered : owner'[r] = NoWorker /\ InStream(r) => owner[r] = NoWorker
    BY <1>0, <2>3 DEF QueueTypeOK
  <2>5. pc' = [pc EXCEPT ![w] = "consume"] BY <1>1 DEF Reclaim
  <2>6. QED BY <2>1, <2>2, <2>4, <2>5, SettledKept
<1>2. CASE Consume(w) BY <1>2, SettledConsume
<1>3. ASSUME UNCHANGED <<queueVars, job>>,
             NEW p \in PCs \ {"acking", "buried"}, pc' = [pc EXCEPT ![w] = p]
      PROVE  SettledInv'
  <2>1. UNCHANGED <<stream, delivered, events, dead, owner, job>>
    BY <1>3 DEF queueVars
  <2>2. \A r \in Runs : Ended(r) => Ended(r)' BY <2>1 DEF Ended, IsTerminal
  <2>3. QED BY <1>3, <2>1, <2>2, SettledKept
<1>4. CASE \/ ConsumeNothing(w) \/ Expire(w) \/ Start(w) \/ GraphReturns(w)
           \/ GraphFails(w) \/ Restart(w)
  <2>1. UNCHANGED <<queueVars, job>>
    BY <1>4 DEF ConsumeNothing, Expire, Start, GraphReturns, GraphFails, Restart
  <2>2. PICK p \in {"reclaim", "reporting", "starting", "failing"} :
          pc' = [pc EXCEPT ![w] = p]
    BY <1>4 DEF ConsumeNothing, Expire, Start, GraphReturns, GraphFails, Restart
  <2>3. QED BY <1>3, <2>1, <2>2
<1>5. CASE Emit(w)
  <2>1. /\ pc[w] \in Publishing /\ UNCHANGED job
        /\ Publish(job[w], [type |-> Head(todo[w]), seq |-> seq[w]])
    BY <1>5 DEF Emit
  <2>2. /\ \A r \in Runs : Ended(r) => Ended(r)'
        /\ pc[w] = "reporting" /\ Tail(todo[w]) = <<>> => Ended(job[w])'
    BY <1>0, <2>1, PublishingEndsTheLast
  <2>3. UNCHANGED <<stream, delivered, owner, dead>> BY <2>1 DEF Publish
  <2>4. PICK p \in PCs : /\ pc' = [pc EXCEPT ![w] = p]
                         /\ p = "acking" => pc[w] = "reporting" /\ Tail(todo[w]) = <<>>
                         /\ p # "buried"
    BY <1>5, <2>1 DEF Emit, After, Publishing
  <2>5. QED BY <2>1, <2>2, <2>3, <2>4, SettledKept
<1>6. CASE EmitFails(w)
  <2>1. pc[w] \in Publishing /\ UNCHANGED job /\ pc' = [pc EXCEPT ![w] = "burying"]
    BY <1>6 DEF EmitFails
  <2>2. CASE UNCHANGED queueVars BY <1>3, <2>1, <2>2
  <2>3. CASE Publish(job[w], [type |-> Head(todo[w]), seq |-> seq[w]])
    <3>1. \A r \in Runs : Ended(r) => Ended(r)'
      BY <1>0, <2>1, <2>3, PublishingEndsTheLast
    <3>2. UNCHANGED <<stream, delivered, owner, dead>> BY <2>3 DEF Publish
    <3>3. QED BY <2>1, <3>1, <3>2, SettledKept
  <2>4. QED BY <1>6, <2>2, <2>3 DEF EmitFails
<1>7. ASSUME AckEntry(job[w]), job[w] \in Runs,
             Ended(job[w]) \/ job[w] \in dead,
             \A v \in Workers \ {w} : job'[v] = job[v],
             NEW p \in {"reclaim", "burying"}, pc' = [pc EXCEPT ![w] = p]
      PROVE  SettledInv'
  <2>1. UNCHANGED <<stream, delivered, events, dead>> BY <1>7 DEF AckEntry
  <2>2. \A r \in Runs : Ended(r) => Ended(r)' BY <2>1 DEF Ended, IsTerminal
  <2>3. \A r \in delivered : r # job[w] => owner'[r] = owner[r]
    BY <1>0, <1>7 DEF AckEntry, QueueTypeOK
  <2>4. \A r \in delivered : owner'[r] = NoWorker
          => owner[r] = NoWorker \/ Ended(r) \/ r \in dead
    BY <1>7, <2>3
  <2>5. QED BY <1>7, <2>1, <2>2, <2>4, SettledKept
<1>8. pc[w] \in {"acking", "burying", "buried"} => job[w] \in Runs
  BY <1>0 DEF HandlingInv, HandsMatchProgram, Holding, WorkerTypeOK
<1>9. CASE Ack(w) \/ AckDead(w)
  <2>1. /\ pc[w] \in {"acking", "buried"} /\ AckEntry(job[w])
        /\ \A v \in Workers \ {w} : job'[v] = job[v]
        /\ pc' = [pc EXCEPT ![w] = "reclaim"]
    BY <1>0, <1>9 DEF Ack, AckDead, LetGo, WorkerTypeOK
  <2>2. Ended(job[w]) \/ job[w] \in dead BY <1>0, <2>1 DEF SettledInv
  <2>3. QED BY <1>7, <1>8, <2>1, <2>2
<1>10. CASE AckFails(w)
  <2>1. pc[w] = "acking" /\ UNCHANGED job /\ pc' = [pc EXCEPT ![w] = "burying"]
    BY <1>10 DEF AckFails
  <2>2. CASE UNCHANGED queueVars BY <1>3, <2>1, <2>2
  <2>3. CASE AckEntry(job[w])
    <3>1. Ended(job[w]) BY <1>0, <2>1 DEF SettledInv
    <3>2. QED BY <1>7, <1>8, <2>1, <2>3, <3>1
  <2>4. QED BY <1>10, <2>2, <2>3 DEF AckFails
<1>11. CASE DeadLetter(w)
  <2>1. /\ UNCHANGED <<stream, delivered, events, owner, job>>
        /\ dead' = dead \cup {job[w]} /\ pc' = [pc EXCEPT ![w] = "buried"]
    BY <1>11 DEF DeadLetter, DeadLetterEntry
  <2>2. \A r \in Runs : Ended(r) => Ended(r)' BY <2>1 DEF Ended, IsTerminal
  <2>3. QED BY <2>1, <2>2, SettledKept
<1>12. CASE Crash(w)
  <2>1. /\ UNCHANGED <<stream, delivered, events, owner, dead>>
        /\ \A v \in Workers \ {w} : job'[v] = job[v]
        /\ pc' = [pc EXCEPT ![w] = "down"]
    BY <1>0, <1>12 DEF Crash, LetGo, queueVars, WorkerTypeOK
  <2>2. \A r \in Runs : Ended(r) => Ended(r)' BY <2>1 DEF Ended, IsTerminal
  <2>3. QED BY <2>1, <2>2, SettledKept
<1>13. QED
  BY <1>1, <1>2, <1>4, <1>5, <1>6, <1>9, <1>10, <1>11, <1>12
  DEF WorkerStep, WorkerFault

\* Callers, trimming and the clock settle nothing: what enqueue adds to the
\* stream has not been delivered, and trimming only takes entries away.
LEMMA StepSInv == ASSUME SInv, [Next]_vars PROVE SInv'
<1>0. /\ LInv /\ SettledInv /\ QueueTypeOK /\ SentInv
  BY DEF SInv, LInv, IInv, TypeOK
<1>1. LInv' BY <1>0, StepLInv
<1>2. ASSUME UNCHANGED <<pc, job, delivered, owner, dead, events>>,
             \A r \in delivered : InStream(r)' => InStream(r)
      PROVE  SettledInv'
  BY <1>0, <1>2 DEF SettledInv, Ended, IsTerminal
<1>3. ASSUME NEW r \in Runs, Submit(r) PROVE SettledInv'
  <2>1. /\ \A q \in Runs \ {r} : InStream(q)' => InStream(q)
        /\ UNCHANGED <<pc, job, delivered, owner, dead, events>>
    BY <1>0, <1>3, EnqueueStream DEF Submit, Enqueue, workerVars
  <2>2. r \notin delivered BY <1>0, <1>3 DEF Submit, SentInv, Unsent
  <2>3. \A q \in delivered : q \in Runs BY <1>0 DEF QueueTypeOK
  <2>4. QED BY <1>2, <2>1, <2>2, <2>3
<1>4. ASSUME UNCHANGED <<pc, job, delivered, owner, dead, events, stream>>
      PROVE  SettledInv'
  BY <1>2, <1>4 DEF InStream
<1>5. ASSUME NEW r \in Runs,
             Refuse(r) \/ Admit(r) \/ Hear(r) \/ GiveUp(r) \/ HangUp(r)
      PROVE  SettledInv'
  <2>1. UNCHANGED <<pc, job, delivered, owner, dead, events, stream>>
    BY <1>5 DEF Refuse, Admit, Hear, GiveUp, HangUp, queueVars, workerVars
  <2>2. QED BY <1>4, <2>1
<1>6. ASSUME NEW w \in Workers, AgentStep(w) \/ AgentFault(w) PROVE SettledInv'
  <2>1. WorkerStep(w) \/ WorkerFault(w) BY <1>6 DEF AgentStep, AgentFault
  <2>2. QED BY <2>1, WorkerStepSettled
<1>7. ASSUME Tick \/ UNCHANGED vars PROVE SettledInv'
  <2>1. UNCHANGED <<pc, job, delivered, owner, dead, events, stream>>
    BY <1>7 DEF Tick, vars, queueVars, workerVars
  <2>2. QED BY <1>4, <2>1
<1>8. SettledInv' BY <1>3, <1>5, <1>6, <1>7 DEF Next, ClientStep
<1>9. QED BY <1>1, <1>8 DEF SInv

\* ack and dead_letter drop no turn silently, whatever crashes, fails, is
\* reclaimed or trimmed: a delivered entry that is neither pending nor in
\* anybody's hands has its terminal event published or a copy among the dead.
THEOREM SettlingIsNeverSilent == Spec => []NoSilentSettle
<1>1. Init => SInv
  <2>1. ASSUME Init PROVE SettledInv
    BY <2>1 DEF Init, QueueInit, WorkerInit, SettledInv
  <2>2. QED BY <2>1, InitLInv DEF SInv
<1>2. SInv /\ [Next]_vars => SInv' BY StepSInv
<1>3. SInv => NoSilentSettle BY DEF SInv, SettledInv, NoSilentSettle
<1>4. QED BY <1>1, <1>2, <1>3, PTL DEF Spec
-----------------------------------------------------------------------------
\* The depth admission control reads.  An entry is stranded when it is pending
\* and in nobody's hands; only a crash strands one, and only the one the crashed
\* worker held.
Busy == {w \in Workers : job[w] # NoRun}
Stranded == {r \in Pending : ~Held(r)}

DepthInv ==
  /\ IsFiniteSet(Pending)
  /\ IsFiniteSet(Busy)
  /\ Cardinality(Stranded) <= faults

DInv == IInv /\ DepthInv

\* Pending entries that somebody holds are no more than the busy workers.
LEMMA HeldNeedHands ==
  ASSUME IInv, IsFiniteSet(Busy)
  PROVE  LET held == {r \in Pending : Held(r)}
         IN  IsFiniteSet(held) /\ Cardinality(held) <= Cardinality(Busy)
<1> DEFINE held == {r \in Pending : Held(r)}
           hands == {job[w] : w \in Busy}
           f == [w \in Busy |-> job[w]]
<1>1. f \in Surjection(Busy, hands) BY DEF Surjection
<1>2. \E g \in Surjection(Busy, hands) : TRUE BY <1>1
<1>3. held \subseteq hands
  BY WorkerAssumption DEF Busy, Held, Pending
<1> HIDE DEF held, hands
<1>4. IsFiniteSet(hands) /\ Cardinality(hands) <= Cardinality(Busy)
  <2>1. PICK g \in Surjection(Busy, hands) : TRUE BY <1>2
  <2>2. QED BY <2>1, FS_Surjection, Zenon
<1>5. IsFiniteSet(held) /\ Cardinality(held) <= Cardinality(hands)
  BY <1>3, <1>4, FS_Subset
<1>6. Cardinality(held) \in Nat /\ Cardinality(hands) \in Nat /\ Cardinality(Busy) \in Nat
  BY <1>4, <1>5, FS_CardinalityType
<1>7. IsFiniteSet(held) /\ Cardinality(held) <= Cardinality(Busy)
  BY <1>4, <1>5, <1>6
<1>8. QED BY <1>7 DEF held

\* So the invariant bounds the depth as the property says.
LEMMA DepthIsBounded == ASSUME DInv PROVE DepthIsBusyPlusFaults
<1> DEFINE held == {r \in Pending : Held(r)}
<1>1. IInv /\ DepthInv /\ faults \in Nat
  BY WorkerAssumption DEF DInv, IInv, TypeOK, WorkerTypeOK
<1>2. IsFiniteSet(held) /\ Cardinality(held) <= Cardinality(Busy)
  BY <1>1, HeldNeedHands DEF DepthInv
<1>3. IsFiniteSet(Stranded)
  <2>1. Stranded \subseteq Pending BY DEF Stranded
  <2>2. QED BY <1>1, <2>1, FS_Subset DEF DepthInv
<1>4. Pending = held \cup Stranded BY DEF Stranded
<1>5. held \cap Stranded = {} BY DEF Stranded
<1> HIDE DEF held
<1>6. Cardinality(Pending) = Cardinality(held) + Cardinality(Stranded) - Cardinality({})
  BY <1>2, <1>3, <1>4, <1>5, FS_Union
<1>7. Cardinality({}) = 0 BY FS_EmptySet
<1>8. /\ Cardinality(held) \in Nat /\ Cardinality(Stranded) \in Nat
      /\ Cardinality(Busy) \in Nat
  BY <1>1, <1>2, <1>3, FS_CardinalityType DEF DepthInv
<1>9. Cardinality(Pending) <= Cardinality(Busy) + faults
  BY <1>1, <1>2, <1>6, <1>7, <1>8 DEF DepthInv
<1>10. QED BY <1>9 DEF DepthIsBusyPlusFaults, Depth, Busy

\* A step that makes at most one entry pending and one worker busy, strands
\* nothing, or strands x at the price of a fault.
LEMMA DepthKept ==
  ASSUME DInv, NEW x, NEW w,
         Pending' \subseteq Pending \cup {x},
         Busy' \subseteq Busy \cup {w},
         faults' \in Nat,
         \/ Stranded' \subseteq Stranded /\ faults <= faults'
         \/ Stranded' \subseteq Stranded \cup {x} /\ faults' = faults + 1
  PROVE  DepthInv'
<1>1. /\ IsFiniteSet(Pending) /\ IsFiniteSet(Busy) /\ faults \in Nat
      /\ Cardinality(Stranded) <= faults
  BY WorkerAssumption DEF DInv, DepthInv, IInv, TypeOK, WorkerTypeOK
<1>2. IsFiniteSet(Pending')
  BY <1>1, FS_AddElement, FS_Subset
<1>3. IsFiniteSet(Busy')
  BY <1>1, FS_AddElement, FS_Subset
<1>4. IsFiniteSet(Stranded)
  <2>1. Stranded \subseteq Pending BY DEF Stranded
  <2>2. QED BY <1>1, <2>1, FS_Subset
<1>5. Cardinality(Stranded) \in Nat BY <1>4, FS_CardinalityType
<1>6. Cardinality(Stranded') <= faults'
  <2>1. CASE Stranded' \subseteq Stranded /\ faults <= faults'
    <3>1. IsFiniteSet(Stranded') /\ Cardinality(Stranded') <= Cardinality(Stranded)
      BY <1>4, <2>1, FS_Subset
    <3>2. Cardinality(Stranded') \in Nat BY <3>1, FS_CardinalityType
    <3>3. QED BY <1>1, <1>5, <2>1, <3>1, <3>2
  <2>2. CASE Stranded' \subseteq Stranded \cup {x} /\ faults' = faults + 1
    <3>1. /\ IsFiniteSet(Stranded \cup {x})
          /\ Cardinality(Stranded \cup {x}) <= Cardinality(Stranded) + 1
          /\ Cardinality(Stranded \cup {x}) \in Nat
      <4> DEFINE more == Stranded \cup {x}
      <4>1. /\ IsFiniteSet(more)
            /\ \/ Cardinality(more) = Cardinality(Stranded)
               \/ Cardinality(more) = Cardinality(Stranded) + 1
        BY <1>4, FS_AddElement, Zenon
      <4> HIDE DEF more
      <4>2. Cardinality(more) <= Cardinality(Stranded) + 1 /\ Cardinality(more) \in Nat
        BY <1>5, <4>1
      <4>3. QED BY <4>1, <4>2 DEF more
    <3>2. IsFiniteSet(Stranded') /\ Cardinality(Stranded') <= Cardinality(Stranded \cup {x})
      BY <2>2, <3>1, FS_Subset
    <3>3. Cardinality(Stranded') \in Nat BY <3>2, FS_CardinalityType
    <3>4. QED BY <1>1, <1>5, <2>2, <3>1, <3>2, <3>3
  <2>3. QED BY <2>1, <2>2
<1>7. QED BY <1>2, <1>3, <1>6 DEF DepthInv
\* Every step and every fault of a worker.
LEMMA WorkerStepDepth ==
  ASSUME DInv, NEW w \in Workers, WorkerStep(w) \/ WorkerFault(w)
  PROVE  DepthInv'
<1> USE DEF Pending, Stranded, Busy, Held
<1>0. /\ IInv /\ WorkerTypeOK /\ QueueTypeOK /\ HandlingInv
      /\ faults \in Nat /\ faults' \in Nat
  <2>1. WorkerTypeOK /\ WorkerTypeOK'
    BY WorkerStepType DEF DInv, IInv, TypeOK
  <2>2. QED BY <2>1, WorkerAssumption DEF DInv, IInv, TypeOK, WorkerTypeOK
<1>1. CASE Reclaim(w)
  <2>1. UNCHANGED <<job, faults>> BY <1>1 DEF Reclaim
  <2>2. \A r \in Runs : owner'[r] # NoWorker => owner[r] # NoWorker
    BY <1>1 DEF Reclaim, ReclaimStalled
  <2>3. Pending' \subseteq Pending /\ Stranded' \subseteq Stranded /\ Busy' = Busy
    BY <2>1, <2>2
  <2>4. QED BY <1>0, <2>1, <2>3, DepthKept
<1>2. CASE Consume(w)
  <2>1. PICK r \in Runs : Deliver(w, r) /\ job' = [job EXCEPT ![w] = r]
    BY <1>2 DEF Consume
  <2>2. job[w] = NoRun
    BY <1>0, <1>2 DEF Consume, HandlingInv, HandsMatchProgram, Holding
  <2>3. job'[w] = r /\ \A v \in Workers \ {w} : job'[v] = job[v]
    BY <1>0, <2>1 DEF WorkerTypeOK
  <2>4. \A q \in Runs \ {r} : owner'[q] = owner[q]
    BY <1>0, <2>1 DEF Deliver, QueueTypeOK
  <2>5. \A q \in Runs : Held(q) => Held(q)'
    BY <2>2, <2>3, WorkerAssumption
  <2>6. Held(r)' BY <2>3
  <2>7. Pending' \subseteq Pending \cup {r} /\ Busy' \subseteq Busy \cup {w}
    BY <2>3, <2>4
  <2>8. Stranded' \subseteq Stranded BY <2>4, <2>5, <2>6
  <2>9. faults' = faults BY <1>2 DEF Consume
  <2>10. QED BY <1>0, <2>7, <2>8, <2>9, DepthKept
<1>3. ASSUME UNCHANGED <<owner, job>>, faults <= faults'
      PROVE  DepthInv'
  <2>1. Pending' = Pending /\ Stranded' = Stranded /\ Busy' = Busy BY <1>3
  <2>2. QED BY <1>0, <1>3, <2>1, DepthKept
<1>4. CASE \/ ConsumeNothing(w) \/ Expire(w) \/ Start(w) \/ Emit(w)
           \/ GraphReturns(w) \/ GraphFails(w) \/ DeadLetter(w) \/ EmitFails(w)
           \/ Restart(w)
  <2>1. UNCHANGED <<owner, job>>
    BY <1>4 DEF ConsumeNothing, Expire, Start, Emit, GraphReturns, GraphFails,
       DeadLetter, DeadLetterEntry, EmitFails, Publish, Restart, queueVars
  <2>2. faults' = faults \/ faults' = faults + 1
    BY <1>4 DEF ConsumeNothing, Expire, Start, Emit, GraphReturns, GraphFails,
       DeadLetter, EmitFails, Fault, Restart
  <2>3. QED BY <1>0, <1>3, <2>1, <2>2
<1>5. ASSUME AckEntry(job[w]), faults <= faults',
             job' = job \/ job' = [job EXCEPT ![w] = NoRun]
      PROVE  DepthInv'
  <2>1. \A q \in Runs : q = job[w] => owner'[q] = NoWorker
    BY <1>0, <1>5 DEF AckEntry, QueueTypeOK
  <2>2. \A q \in Runs : q # job[w] => owner'[q] = owner[q]
    BY <1>0, <1>5 DEF AckEntry, QueueTypeOK
  <2>3. \A v \in Workers : job'[v] = job[v] \/ (v = w /\ job'[v] = NoRun)
    BY <1>0, <1>5 DEF WorkerTypeOK
  <2>4. \A q \in Runs : q # job[w] /\ Held(q) => Held(q)'
    BY <2>3
  <2>5. Pending' \subseteq Pending BY <2>1, <2>2
  <2>6. Stranded' \subseteq Stranded BY <2>1, <2>2, <2>4
  <2>7. Busy' \subseteq Busy BY <2>3
  <2>8. QED BY <1>0, <1>5, <2>5, <2>6, <2>7, DepthKept
<1>6. CASE Ack(w) \/ AckDead(w)
  BY <1>0, <1>5, <1>6 DEF Ack, AckDead, LetGo
<1>7. CASE AckFails(w)
  <2>1. job' = job /\ faults' = faults + 1 BY <1>7 DEF AckFails, Fault
  <2>2. CASE UNCHANGED queueVars BY <1>0, <1>3, <2>1, <2>2 DEF queueVars
  <2>3. CASE AckEntry(job[w]) BY <1>0, <1>5, <2>1, <2>3
  <2>4. QED BY <1>7, <2>2, <2>3 DEF AckFails
<1>8. CASE Crash(w)
  <2>1. UNCHANGED owner /\ faults' = faults + 1 BY <1>8 DEF Crash, Fault, queueVars
  <2>2. \A v \in Workers : job'[v] = job[v] \/ (v = w /\ job'[v] = NoRun)
    BY <1>0, <1>8 DEF Crash, LetGo, WorkerTypeOK
  <2>3. \A q \in Runs : q # job[w] /\ Held(q) => Held(q)' BY <2>2
  <2>4. Pending' = Pending /\ Stranded' \subseteq Stranded \cup {job[w]}
    BY <2>1, <2>3
  <2>5. Busy' \subseteq Busy BY <2>2
  <2>6. QED BY <1>0, <2>1, <2>4, <2>5, DepthKept
<1>9. QED
  BY <1>1, <1>2, <1>4, <1>6, <1>7, <1>8 DEF WorkerStep, WorkerFault

\* Callers and the clock touch neither the pending list nor anybody's hands.
LEMMA StepDInv == ASSUME DInv, [Next]_vars PROVE DInv'
<1>1. IInv' BY StepIInv DEF DInv
<1>2. ASSUME UNCHANGED <<owner, job, faults>> PROVE DepthInv'
  <2>1. Pending' = Pending /\ Busy' = Busy /\ Stranded' = Stranded
    BY <1>2 DEF Pending, Busy, Stranded, Held
  <2>2. QED BY <1>2, <2>1 DEF DInv, DepthInv
<1>3. ASSUME NEW r \in Runs,
             Refuse(r) \/ Admit(r) \/ Submit(r) \/ Hear(r) \/ GiveUp(r) \/ HangUp(r)
      PROVE  DepthInv'
  <2>1. UNCHANGED <<owner, job, faults>>
    BY <1>3 DEF Refuse, Admit, Submit, Enqueue, Hear, GiveUp, HangUp, queueVars, workerVars
  <2>2. QED BY <1>2, <2>1
<1>4. ASSUME NEW w \in Workers, AgentStep(w) \/ AgentFault(w) PROVE DepthInv'
  <2>1. WorkerStep(w) \/ WorkerFault(w) BY <1>4 DEF AgentStep, AgentFault
  <2>2. QED BY <2>1, WorkerStepDepth
<1>5. ASSUME Tick \/ UNCHANGED vars PROVE DepthInv'
  <2>1. UNCHANGED <<owner, job, faults>>
    BY <1>5 DEF Tick, vars, queueVars, workerVars
  <2>2. QED BY <1>2, <2>1
<1>6. DepthInv' BY <1>3, <1>4, <1>5 DEF Next, ClientStep
<1>7. QED BY <1>1, <1>6 DEF DInv

\* XPENDING, the depth the admission check compares with max_queue_depth,
\* counts at most one entry per busy worker and one per fault so far.
THEOREM DepthCountsTheBusy == Spec => []DepthIsBusyPlusFaults
<1>1. Init => DInv
  <2>1. ASSUME Init PROVE DepthInv
    <3>1. Pending = {} /\ Busy = {} /\ Stranded = {} /\ faults = 0
      BY <2>1, QueueAssumption, WorkerAssumption
      DEF Init, QueueInit, WorkerInit, Pending, Busy, Stranded
    <3>2. QED BY <3>1, FS_EmptySet DEF DepthInv
  <2>2. QED BY <2>1, InitIInv DEF DInv
<1>2. DInv /\ [Next]_vars => DInv' BY StepDInv
<1>3. DInv => DepthIsBusyPlusFaults BY DepthIsBounded
<1>4. QED BY <1>1, <1>2, <1>3, PTL DEF Spec
-----------------------------------------------------------------------------
\* What handle has published of a run, as event types.
Types(r) == [i \in DOMAIN events[r] |-> events[r][i].type]

\* What a worker has published and what it still has to publish make up one
\* report of one graph run; a log with a "done" in it is a whole one.
OneReport(p, r, left) ==
  /\ p \in {"picked", "starting"} => Types(r) = <<>>
  /\ p = "running" => Types(r) = <<"started">>
  /\ p = "failing" => left = <<"error">>
  /\ p = "reporting" =>
       \/ left = <<"error">>
       \/ \E report \in Reports : Types(r) \o left = <<"started">> \o report

WholeIfDone(r) ==
  "done" \in {events[r][i].type : i \in DOMAIN events[r]} =>
    \E report \in Reports : Types(r) = <<"started">> \o report

ReportInv ==
  /\ \A w \in Workers : OneReport(pc[w], job[w], todo[w])
  /\ \A r \in Runs : WholeIfDone(r)

RInv == IInv /\ ReportInv

\* Moving the head of one sequence to the end of another leaves their
\* concatenation alone.
LEMMA HeadMovesOver ==
  ASSUME NEW S, NEW s \in Seq(S), NEW t \in Seq(S), t # <<>>
  PROVE  Append(s, Head(t)) \o Tail(t) = s \o t
<1>1. /\ Head(t) \in S /\ Tail(t) \in Seq(S) /\ Len(Tail(t)) = Len(t) - 1
      /\ \A i \in 1 .. Len(Tail(t)) : Tail(t)[i] = t[i + 1]
  BY HeadTailProperties
<1>2. Head(t) = t[1] /\ Len(s) \in Nat /\ Len(t) \in Nat
  BY LenProperties
<1> DEFINE a == Append(s, Head(t))
           d == Tail(t)
<1>3. /\ a \in Seq(S) /\ Len(a) = Len(s) + 1
      /\ \A i \in 1 .. Len(s) : a[i] = s[i]
      /\ a[Len(s) + 1] = t[1]
  BY <1>1, <1>2, AppendProperties
<1>4. d \in Seq(S) /\ Len(d) = Len(t) - 1 /\ \A i \in 1 .. Len(d) : d[i] = t[i + 1]
  BY <1>1
<1> HIDE DEF a, d
<1>5. /\ a \o d \in Seq(S) /\ Len(a \o d) = Len(a) + Len(d)
      /\ \A i \in 1 .. Len(a) + Len(d) :
           (a \o d)[i] = IF i <= Len(a) THEN a[i] ELSE d[i - Len(a)]
  BY <1>3, <1>4, ConcatProperties
<1>6. /\ s \o t \in Seq(S) /\ Len(s \o t) = Len(s) + Len(t)
      /\ \A i \in 1 .. Len(s) + Len(t) :
           (s \o t)[i] = IF i <= Len(s) THEN s[i] ELSE t[i - Len(s)]
  BY ConcatProperties
<1>7. Len(a \o d) = Len(s \o t) BY <1>2, <1>3, <1>4, <1>5, <1>6
<1>8. ASSUME NEW i \in 1 .. Len(a \o d) PROVE (a \o d)[i] = (s \o t)[i]
  <2>1. i \in 1 .. Len(s) + Len(t) /\ i \in Nat BY <1>2, <1>6, <1>7
  <2>2. CASE i <= Len(s) BY <1>2, <1>3, <1>4, <1>5, <1>6, <2>1, <2>2
  <2>3. CASE i = Len(s) + 1 BY <1>2, <1>3, <1>4, <1>5, <1>6, <2>1, <2>3
  <2>4. CASE i > Len(s) + 1
    <3>1. i - Len(a) \in 1 .. Len(d) BY <1>2, <1>3, <1>4, <2>1, <2>4
    <3>2. d[i - Len(a)] = t[i - Len(a) + 1] BY <1>4, <3>1
    <3>3. i - Len(a) + 1 = i - Len(s) BY <1>2, <1>3, <2>1
    <3>4. (a \o d)[i] = d[i - Len(a)] BY <1>2, <1>3, <1>4, <1>5, <2>1, <2>4
    <3>5. (s \o t)[i] = t[i - Len(s)] BY <1>2, <1>6, <2>1, <2>4
    <3>6. QED BY <3>2, <3>3, <3>4, <3>5
  <2>5. QED BY <1>2, <2>1, <2>2, <2>3, <2>4
<1>9. a \o d = s \o t BY <1>5, <1>6, <1>7, <1>8, SeqEqual
<1>10. QED BY <1>9 DEF a, d

\* Publishing appends the type of the event, to this run's log only.
LEMMA PublishAppends ==
  ASSUME QueueTypeOK, NEW r \in Runs, NEW e \in Event, Publish(r, e)
  PROVE  /\ Types(r) \in Seq(EventTypes)
         /\ Types(r)' = Append(Types(r), e.type)
         /\ {events[r][i].type : i \in DOMAIN events[r]}'
              = {events[r][i].type : i \in DOMAIN events[r]} \cup {e.type}
         /\ \A i \in DOMAIN events[r] :
              i \in DOMAIN events'[r] /\ events'[r][i] = events[r][i]
         /\ \A q \in Runs \ {r} : events'[q] = events[q]
<1>1. /\ events[r] \in Seq(Event)
      /\ events'[r] = Append(events[r], e)
      /\ \A q \in Runs \ {r} : events'[q] = events[q]
  BY DEF QueueTypeOK, Publish
<1>2. /\ events'[r] \in Seq(Event)
      /\ Len(events'[r]) = Len(events[r]) + 1
      /\ \A i \in 1 .. Len(events[r]) : events'[r][i] = events[r][i]
      /\ events'[r][Len(events[r]) + 1] = e
  BY <1>1, AppendProperties
<1>3. /\ Len(events[r]) \in Nat
      /\ DOMAIN events[r] = 1 .. Len(events[r])
      /\ DOMAIN events'[r] = 1 .. Len(events[r]) + 1
  BY <1>1, <1>2, LenProperties
<1>4. \A i \in 1 .. Len(events[r]) : events[r][i].type \in EventTypes
  <2>1. \A i \in 1 .. Len(events[r]) : events[r][i] \in Event BY <1>1, ElementOfSeq
  <2>2. \A x \in Event : x.type \in EventTypes BY DEF Event
  <2>3. QED BY <2>1, <2>2
<1>5. /\ Types(r) \in Seq(EventTypes) /\ Len(Types(r)) = Len(events[r])
      /\ \A i \in 1 .. Len(events[r]) : Types(r)[i] = events[r][i].type
  <2>1. Types(r) \in [1 .. Len(events[r]) -> EventTypes] BY <1>3, <1>4 DEF Types
  <2>2. QED BY <1>3, <2>1 DEF Types
<1>6. e.type \in EventTypes BY DEF Event
<1>7. /\ Types(r)' \in Seq(EventTypes) /\ Len(Types(r)') = Len(events[r]) + 1
      /\ \A i \in 1 .. Len(events[r]) + 1 : Types(r)'[i] = events'[r][i].type
  <2>1. ASSUME NEW i \in 1 .. Len(events[r]) + 1
        PROVE  events'[r][i].type \in EventTypes
    <3>1. CASE i = Len(events[r]) + 1 BY <1>2, <1>6, <3>1
    <3>2. CASE i \in 1 .. Len(events[r]) BY <1>2, <1>4, <3>2
    <3>3. QED BY <1>3, <3>1, <3>2
  <2>2. Types(r)' \in [1 .. Len(events[r]) + 1 -> EventTypes] BY <1>3, <2>1 DEF Types
  <2>3. QED BY <1>3, <2>2 DEF Types
<1>8. Types(r)' = Append(Types(r), e.type)
  <2>1. /\ Append(Types(r), e.type) \in Seq(EventTypes)
        /\ Len(Append(Types(r), e.type)) = Len(events[r]) + 1
        /\ \A i \in 1 .. Len(events[r]) : Append(Types(r), e.type)[i] = Types(r)[i]
        /\ Append(Types(r), e.type)[Len(events[r]) + 1] = e.type
    BY <1>5, <1>6, AppendProperties
  <2>2. \A i \in 1 .. Len(events[r]) + 1 : Types(r)'[i] = Append(Types(r), e.type)[i]
    BY <1>2, <1>3, <1>5, <1>7, <2>1
  <2>3. QED BY <1>7, <2>1, <2>2, SeqEqual
<1>9. {events'[r][i].type : i \in DOMAIN events'[r]}
        = {events[r][i].type : i \in DOMAIN events[r]} \cup {e.type}
  <2> DEFINE n == Len(events[r])
             old == [i \in 1 .. n |-> events[r][i].type]
             new == [i \in 1 .. n + 1 |-> events'[r][i].type]
  <2>1. /\ {events[r][i].type : i \in DOMAIN events[r]} = {old[i] : i \in 1 .. n}
        /\ {events'[r][i].type : i \in DOMAIN events'[r]} = {new[i] : i \in 1 .. n + 1}
    BY <1>3
  <2>2. new[n + 1] = e.type /\ \A i \in 1 .. n : new[i] = old[i] BY <1>2, <1>3
  <2>3. n \in Nat BY <1>3
  <2> HIDE DEF n, old, new
  <2>4. 1 .. n + 1 = (1 .. n) \cup {n + 1} BY <2>3
  <2>5. {new[i] : i \in 1 .. n + 1} = {old[i] : i \in 1 .. n} \cup {e.type}
    BY <2>2, <2>4
  <2>6. QED BY <2>1, <2>5
<1>10. \A i \in DOMAIN events[r] :
         i \in DOMAIN events'[r] /\ events'[r][i] = events[r][i]
  BY <1>2, <1>3
<1>11. QED BY <1>1, <1>5, <1>8, <1>9, <1>10
\* A step of worker w that publishes nothing keeps the reports in order if it
\* leaves w in the place its own run has reached.
LEMMA ReportKept ==
  ASSUME RInv, NEW w \in Workers, NEW p \in PCs,
         UNCHANGED events,
         pc' = [pc EXCEPT ![w] = p],
         \A v \in Workers \ {w} : job'[v] = job[v] /\ todo'[v] = todo[v],
         OneReport(p, job'[w], todo'[w])
  PROVE  ReportInv'
<1>0. ReportInv /\ WorkerTypeOK BY DEF RInv, IInv, TypeOK
<1>1. pc'[w] = p /\ \A v \in Workers \ {w} : pc'[v] = pc[v]
  BY <1>0 DEF WorkerTypeOK
<1>2. \A v \in Workers : OneReport(pc'[v], job'[v], todo'[v])
  BY <1>0, <1>1 DEF ReportInv
<1>3. \A r : Types(r)' = Types(r) BY DEF Types
<1>4. \A v \in Workers : OneReport(pc[v], job[v], todo[v])'
  <2>1. ASSUME NEW v \in Workers PROVE OneReport(pc[v], job[v], todo[v])'
    <3>1. OneReport(pc'[v], job'[v], todo'[v]) BY <1>2
    <3>2. QED BY <3>1 DEF OneReport, Types
  <2>2. QED BY <2>1
<1>5. \A r \in Runs : WholeIfDone(r)'
  <2>1. ASSUME NEW r \in Runs PROVE WholeIfDone(r)'
    <3>1. WholeIfDone(r) /\ Types(r)' = Types(r) BY <1>0, <1>3 DEF ReportInv
    <3>2. {events[r][i].type : i \in DOMAIN events[r]}'
            = {events[r][i].type : i \in DOMAIN events[r]}
      OBVIOUS
    <3>3. QED BY <3>1, <3>2 DEF WholeIfDone
  <2>2. QED BY <2>1
<1>6. QED BY <1>4, <1>5 DEF ReportInv

\* Publishing moves the first event of the stretch from what is left of the
\* report to what is there of it; a "done" is always the last one left.
LEMMA ReportPublished ==
  ASSUME RInv, NEW w \in Workers, NEW p \in PCs,
         pc[w] \in Publishing,
         Publish(job[w], [type |-> Head(todo[w]), seq |-> seq[w]]),
         pc' = [pc EXCEPT ![w] = p],
         UNCHANGED job,
         \A v \in Workers \ {w} : todo'[v] = todo[v],
         p \in {"running", "reporting", "acking", "burying"},
         p = "running" => pc[w] = "starting",
         p = "reporting" =>
           pc[w] = "reporting" /\ todo'[w] = Tail(todo[w]) /\ Tail(todo[w]) # <<>>
  PROVE  ReportInv'
<1>0. /\ IInv /\ ReportInv /\ WorkerTypeOK /\ QueueTypeOK /\ HandlingInv
  BY DEF RInv, IInv, TypeOK
<1>1. PICK r \in Runs : r = job[w] BY <1>0, NextEventType
<1>e. PICK e \in Event : e = [type |-> Head(todo[w]), seq |-> seq[w]]
  BY <1>0, NextEventType
<1>2. /\ todo[w] # <<>> /\ todo[w] \in Seq(EventTypes) /\ ~Ended(r)
      /\ e.type = Head(todo[w])
  BY <1>0, <1>1, <1>e, NextEventType
<1>3. Publish(r, e) BY <1>1, <1>e
<1>4. /\ Types(r) \in Seq(EventTypes)
      /\ Types(r)' = Append(Types(r), e.type)
      /\ {events[r][i].type : i \in DOMAIN events[r]}'
           = {events[r][i].type : i \in DOMAIN events[r]} \cup {e.type}
      /\ \A q \in Runs \ {r} : events'[q] = events[q]
  BY <1>0, <1>3, PublishAppends
<1>5. Append(Types(r), Head(todo[w])) \o Tail(todo[w]) = Types(r) \o todo[w]
  BY <1>2, <1>4, HeadMovesOver
<1>6. OneReport(pc[w], r, todo[w]) BY <1>0, <1>1 DEF ReportInv
<1>7. ASSUME NEW v \in Workers, v # w
      PROVE  OneReport(pc[v], job[v], todo[v])'
  <2>1. pc'[v] = pc[v] /\ todo'[v] = todo[v] /\ job'[v] = job[v]
    BY <1>0, <1>7 DEF WorkerTypeOK
  <2>2. OneReport(pc[v], job[v], todo[v]) BY <1>0 DEF ReportInv
  <2>3. CASE pc[v] \notin Holding BY <2>1, <2>3 DEF OneReport, Holding, PCs
  <2>4. CASE pc[v] \in Holding
    <3>1. job[v] \in Runs /\ job[v] # r
      BY <1>0, <1>1, <1>7, <2>4, WorkerAssumption
      DEF HandlingInv, HandsMatchProgram, OneHandler, WorkerTypeOK
    <3>2. events'[job[v]] = events[job[v]] BY <1>4, <3>1
    <3>3. events'[job'[v]] = events[job[v]] BY <2>1, <3>2
    <3>4. Types(job[v])' = Types(job[v]) BY <3>3 DEF Types
    <3>5. QED BY <2>1, <2>2, <3>4 DEF OneReport
  <2>5. QED BY <2>3, <2>4
<1>8. OneReport(pc[w], job[w], todo[w])'
  <2>1. pc'[w] = p /\ job'[w] = r BY <1>0, <1>1 DEF WorkerTypeOK
  <2>2. Types(job[w])' = Types(r)' BY <2>1 DEF Types
  <2>3. CASE p = "running"
    <3>1. Types(r) = <<>> BY <1>6, <2>3 DEF OneReport
    <3>2. todo[w] = <<"started">>
      BY <1>0, <2>3 DEF HandlingInv, TodoMatchesProgram
    <3>3. Head(todo[w]) = "started" BY <3>2
    <3>4. Append(<<>>, "started") = <<"started">> OBVIOUS
    <3>5. Types(r)' = <<"started">> BY <1>2, <1>4, <3>1, <3>3, <3>4
    <3>6. QED BY <2>1, <2>2, <2>3, <3>5 DEF OneReport
  <2>4. CASE p = "reporting"
    <3>1. Tail(<<"error">>) = <<>> OBVIOUS
    <3>2. todo[w] # <<"error">> BY <2>4, <3>1
    <3>3. PICK report \in Reports : Types(r) \o todo[w] = <<"started">> \o report
      BY <1>6, <2>4, <3>2 DEF OneReport
    <3>4. Types(r)' \o Tail(todo[w]) = <<"started">> \o report
      BY <1>2, <1>4, <1>5, <3>3
    <3>5. todo'[w] = Tail(todo[w]) BY <2>4
    <3>6. QED BY <2>1, <2>2, <2>4, <3>4, <3>5 DEF OneReport
  <2>5. CASE p \in {"acking", "burying"} BY <2>1, <2>5 DEF OneReport
  <2>6. QED BY <2>3, <2>4, <2>5
<1>9. WholeIfDone(r)'
  <2> SUFFICES ASSUME "done" \in {events[r][i].type : i \in DOMAIN events[r]}'
               PROVE  \E report \in Reports : Types(r)' = <<"started">> \o report
    BY DEF WholeIfDone
  <2>1. "done" \notin {events[r][i].type : i \in DOMAIN events[r]}
    BY <1>2 DEF Ended, IsTerminal, TerminalTypes
  <2>2. Head(todo[w]) = "done" BY <1>2, <1>4, <2>1
  <2>3. Head(<<"started">>) = "started" /\ Head(<<"error">>) = "error" OBVIOUS
  <2>4. todo[w] # <<"started">> /\ todo[w] # <<"error">> BY <2>2, <2>3
  <2>5. pc[w] = "reporting"
    BY <1>0, <1>6, <2>4 DEF HandlingInv, TodoMatchesProgram, OneReport, Publishing
  <2>6. PICK report \in Reports : Types(r) \o todo[w] = <<"started">> \o report
    BY <1>6, <2>4, <2>5 DEF OneReport
  <2>7. Tail(todo[w]) = <<>>
    <3>1. ClosesOnce(todo[w]) BY <1>0, <2>5 DEF HandlingInv, TodoMatchesProgram
    <3>2. QED BY <1>2, <2>2, <3>1, TailClosesOnce DEF TerminalTypes
  <2>8. Append(Types(r), Head(todo[w])) \in Seq(EventTypes)
    BY <1>2, <1>4, HeadTailProperties, AppendProperties
  <2>9. Append(Types(r), Head(todo[w])) \o <<>> = Append(Types(r), Head(todo[w]))
    BY <2>8, ConcatEmptySeq
  <2>10. Types(r)' = <<"started">> \o report BY <1>2, <1>4, <1>5, <2>6, <2>7, <2>9
  <2>11. QED BY <2>10
<1>10. ASSUME NEW q \in Runs \ {r} PROVE WholeIfDone(q)'
  <2>1. events'[q] = events[q] BY <1>4
  <2>2. WholeIfDone(q) BY <1>0 DEF ReportInv
  <2>3. QED BY <2>1, <2>2 DEF WholeIfDone, Types
<1>11. \A v \in Workers : OneReport(pc[v], job[v], todo[v])' BY <1>7, <1>8
<1>12. \A q \in Runs : WholeIfDone(q)' BY <1>9, <1>10
<1>13. QED BY <1>11, <1>12 DEF ReportInv
\* Every step and every fault of a worker keeps the reports in order.
LEMMA WorkerStepReport ==
  ASSUME RInv, NEW w \in Workers, WorkerStep(w) \/ WorkerFault(w)
  PROVE  ReportInv'
<1> USE DEF Goto, PCs
<1>0. /\ IInv /\ ReportInv /\ WorkerTypeOK /\ QueueTypeOK /\ HandlingInv
      /\ OneReport(pc[w], job[w], todo[w])
  BY DEF RInv, IInv, TypeOK, ReportInv
<1>1. ASSUME UNCHANGED events,
             \A v \in Workers \ {w} : job'[v] = job[v] /\ todo'[v] = todo[v],
             NEW p \in {"down", "reclaim", "consume", "acking", "burying", "buried"},
             pc' = [pc EXCEPT ![w] = p]
      PROVE  ReportInv'
  <2>1. OneReport(p, job'[w], todo'[w]) BY DEF OneReport
  <2>2. QED BY <1>1, <2>1, ReportKept
<1>2. CASE Reclaim(w) \/ ConsumeNothing(w) \/ DeadLetter(w) \/ AckFails(w) \/ Restart(w)
  <2>1. UNCHANGED <<events, job, todo>>
    BY <1>2 DEF Reclaim, ReclaimStalled, ConsumeNothing, DeadLetter, DeadLetterEntry,
       AckFails, AckEntry, Restart, queueVars
  <2>2. PICK p \in {"consume", "reclaim", "buried", "burying"} : pc' = [pc EXCEPT ![w] = p]
    BY <1>2 DEF Reclaim, ConsumeNothing, DeadLetter, AckFails, Restart
  <2>3. QED BY <1>1, <2>1, <2>2
<1>3. CASE Ack(w) \/ AckDead(w) \/ Crash(w)
  <2>1. /\ UNCHANGED events
        /\ \A v \in Workers \ {w} : job'[v] = job[v] /\ todo'[v] = todo[v]
    BY <1>0, <1>3 DEF Ack, AckDead, Crash, AckEntry, LetGo, WorkerTypeOK, queueVars
  <2>2. PICK p \in {"reclaim", "down"} : pc' = [pc EXCEPT ![w] = p]
    BY <1>3 DEF Ack, AckDead, Crash
  <2>3. QED BY <1>1, <2>1, <2>2
<1>4. CASE Consume(w)
  <2>1. PICK r \in Runs : Deliver(w, r) /\ job' = [job EXCEPT ![w] = r]
    BY <1>4 DEF Consume
  <2>2. r \notin delivered /\ UNCHANGED <<events, todo>>
    BY <1>4, <2>1 DEF Deliver, IsNextEntry, Consume
  <2>3. job'[w] = r /\ \A v \in Workers \ {w} : job'[v] = job[v]
    BY <1>0, <2>1 DEF WorkerTypeOK
  <2>4. events[r] = <<>> BY <1>0, <2>2 DEF HandlingInv, UndeliveredLogEmpty
  <2>5. DOMAIN events[r] = {} BY <2>4
  <2>6. Types(r) = <<>>
    <3>1. Types(r) = [i \in {} |-> events[r][i].type] BY <2>5 DEF Types
    <3>2. [i \in {} |-> events[r][i].type] = <<>> OBVIOUS
    <3>3. QED BY <3>1, <3>2
  <2>7. OneReport("picked", job'[w], todo'[w]) BY <2>3, <2>6 DEF OneReport
  <2>8. pc' = [pc EXCEPT ![w] = "picked"] BY <1>4 DEF Consume
  <2>9. QED BY <2>2, <2>3, <2>7, <2>8, ReportKept
<1>5. ASSUME UNCHANGED <<queueVars, job>>,
             NEW d, todo' = [todo EXCEPT ![w] = d],
             NEW p \in PCs, pc' = [pc EXCEPT ![w] = p],
             OneReport(p, job[w], d)
      PROVE  ReportInv'
  <2>1. todo'[w] = d /\ \A v \in Workers \ {w} : todo'[v] = todo[v]
    BY <1>0, <1>5 DEF WorkerTypeOK
  <2>2. UNCHANGED <<events, job>> BY <1>5 DEF queueVars
  <2>3. QED BY <1>5, <2>1, <2>2, ReportKept
<1>6. CASE Expire(w)
  <2>1. OneReport("reporting", job[w], <<"error">>) BY DEF OneReport
  <2>2. QED BY <1>5, <1>6, <2>1 DEF Expire
<1>7. CASE Start(w)
  <2>1. OneReport("starting", job[w], <<"started">>) BY <1>0, <1>7 DEF OneReport, Start
  <2>2. QED BY <1>5, <1>7, <2>1 DEF Start
<1>8. CASE GraphFails(w)
  <2>1. OneReport("failing", job[w], <<"error">>) BY DEF OneReport
  <2>2. QED BY <1>5, <1>8, <2>1 DEF GraphFails
<1>9. CASE GraphReturns(w)
  <2>1. PICK report \in Reports : todo' = [todo EXCEPT ![w] = report]
    BY <1>9 DEF GraphReturns
  <2>2. Types(job[w]) = <<"started">> BY <1>0, <1>9 DEF OneReport, GraphReturns
  <2>3. OneReport("reporting", job[w], report) BY <2>2 DEF OneReport
  <2>4. QED BY <1>5, <1>9, <2>1, <2>3 DEF GraphReturns
<1>10. CASE Emit(w)
  <2>1. /\ pc[w] \in Publishing /\ UNCHANGED job
        /\ Publish(job[w], [type |-> Head(todo[w]), seq |-> seq[w]])
        /\ todo'[w] = Tail(todo[w]) /\ \A v \in Workers \ {w} : todo'[v] = todo[v]
    BY <1>0, <1>10 DEF Emit, WorkerTypeOK
  <2>2. Tail(<<"started">>) = <<>> /\ Tail(<<"error">>) = <<>> OBVIOUS
  <2>3. pc[w] \in {"starting", "failing"} => Tail(todo[w]) = <<>>
    BY <1>0, <2>2 DEF HandlingInv, TodoMatchesProgram, OneReport
  <2>4. PICK p \in {"running", "reporting", "acking", "burying"} :
          /\ pc' = [pc EXCEPT ![w] = p]
          /\ p = "running" => pc[w] = "starting"
          /\ p = "reporting" => pc[w] = "reporting" /\ Tail(todo[w]) # <<>>
    BY <1>10, <2>1, <2>3 DEF Emit, After, Publishing
  <2>5. QED BY <2>1, <2>4, ReportPublished
<1>11. CASE EmitFails(w)
  <2>1. /\ pc[w] \in Publishing /\ UNCHANGED job /\ pc' = [pc EXCEPT ![w] = "burying"]
        /\ \A v \in Workers \ {w} : todo'[v] = todo[v]
    BY <1>0, <1>11 DEF EmitFails, WorkerTypeOK
  <2>2. CASE UNCHANGED queueVars BY <1>1, <2>1, <2>2 DEF queueVars
  <2>3. CASE Publish(job[w], [type |-> Head(todo[w]), seq |-> seq[w]])
    BY <2>1, <2>3, ReportPublished
  <2>4. QED BY <1>11, <2>2, <2>3 DEF EmitFails
<1>12. QED
  BY <1>2, <1>3, <1>4, <1>6, <1>7, <1>8, <1>9, <1>10, <1>11
  DEF WorkerStep, WorkerFault

-----------------------------------------------------------------------------
\* The callers.  Whose turn was closed by an event has read that event; who gave
\* up did so after the deadline; and each was told in the same breath.
CallerInv ==
  \A r \in Runs :
    /\ client[r] \in {"answered", "failed"} =>
         cursor[r] \in DOMAIN events[r] /\ IsTerminal(events[r][cursor[r]])
    /\ client[r] = "answered" => events[r][cursor[r]].type = "done"
    /\ client[r] = "gaveup" => Late(r)
    /\ client[r] \in {"answered", "failed", "gaveup"} /\ surface[r] # "ws" => told[r]

CInv == LInv /\ ReportInv /\ CallerInv

\* What has been published stays published.
LEMMA LogsGrow ==
  ASSUME IInv, NEW w \in Workers, WorkerStep(w) \/ WorkerFault(w)
  PROVE  \A r \in Runs : \A i \in DOMAIN events[r] :
           i \in DOMAIN events'[r] /\ events'[r][i] = events[r][i]
<1>1. CASE UNCHANGED events BY <1>1
<1>2. CASE /\ pc[w] \in Publishing
           /\ Publish(job[w], [type |-> Head(todo[w]), seq |-> seq[w]])
  <2>1. QueueTypeOK BY DEF IInv, TypeOK
  <2>2. PICK r \in Runs : r = job[w] BY <1>2, NextEventType
  <2>3. PICK e \in Event : e = [type |-> Head(todo[w]), seq |-> seq[w]]
    BY <1>2, NextEventType
  <2>4. Publish(r, e) BY <1>2, <2>2, <2>3
  <2>5. QED BY <2>1, <2>4, PublishAppends
<1>3. QED
  BY <1>1, <1>2 DEF WorkerStep, WorkerFault, Reclaim, ReclaimStalled, Consume, Deliver,
     ConsumeNothing, Expire, Start, Emit, EmitFails, GraphReturns, GraphFails, Ack,
     AckEntry, AckFails, DeadLetter, DeadLetterEntry, AckDead, Crash, Restart, queueVars
\* One event out of subscribe: a terminal one closes the turn and is told.
LEMMA HearKeeps ==
  ASSUME CInv, NEW r \in Runs, Hear(r)
  PROVE  CallerInv'
<1>0. /\ CallerInv /\ QueueTypeOK
      /\ client \in [Runs -> ClientStates] /\ cursor \in [Runs -> Nat]
      /\ told \in [Runs -> BOOLEAN]
  BY DEF CInv, LInv, IInv, TypeOK
<1>1. PICK e : e = events[r][cursor[r] + 1] OBVIOUS
<1>2. /\ client[r] = "waiting" /\ cursor[r] < Len(events[r])
      /\ UNCHANGED <<events, age, surface>>
      /\ cursor'[r] = cursor[r] + 1
      /\ told'[r] = (told[r] \/ IsTerminal(e) \/ (surface[r] = "voice" /\ e.type \in Audible))
      /\ client'[r] = CASE e.type = "done"  -> "answered"
                        [] e.type = "error" -> "failed"
                        [] OTHER            -> "waiting"
      /\ \A q \in Runs \ {r} :
           client'[q] = client[q] /\ cursor'[q] = cursor[q] /\ told'[q] = told[q]
  BY <1>0, <1>1 DEF Hear, Become, queueVars
<1>3. cursor[r] + 1 \in DOMAIN events[r]
  <2>1. events[r] \in Seq(Event) BY <1>0 DEF QueueTypeOK
  <2>2. DOMAIN events[r] = 1 .. Len(events[r]) /\ Len(events[r]) \in Nat
    BY <2>1, LenProperties
  <2>3. QED BY <1>0, <1>2, <2>2
<1>4. \/ e.type = "done" /\ client'[r] = "answered"
      \/ e.type = "error" /\ client'[r] = "failed"
      \/ client'[r] = "waiting"
  BY <1>2
<1>5. client'[r] \in {"answered", "failed"} =>
        /\ IsTerminal(e) /\ told'[r]
        /\ cursor'[r] \in DOMAIN events'[r]
        /\ events'[r][cursor'[r]] = e
  BY <1>1, <1>2, <1>3, <1>4 DEF IsTerminal, TerminalTypes
<1>6. ASSUME NEW q \in Runs
      PROVE  /\ client'[q] \in {"answered", "failed"} =>
                  cursor'[q] \in DOMAIN events'[q] /\ IsTerminal(events'[q][cursor'[q]])
             /\ client'[q] = "answered" => events'[q][cursor'[q]].type = "done"
             /\ client'[q] = "gaveup" => Late(q)'
             /\ client'[q] \in {"answered", "failed", "gaveup"} /\ surface'[q] # "ws"
                  => told'[q]
  <2>1. CASE q = r BY <1>4, <1>5, <2>1
  <2>2. CASE q # r BY <1>0, <1>2, <2>2 DEF CallerInv, Late
  <2>3. QED BY <2>1, <2>2
<1>7. QED BY <1>6 DEF CallerInv, IsTerminal

\* Every other step: closed turns stay as they are, logs only grow and the
\* clock only goes on.
LEMMA StepCInv == ASSUME CInv, [Next]_vars PROVE CInv'
<1>0. /\ LInv /\ IInv /\ ReportInv /\ CallerInv /\ QueueTypeOK /\ RInv
      /\ client \in [Runs -> ClientStates] /\ told \in [Runs -> BOOLEAN]
      /\ age \in [Runs -> 0 .. JobTimeout + 1]
  BY DEF CInv, LInv, RInv, IInv, TypeOK, QueueTypeOK
<1>1. LInv' BY <1>0, StepLInv
<1>2. ASSUME UNCHANGED <<pc, job, todo, events>> PROVE ReportInv'
  <2>1. ASSUME NEW w \in Workers PROVE OneReport(pc[w], job[w], todo[w])'
    <3>1. OneReport(pc[w], job[w], todo[w]) BY <1>0 DEF ReportInv
    <3>2. Types(job[w])' = Types(job[w]) BY <1>2 DEF Types
    <3>3. QED BY <1>2, <3>1, <3>2 DEF OneReport
  <2>2. ASSUME NEW r \in Runs PROVE WholeIfDone(r)'
    <3>1. WholeIfDone(r) BY <1>0 DEF ReportInv
    <3>2. QED BY <1>2, <3>1 DEF WholeIfDone, Types
  <2>3. QED BY <2>1, <2>2 DEF ReportInv
<1>3. ASSUME UNCHANGED clientVars,
             \A r \in Runs : Late(r) => Late(r)',
             \A r \in Runs : \A i \in DOMAIN events[r] :
               i \in DOMAIN events'[r] /\ events'[r][i] = events[r][i]
      PROVE  CallerInv'
  BY <1>0, <1>3 DEF CallerInv, IsTerminal, clientVars
<1>4. ASSUME NEW r \in Runs, Hear(r) PROVE ReportInv' /\ CallerInv'
  <2>1. UNCHANGED <<pc, job, todo, events>> BY <1>4 DEF Hear, queueVars, workerVars
  <2>2. CallerInv' BY <1>4, HearKeeps
  <2>3. QED BY <1>2, <2>1, <2>2
<1>5. ASSUME NEW r \in Runs,
             Refuse(r) \/ Admit(r) \/ Submit(r) \/ GiveUp(r) \/ HangUp(r)
      PROVE  ReportInv' /\ CallerInv'
  <2>1. UNCHANGED <<pc, job, todo, events, age, surface, cursor>>
    BY <1>5 DEF Refuse, Admit, Submit, Enqueue, GiveUp, HangUp, queueVars, workerVars
  <2>2. \A q \in Runs \ {r} : client'[q] = client[q] /\ told'[q] = told[q]
    BY <1>0, <1>5 DEF Refuse, Admit, Submit, GiveUp, HangUp, Become
  <2>3. \/ client'[r] \notin {"answered", "failed", "gaveup"}
        \/ client'[r] = "gaveup" /\ Late(r) /\ (surface[r] # "ws" => told'[r])
    BY <1>0, <1>5 DEF Refuse, Admit, Submit, GiveUp, HangUp, Become
  <2>4. CallerInv'
    BY <1>0, <2>1, <2>2, <2>3 DEF CallerInv, Late, IsTerminal
  <2>5. QED BY <1>2, <2>1, <2>4
<1>6. ASSUME NEW w \in Workers, AgentStep(w) \/ AgentFault(w)
      PROVE  ReportInv' /\ CallerInv'
  <2>1. (WorkerStep(w) \/ WorkerFault(w)) /\ UNCHANGED clientVars
    BY <1>6 DEF AgentStep, AgentFault
  <2>2. UNCHANGED age
    BY <2>1 DEF WorkerStep, WorkerFault, Reclaim, ReclaimStalled, Consume, Deliver,
       ConsumeNothing, Expire, Start, Emit, Publish, EmitFails, GraphReturns, GraphFails,
       Ack, AckEntry, AckFails, DeadLetter, DeadLetterEntry, AckDead, Crash, Restart,
       queueVars
  <2>3. \A r \in Runs : Late(r) => Late(r)' BY <2>2 DEF Late
  <2>4. ReportInv' BY <1>0, <2>1, WorkerStepReport
  <2>5. CallerInv' BY <1>0, <1>3, <2>1, <2>3, LogsGrow
  <2>6. QED BY <2>4, <2>5
<1>7. ASSUME Tick PROVE ReportInv' /\ CallerInv'
  <2>1. UNCHANGED <<pc, job, todo, events, clientVars>> BY <1>7 DEF Tick
  <2>2. \A r \in Runs : Late(r) => Late(r)' BY <1>0, <1>7 DEF Tick, Late
  <2>3. QED BY <1>2, <1>3, <2>1, <2>2
<1>8. ASSUME UNCHANGED vars PROVE ReportInv' /\ CallerInv'
  <2>1. UNCHANGED <<pc, job, todo, events, age, clientVars>>
    BY <1>8 DEF vars, queueVars, workerVars
  <2>2. \A r \in Runs : Late(r) => Late(r)' BY <2>1 DEF Late
  <2>3. QED BY <1>2, <1>3, <2>1, <2>2
<1>9. ReportInv' /\ CallerInv'
  BY <1>4, <1>5, <1>6, <1>7, <1>8 DEF Next, ClientStep
<1>10. QED BY <1>1, <1>9 DEF CInv

\* Nobody has been answered to begin with, and no worker has anything to report.
LEMMA InitCInv == ASSUME Init PROVE CInv
<1>1. ReportInv
  BY DEF Init, QueueInit, WorkerInit, ReportInv, OneReport, WholeIfDone
<1>2. CallerInv BY DEF Init, ClientInit, CallerInv
<1>3. QED BY <1>1, <1>2, InitLInv DEF CInv

\* Whoever was answered has read one whole report of one graph run, and nobody
\* on the phone or behind the REST route is left with silence.
LEMMA CInvTellsCallers == ASSUME CInv PROVE CallersAreTold
<1>0. /\ ReportInv /\ CallerInv /\ EventLogOrdered
  BY DEF CInv, LInv, IInv, HandlingInv
<1>1. NobodyLeftSilent
  BY <1>0 DEF CallerInv, NobodyLeftSilent, Closed
<1>2. ASSUME NEW r \in Runs, client[r] = "answered"
      PROVE  /\ cursor[r] = Len(events[r])
             /\ \E report \in Reports :
                  [i \in DOMAIN events[r] |-> events[r][i].type] = <<"started">> \o report
  <2>1. /\ cursor[r] \in DOMAIN events[r] /\ IsTerminal(events[r][cursor[r]])
        /\ events[r][cursor[r]].type = "done"
    BY <1>0, <1>2 DEF CallerInv
  <2>2. cursor[r] = Len(events[r]) BY <1>0, <2>1 DEF EventLogOrdered
  <2>3. WholeIfDone(r) BY <1>0 DEF ReportInv
  <2>4. QED BY <2>1, <2>2, <2>3 DEF WholeIfDone, Types
<1>3. AnsweredIsWhole BY <1>2 DEF AnsweredIsWhole
<1>4. QED BY <1>1, <1>3 DEF CallersAreTold

\* A graph run that started within the slack of the two timeouts has its caller
\* for as long as it runs: the log is still open, so no event closed the turn,
\* and the deadline has not passed.
LEMMA CInvKeepsCallers == ASSUME CInv PROVE PromptRunIsAwaited
<1>0. /\ CallerInv /\ HandlingInv /\ SentInv /\ WorkerTypeOK
      /\ client \in [Runs -> ClientStates] /\ age \in [Runs -> 0 .. JobTimeout + 1]
  BY DEF CInv, LInv, IInv, TypeOK, QueueTypeOK
<1> SUFFICES ASSUME NEW w \in Workers, pc[w] = "running",
                    age[job[w]] + RunTimeout <= JobTimeout + elapsed[w]
             PROVE  client[job[w]] \in {"waiting", "hungup"}
  BY DEF PromptRunIsAwaited
<1>1. job[w] \in Runs /\ job[w] \in delivered
  BY <1>0 DEF HandlingInv, HandsMatchProgram, Holding, PCs, WorkerTypeOK
<1>2. PICK r \in Runs : r = job[w] BY <1>1
<1>3. ~Ended(r) BY <1>0, <1>2 DEF HandlingInv, LogOpenWhileHandled
<1>4. client[r] \notin {"answered", "failed"} BY <1>0, <1>3 DEF CallerInv, Ended
<1>5. client[r] # "gaveup"
  <2>1. elapsed[w] \in Nat /\ elapsed[w] <= RunTimeout /\ age[r] \in Nat
    BY <1>0, WorkerAssumption, QueueAssumption DEF WorkerTypeOK
  <2>2. age[r] <= JobTimeout
    BY <1>2, <2>1, WorkerAssumption, QueueAssumption
  <2>3. ~Late(r) BY <2>1, <2>2, QueueAssumption DEF Late
  <2>4. QED BY <1>0, <2>3 DEF CallerInv
<1>6. client[r] \notin Unsent BY <1>0, <1>1, <1>2 DEF SentInv
<1>7. client[r] \in ClientStates BY <1>0
<1>8. QED BY <1>2, <1>4, <1>5, <1>6, <1>7 DEF ClientStates, Closed, Unsent

\* What stream_answer and ask pass on as an answer is a whole report of one
\* graph run, and every REST or voice caller whose turn is over has been told
\* something, whatever fails behind the gateway.
THEOREM CallersHearTheirAnswer == Spec => []CallersAreTold
<1>1. CInv /\ [Next]_vars => CInv' BY StepCInv
<1>2. QED BY InitCInv, <1>1, CInvTellsCallers, PTL DEF Spec

\* The two timeouts fit: while a graph that was started within the slack between
\* the gateway's run_timeout_s and the agent's own is running, its caller waits
\* for it or has hung up of its own accord, and has not given up.
THEOREM PromptRunsAreAwaited == Spec => []PromptRunIsAwaited
<1>1. CInv /\ [Next]_vars => CInv' BY StepCInv
<1>2. QED BY InitCInv, <1>1, CInvKeepsCallers, PTL DEF Spec
=============================================================================
