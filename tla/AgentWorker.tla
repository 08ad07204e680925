----------------------------- MODULE AgentWorker -----------------------------
(***************************************************************************)
(* The agent worker processes (backend/agent/app/worker.py): run_forever   *)
(* takes one job at a time from the queue, handle runs the graph on it and *)
(* publishes its events, and the job is acked or dead-lettered.  Any       *)
(* process may crash at any step and any Redis call may fail; together     *)
(* those faults are bounded by MaxFaults.                                  *)
(***************************************************************************)
EXTENDS JobQueue

CONSTANTS
  NoRun,      \* "no job in hand"
  RunTimeout, \* AgentSettings.run_timeout_s, in ticks
  MaxTools,   \* bound: tool_end events of one run
  MaxFaults   \* bound: crashes and failed Redis calls

ASSUME WorkerAssumption ==
  /\ NoRun \notin Runs
  /\ RunTimeout \in Nat
  /\ MaxTools \in Nat
  /\ MaxFaults \in Nat

VARIABLES
  pc,         \* where each worker is in run_forever / handle
  job,        \* the run it has in hand
  seq,        \* handle's local event counter
  todo,       \* event types handle still has to publish in this stretch
  elapsed,    \* ticks the graph has been running
  faults      \* faults so far

workerVars == <<pc, job, seq, todo, elapsed, faults>>

\* reclaim, consume: top of the loop.  picked: handle entered.  starting,
\* reporting, failing: publishing.  running: inside graph.ainvoke.  acking,
\* burying, buried: after handle, in ack or in the two calls of dead_letter.
PCs == {"down", "reclaim", "consume", "picked", "starting", "running",
        "reporting", "failing", "acking", "burying", "buried"}
Publishing == {"starting", "reporting", "failing"}
Holding == PCs \ {"down", "reclaim", "consume"}

ToolEnds(n) == [i \in 1 .. n |-> "tool_end"]
Endings == { <<"confirm", "sources", "done">>,
             <<"token", "sources", "done">>,
             <<"sources", "done">> }

\* What handle publishes after a graph run that returned: one tool_end per
\* invocation, then the confirmation or the answer.
Reports == {ToolEnds(n) \o ending : n \in 0 .. MaxTools, ending \in Endings}

\* Where handle goes once a stretch of events is published.
After(p) == CASE p = "starting"  -> "running"
              [] p = "reporting" -> "acking"
              [] p = "failing"   -> "burying"

WorkerInit ==
  /\ pc = [w \in Workers |-> "reclaim"]
  /\ job = [w \in Workers |-> NoRun]
  /\ seq = [w \in Workers |-> 0]
  /\ todo = [w \in Workers |-> <<>>]
  /\ elapsed = [w \in Workers |-> 0]
  /\ faults = 0

Goto(w, p) == pc' = [pc EXCEPT ![w] = p]
Fault == faults < MaxFaults /\ faults' = faults + 1

------------------------------------------------------------------------------
\* run_forever: its failures are suppressed, so it always goes on to consume.
Reclaim(w) ==
  /\ pc[w] = "reclaim"
  /\ ReclaimStalled(w)
  /\ Goto(w, "consume")
  /\ UNCHANGED <<job, seq, todo, elapsed, faults>>

Consume(w) ==
  /\ pc[w] = "consume"
  /\ \E r \in Runs : Deliver(w, r) /\ job' = [job EXCEPT ![w] = r]
  /\ Goto(w, "picked")
  /\ UNCHANGED <<seq, todo, elapsed, faults>>

\* The blocking read timed out with no entry.
ConsumeNothing(w) ==
  /\ pc[w] = "consume"
  /\ NothingToDeliver
  /\ Goto(w, "reclaim")
  /\ UNCHANGED <<queueVars, job, seq, todo, elapsed, faults>>

\* Mutant of Expire: the late job is acked without an error event.
ExpireSilently(w) ==
  /\ pc[w] = "picked"
  /\ Late(job[w])
  /\ Goto(w, "acking")
  /\ UNCHANGED <<queueVars, job, seq, todo, elapsed, faults>>

\* handle, on a job whose deadline has passed: one error event, then ack.
Expire(w) ==
  /\ pc[w] = "picked"
  /\ Late(job[w])
  /\ todo' = [todo EXCEPT ![w] = <<"error">>]
  /\ Goto(w, "reporting")
  /\ UNCHANGED <<queueVars, job, seq, elapsed, faults>>

Start(w) ==
  /\ pc[w] = "picked"
  /\ ~Late(job[w])
  /\ todo' = [todo EXCEPT ![w] = <<"started">>]
  /\ Goto(w, "starting")
  /\ UNCHANGED <<queueVars, job, seq, elapsed, faults>>

\* _emit, one event of the stretch.
Emit(w) ==
  /\ pc[w] \in Publishing
  /\ Publish(job[w], [type |-> Head(todo[w]), seq |-> seq[w]])
  /\ seq' = [seq EXCEPT ![w] = @ + 1]
  /\ todo' = [todo EXCEPT ![w] = Tail(@)]
  /\ Goto(w, IF Tail(todo[w]) = <<>> THEN After(pc[w]) ELSE pc[w])
  /\ UNCHANGED <<job, elapsed, faults>>

\* Mutant of EmitFails: the failed publish is suppressed and handle goes on.
EmitFailureSuppressed(w) ==
  /\ pc[w] \in Publishing
  /\ Fault
  /\ seq' = [seq EXCEPT ![w] = @ + 1]
  /\ todo' = [todo EXCEPT ![w] = Tail(@)]
  /\ Goto(w, IF Tail(todo[w]) = <<>> THEN After(pc[w]) ELSE pc[w])
  /\ UNCHANGED <<queueVars, job, elapsed>>

\* Mutant of EmitFails: the publish is retried, its XADD may have landed.
EmitRetried(w) ==
  /\ pc[w] \in Publishing
  /\ Fault
  /\ Publish(job[w], [type |-> Head(todo[w]), seq |-> seq[w]])
  /\ UNCHANGED <<pc, job, seq, todo, elapsed>>

\* publish raises, before its XADD or between it and EXPIRE.  No emit is
\* inside a try block of its own, so the exception leaves handle.
EmitFails(w) ==
  /\ pc[w] \in Publishing
  /\ Fault
  /\ \/ UNCHANGED queueVars
     \/ Publish(job[w], [type |-> Head(todo[w]), seq |-> seq[w]])
  /\ todo' = [todo EXCEPT ![w] = <<>>]
  /\ Goto(w, "burying")
  /\ UNCHANGED <<job, seq, elapsed>>

\* graph.ainvoke returned, with an answer or with an interrupt.
GraphReturns(w) ==
  /\ pc[w] = "running"
  /\ \E report \in Reports : todo' = [todo EXCEPT ![w] = report]
  /\ Goto(w, "reporting")
  /\ elapsed' = [elapsed EXCEPT ![w] = 0]
  /\ UNCHANGED <<queueVars, job, seq, faults>>

\* graph.ainvoke raised or wait_for timed out: one error event, then raise.
GraphFails(w) ==
  /\ pc[w] = "running"
  /\ todo' = [todo EXCEPT ![w] = <<"error">>]
  /\ Goto(w, "failing")
  /\ elapsed' = [elapsed EXCEPT ![w] = 0]
  /\ UNCHANGED <<queueVars, job, seq, faults>>

\* The worker's hands are empty again: handle's locals are gone.
LetGo(w) ==
  /\ job' = [job EXCEPT ![w] = NoRun]
  /\ seq' = [seq EXCEPT ![w] = 0]
  /\ todo' = [todo EXCEPT ![w] = <<>>]
  /\ elapsed' = [elapsed EXCEPT ![w] = 0]

Ack(w) ==
  /\ pc[w] = "acking"
  /\ AckEntry(job[w])
  /\ LetGo(w)
  /\ Goto(w, "reclaim")
  /\ UNCHANGED faults

\* ack is inside the try block: its failure dead-letters a finished job.
AckFails(w) ==
  /\ pc[w] = "acking"
  /\ Fault
  /\ UNCHANGED queueVars \/ AckEntry(job[w])
  /\ Goto(w, "burying")
  /\ UNCHANGED <<job, seq, todo, elapsed>>

DeadLetter(w) ==
  /\ pc[w] = "burying"
  /\ DeadLetterEntry(job[w])
  /\ Goto(w, "buried")
  /\ UNCHANGED <<job, seq, todo, elapsed, faults>>

\* Mutant of AckDead: a dead letter stays in the pending list.
AckDeadForgotten(w) ==
  /\ pc[w] = "buried"
  /\ LetGo(w)
  /\ Goto(w, "reclaim")
  /\ UNCHANGED <<queueVars, faults>>

AckDead(w) ==
  /\ pc[w] = "buried"
  /\ AckEntry(job[w])
  /\ LetGo(w)
  /\ Goto(w, "reclaim")
  /\ UNCHANGED faults

\* The process dies, or consume or dead_letter raises: nothing catches those.
Crash(w) ==
  /\ pc[w] # "down"
  /\ Fault
  /\ Goto(w, "down")
  /\ LetGo(w)
  /\ UNCHANGED queueVars

\* A new process; its consumer name is new but it also reads only ">".
Restart(w) ==
  /\ pc[w] = "down"
  /\ Goto(w, "reclaim")
  /\ UNCHANGED <<queueVars, job, seq, todo, elapsed, faults>>

\* The steps a live process keeps taking.
WorkerStep(w) ==
  \/ Reclaim(w)
  \/ Consume(w)
  \/ ConsumeNothing(w)
  \/ Expire(w)
  \/ Start(w)
  \/ Emit(w)
  \/ GraphReturns(w)
  \/ GraphFails(w)
  \/ Ack(w)
  \/ DeadLetter(w)
  \/ AckDead(w)

\* Redis failures, crashes and restarts: nothing obliges them to happen.
WorkerFault(w) ==
  \/ EmitFails(w)
  \/ AckFails(w)
  \/ Crash(w)
  \/ Restart(w)

WorkerTypeOK ==
  /\ pc \in [Workers -> PCs]
  /\ job \in [Workers -> Runs \cup {NoRun}]
  /\ seq \in [Workers -> Nat]
  /\ todo \in [Workers -> Seq(EventTypes)]
  /\ elapsed \in [Workers -> 0 .. RunTimeout]
  /\ faults \in 0 .. MaxFaults
==============================================================================
