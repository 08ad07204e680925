---------------------------- MODULE ChatPipeline ----------------------------
(***************************************************************************)
(* The chat turn end to end: the callers that enqueue a run and tail its   *)
(* events (the REST and WebSocket routes of backend/gateway/app/main.py,   *)
(* the voice worker's backend/voice/app/agent_llm.py) composed with the    *)
(* queue and the agent workers.                                            *)
(***************************************************************************)
EXTENDS AgentWorker

CONSTANTS
  Surfaces,   \* the surfaces in use: a subset of AllSurfaces
  MaxDepth    \* GatewaySettings.max_queue_depth

AllSurfaces == {"rest", "ws", "voice"}

ASSUME PipelineAssumption ==
  /\ Surfaces \subseteq AllSurfaces
  /\ MaxDepth \in Nat

VARIABLES
  client,     \* what the caller of each run is doing
  surface,    \* the surface the run came in on
  cursor,     \* events of the run the caller has read
  told        \* the caller has been given a reply, an error or an apology

clientVars == <<client, surface, cursor, told>>
vars == <<queueVars, workerVars, clientVars>>

Closed == {"answered", "failed", "gaveup", "hungup"}
ClientStates == {"new", "refused", "admitted", "waiting"} \cup Closed

\* Event types the voice worker turns into speech.
Audible == {"token", "confirm", "error"}

ClientInit ==
  /\ client = [r \in Runs |-> "new"]
  /\ surface \in [Runs -> Surfaces]
  /\ cursor = [r \in Runs |-> 0]
  /\ told = [r \in Runs |-> FALSE]

Init == QueueInit /\ WorkerInit /\ ClientInit

Become(r, state) == client' = [client EXCEPT ![r] = state]

\* The admission check of the REST route; the other two have none.
Refuse(r) ==
  /\ client[r] = "new"
  /\ surface[r] = "rest"
  /\ Depth > MaxDepth
  /\ Become(r, "refused")
  /\ UNCHANGED <<queueVars, workerVars, surface, cursor, told>>

Admit(r) ==
  /\ client[r] = "new"
  /\ surface[r] = "rest" => Depth <= MaxDepth
  /\ Become(r, "admitted")
  /\ UNCHANGED <<queueVars, workerVars, surface, cursor, told>>

\* enqueue, some awaits after the check.
Submit(r) ==
  /\ client[r] = "admitted"
  /\ Enqueue(r)
  /\ Become(r, "waiting")
  /\ UNCHANGED <<workerVars, surface, cursor, told>>

\* One event out of subscribe.  A terminal one ends the turn; the voice worker
\* then apologises if nothing it heard could be said aloud.
Hear(r) ==
  /\ client[r] = "waiting"
  /\ cursor[r] < Len(events[r])
  /\ LET e == events[r][cursor[r] + 1]
     IN  /\ Become(r, CASE e.type = "done"  -> "answered"
                        [] e.type = "error" -> "failed"
                        [] OTHER            -> "waiting")
         /\ told' = [told EXCEPT ![r] =
              \/ @
              \/ IsTerminal(e)
              \/ surface[r] = "voice" /\ e.type \in Audible]
  /\ cursor' = [cursor EXCEPT ![r] = @ + 1]
  /\ UNCHANGED <<queueVars, workerVars, surface>>

\* Mutant of GiveUp: the caller leaves at the first empty read.
GiveUpEarly(r) ==
  /\ client[r] = "waiting"
  /\ cursor[r] = Len(events[r])
  /\ Become(r, "gaveup")
  /\ told' = [told EXCEPT ![r] = @ \/ surface[r] # "ws"]
  /\ UNCHANGED <<queueVars, workerVars, surface, cursor>>

\* Mutant of GiveUp: the deadline is looked at only after an event.
GiveUpOnlyAfterEvent(r) ==
  /\ client[r] = "waiting"
  /\ cursor[r] = Len(events[r]) /\ cursor[r] > 0
  /\ Late(r)
  /\ Become(r, "gaveup")
  /\ told' = [told EXCEPT ![r] = @ \/ surface[r] # "ws"]
  /\ UNCHANGED <<queueVars, workerVars, surface, cursor>>

\* subscribe ran out of time with nothing left to read: 504 over REST, an
\* apology over voice, nothing at all over the WebSocket.
GiveUp(r) ==
  /\ client[r] = "waiting"
  /\ cursor[r] = Len(events[r])
  /\ Late(r)
  /\ Become(r, "gaveup")
  /\ told' = [told EXCEPT ![r] = @ \/ surface[r] # "ws"]
  /\ UNCHANGED <<queueVars, workerVars, surface, cursor>>

\* A closed socket or a caller talking over the assistant ends subscribe early;
\* a REST request is seen through to its end.
HangUp(r) ==
  /\ client[r] = "waiting"
  /\ surface[r] # "rest"
  /\ Become(r, "hungup")
  /\ UNCHANGED <<queueVars, workerVars, surface, cursor, told>>

\* Time passes.  wait_for does not let the graph run past RunTimeout.
Tick ==
  /\ \A w \in Workers : pc[w] = "running" => elapsed[w] < RunTimeout
  /\ age' = [r \in Runs |->
       IF client[r] \in {"waiting"} \cup Closed /\ ~Late(r) THEN age[r] + 1 ELSE age[r]]
  /\ elapsed' = [w \in Workers |->
       IF pc[w] = "running" THEN elapsed[w] + 1 ELSE elapsed[w]]
  /\ UNCHANGED <<stream, delivered, owner, dead, events,
                 pc, job, seq, todo, faults, clientVars>>

ClientStep(r) == Hear(r) \/ GiveUp(r)
AgentStep(w) == WorkerStep(w) /\ UNCHANGED clientVars
AgentFault(w) == WorkerFault(w) /\ UNCHANGED clientVars

Next ==
  \/ \E r \in Runs : Refuse(r) \/ Admit(r) \/ Submit(r) \/ ClientStep(r) \/ HangUp(r)
  \/ \E w \in Workers : AgentStep(w) \/ AgentFault(w)
  \/ Tick

\* Processes that are up keep running and time passes.  Requests, faults and
\* restarts may never come, and nobody has to hang up.
Fairness ==
  /\ \A w \in Workers : WF_vars(AgentStep(w))
  /\ \A r \in Runs : WF_vars(Submit(r)) /\ WF_vars(ClientStep(r))
  /\ WF_vars(Tick)

Spec == Init /\ [][Next]_vars
FairSpec == Spec /\ Fairness

-----------------------------------------------------------------------------
\* Type invariant; that elapsed stays in its range is wait_for's promise.
TypeOK ==
  /\ QueueTypeOK
  /\ WorkerTypeOK
  /\ client \in [Runs -> ClientStates]
  /\ surface \in [Runs -> Surfaces]
  /\ cursor \in [Runs -> Nat]
  /\ told \in [Runs -> BOOLEAN]

Held(r) == \E w \in Workers : job[w] = r

\* No job is in two workers' hands, although XAUTOCLAIM moves entries between
\* consumers while their first worker may still be busy on them.
OneHandler ==
  \A v, w \in Workers : job[v] = job[w] /\ job[v] # NoRun => v = w

\* A run's stream numbers its events from 0 without gap, repetition or
\* reordering, and nothing follows a terminal event: subscribe stops at the
\* first one, so whatever came after would never be read.
EventLogOrdered ==
  \A r \in Runs : \A i \in DOMAIN events[r] :
    /\ events[r][i].seq = i - 1
    /\ IsTerminal(events[r][i]) => i = Len(events[r])

\* A caller that was answered has read one complete report of one graph run,
\* in order: no failed emit, crash or stale worker can leave it an answer that
\* lacks the tool results or the sources the report started with.
AnsweredIsWhole ==
  \A r \in Runs : client[r] = "answered" =>
    /\ cursor[r] = Len(events[r])
    /\ \E report \in Reports :
         [i \in DOMAIN events[r] |-> events[r][i].type] = <<"started">> \o report

\* A reply, an error or an apology reaches every REST or voice caller whose turn
\* is over.  The WebSocket route is the exception: its socket just goes quiet.
NobodyLeftSilent ==
  \A r \in Runs :
    client[r] \in Closed \ {"hungup"} /\ surface[r] # "ws" => told[r]

\* What callers hear, whichever way their turn ends.
CallersAreTold == AnsweredIsWhole /\ NobodyLeftSilent

\* A job leaves the pending list either with its terminal event published or
\* as a dead letter: ack and dead_letter never drop a turn silently.
NoSilentSettle ==
  \A r \in delivered :
    owner[r] = NoWorker /\ InStream(r) /\ ~Held(r) => Ended(r) \/ r \in dead

\* The depth admission control reads is at most one entry per busy worker and
\* one per fault so far: what a crash strands in the pending list is never more
\* than the job it was holding.
DepthIsBusyPlusFaults ==
  Depth <= Cardinality({w \in Workers : job[w] # NoRun}) + faults

\* A run whose graph started within the slack between the two timeouts still
\* has its caller: run_timeout_s of the gateway covers the agent's own for
\* every job that did not wait longer than that in the queue.
PromptRunIsAwaited ==
  \A w \in Workers :
    pc[w] = "running" /\ age[job[w]] + RunTimeout <= JobTimeout + elapsed[w]
      => client[job[w]] \in {"waiting", "hungup"}

\* Every turn that was enqueued comes to an end for its caller, whatever
\* workers crash: subscribe has a deadline.
EveryTurnCloses ==
  \A r \in Runs : client[r] = "waiting" ~> client[r] \in Closed

\* Unless something fails or the stream has no room, every job gets its terminal
\* event and leaves the pending list, even when its caller has gone: a job picked
\* up too late or timed out is closed like any other.
EveryJobSettles ==
  \A r \in Runs :
    client[r] = "waiting" ~> faults > 0 \/ (Ended(r) /\ r \in delivered \ Pending)

\* What the documentation says of a crashed worker's job: it is reclaimed and
\* brought to its end by another replica.
CrashedJobIsRecovered ==
  \A r \in Runs : r \in Pending ~> Ended(r) \/ r \in dead

-----------------------------------------------------------------------------
\* The inductive invariant behind OneHandler and EventLogOrdered.

\* Exactly one terminal type, in last place.
ClosesOnce(types) ==
  /\ types # <<>>
  /\ \A i \in DOMAIN types : types[i] \in TerminalTypes <=> i = Len(types)

\* A worker has a job in hand exactly while it is past consume, that job has
\* been delivered, and empty hands have no event counter.
HandsMatchProgram ==
  \A w \in Workers :
    /\ pc[w] \in Holding <=> job[w] # NoRun
    /\ IF job[w] = NoRun THEN seq[w] = 0 ELSE job[w] \in delivered

\* What is left to publish closes the log in the stretches that should.
TodoMatchesProgram ==
  \A w \in Workers :
    /\ pc[w] = "starting" => todo[w] = <<"started">>
    /\ pc[w] \in {"reporting", "failing"} => ClosesOnce(todo[w])

\* Until handle has published its last event, its counter is the length of the
\* run's log, and the log is still open.
LogOpenWhileHandled ==
  \A w \in Workers :
    pc[w] \in {"picked", "running"} \cup Publishing =>
      /\ seq[w] = Len(events[job[w]])
      /\ ~Ended(job[w])

\* Nothing is published for a run no worker has been handed.
UndeliveredLogEmpty == \A r \in Runs \ delivered : events[r] = <<>>

\* The program, the hands, the counters and the logs of all workers agree.
HandlingInv ==
  /\ OneHandler
  /\ HandsMatchProgram
  /\ TodoMatchesProgram
  /\ LogOpenWhileHandled
  /\ UndeliveredLogEmpty
  /\ EventLogOrdered

-----------------------------------------------------------------------------
\* The stage of a run's life, for the abstract specification.
StageOf(r) ==
  IF client[r] \in {"new", "refused", "admitted"} THEN "unsent"
  ELSE IF r \notin delivered THEN IF InStream(r) THEN "queued" ELSE "lost"
  ELSE IF Held(r) THEN "held"
  ELSE IF owner[r] # NoWorker THEN "stranded" ELSE "settled"

Lifecycle == INSTANCE TurnLifecycle
  WITH stage <- [r \in Runs |-> StageOf(r)], ended <- {r \in Runs : Ended(r)}

\* The pipeline implements the lifecycle: at most one hand-over and at most
\* one terminal event for every run, through crashes, reclaims and trimming.
LifecycleSpec == Lifecycle!Spec
=============================================================================
