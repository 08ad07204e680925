------------------------------ MODULE JobQueue ------------------------------
(***************************************************************************)
(* The Redis Streams work queue and the per-run event streams              *)
(* (backend/libs/adapters/queue_redis.py): the state Redis keeps and what  *)
(* each queue operation does to it.  The actors that call the operations   *)
(* are in AgentWorker and ChatPipeline.                                    *)
(***************************************************************************)
EXTENDS Naturals, Sequences, FiniteSets

CONSTANTS
  Runs,       \* run ids: one chat turn each, every id is used once (uuid4)
  Workers,    \* agent processes
  NoWorker,   \* "nobody": not in the pending entries list
  JobMaxLen,  \* JOB_MAXLEN, the length the job stream is trimmed to
  JobTimeout  \* deadline_s of every job, in ticks: the caller's run timeout

ASSUME QueueAssumption ==
  /\ NoWorker \notin Workers
  /\ JobMaxLen \in Nat \ {0}
  /\ JobTimeout \in Nat

VARIABLES
  stream,     \* jobs:chat, the run ids of its entries, oldest first
  age,        \* ticks since each job was enqueued, up to JobTimeout + 1
  delivered,  \* entries at or before the group's last-delivered id
  owner,      \* pending entries list: the consumer of a delivered, unacked entry
  dead,       \* jobs:chat:dead
  events      \* stream:{run_id}, the events published for each run

queueVars == <<stream, age, delivered, owner, dead, events>>

TerminalTypes == {"done", "error"}
EventTypes == {"started", "token", "tool_end", "confirm", "sources"} \cup TerminalTypes
Event == [type : EventTypes, seq : Nat]

IsTerminal(e) == e.type \in TerminalTypes

\* Whether the stream of run r holds its terminal event.
Ended(r) == \E i \in DOMAIN events[r] : IsTerminal(events[r][i])

\* time.time() > deadline_at, on the one clock worker and queue share.
Late(r) == age[r] > JobTimeout

Pending == {r \in Runs : owner[r] # NoWorker}
InStream(r) == \E i \in DOMAIN stream : stream[i] = r

\* XPENDING: what RedisQueue.depth returns.
Depth == Cardinality(Pending)

QueueInit ==
  /\ stream = <<>>
  /\ age = [r \in Runs |-> 0]
  /\ delivered = {}
  /\ owner = [r \in Runs |-> NoWorker]
  /\ dead = {}
  /\ events = [r \in Runs |-> <<>>]

\* XADD with approximate trimming: Redis may drop any number of the oldest
\* entries as long as at least JobMaxLen remain; acked entries count, since
\* XACK does not delete them.
Enqueue(r) ==
  LET longer == Append(stream, r)
  IN  /\ \E k \in 0 .. Len(stream) :
           /\ k > 0 => Len(longer) - k >= JobMaxLen
           /\ stream' = SubSeq(longer, k + 1, Len(longer))
      /\ UNCHANGED <<age, delivered, owner, dead, events>>

\* Position i holds the first entry after the group's last-delivered id.
IsNextEntry(i) ==
  /\ stream[i] \notin delivered
  /\ \A j \in 1 .. i - 1 : stream[j] \in delivered

\* Mutant of Deliver: consume also hands out what the caller has reclaimed.
DeliverReclaimedToo(w, r) ==
  /\ \E i \in DOMAIN stream : (IsNextEntry(i) \/ owner[r] = w) /\ stream[i] = r
  /\ delivered' = delivered \cup {r}
  /\ owner' = [owner EXCEPT ![r] = w]
  /\ UNCHANGED <<stream, age, dead, events>>

\* Mutant of Deliver: read with NOACK, so the pending list stays empty.
DeliverUnacked(w, r) ==
  /\ \E i \in DOMAIN stream : IsNextEntry(i) /\ stream[i] = r
  /\ delivered' = delivered \cup {r}
  /\ UNCHANGED <<stream, age, owner, dead, events>>

\* XREADGROUP ">" with count 1: the entry enters w's pending list.
Deliver(w, r) ==
  /\ \E i \in DOMAIN stream : IsNextEntry(i) /\ stream[i] = r
  /\ delivered' = delivered \cup {r}
  /\ owner' = [owner EXCEPT ![r] = w]
  /\ UNCHANGED <<stream, age, dead, events>>

NothingToDeliver == \A i \in DOMAIN stream : stream[i] \in delivered

\* XACK removes the entry whoever its consumer now is.
AckEntry(r) ==
  /\ owner' = [owner EXCEPT ![r] = NoWorker]
  /\ UNCHANGED <<stream, age, delivered, dead, events>>

\* The XADD half of dead_letter; the ack that follows is AckEntry.
DeadLetterEntry(r) ==
  /\ dead' = dead \cup {r}
  /\ UNCHANGED <<stream, age, delivered, owner, events>>

\* Mutant of ReclaimStalled: stalled entries are put back for delivery.
ReclaimRedelivers(w) ==
  /\ \E stalled \in SUBSET Pending :
       /\ owner' = [r \in Runs |-> IF r \in stalled THEN NoWorker ELSE owner[r]]
       /\ delivered' = delivered \ stalled
  /\ UNCHANGED <<stream, age, dead, events>>

\* XAUTOCLAIM: stalled entries change consumer, and those no longer in the
\* stream leave the pending list.  reclaim_stalled returns only their number,
\* so nothing is handed to the caller.
ReclaimStalled(w) ==
  /\ \E stalled \in SUBSET Pending :
       owner' = [r \in Runs |-> IF r \notin stalled THEN owner[r]
                                ELSE IF InStream(r) THEN w ELSE NoWorker]
  /\ UNCHANGED <<stream, age, delivered, dead, events>>

Publish(r, e) ==
  /\ events' = [events EXCEPT ![r] = Append(@, e)]
  /\ UNCHANGED <<stream, age, delivered, owner, dead>>

QueueTypeOK ==
  /\ stream \in Seq(Runs)
  /\ age \in [Runs -> 0 .. JobTimeout + 1]
  /\ delivered \in SUBSET Runs
  /\ owner \in [Runs -> Workers \cup {NoWorker}]
  /\ dead \in SUBSET Runs
  /\ events \in [Runs -> Seq(Event)]
=============================================================================
