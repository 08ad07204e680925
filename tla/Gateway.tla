------------------------------- MODULE Gateway -------------------------------
(***************************************************************************)
(* The gateway's three doors (backend/gateway/app/main.py: chat,           *)
(* chat_stream, voice_token) over the conversation store                   *)
(* (backend/libs/adapters/conversations_postgres.py) and the ingress       *)
(* limiter.  A request runs step by step between awaits; each database     *)
(* transaction is one step where it begins, which fixes its now(), and one *)
(* where it commits.                                                       *)
(*                                                                         *)
(* What becomes of a run is left to the job pipeline: it is answered, it   *)
(* ends in an error, or the gateway stops waiting first.                   *)
(***************************************************************************)
EXTENDS RateLimiter, FiniteSets

CONSTANTS
  Requests,   \* a request is also the name of the conversation it may start
  Given,      \* conversation ids that clients make up
  Slots,      \* requests in progress at the same time
  MaxFaults   \* bound: failed transactions and enqueues

Ids == Given \cup Requests

ASSUME GatewayAssumption ==
  /\ IsFiniteSet(Requests)
  /\ Given \cap Requests = {}
  /\ None \notin Ids \cup Users
  /\ Slots \in Nat
  /\ MaxFaults \in Nat

VARIABLES
  pc,        \* where each request is
  kind,      \* the door it came through
  user,
  asked,     \* the conversation id it came with, until ensure has seen to it
  conv,      \* the one ensure returned
  began,     \* now() of the transaction it is in
  run,       \* what has become of its job
  owner,     \* app.conversations: user_id
  updated,   \* and updated_at
  messages,  \* app.messages
  stamp,     \* the database's clock, counted in transactions that write
  thread,    \* the conversation each user last started or wrote to, of their own
  crowded,   \* users of whom two requests were ever in progress at once, or in
             \* whose conversations somebody else wrote
  faults

request == <<pc, kind, user, asked, conv, began, run>>
store == <<owner, updated, messages, stamp>>
seen == <<thread, crowded, faults>>
vars == <<limiterVars, request, store, seen>>

Kinds == {"rest", "ws", "token"}
Over == {"done", "refused", "failed"}
PCs == {"unsent", "check", "find", "insert", "ask", "asking", "enqueue", "waiting",
        "answer", "answering"} \cup Over
Active == {q \in Requests : pc[q] \notin Over \cup {"unsent"}}
Of(u) == {q \in Requests : user[q] = u}

Roles == {"user", "assistant"}
Message == [conv : Ids, req : Requests, role : Roles, at : Nat]

Goto(q, p) == pc' = [pc EXCEPT ![q] = p]

Init ==
  /\ LimiterInit
  /\ pc = [q \in Requests |-> "unsent"]
  /\ kind = [q \in Requests |-> "rest"]
  /\ user = [q \in Requests |-> None]
  /\ asked = [q \in Requests |-> None]
  /\ conv = [q \in Requests |-> None]
  /\ began = [q \in Requests |-> 0]
  /\ run = [q \in Requests |-> "none"]
  /\ owner = [c \in Ids |-> None]
  /\ updated = [c \in Ids |-> 0]
  /\ messages = {}
  /\ stamp = 0
  /\ thread = [u \in Users |-> None]
  /\ crowded = {}
  /\ faults = 0

------------------------------------------------------------------------------
\* A request arrives, without a conversation id, with one the client made up, or
\* with one that an earlier response told it.
Arrive(q) ==
  /\ pc[q] = "unsent"
  /\ Cardinality(Active) < Slots
  /\ \E u \in Users, k \in Kinds,
        c \in {None} \cup Given
              \cup {conv[p] : p \in {r \in Requests : pc[r] = "done" /\ kind[r] # "ws"}} :
       /\ user' = [user EXCEPT ![q] = u]
       /\ kind' = [kind EXCEPT ![q] = k]
       /\ asked' = [asked EXCEPT ![q] = c]
       /\ Goto(q, IF k = "rest" THEN "check" ELSE "find")
       /\ crowded' = IF Active \cap Of(u) # {} THEN crowded \cup {u} ELSE crowded
  /\ UNCHANGED <<limiterVars, conv, began, run, store, thread, faults>>

\* chat: rate_limiter.check.
Check(q) ==
  /\ pc[q] = "check"
  /\ \E g \in Gateways :
       \/ Allow(user[q], g) /\ Goto(q, "find")
       \/ Deny(user[q], g) /\ Goto(q, "refused")
  /\ UNCHANGED <<kind, user, asked, conv, began, run, store, seen>>

\* chat: the queue is deeper than max_queue_depth.
Busy(q) ==
  /\ pc[q] = "find"
  /\ kind[q] = "rest"
  /\ Goto(q, "refused")
  /\ UNCHANGED <<limiterVars, kind, user, asked, conv, began, run, store, seen>>

Owned(u) == {c \in Ids : owner[c] = u}

\* Mutant of Latest: the oldest conversation, as the in-memory store has it.
Oldest(u) == CHOOSE c \in Owned(u) : \A d \in Owned(u) : updated[c] <= updated[d]

\* ORDER BY updated_at DESC LIMIT 1.
Latest(u) == CHOOSE c \in Owned(u) : \A d \in Owned(u) : updated[d] <= updated[c]

\* What a request does once it has its conversation.
AfterEnsure(q) ==
  CASE kind[q] = "rest" -> "ask" [] kind[q] = "ws" -> "enqueue" [] kind[q] = "token" -> "done"

\* A transaction that will write begins: its now() is later than any before.
Begin(q) ==
  /\ stamp' = stamp + 1
  /\ began' = [began EXCEPT ![q] = stamp + 1]

\* Mutant of Find: only conversations that have messages are looked at.
FindWritten(q) ==
  LET u == user[q]
      written == {c \in Owned(u) : \E m \in messages : m.conv = c}
      found == IF asked[q] # None
               THEN IF owner[asked[q]] # None THEN asked[q] ELSE None
               ELSE IF written # {} THEN Latest(u) ELSE None
  IN  /\ pc[q] = "find"
      /\ conv' = [conv EXCEPT ![q] = found]
      /\ IF found = None THEN Begin(q) /\ UNCHANGED asked
         ELSE UNCHANGED <<began, stamp>> /\ asked' = [asked EXCEPT ![q] = None]
      /\ Goto(q, IF found = None THEN "insert" ELSE AfterEnsure(q))
      /\ UNCHANGED <<limiterVars, kind, user, run, owner, updated, messages, seen>>

\* ensure: the conversation with the given id, whoever's it is, or the user's
\* most recent one.
Find(q) ==
  LET u == user[q]
      found == IF asked[q] # None
               THEN IF owner[asked[q]] # None THEN asked[q] ELSE None
               ELSE IF Owned(u) # {} THEN Latest(u) ELSE None
  IN  /\ pc[q] = "find"
      /\ conv' = [conv EXCEPT ![q] = found]
      /\ IF found = None THEN Begin(q) /\ UNCHANGED asked
         ELSE UNCHANGED <<began, stamp>> /\ asked' = [asked EXCEPT ![q] = None]
      /\ Goto(q, IF found = None THEN "insert" ELSE AfterEnsure(q))
      /\ UNCHANGED <<limiterVars, kind, user, run, owner, updated, messages, seen>>

\* The id a request's new conversation gets.
NewId(q) == IF asked[q] # None THEN asked[q] ELSE q

\* INSERT ... ON CONFLICT DO NOTHING, and the transaction commits.
Create(q) ==
  IF owner[NewId(q)] = None
  THEN /\ owner' = [owner EXCEPT ![NewId(q)] = user[q]]
       /\ updated' = [updated EXCEPT ![NewId(q)] = began[q]]
       /\ thread' = [thread EXCEPT ![user[q]] = NewId(q)]
  ELSE UNCHANGED <<owner, updated, thread>>

\* ensure, the rest of it.
Insert(q) ==
  /\ pc[q] = "insert"
  /\ Create(q)
  /\ conv' = [conv EXCEPT ![q] = NewId(q)]
  /\ began' = [began EXCEPT ![q] = 0]
  /\ asked' = [asked EXCEPT ![q] = None]
  /\ Goto(q, AfterEnsure(q))
  /\ UNCHANGED <<limiterVars, kind, user, run, messages, stamp, crowded, faults>>

\* add_message, both statements.
Write(q, role) ==
  /\ messages' = messages \cup {[conv |-> conv[q], req |-> q, role |-> role, at |-> began[q]]}
  /\ updated' = [updated EXCEPT ![conv[q]] = began[q]]
  /\ IF owner[conv[q]] = user[q]
     THEN thread' = [thread EXCEPT ![user[q]] = conv[q]] /\ UNCHANGED crowded
     ELSE crowded' = crowded \cup {owner[conv[q]]} /\ UNCHANGED thread

\* chat: add_message begins, before the run is enqueued and after it is answered.
BeginMessage(q) ==
  /\ pc[q] \in {"ask", "answer"}
  /\ Begin(q)
  /\ Goto(q, IF pc[q] = "ask" THEN "asking" ELSE "answering")
  /\ UNCHANGED <<limiterVars, kind, user, asked, conv, run, owner, updated, messages, seen>>

\* chat: add_message commits; after the answer, the response is sent.
CommitMessage(q) ==
  /\ \/ pc[q] = "asking" /\ Write(q, "user") /\ Goto(q, "enqueue")
     \/ pc[q] = "answering" /\ Write(q, "assistant") /\ Goto(q, "done")
  /\ began' = [began EXCEPT ![q] = 0]
  /\ UNCHANGED <<limiterVars, kind, user, asked, conv, run, owner, stamp, faults>>

Enqueue(q) ==
  /\ pc[q] = "enqueue"
  /\ run' = [run EXCEPT ![q] = "going"]
  /\ Goto(q, "waiting")
  /\ UNCHANGED <<limiterVars, kind, user, asked, conv, began, store, seen>>

\* The run's terminal event, done or error; one that comes when nobody waits any
\* more changes nothing here, nor does one that a socket merely forwards.
RunEnds(q) ==
  /\ pc[q] = "waiting" /\ kind[q] = "rest"
  /\ run[q] = "going"
  /\ \E end \in {"answered", "broken"} : run' = [run EXCEPT ![q] = end]
  /\ UNCHANGED <<limiterVars, pc, kind, user, asked, conv, began, store, seen>>

\* Mutant of Collect: a run without a terminal event counts as answered.
CollectBlank(q) ==
  /\ pc[q] = "waiting"
  /\ IF kind[q] = "ws" THEN Goto(q, "done")
     ELSE Goto(q, IF run[q] = "broken" THEN "failed" ELSE "answer")
  /\ UNCHANGED <<limiterVars, kind, user, asked, conv, began, run, store, seen>>

\* _collect: an answer, a 502 for an error, and a 504 when the timeout comes
\* first; the socket forwards what there is and takes the next message.
Collect(q) ==
  /\ pc[q] = "waiting"
  /\ IF kind[q] = "ws" THEN Goto(q, "done")
     ELSE Goto(q, IF run[q] = "answered" THEN "answer" ELSE "failed")
  /\ UNCHANGED <<limiterVars, kind, user, asked, conv, began, run, store, seen>>

\* An await raises, or the gateway is stopped: the transaction in progress is
\* rolled back, or its commit had got through.
Fail(q) ==
  /\ q \in Active
  /\ pc[q] # "waiting"
  /\ faults < MaxFaults
  /\ faults' = faults + 1
  /\ Goto(q, "failed")
  /\ \/ UNCHANGED <<owner, updated, messages, thread, crowded, run>>
     \/ pc[q] = "insert" /\ Create(q) /\ UNCHANGED <<messages, crowded, run>>
     \/ pc[q] = "asking" /\ Write(q, "user") /\ UNCHANGED <<owner, run>>
     \/ pc[q] = "answering" /\ Write(q, "assistant") /\ UNCHANGED <<owner, run>>
     \/ /\ pc[q] = "enqueue"
        /\ run' = [run EXCEPT ![q] = "going"]
        /\ UNCHANGED <<owner, updated, messages, thread, crowded>>
  /\ began' = [began EXCEPT ![q] = 0]
  /\ UNCHANGED <<limiterVars, kind, user, asked, conv, stamp>>

Time ==
  /\ Tick
  /\ UNCHANGED <<request, store, seen>>

Next ==
  \/ \E q \in Requests :
       \/ Arrive(q) \/ Check(q) \/ Busy(q) \/ Find(q) \/ Insert(q)
       \/ BeginMessage(q) \/ CommitMessage(q) \/ Enqueue(q) \/ RunEnds(q)
       \/ Collect(q) \/ Fail(q)
  \/ Time

Spec == Init /\ [][Next]_vars

------------------------------------------------------------------------------
\* Type invariant.
GatewayTypeOK ==
  /\ LimiterTypeOK
  /\ pc \in [Requests -> PCs]
  /\ kind \in [Requests -> Kinds]
  /\ user \in [Requests -> Users \cup {None}]
  /\ asked \in [Requests -> Ids \cup {None}]
  /\ conv \in [Requests -> Ids \cup {None}]
  /\ began \in [Requests -> Nat]
  /\ run \in [Requests -> {"none", "going", "answered", "broken"}]
  /\ owner \in [Ids -> Users \cup {None}]
  /\ updated \in [Ids -> Nat]
  /\ messages \in SUBSET Message
  /\ stamp \in Nat
  /\ thread \in [Users -> Ids \cup {None}]
  /\ crowded \in SUBSET Users
  /\ faults \in 0 .. MaxFaults

\* The history that is read back is one that took place: an answer stands in it
\* after its own question, in the same conversation, once, and only if the run
\* was answered while its caller waited; and a caller that was given an answer
\* finds both in the conversation it was told of.
HistoryIsTrue ==
  /\ \A m \in messages : m.role = "assistant" =>
       /\ run[m.req] = "answered"
       /\ \E n \in messages : /\ n.role = "user" /\ n.req = m.req /\ n.conv = m.conv
                              /\ n.at < m.at
  /\ \A m, n \in messages : m.req = n.req /\ m.role = n.role => m = n
  /\ \A q \in Requests : pc[q] = "done" /\ kind[q] = "rest" =>
       \E m \in messages : m.req = q /\ m.role = "assistant" /\ m.conv = conv[q]

\* First requests that race each start a conversation, but only those: once a user
\* has one, no request without an id starts another.
StartsAreBounded ==
  \A u \in Users : Cardinality({q \in Requests : owner[q] = u}) <= Slots

\* A user whose requests come one at a time, and in whose conversations nobody
\* else writes, goes on, when no id is given, in the one that was last started or
\* written to, through whichever door.
ThreadContinues ==
  [][\A q \in Requests :
       (/\ pc[q] = "find" /\ pc'[q] \notin {"find", "refused", "failed"}
        /\ asked[q] = None
        /\ user[q] \notin crowded
        /\ thread[user[q]] # None)
       => conv'[q] = thread[user[q]]]_vars
==============================================================================
