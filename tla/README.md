# A TLA+ model of the OmniCare assistant

This directory models the parts of the OmniCare Policyholder Assistant whose
correctness depends on order, failure and concurrency: the gateway with its rate
limiter and conversation store, the job pipeline that carries a chat turn to an agent
worker and back, the agent's graph over a conversation, the claims stores a confirmed
write ends in, the payment split a policyholder is shown before deciding, the calls to
the language model, what stands between the model's words and the screen, and the
retrieval index. Each part is a module checked by TLC on small instances; what matters
most is proved by TLAPS for every value of the constants.

All paths below are relative to the repository, `backend/` unless said otherwise.

## 1. The system

### Components, state and operations

| Component | State it keeps | Operations |
|---|---|---|
| Job queue (`libs/adapters/queue_redis.py`) | `jobs:chat` stream, consumer group cursor, pending entries list, dead-letter stream, one event stream per run | `enqueue`, `depth`, `consume`, `ack`, `dead_letter`, `reclaim_stalled`, `publish`, `subscribe` |
| Agent worker (`agent/app/worker.py`) | the job in hand, its event counter | `run_forever`, `handle` |
| Callers (`gateway/app/main.py`, `voice/app/agent_llm.py`) | one subscription per turn | `chat`, `chat_stream`, `voice_token`, `_AgentStream._run` |
| Ingress rate limiter (`libs/adapters/ratelimit_redis.py`) | a token bucket per user, with a time to live | `check` |
| Conversation history (`libs/adapters/conversations_postgres.py`) | `app.conversations`, `app.messages` | `ensure`, `add_message`, `list_for_user`, `messages` |
| Conversation graph (`agent/app/graph/`) | one checkpoint per conversation | guard, agent, capture, confirm, tools, readback, parse, ground, format |
| Claims tool and stores (`agent/app/tools/claims.py`, `libs/adapters/claims_json.py`, `claims_postgres.py`) | `mock_claims.json`, its temporary file, a file lock, an `asyncio.Lock` per process; or a table and a sequence; idempotency keys in Redis | `submit_claim`, `append`, `get` |
| Policy rules (`libs/policy/rules.py`, `agent/app/retrieval_client.py`) | each worker's cached sections | `extract_rules`, `settlement_for`, `settle` |
| Model access (`agent/app/providers/resilient.py`, `libs/resilience/policy.py`) | breaker, egress ledger | `call_with_retry`, `acquire`, `record` |
| Grounding (`graph/nodes.py`, `libs/guardrails/response.py`) | in the checkpoint: `retrieved`, `tool_invocations`, `sources`, `model_confidence`, `answer_confidence` | readback, parse, ground, format |
| Retrieval (`retrieval/app/`, `libs/adapters/vectorstore_qdrant.py`) | vector store, BM25 snapshot | `ingest_directory`, `search`, `sections` |
| Voice worker (`voice/app/`) | session, last transcript confidence | transcript events, speech |
| Screening (`libs/guardrails/injection.py`, `normalize.py`) | none | `screen`, normalising of identifiers |
| Frontend (`frontend/src/`) | rendered conversation, confirmation panel | browser events |

### How they interact

A request passes the limiter, finds or starts its conversation, stores the question
and appends a job to a Redis stream; its caller then tails the event stream of the
run and stores the answer. A worker of the consumer group is handed the entry, runs
the graph under a timeout, publishes events and acknowledges the entry. The graph
saves a checkpoint after every node. A write stops at `confirm`; the next message of
the conversation, handled by any worker, resumes the checkpoint. The tool that files
the claim reads and writes the claims store and, apart from that, the idempotency
store. The split it reports is computed from the sections that worker has cached, and
those come from the retrieval service, as do the sources of an answer.

### What is hard

* *Crashes and failed calls.* A worker may die at any step, any Redis call or
  transaction may fail, or succeed unseen; a temporary file may be left half written.
* *Two clocks of patience.* The caller waits from enqueue on, the agent's timeout
  starts with the graph.
* *Clocks that disagree.* The token bucket is refilled by whichever gateway's clock the
  request came through; conversations are ordered by when their transactions began.
* *Resumption.* A checkpoint does not tell a pending question from a run that was
  cut off.
* *Overlap.* Two messages of one conversation on two workers; two first messages of one
  user; two processes on one file; a thread that outlives the call that started it; two
  ingests and a search over one index.
* *Two steps that should be one.* Publish and expire, file and remember the key,
  dead-letter and ack, store the question and enqueue, upsert and rebuild BM25.
* *Impatience towards a model.* Retries, a breaker, a fallback and a token budget
  share one call that may be cut off at any await.
* *Caches.* Each worker keeps the policy it first read.
* *Leftovers.* The checkpoint carries one turn's evidence into the next, and one node
  clears it; four nodes edit the answer one after the other, and what one concludes
  must be true of what the last one shows.

`PROJECT.json` lists each of these as a hazard at its line with the properties
that would catch it going wrong.

### What makes each part correct

| Component | Properties |
|---|---|
| Queue and workers | a job is never in two hands; an event log is complete, ordered and closed once; a job leaves the pending list only finished or dead-lettered; without faults every job finishes |
| Callers | whoever is answered has read a whole report; everybody's turn ends and everybody (but the WebSocket) is told |
| Rate limiter | nobody spends more than a full bucket and what was refilled; waiting as long as the 429 says is enough, but for what the clocks disagree by |
| Conversation history | an answer stands after its question, once, and only if it was given; first messages that race start few conversations; a user goes on in the conversation last used |
| Graph | nothing is filed without a yes to what was read back; one yes files once; the loop ends by its own bound; a turn reports its own tool calls |
| Claims stores | the file always parses; ids are unique; a confirmation id names a claim on file with the caller's arguments; no lock is left behind |
| Model access | the budget is kept; an ailing provider is asked seldom; no retry begins late; every call returns |
| Grounding | what is shown has its source in this turn's evidence or in what the user said, and the source is named; the confidence is no higher than the evidence allows, nor than a claim that was heard; an object within reach of the two nodes that open them is not shown |
| Split | the two shares are the claim, part by part; the split confirmed is the split reported when the claim is filed |
| Retrieval | an ingest is in the index when it is over; a search returns as much as it may; what both retrievers find comes first; a section is not multiplied |

## 2. The modules

### `RateLimiter` and `Gateway` - from a request to a run and back

`RateLimiter` is the Lua script: `bucket` is the user's key with its time to live,
`Level` what the script computes, `Allow` and `Deny` its two outcomes. Redis runs the
script in one step; the time in it is the calling gateway's own (`Clock`), which may be
ahead of Redis's by up to `MaxAhead`. The unit of tokens is what is refilled in a tick,
so that the arithmetic is in whole numbers. `spent`, `opened` and `promise` are
histories; a promise is the time, as it really passes, at which the wait of the last 429
is over, and the gateway that computed the wait with its own clock.

`Gateway` extends it with the requests. Each is a sequence of awaits (`pc`): `Check`,
`Busy` (a full queue), `Find` and `Insert` (the two halves of `ensure`),
`BeginMessage` and `CommitMessage`, `Enqueue`, `Collect`. A transaction is two steps,
because its `now()` is fixed when it begins and its rows are seen when it commits;
`stamp` counts transactions that write, which makes their times distinct, as microseconds
do. `Fail` is an exception, a rollback or a stopped gateway at any await, with the commit
or the enqueue having got through or not. The WebSocket and voice doors come in after
the limiter and store no messages, as in the code. What becomes of a run is a free
choice (`RunEnds`): that half is `ChatPipeline`.

`thread` and `crowded` are histories: the conversation a user last started or wrote to,
and the users for whom that is not well defined.

### `JobQueue`, `AgentWorker`, `ChatPipeline` - a chat turn end to end

`JobQueue` is the state Redis keeps and one operator per queue operation;
`AgentWorker` extends it with the worker processes; `ChatPipeline` adds the
callers and the clock and is the specification that is run.

| Variable | In the code |
|---|---|
| `stream`, `delivered`, `owner`, `dead` | `jobs:chat`, the group's last-delivered id, its pending entries list, `jobs:chat:dead` |
| `events` | `stream:{run_id}`; an event is its type and `seq` |
| `age` | time since enqueue, for `deadline_at` and for `subscribe`'s `timeout_s` |
| `pc`, `job`, `seq`, `todo`, `elapsed` | where a worker is in `run_forever`/`handle`, the job and counter it holds, the events it has yet to emit, the time its graph has run |
| `client`, `surface`, `cursor`, `told` | the caller's state, REST / WebSocket / voice, the events it has read, whether it was given anything |

A worker's actions follow the code line by line: `Reclaim` and `Consume` are the
top of `run_forever`; `Expire` and `Start` the deadline check; `Emit` one
`_emit`; `GraphReturns` and `GraphFails` the two ways out of `wait_for`; `Ack`,
`DeadLetter`, `AckDead` what follows. `EmitFails`, `AckFails` and `Crash` are the
failures: an exception of an emit leaves `handle`, a failed ack is caught by the
same `except` as a failed run, and nothing catches a failed `consume` or
`dead_letter`. A failed call may or may not have had its effect.

Enqueue trims the stream the way approximate `MAXLEN` may: any number of the
oldest entries as long as `JobMaxLen` remain. `ReclaimStalled` claims any subset of
the pending entries, which covers every `min_idle_time` and every count.

`TurnLifecycle` is the abstract specification: a run is sent, handed over at most
once, gets at most one terminal event and only while in hand, then is settled,
stranded or lost. `ChatPipeline` maps to it by `StageOf` and the set of ended runs.

### `ConversationGraph` - the agent's graph on one conversation

`saved` is the latest checkpoint, `state[t]` the graph state of turn `t`'s run.
There is one action per node (`Guard`; `CallModel` and `StopLooping` for the agent
node; `Capture`; `PassUnasked`, `RefuseUnstated`, `Ask`, `Decide` for the paths
through `confirm`; `ExecuteTools`; `Finish` for the four nodes after the loop) and
one for each way a run begins and ends: `Receive` (`aget_state`), `BeginFresh`,
`BeginResumed`, `Report`, `LoseReport`, `CutOff`, `OutOfSteps`. What the model
says is its free choice from `CallLists`; the guard's verdict and what a message
states are constants, since both are functions of the text.

LangGraph itself is external and modelled as the code relies on it: a checkpoint
after every superstep, `interrupt` records the pending task and ends the run, a
resume value is available to the first superstep only, the input counts as one
step of the recursion limit.

The history variables say what the properties are about: `executed` and
`approved` count per claim, `shown` is the claim whose read-back last reached the
user, `blind` the claims approved without one, `heard` the turns whose message was
taken in.

### `ClaimsStore` and `ClaimLog` - filing a claim

A call of `submit_claim` (`pc`) looks its key up, appends and stores the key. `backend`
is the configured repository, chosen once.

* On the file adapter the append takes the process's `asyncio.Lock` and waits for a
  thread (`thread`), which takes the file lock, reads, writes the temporary file in two
  steps, swaps it in and releases. Cancellation leaves a started thread running; a crash
  drops the process's calls, threads and locks.
* On Postgres it is one `INSERT` that takes its number from a sequence. A number is
  gone whether or not the row is accepted; a connection may be lost before the number is
  taken, after it, or after the commit; a statement on its way outlives a cancelled call
  and a dead process.

Redis may fail before or after its effect; a key may lapse when nothing is in progress.
File ids run up to `MaxId`, the four digits of `CLAIM_ID_PATTERN`: past it `Claim`
refuses the id and the append fails. The sequence goes on to five digits, of which
`lpad` keeps the first four (`Numbered`), and the primary key refuses the doubles.

Calls may overlap within a process. The worker loop alone would not make them,
but a cancelled call's thread overlaps the next one, and the port and the
adapter's lock are made for callers that do.

`ClaimLog` is what the port (`libs/ports/claims.py`) promises: a claim is filed
whole, in one step, under a new id, and stays; a confirmation names a claim on
file. `ClaimsStore` implements it over either repository, with the file or the table as
the log.

### `Settlement` - the payment split

The first half is pure operators: `Counted`, `OfKind` and `Rule` are
`extract_rules`, `Governing` is `_governing_section`, `Settle` and `SettlementFor`
are `settle` and `settlement_for`. A sentence is the sequence of its figures, each
with the patterns that match it; two figures are the same text when they are the
same amount. The second half runs them where the system does: `Capture` on the
worker that asks, `Submit` on the worker that files, each over its own cached
sections, with the document edited and workers restarted in between. `Submit` computes
the split before it looks its key up, as the code does, and then files the claim and
reports the split, returns the claim that was filed under the key without it, or fails:
which of these is a free choice, because keys are shared between conversations.

### `ModelAccess` - one worker's calls to the language model

A call walks the attempts of the primary's retry loop and then of the fallback's:
`Attempt` is `raise_if_open` and `acquire` up to its first sleep, `Held` the end of
the wait for the token budget, `Send` the reservation and the request,
`Answered`, `Rejected` and `Failed` what comes of it, `BackedOff` the end of the
sleep between attempts. `classify` decides between `Rejected` and `Failed` by the
words of the error, which is a free choice here, and so is a `Retry-After`.
`Cancel` is the run timeout of the worker at any await: `CancelledError` passes
both `except` clauses, so nothing is booked. Program steps take no time; `Tick`
moves every clock at once. Two histories say what the properties are about:
`streak` and `quiet`, the failures of the primary since it last answered and the
time since the last, and `charged`, what the provider counts.

### `Grounding` - from the model's words to the screen

A turn gathers evidence (`UseTool`), proposes a claim (`Propose`) or gets a reply from
the model, and `Readback`, `Parse`, `Ground` and `Format` are the four nodes after the
loop. `retrieved`, `produced`, `sources`, `text`, `modelConfidence`, `unknown`,
`confidence` and `reason` are the graph state; `stated` and `told` are the policy
numbers and amounts in the user's messages; `fetched`, `looked` and `reply` are
histories: what this turn obtained and what the model wrote, whatever the state says
of it.

A proposal is `capture` and `confirm`. The model chooses the arguments; `capture` reads
the terms off the policy and makes their section a source (`ProposeSplit`), or finds
none (`ProposeBare`); `Confirm` asks for a number or an amount that the user never gave,
and otherwise puts the `Question`, with the claim's own number and amount in it and, of
the split, the terms and every amount computed from them (`Shares`). That text reaches
the user without `ground`.

A text is a set of sentences inside objects, the outermost first (`wrap`). A sentence is
what the patterns of `nodes.py` find in it: its citations, each with the sections whose
citation it begins (`_citation_spans` compares without typography) and the sections its
words name (`_named_sections` compares exactly); sections named outside a citation;
amounts; a comparison; policy numbers; an announced estimate; an assertion of cover. An
object is the key that holds the rest and what is said beside it of confidence and of
the policy having no answer. `parse` knows the keys of `_ANSWER_KEYS` and hears what
the object says; `format` knows those of `_TEXT_KEYS` and does not; each opens one object,
the outermost. A written-out tool call is an apology, and a read-back put in front or
a cut inside make an object unreadable for both.

Objects nest as deep as `Envelopes` says, in any order, each with or without a claim of
its own; `Replies` is the model's free choice among these and the sentences.
`ConversationGraph` has the same nodes as one step without content; here they are the
subject, confirmation is on, and turns come one at a time.

### `Retrieval` - documents, index and search

The first half is pure: `Chunks` is the chunker, `UpsertMemory` and `UpsertQdrant` the
two stores, `Ranked` and `Sparse` the two rankings, `Score` and `Fused` reciprocal rank
fusion in whole numbers: `Share` is 1 / (60 + rank) in parts of `Scale`, which all the
denominators that occur divide, so that nothing is rounded. A list that the code sorts
and cuts is `First`: its n-th entry is the member that n - 1 others come before. What
it filters is `Picked`, the entries at some positions in their order. What an embedding
or BM25 makes of a text is a constant (`Near`, `Terms`), and so are the versions of the
source directory. `TopK` is from 1 to 10, as the request's contract has it
(`libs/contracts/retrieval.py:26`).

The second half is `ingest_directory` in its awaits - `Read`, `Store`, `Fetch`,
`Install` - and `search` in two, `Search` up to the vector store's answer and `Fuse` after
it, while the documents are edited and the service restarts. With Qdrant every call is a
thread, so requests interleave at these points; with the in-memory store nothing gives
way (`Free`). A point's id in Qdrant is Python's `hash` of the chunk id, which every
process seeds anew: `seed` is the number of the process that stored it.

### `OrderLemmas`, `*_proofs`, `MC*`

`OrderLemmas` has what several proof modules share: minima of sets of numbers, and the
sums of functions on finite sets, of which the library has none. Each
`X_proofs` extends its `X`; `ChatPipeline_proofs` also holds the refinement of
`TurnLifecycle`. `Policy_proofs` is about both modules on the policy documents,
`Retrieval` and `Settlement`, and extends the two, which is why `Settlement` names its
specification `SettlementSpec` and its parts to match. The `MC` modules give constants
their values for TLC.

## 3. The runs

All configurations switch deadlock checking off: a conversation ends, every
request may have been made, and a crashed process need not be restarted.

| Run | Question | Bounds |
|---|---|---|
| `pipeline_faults` | one handler, ordered logs, no silent settling, depth, patience of prompt runs | 2 runs, 2 workers, 1 fault, stream trimmed to 1, timeouts of 1 tick; symmetric |
| `pipeline_surfaces` | what callers have heard, all turns close, every job finishes when nothing fails, implements `TurnLifecycle` | 1 run on any surface, 2 workers, 2 faults, tool events, gateway timeout 2, agent timeout 1 |
| `gateway_turns` | the history is a true one, few conversations are started and the last one is continued, budget and `Retry-After` | 1 user, 3 requests at any door, 2 at a time, 2 gateways with clocks one tick apart, a bucket of one request worth 2 ticks, 1 fault, time up to 3; symmetric |
| `graph_turns` | consent, repeats, loop bound; in an undisturbed conversation, every message heard and every yes informed | 3 turns, 1 cut or lost report, 4 iterations, one write per message |
| `graph_unasked` | without confirmation and with overlapping turns: filings bounded, a fresh turn's own report | 3 turns, 2 at a time, 1 fault, 2 iterations |
| `grounding_answers` | what is shown rests on this turn's evidence, the confidence is earned, envelopes come off | 2 turns, 3 tool rounds, 2 sections that share the deductible, 1 policy number, 1 amount claimed, which is the limit of the section that its split does not cite; up to 2 of 8 sentences in 12 nestings of objects up to 3 deep, claims of 20% and 90% |
| `claims_writers` | file, ids, confirmations, `ClaimLog`, locks | either repository, 3 calls, 2 processes, 2 faults, file ids up to 9999 with two left, a sequence at 9999 |
| `model_calls` | budget for calls of equal cost, retries in time, probes spaced, every call returns | 3 attempts, threshold 4, window of 6 ticks with room for 3 calls, deadline and client timeout 2 ticks, reset 3, delays 0 to 2 |
| `settlement_splits` | splits add up, caps applied, shown is reported | 2 workers, 1 edit, 1 fault, the sample policy and three edits of it, every wording of a two-figure sentence; amounts on and above every figure; symmetric |
| `retrieval_index` | an ingest takes, a search is whole, agreement wins, copies are bounded | either store, 2 ingests that may overlap, 3 versions of the documents (one repeats a heading, one has an empty section), 2 queries, 2 edits, 2 restarts, `top_k` 2, rankings of 5; symmetric |
| `pipeline_recovery`, `graph_twowrites` | claims of the documentation that the code does not keep (below) | as for the runs above |

Why the bounds are enough: the pipeline's actors interact in pairs (two workers
over one entry, two runs over one stream), and trimming to a length of one makes
the second enqueue drop the first entry. The properties that hold only
while nothing has failed (`EveryJobSettles`, `EveryMessageIsHeard`,
`ApprovalsWereInformed`) say so in their statement and are checked beside those
that hold throughout. A tick is a whole timeout, so each order of
deadline, start, give-up and timeout occurs. Three requests at the gateway make two
first messages that race and one that must choose between what they started; time
reaches 3, at which a bucket used at 0 has lapsed and is made anew; one user is enough
for the limiter, whose buckets do not meet, while somebody else writing in a user's
conversation is covered by the theorems only. Three turns make a question, its
confirmation and a turn after it; four iterations are the least the loop-bound
theorem needs. Three calls give a retry, a
different claim and a reader between two writers, and the ids are where four digits
become five. The breaker's threshold exceeds
the attempts of a call, as in the code, so that it takes two calls to open it, and
the order of the model's timeouts is the code's: deadline 20 s and client timeout
20 s, below the reset time of 30 s, below the window of 60 s. Amounts lie on and just above
the figures of the policy and the sums at which a cap sets in. For grounding, two
turns leave one turn's evidence to the next, a claimed confidence lies below every
cap or above every cap, and the sentences have one of each thing a pattern finds,
with citations that fit no section, one or both. The objects have each kind of key
outermost, with and without a claim, and inside each other in both orders; the nestings
that neither node opens are among them, so that what `WithinReach` leaves out occurs. For
retrieval, two ingests give the one overlap there is, and the versions replace, add, drop
and repeat a section.

### Where the code and its documentation disagree

These runs check what a document says, and TLC shows how the code departs from it.
`PROJECT.json` quotes the lines.

| Run | Claim | What happens |
|---|---|---|
| `pipeline_recovery` | a crashed worker's job is reclaimed | it changes owner and is never run again: `consume` reads only new entries |
| `graph_twowrites` | never files without confirming | the second write of one message is filed unread |

The models disagree with further statements, which no run is kept for; where a
weaker property holds in their place, it is checked:

* `libs/adapters/ratelimit_redis.py:67` speaks of "a real Retry-After"; it is computed with
  the clock of one gateway and redeemed with that of another. After waiting exactly as
  long, a user is refused again by a gateway whose clock is behind.
  `RetryAfterIsHonest` counts the time that passes and says how much longer it takes.
* `docs/walkthrough.md:232` has a retried claim return the original id; not after a
  failure between `append` and `idempotency.put`, which leaves a claim without its key.
  `ConfirmationsAreGenuine` is what holds.
* `libs/resilience/policy.py:150` has the key differ for a genuine second claim;
  `submit_claim` computes it from `user_id` and `turn`, which no caller passes, so two
  users with the same arguments share a key, and the second is told of the first's claim.
* `libs/adapters/claims_postgres.py:125` numbers from a sequence past CLM-9999: `lpad`
  makes CLM-1000 of 10000 to 10009, and the primary key refuses nine of the ten.
* `libs/adapters/vectorstore_qdrant.py:60` calls point ids deterministic; they are
  Python's `hash` of a string, which differs from process to process, so every restart
  stores the documents once more. `CopiesAreBounded` has the number of restarts in it.
* `retrieval/app/index.py:59` has both retrievers score the same documents. During an
  ingest they do not, and after two ingests that overlapped they need not until the
  next one: the older snapshot may be installed last. `SearchIsWhole` leaves both out.
* `retrieval/app/main.py:110` re-reads the directory so that no restart is needed; a
  section that was removed or renamed stays until a restart, or for good in Qdrant.
  `IngestTakes` speaks of the sections that are there.
* `libs/adapters/conversations_memory.py:29` continues a user's oldest conversation, the
  Postgres store the latest. `ThreadContinues` is about the latter. WebSocket and voice
  turns neither enter `app.messages` nor touch `updated_at`.
* `docs/adr/0003-redis-streams.md:24` counts `XLEN` in admission; `Depth` is the
  pending list alone.
* `gateway/app/settings.py:28` has the gateway outlast the agent if its timeout is
  no shorter; the agent's clock starts after the wait in the queue, so a job
  that starts late is still running when its caller gives up. What does hold is
  `PromptRunIsAwaited`.
* `agent/app/worker.py:88` resumes "a paused confirmation"; it resumes any run that
  was cut off, and the message is dropped, or taken for the answer to a prompt
  nobody has read. `EveryMessageIsHeard` and `ApprovalsWereInformed` are therefore
  stated for conversations whose turns come one at a time, none cut off or lost:
  a message handled while another turn is between `capture` and `confirm` answers
  a prompt that has not been shown either.
* `docs/adr/0002-langgraph.md:27` calls the loop bound structural; with confirmation
  off a round takes four supersteps and the recursion limit comes first
  (`OutOfSteps` fires in `graph_unasked`).
* `agent/app/graph/nodes.py:166` has a turn's outputs describe that turn; a resumed
  turn repeats the tool calls of the turn that asked. `FreshTurnReportsOwn` is the
  part that holds.
* `agent/app/worker.py:343` calls the split shown and the split reported one
  computation; two workers may have cached different policies, which
  `ShownIsReported` has to exclude.
* `agent/app/providers/resilient.py:15` falls back "only once the primary's circuit
  is open, so a single slow response does not flap between providers"; `ainvoke`
  falls back after exhausted retries too, and one response that takes the client's
  whole timeout exhausts them, being as long as the deadline.
* `agent/app/providers/resilient.py:85` has the limiter keep to a ceiling of tokens;
  after its wait it does not look at the ledger again, so a few cheap calls leaving
  the window let expensive ones through. `EqualCallsStayInBudget` is what holds.
* `agent/app/providers/resilient.py:66` leaves a spent daily budget to "the fallback
  provider or a human"; it is a permanent error, which `ainvoke` does not catch.
* `agent/app/graph/nodes.py:929` has parse unpack a reply "before anything else reads
  the answer"; the graph runs readback first. On a voice turn with an identifier
  heard well, a reply that is an object gets words in front and is unwrapped by
  neither node, and its confidence and `unknown` are not read.
  `ConfidenceIsEarned` and `EnvelopesComeOff` except that case.
* `agent/app/graph/nodes.py:1007` has a model that volunteers a number lower the result;
  one it volunteers in an inner object, or beside a key that parse does not know, is not
  read.
  `ConfidenceIsEarned` says which are.
* `agent/app/graph/nodes.py:1078` has format handle "an answer that arrives as JSON"; each of
  `parse` and `format` opens one object, and only `format` knows `output` and `result`, so of an answer inside
  an `output`, or of three objects, the user is shown what is left of the JSON.
  `WithinReach` is what the two can take off.
* `agent/app/graph/nodes.py:1109` rebuilds `sources` from the sections that informed
  the answer; a citation that differs from the section's in typography is kept as
  real, but `_named_sections` does not find it, so a text can cite a section that is
  not among its sources (`CitationsAreReal` asks it of `names` only). An answer that
  names and quotes nothing, a refusal for one, is attributed to everything retrieved.
* `libs/guardrails/response.py:36` and `:157` list different keys: of an object
  whose prose is under `output` or `result` the text is shown and its confidence ignored
  (20% claimed there is shown as 30% where cover is asserted without evidence), and what
  `ground` cuts from an object that `parse` left alone may leave it broken.
* `libs/policy/rules.py:94` extracts every kind a section states; of two figures of
  equal text in one sentence only the first is read.

## 4. Fairness

`FairSpec` of `ChatPipeline` is weakly fair to the steps of a live worker, to a
caller that has decided to enqueue or has something to read or a deadline
reached, and to the clock. The
event loops and the process supervisor justify the first two. There is no fairness
for requests, hang-ups, faults or restarts: a crashed worker may stay down, which
is why `EveryTurnCloses` is about the caller's own deadline, and why
`EveryJobSettles` promises nothing once something has failed. `FairSpec` of `ClaimsStore`
is weakly fair to the event loop's, the thread pool's and the database's steps, never to
starting a call or to failures; the file lock's poll loop is fair in the same way, and
weak fairness is enough there because a call's wait is bounded by other calls that end.
`FairSpec` of `ModelAccess` is weakly fair to the steps of a call and to the clock, which
asyncio runs, and not to new calls or cancellations. `Gateway`, `Retrieval`, `Settlement`,
`Grounding` and the graph assume no fairness: their properties are about what a step
may do.

## 5. What is proved

TLAPS checks every theorem below without any unproved step. The assumptions are
the named `ASSUME`s of the modules, which say that the constants are what they
stand for (sets disjoint from the "nobody" values, bounds natural numbers, the claims
on file at the start under different ids, "no policy" not a policy, the client's timeout
within the ledger's minute: 20 s by default, `settings.py:22`; `top_k` as the contract
bounds it, and a `Scale` that every 1 / (60 + rank) divides, which exists for every
`top_k`); TLC evaluates them on every run.

| Theorem | Statement | Argument |
|---|---|---|
| `Invariance`, `TypeCorrect`, `AtMostOneHandler`, `LogsAreOrdered` (`ChatPipeline_proofs`) | `TypeOK`, `OneHandler`, `EventLogOrdered` hold for any number of runs and workers | `IInv == TypeOK /\ HandlingInv` is inductive |
| `PipelineImplementsLifecycle` (`ChatPipeline_proofs`) | `LifecycleSpec`: the pipeline implements `TurnLifecycle` for any number of runs and workers | every action maps to a step of the lifecycle or to none, under `IInv` and `SentInv` |
| `SettlingIsNeverSilent` (`ChatPipeline_proofs`) | `NoSilentSettle`, whatever crashes, fails, is reclaimed or trimmed | `SettledInv` |
| `DepthCountsTheBusy` (`ChatPipeline_proofs`) | `DepthIsBusyPlusFaults`, for any number of runs, workers and faults | `DepthInv` and a count of hands |
| `CallersHearTheirAnswer`, `PromptRunsAreAwaited` (`ChatPipeline_proofs`) | `CallersAreTold`, `PromptRunIsAwaited`, for any values of the timeouts | `ReportInv`, `CallerInv` |
| `GatewayTypeCorrect`, `HistoryIsKept`, `StartsAreFew`, `ThreadIsContinued` (`Gateway_proofs`) | `GatewayTypeOK`, `HistoryIsTrue`, `StartsAreBounded`, `ThreadContinues`, for any users, requests, given ids and failures | `Inv`, of which `Standing`, `Story`, `Starters` and `Threaded` are the parts |
| `BudgetIsKept`, `RefusalsAreHonest` (`Gateway_proofs`) | `SpentWithinBudget`, `RetryAfterIsHonest` in elapsed time, for any clocks, burst and cost | `BucketInv` |
| `ClaimsTypeCorrect`, `WritersAreExclusive`, `ConfirmationsHold` (`ClaimsStore_proofs`) | `ClaimsTypeOK`, `WritersExclude`, `ConfirmationsAreGenuine`, for any calls, processes, arguments, claims on file and failures, over either repository | `CInv` |
| `StoreImplementsLog` (`ClaimsStore_proofs`) | `ClaimLogSpec`: either repository keeps the port's promise | the swap of the file and the insert of a row are `File`, a put and a replay `Tell`, under `CInv` |
| `GraphTypeCorrect` (`ConversationGraph_proofs`) | `GraphTypeOK` | `TInv`, the types with what is known of `next` and of pending writes |
| `FiledOnlyOnAYes` | `WritesWereApproved`, if confirmation is on and the model proposes one write per message | `ConsentInv` |
| `StructuralStopComesFirst` | `NeverOutOfSteps`, if confirmation is on and at least four iterations are allowed | `StepsInv` |
| `FreshTurnsReportTheirOwn` | `FreshTurnReportsOwn`, for any number of overlapping runs, resumptions and faults | `FreshInv` |
| `UndisturbedTurnsAreHeard`, `UndisturbedApprovalsAreInformed` | `EveryMessageIsHeard`, `ApprovalsWereInformed`, if confirmation is on and at least four iterations are allowed | `SoloInv`, with `StepsInv` |
| `OneYesFilesOnce` | `RepeatsOnlyAfterFaults`, with confirmation, one write per message and one replica | `DebtInv`, with `ConsentInv` |
| `RoundsBoundFilings` | `FilingsBounded`, with or without confirmation and however runs overlap, for one write per message | `FilingsInv`: a sum of rounds that pays for the sum of filings |
| `GroundingTypeCorrect`, `ShownRestsOnEvidence`, `ConfidenceRestsOnEvidence` (`Grounding_proofs`) | `GroundingTypeOK`, `ShownIsGrounded`, `ConfidenceIsEarned`, for any document, claims, sentences, nesting of objects and number of turns | `GroundingInv` |
| `EnvelopesAreTakenOff` (`Grounding_proofs`) | `EnvelopesComeOff`: of all nestings, those within reach of `parse` and `format` come off | `EnvelopeInv`, with `GroundingInv` |
| `PrimaryIsSpared`, `NoLateRetry` (`ModelAccess_proofs`) | `ProbesAreSpaced`, `RetriesBeginInTime` | `AInv` |
| `MinuteFitsBudget` (`ModelAccess_proofs`) | `EqualCallsStayInBudget`, for any budget, window, pacing, failures and cancellations | `BudgetInv`, with `AInv` |
| `EverySplitAddsUp`, `LargerLossCostsNobodyLess` (`Policy_proofs`) | `SplitsAreFair` for every document and edit; a larger loss lowers nobody's share | arithmetic of `Settle`, and that what `Rule` extracts is an amount |
| `IngestsTake` (`Policy_proofs`) | `IngestTakes`, for any documents, number of ingests, edits, restarts and interleaving, over either store | `TakenInv`, with `StoreInv` |
| `CopiesStayBounded` (`Policy_proofs`) | `CopiesAreBounded`, overlapping ingests included | `StoreInv` |
| `SearchesAreWhole` (`Policy_proofs`) | `SearchIsWhole`, a step property, for any queries, embeddings, term weights and `top_k` of the contract | `SearchInv`, with `StoreInv` and `TakenInv` |
| `AgreementAlwaysWins` (`Policy_proofs`) | `AgreementWins`, for any two rankings of distinct ids | `SearchInv`, and the bounds of `Share` |
| `ReportIsWhatWasShown`, `CapsAreNotMissed` (`Policy_proofs`) | `ShownIsReported`, replayed and failed filings included, and `CapsAreApplied`, for any number of workers and any edits | `CachedInv` |

*Why `HandlingInv`.* That no job is in two hands is not inductive: it needs that a
job in hand has been delivered, since `Deliver` hands out only what has not. That
a log is ordered needs that a worker's counter is the length of its job's log, that
the log is open until the worker's last event, and that what it still has to
publish closes the log exactly once; and these need each other, since a counter
is right only while nobody else publishes on the same run. `XAUTOCLAIM` does not
disturb any of it because it moves owners and never the set of delivered entries.

*Why `SentInv`.* The lifecycle step an action maps to depends on the invariant:
that the run a worker lets go of was held by nobody else, that a terminal event
is the first of its run, and, `SentInv`, that a run nobody has sent is neither in
the stream nor delivered, so that `Enqueue` is a step from "unsent". Reclaiming
is the one action that moves several runs at once: the stranded ones whose
entries the stream no longer has.

*Why `SettledInv` and `DepthInv`.* That nothing is dropped silently is decided one
step before it happens: `handle` reaches its `ack` only with the terminal event
published, and the `ack` of a dead letter only with the entry copied, so the invariant
speaks of workers that are about to acknowledge. The depth is counted apart: pending
entries in a hand map one to one to busy workers, since no job is in two hands, and those
in no hand are at most the faults, since only a crash leaves one and it leaves one.

*Why `ReportInv` and `CallerInv`.* An answer is whole because what a worker has
published and what it still has to publish are one report throughout, also when a
failing emit replaces the rest by an error: then no `done` follows. A caller reads an
open log, so it stops at the only terminal event; and one that gave up did so past
the deadline, which a graph started within the slack cannot have reached.

*Why `BucketInv`.* What a user spent cannot be compared with the clock, since a gateway
that is behind takes time back from the bucket and the next one gives it twice. It can
be compared with the bucket's own time stamp: tokens held and tokens spent since the
bucket was made never exceed a full one and what the stamp accounts for, whichever way
the stamp moves; and the stamp is at most the skew ahead. The other two conjuncts are
for `Retry-After`: a refused request writes the bucket back, so the promise is the time
at which what was written is worth a request by the clock of the gateway that wrote it.
What the wait is worth elsewhere is the difference of the two clocks, which is why the
promise names its gateway.

*Why `Standing`, `Story`, `Starters`, `Threaded`.* That a history is true is a matter
of what the store holds of a request at each of its awaits, and of that the conversation
it found is still one when it writes. That few conversations are started needs those
that are about to be started counted too: a request between the two halves of
`ensure` has seen that there is none. And that a user goes on in the last one needs
the transaction in progress to be younger than every conversation of the user's, as
`updated_at` is when it began.

*Why `CInv`.* `WritersExclude` says that what a writer has read is still the file,
but only a call whose id is a number (`DatabaseInv`) swaps in something that parses.
That a confirmation is genuine is decided when a thread is through: `ProgramInv` ties
the call, its thread and its reply together, so that nothing is left that could change
the id of a call that has been told one, neither a late thread nor a second lookup; and
`FiledInv` follows the claim from the swap, over `put`, into the key and out of it into
a replay. Claims stay on file because every step appends to it or leaves it
(`FileSteps`), which is also the refinement's main lemma.

*Why `ConsentInv`.* Consent is carried through the checkpoint: from a message with
one write, over `capture`, which makes that write pending, to `confirm`, whose
approval lets `tools` execute the message. The invariant says so for `saved` and for
every run's copy, because overlapping runs and resumptions pass states through
`saved`. The hypothesis of one write per message is needed: `graph_twowrites`
shows the property fail without it.

*Why `StepsInv`.* Every node gets a bound on the supersteps that led to it, in
terms of the rounds so far: two per round up to the tools, five more to finish.
A resumed run starts with no steps used. Confirmation must be on, as a round is
three supersteps only across an interrupt; without it a round is four.

*Why `AInv`.* The breaker forgets when it opened as soon as it half-opens, so that
probes are spaced needs a relation to the history: the count is the streak while
the circuit has not opened, the circuit's clock is the time since the last
failure while it is open, and a half-open circuit is one failure short with that
clock run out, wherever a cancelled call left it.

*Why `FreshInv`.* Only a run that began at guard is promised its own report, but it
runs on a copy that it writes back to `saved`, where others resume it. The
invariant follows the copy: from guard on, what a run that was not resumed reports
is its own, whatever `saved` says meanwhile.

*Why `SoloInv`.* That no message is lost is about two turns: the one that asked and the
one that answers. Between turns the checkpoint is through, or waits at `confirm` with its
read-back shown; within one, the run works on the latest checkpoint, and a message
not yet taken in is the answer that `confirm` reads next. `StepsInv` is needed
because a run ended by LangGraph's limit would leave the checkpoint in between.

*Why `DebtInv`.* An approval and the filing it allows are two supersteps, with a
checkpoint between them that any later run may resume. So the checkpoint is counted as
a debt: while it stands before `tools` it owes one filing of its write, and filings
made and owed never exceed approvals and faults. A run that files and completes pays
its debt off; one cut off in between leaves it standing, and is the fault that pays for
the repeat. One replica is needed, since a second run on the same checkpoint files for
the same yes without a fault (`graph_unasked` checks what still holds then), and
`ConsentInv` is needed because a debt must have come by a yes.

*Why `FilingsInv`.* The bound counts filings of all claims by all turns, with nothing in
the state to attribute one to the other. It is proved by paying: each turn holds the
rounds it has used up by where its run stands, a filing is made only in a superstep that
uses one up, and the sum of what is spent is at most a full count of rounds for each
turn that was sent. A cut-off run counts as having used them all, so whoever resumes
its checkpoint pays again with rounds of its own. The lemmas on sums in `OrderLemmas`
(what changing one value does, and a bound on each value bounds the sum) are induction
over finite sets, done by a smallest set that would violate them.

*Why `GroundingInv`.* The properties speak of what is shown; what makes them true
happens nodes earlier. `EvidenceIsFresh`: between guard and the answer, the evidence
in the state is exactly what this turn obtained. `ReplyIsKept`: up to ground the text
holds the sentences the model wrote, and parse has heard what the outermost object claims,
where it knows the key.
`TextIsGrounded` and `VerdictStands`: what ground establishes is left alone by format. Of
a question, which ground never sees, it says what confirm's two checks and capture's
source make of it: each amount is in `told`, or in terms whose section is the source, or
computed from both. The step of ground is taken apart in one
lemma (`GroundStep`), since everything it concludes is about the text after its last
removal.

*Why `EnvelopeInv`.* That prose comes off is shared by two nodes that know different
keys, so the invariant says what they leave of a nesting within reach: between the two
`format`'s keys open what there is. `ground` may break an object by cutting inside it,
and then, `EditsShow`, the text that is left differs from the reply, so that the exemption
the property makes is not taken for nothing. What lies beyond reach is not proved about,
because there the code shows an object.

*Why `CachedInv`.* What was shown came from a copy that its worker still holds, since
copies go only with a restart, and the workers' copies are compared where the property
does. An edit changes the document and no copy.

*Why `StoreInv`.* That a section is not multiplied is a fact about points, not about ids.
In Qdrant no two points are the same one (`PointsAreOne`: an upsert overwrites each point
of its batch and adds the last of each new one), so the points of one id differ in their
process, and there have been `restarts + 1` of those. In memory an id that is there is
only overwritten, and a new one comes as often as its batch repeats it, so it is there as
often as some version repeats it (`MemoryCopies`); this needs that what is about to be
stored is one version's (`BatchIsRead`).

*Why `TakenInv`.* What the last ingest read travels: it is in the batch, then in the
store, then in what was fetched, then in the snapshot, and the invariant says for each
step where it is. With no overlap at most one ingest is between two steps, so nothing
else writes the store meanwhile. "There" is `Holding`: the chunk is listed, and it is the
last with its id, which is the one a search looks up. In memory that is what
`UpsertMemory` overwrites (`MemoryUpsert`); in Qdrant it holds while there has been one
process only, where no id is there twice. The other half relates ids: the snapshot and
the store list the same ones whenever no ingest is under way.

*Why `SearchInv`.* A search awaits the store and then reads the snapshot. The ids that
the store answered with are still in it (`DenseIsStored`), because upserts never take an
id away and a restart ends the search, and by `TakenInv` the snapshot has those ids too;
BM25's are the snapshot's own. So `fuse`, which cuts before it looks up, cuts nothing
that is then missed. For `AgreementWins` the rankings are at most 20 long, so a place is
worth from 1/80 to 1/61, and two of the least are worth more than one of the most. That
sorting and cutting, `First`, lists the best and leaves none of them out is proved by
counting: in a finite order the numbers of members ahead are all different, so each
place is taken once (`PlacesAreTaken`, `FirstLists`).

*Why `BudgetInv`.* The ledger and the provider's count are two sequences that differ:
the limiter drops entries when it looks, takes a reservation out when a request turns
out to be free, and the provider counts a rejected request as nothing. The invariant
relates them by a matching: each request the provider counts is in the ledger, as old as
it is there, no two at the same place, and the one that is out is the last, because
`record` corrects or removes the last entry. So there are no more counted than the window
of the ledger holds, and that fits the budget, with room for one more while `acquire`
paces, and, while it waits for the oldest entry to leave, once that entry has left. That
the request that is out stays in the window while it is awaited takes the client's timeout
to be within the minute. What `_spent_last_minute` keeps is a recursive function here
(`Recent`) and not `SelectSeq`, which the prover cannot expand; that it keeps exactly the
entries in the window and their order (`RecentIndex`) is proved by a smallest prefix for
which it would not.

Out of the prover's reach, and checked by TLC only: liveness under fairness and
anything with `ENABLED` (`EveryTurnCloses`, `EveryJobSettles`, `CallsEnd`,
`EveryCallReturns`). No module declares a `RECURSIVE` operator; where a recursive function
or a fold had to be reasoned about, the induction is written out as a least
counterexample, which takes no theorem with an operator parameter. Sorts and selections of
sequences are written without `SortSeq` and `SelectSeq`, which the prover leaves
unexpanded. Every safety property of a passing run is proved.

## 6. What is not modelled

* Event streams live for 300 s in Redis; the model keeps them.
* One clock for gateway, worker and Redis in `ChatPipeline`. `deadline_at` is taken from
  Redis's clock and compared with the worker's, so skew shifts `Expire`.
* `subscribe` counts only the time it blocked; the model counts all time since
  enqueue, so a caller here gives up no later than in the code.
* Failures of the callers' Redis calls other than enqueue, which end in an exception to
  the user. The gateway's reading routes and its health.
* The dead-letter stream is trimmed to about 1,000 entries (`queue_redis.py:113`); the model
  keeps them all.
* An `OSError` of the temporary file or of `os.replace` in a process that lives on
  (`claims_json.py:77-78`): the append fails before the swap, as it does by `ReadFails`, but
  with a whole or torn temporary file, which the model leaves only to crashes.
* Conversation ids a client learns from `GET /conversations/{user_id}` (`gateway/app/main.py:325-333`):
  `Arrive` takes those that clients make up and those in responses.
* Amounts to the cent. `confirm` compares whole dollars (`nodes.py:362-381`) and shows what
  the model wrote, so cents in a question need not be the user's; of an answer, amounts
  below $100 (`nodes.py:585`) identify no section in the code. `Settlement` takes
  equal amounts for equal texts, and the code compares the texts (`rules.py:107-113`): $500 and
  $500.00 in one sentence are two figures to it. No property rests on that.
* A split whose section has no source file has no citation (`build.py:247-266`); the chunker
  gives every section one.
* In Qdrant, the order of fresh points among those that are overwritten, which comes as
  one block here; the order of equal scores, which is by id here and which `query_points` does
  not promise; and a failure of Qdrant between `upsert` and `all_chunks`, which leaves the
  store ahead of the snapshot, as an ingest under way does, until the next ingest.
* Floating-point rounding in the token bucket, in model estimates and in fusion.
* The in-memory checkpointer used when no database is configured: confirmations
  then do not survive a restart. The other in-memory adapters are doubles for tests.
* Overlapping calls to the model: a worker handles one job at a time. The choice of
  provider and its client settings.
* The words: prompts, wording of answers and read-backs, screening and normalising.
  `Grounding` takes what the patterns find in a sentence as given, and a citation
  that is cut takes nothing of its sentence along; code fences, markdown, a label
  left behind by a cut and an answer that a removal leaves empty are not modelled.
  The normalisers of `libs/guardrails/normalize.py` are regular expressions over text
  and keep no state; a model of them would be the expressions over again.
* The voice worker: audio, its settings, and a hand-over of one attribute,
  `last_confidence` (`voice/app/agent_llm.py:153`), between a transcript and the turn that
  uses it, which is never reset. `normalize_transcript` is called by nothing, and the
  second tier of `docs/adr/0007-confirm-entities-not-transcripts.md:23` is set and read nowhere.
* `retrieval/app/ingest.py`, the command-line ingest, does not await the coroutine it
  calls and so ingests nothing; `seed` of the Postgres repository is called by nothing.
* The components marked `not_modelled` in `PROJECT.json`, each with its reason: they
  are stand-ins for tests, rendering and audio, or keep no state.

## 7. Plan

Done, in this order: the pipeline, its abstract lifecycle and its proofs; the
conversation graph and its proofs; the claims store over the claim log; the split
and its proofs; the calls to the model and their proofs; grounding and its proofs;
gateway, limiter and history and their proofs; retrieval; the Postgres repository; the
proofs of the claims store and that it implements the claim log; the other safety
properties of the pipeline; of the graph what undisturbed turns are promised, that one
yes files once and that rounds bound filings; the token budget; envelopes; the split that
is reported; the proofs of retrieval; questions, nested objects, replays and waiting
times.

Next, most important first:

1. Gateway, pipeline and graph over one conversation as one specification: a caller who
   was told 504 and asks again, while the first run waits at its confirmation.
2. The confidence hand-over of the voice worker.
