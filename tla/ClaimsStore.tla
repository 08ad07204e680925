----------------------------- MODULE ClaimsStore -----------------------------
(***************************************************************************)
(* submit_claim (backend/agent/app/tools/claims.py) over either claims     *)
(* repository (backend/libs/adapters/claims_json.py, claims_postgres.py)   *)
(* and the Redis idempotency store (backend/libs/adapters/queue_redis.py). *)
(*                                                                         *)
(* A call looks its key up, appends, then stores the key.  On the file     *)
(* adapter it waits for the process's asyncio.Lock and hands the append to *)
(* a thread, which takes the file lock, reads the file, writes a temporary *)
(* file and swaps it in; on Postgres one INSERT takes a number from a      *)
(* sequence.  A call may be cancelled at any await, which leaves its       *)
(* thread or its statement going; a process may die at any point; Redis or *)
(* Postgres may fail; a key may lapse.                                     *)
(***************************************************************************)
EXTENDS Naturals, Sequences, FiniteSets

CONSTANTS
  Calls,      \* invocations of submit_claim
  Procs,      \* agent processes sharing the file
  Args,       \* argument lists; user_id and turn are the same for every call
  ArgsOf,     \* the arguments of each call
  Nobody,     \* no call, no process
  Torn,       \* a file cut short
  NoFile,     \* a file that does not exist
  Seed,       \* the claims on file when the system is first started
  Rows,       \* the claims in the table, where that is the store
  Number,     \* and the sequence's next number
  Slots,      \* calls in progress at the same time
  MaxFaults   \* bound: failures and lapsed keys

\* CLAIM_ID_PATTERN: four digits.
MaxId == 9999

\* Bound: the sequence is followed through five digits.
MaxNumber == 99999

ASSUME ClaimsAssumption ==
  /\ Nobody \notin Calls \cup Procs
  /\ ArgsOf \in [Calls -> Args]
  /\ Number \in 1 .. MaxNumber
  /\ Slots \in Nat /\ MaxFaults \in Nat

\* Claims of nobody's under different ids.
Stored(claims) ==
  /\ claims \in Seq([id : 1 .. MaxId, args : Args, by : {Nobody}])
  /\ \A i, j \in DOMAIN claims : claims[i].id = claims[j].id => i = j

ASSUME StoredAssumption == Stored(Seed) /\ Stored(Rows)

ASSUME FilesAssumption ==
  /\ Torn # NoFile
  /\ {Torn, NoFile} \cap Seq([id : Nat, args : Args, by : Calls \cup {Nobody}]) = {}

VARIABLES
  backend,  \* AgentSettings.claims_backend
  file,     \* the claims file, or app.claims
  number,   \* app.claim_number_seq
  tmp,      \* its .json.tmp
  fileLock, \* the thread that holds the file lock, named by its call
  lock,     \* each process's asyncio.Lock: the call that holds it
  pc,       \* where each call is
  proc,     \* the process it runs in
  thread,   \* where its append thread is, or its INSERT
  seen,     \* the claims its thread has read
  id,       \* the claim id the call found or was assigned; 0 for none
  keys,     \* idempotency store; the key is a function of the arguments
  reply,    \* what the tools node got back
  faults

memory == <<lock, proc, thread, seen, id>>
database == <<backend, number>>
vars == <<file, tmp, fileLock, memory, pc, keys, reply, faults, database>>

Coroutine == {"lookup", "replay", "lock", "write", "put"}
Writing == {"read", "write", "flush", "replace", "unlock"}
Active == {c \in Calls : pc[c] \in Coroutine}

IdsIn(claims) == {claims[i].id : i \in DOMAIN claims}

\* _next_id: one more than the highest id on file.
NextId(claims) ==
  IF claims = <<>> THEN 8821 ELSE 1 + CHOOSE i \in IdsIn(claims) : \A j \in IdsIn(claims) : j <= i

\* 'CLM-' || lpad(n, 4, '0'): of a longer number, the first four digits.
Numbered(n) == IF n <= MaxId THEN n ELSE n \div 10

Init ==
  /\ backend \in {"file", "postgres"}
  /\ file = IF backend = "file" THEN Seed ELSE Rows
  /\ number = Number
  /\ tmp = NoFile
  /\ fileLock = Nobody
  /\ lock = [p \in Procs |-> Nobody]
  /\ pc = [c \in Calls |-> "new"]
  /\ proc = [c \in Calls |-> Nobody]
  /\ thread = [c \in Calls |-> "none"]
  /\ seen = [c \in Calls |-> <<>>]
  /\ id = [c \in Calls |-> 0]
  /\ keys = [a \in Args |-> 0]
  /\ reply = [c \in Calls |-> "none"]
  /\ faults = 0

------------------------------------------------------------------------------
Fault ==
  /\ faults < MaxFaults
  /\ faults' = faults + 1

Finish(c, answer) ==
  /\ pc' = [pc EXCEPT ![c] = "over"]
  /\ reply' = [reply EXCEPT ![c] = answer]

Start(c) ==
  /\ pc[c] = "new"
  /\ Cardinality(Active) < Slots
  /\ \E p \in Procs : proc' = [proc EXCEPT ![c] = p]
  /\ pc' = [pc EXCEPT ![c] = "lookup"]
  /\ UNCHANGED <<file, tmp, fileLock, lock, thread, seen, id, keys, reply, faults, database>>

\* Mutant of Lookup: the key leaves the arguments out.
LookupAnyKey(c) ==
  /\ pc[c] = "lookup"
  /\ \/ \E a \in Args : /\ keys[a] # 0
                        /\ pc' = [pc EXCEPT ![c] = "replay"]
                        /\ id' = [id EXCEPT ![c] = keys[a]]
     \/ /\ \A a \in Args : keys[a] = 0
        /\ pc' = [pc EXCEPT ![c] = "lock"]
        /\ UNCHANGED id
  /\ UNCHANGED <<file, tmp, fileLock, lock, proc, thread, seen, keys, reply, faults, database>>

\* idempotency.get
Lookup(c) ==
  /\ pc[c] = "lookup"
  /\ pc' = [pc EXCEPT ![c] = IF keys[ArgsOf[c]] = 0 THEN "lock" ELSE "replay"]
  /\ id' = [id EXCEPT ![c] = keys[ArgsOf[c]]]
  /\ UNCHANGED <<file, tmp, fileLock, lock, proc, thread, seen, keys, reply, faults, database>>

\* The claim of an earlier call is read, without a lock, and returned.
Replay(c) ==
  /\ pc[c] = "replay"
  /\ Finish(c, IF id[c] \in IdsIn(file) THEN "replayed" ELSE "error")
  /\ UNCHANGED <<file, tmp, fileLock, memory, keys, faults, database>>

\* append: the process's lock is taken and the append queued for a thread.
TakeLock(c) ==
  /\ backend = "file"
  /\ pc[c] = "lock"
  /\ lock[proc[c]] = Nobody
  /\ lock' = [lock EXCEPT ![proc[c]] = c]
  /\ pc' = [pc EXCEPT ![c] = "write"]
  /\ thread' = [thread EXCEPT ![c] = "queued"]
  /\ UNCHANGED <<file, tmp, fileLock, proc, seen, id, keys, reply, faults, database>>

\* append: the INSERT is sent.
Send(c) ==
  /\ backend = "postgres"
  /\ pc[c] = "lock"
  /\ pc' = [pc EXCEPT ![c] = "write"]
  /\ thread' = [thread EXCEPT ![c] = "queued"]
  /\ UNCHANGED <<file, tmp, fileLock, lock, proc, seen, id, keys, reply, faults, database>>

\* The thread is through; the call goes on, or the exception reaches the tools
\* node, which reports an error.
Written(c) ==
  /\ pc[c] = "write"
  /\ lock' = [lock EXCEPT ![proc[c]] = Nobody]
  /\ \/ /\ thread[c] = "done"
        /\ pc' = [pc EXCEPT ![c] = "put"]
        /\ UNCHANGED reply
     \/ /\ thread[c] = "failed"
        /\ Finish(c, "error")
  /\ UNCHANGED <<file, tmp, fileLock, proc, thread, seen, id, keys, faults, database>>

\* idempotency.put
Put(c) ==
  /\ pc[c] = "put"
  /\ keys' = [keys EXCEPT ![ArgsOf[c]] = id[c]]
  /\ Finish(c, "filed")
  /\ UNCHANGED <<file, tmp, fileLock, memory, faults, database>>

------------------------------------------------------------------------------
\* The append thread, _append_sync.

StartThread(c) ==
  /\ backend = "file"
  /\ thread[c] = "queued"
  /\ thread' = [thread EXCEPT ![c] = "acquire"]
  /\ UNCHANGED <<file, tmp, fileLock, lock, pc, proc, seen, id, keys, reply, faults, database>>

\* Mutant of Acquire: the lock is per process, so another process's holder is
\* not waited for.
AcquireInProcess(c) ==
  /\ thread[c] = "acquire"
  /\ fileLock \notin {d \in Calls : proc[d] = proc[c]}
  /\ fileLock' = c
  /\ thread' = [thread EXCEPT ![c] = "read"]
  /\ UNCHANGED <<file, tmp, lock, pc, proc, seen, id, keys, reply, faults, database>>

Acquire(c) ==
  /\ thread[c] = "acquire"
  /\ fileLock = Nobody
  /\ fileLock' = c
  /\ thread' = [thread EXCEPT ![c] = "read"]
  /\ UNCHANGED <<file, tmp, lock, pc, proc, seen, id, keys, reply, faults, database>>

\* The file lock was not to be had for LOCK_TIMEOUT_S.
LockTimesOut(c) ==
  /\ thread[c] = "acquire"
  /\ fileLock # Nobody
  /\ Fault
  /\ thread' = [thread EXCEPT ![c] = "failed"]
  /\ UNCHANGED <<file, tmp, fileLock, lock, pc, proc, seen, id, keys, reply, database>>

\* The claims are read and the id assigned.
ReadClaims(c) ==
  /\ thread[c] = "read"
  /\ NextId(file) <= MaxId
  /\ seen' = [seen EXCEPT ![c] = file]
  /\ id' = [id EXCEPT ![c] = NextId(file)]
  /\ thread' = [thread EXCEPT ![c] = "write"]
  /\ UNCHANGED <<file, tmp, fileLock, lock, pc, proc, keys, reply, faults, database>>

\* Claim does not accept the next id, and the exception unwinds the lock.
ReadFails(c) ==
  /\ thread[c] = "read"
  /\ NextId(file) > MaxId
  /\ fileLock' = Nobody
  /\ thread' = [thread EXCEPT ![c] = "failed"]
  /\ UNCHANGED <<file, tmp, lock, pc, proc, seen, id, keys, reply, faults, database>>

\* Mutant of WriteTmp: the claims file itself is written.
WriteInPlace(c) ==
  /\ thread[c] = "write"
  /\ file' = Torn
  /\ thread' = [thread EXCEPT ![c] = "flush"]
  /\ UNCHANGED <<tmp, fileLock, lock, pc, proc, seen, id, keys, reply, faults, database>>

\* write_text truncates the file first and fills it then.
WriteTmp(c) ==
  /\ thread[c] = "write"
  /\ tmp' = Torn
  /\ thread' = [thread EXCEPT ![c] = "flush"]
  /\ UNCHANGED <<file, fileLock, lock, pc, proc, seen, id, keys, reply, faults, database>>

FlushTmp(c) ==
  /\ thread[c] = "flush"
  /\ tmp' = Append(seen[c], [id |-> id[c], args |-> ArgsOf[c], by |-> c])
  /\ thread' = [thread EXCEPT ![c] = "replace"]
  /\ UNCHANGED <<file, fileLock, lock, pc, proc, seen, id, keys, reply, faults, database>>

\* os.replace
Replace(c) ==
  /\ thread[c] = "replace"
  /\ file' = tmp
  /\ tmp' = NoFile
  /\ thread' = [thread EXCEPT ![c] = "unlock"]
  /\ UNCHANGED <<fileLock, lock, pc, proc, seen, id, keys, reply, faults, database>>

Release(c) ==
  /\ thread[c] = "unlock"
  /\ fileLock' = Nobody
  /\ thread' = [thread EXCEPT ![c] = "done"]
  /\ UNCHANGED <<file, tmp, lock, pc, proc, seen, id, keys, reply, faults, database>>

------------------------------------------------------------------------------
\* The INSERT.

Row(c) == [id |-> Numbered(number), args |-> ArgsOf[c], by |-> c]

\* Mutant of Insert: a row that is there already is written over.
InsertOver(c) ==
  /\ backend = "postgres"
  /\ thread[c] = "queued"
  /\ number <= MaxNumber
  /\ number' = number + 1
  /\ file' = Append(SelectSeq(file, LAMBDA r : r.id # Numbered(number)), Row(c))
  /\ id' = [id EXCEPT ![c] = Numbered(number)]
  /\ thread' = [thread EXCEPT ![c] = "done"]
  /\ UNCHANGED <<backend, tmp, fileLock, lock, pc, proc, seen, keys, reply, faults>>

\* The number is taken in any case; the row is refused if its id is there.
Insert(c) ==
  /\ backend = "postgres"
  /\ thread[c] = "queued"
  /\ number <= MaxNumber
  /\ number' = number + 1
  /\ \/ /\ Numbered(number) \notin IdsIn(file)
        /\ file' = Append(file, Row(c))
        /\ id' = [id EXCEPT ![c] = Numbered(number)]
        /\ thread' = [thread EXCEPT ![c] = "done"]
     \/ /\ Numbered(number) \in IdsIn(file)
        /\ thread' = [thread EXCEPT ![c] = "failed"]
        /\ UNCHANGED <<file, id>>
  /\ UNCHANGED <<backend, tmp, fileLock, lock, pc, proc, seen, keys, reply, faults>>

------------------------------------------------------------------------------
\* Failures.

\* The connection is lost: nothing has happened, a number is gone, or the row was
\* committed all the same.
InsertFails(c) ==
  /\ backend = "postgres"
  /\ thread[c] = "queued"
  /\ number <= MaxNumber
  /\ Fault
  /\ \/ number' \in {number, number + 1} /\ UNCHANGED file
     \/ /\ Numbered(number) \notin IdsIn(file)
        /\ number' = number + 1
        /\ file' = Append(file, Row(c))
  /\ thread' = [thread EXCEPT ![c] = "failed"]
  /\ UNCHANGED <<backend, tmp, fileLock, lock, pc, proc, seen, id, keys, reply>>

\* Redis fails, or the policy terms cannot be had, before anything is written.
LookupFails(c) ==
  /\ pc[c] = "lookup"
  /\ Fault
  /\ Finish(c, "error")
  /\ UNCHANGED <<file, tmp, fileLock, memory, keys, database>>

\* Redis fails after the claim is written; the key may have landed all the same.
PutFails(c) ==
  /\ pc[c] = "put"
  /\ Fault
  /\ \/ UNCHANGED keys
     \/ keys' = [keys EXCEPT ![ArgsOf[c]] = id[c]]
  /\ Finish(c, "error")
  /\ UNCHANGED <<file, tmp, fileLock, memory, database>>

\* Mutant of Cancel: the process's lock is not given back.
CancelKeepsLock(c) ==
  /\ pc[c] \in Coroutine
  /\ Fault
  /\ thread' = [thread EXCEPT ![c] = IF @ = "queued" THEN "none" ELSE @]
  /\ \/ UNCHANGED keys
     \/ pc[c] = "put" /\ keys' = [keys EXCEPT ![ArgsOf[c]] = id[c]]
  /\ Finish(c, "cut")
  /\ UNCHANGED <<file, tmp, fileLock, lock, proc, seen, id, database>>

\* The run's timeout cancels the call at an await.  A thread not yet started is
\* called off, a started one goes on; a statement or a put on its way may still
\* land.
Cancel(c) ==
  /\ pc[c] \in Coroutine
  /\ Fault
  /\ lock' = [p \in Procs |-> IF lock[p] = c THEN Nobody ELSE lock[p]]
  /\ \/ thread' = [thread EXCEPT ![c] = IF @ = "queued" THEN "none" ELSE @]
     \/ backend = "postgres" /\ thread[c] = "queued" /\ UNCHANGED thread
  /\ \/ UNCHANGED keys
     \/ pc[c] = "put" /\ keys' = [keys EXCEPT ![ArgsOf[c]] = id[c]]
  /\ Finish(c, "cut")
  /\ UNCHANGED <<file, tmp, fileLock, proc, seen, id, database>>

\* A process dies with its calls and threads; the kernel drops its file lock.
Crash(p) ==
  LET dies == {c \in Calls : proc[c] = p}
      cut == dies \cap Active
  IN  /\ \E c \in dies : pc[c] \in Coroutine \/ thread[c] \in {"acquire"} \cup Writing
      /\ Fault
      /\ pc' = [c \in Calls |-> IF c \in cut THEN "over" ELSE pc[c]]
      /\ reply' = [c \in Calls |-> IF c \in cut THEN "cut" ELSE reply[c]]
      /\ \E sent \in SUBSET {c \in dies : backend = "postgres" /\ thread[c] = "queued"} :
           thread' = [c \in Calls |-> IF c \in dies \ sent THEN "none" ELSE thread[c]]
      /\ fileLock' = IF fileLock \in dies THEN Nobody ELSE fileLock
      /\ lock' = [lock EXCEPT ![p] = Nobody]
      /\ UNCHANGED <<file, tmp, proc, seen, id, keys, database>>

\* The key's time to live, a day, outlasts every call.
Lapse(a) ==
  /\ keys[a] # 0
  /\ Active = {}
  /\ \A c \in Calls : thread[c] \notin {"acquire"} \cup Writing
  /\ Fault
  /\ keys' = [keys EXCEPT ![a] = 0]
  /\ UNCHANGED <<file, tmp, fileLock, memory, pc, reply, database>>

CallStep(c) ==
  \/ Lookup(c) \/ Replay(c) \/ TakeLock(c) \/ Send(c) \/ Written(c) \/ Put(c)

ThreadStep(c) ==
  \/ StartThread(c) \/ Acquire(c) \/ ReadClaims(c) \/ ReadFails(c)
  \/ WriteTmp(c) \/ FlushTmp(c) \/ Replace(c) \/ Release(c)
  \/ Insert(c)

Next ==
  \/ \E c \in Calls :
       \/ Start(c) \/ CallStep(c) \/ ThreadStep(c)
       \/ LockTimesOut(c) \/ InsertFails(c) \/ LookupFails(c) \/ PutFails(c) \/ Cancel(c)
  \/ \E p \in Procs : Crash(p)
  \/ \E a \in Args : Lapse(a)

Spec == Init /\ [][Next]_vars

\* The event loop and the thread pool keep what they run going.
FairSpec ==
  Spec /\ \A c \in Calls : WF_vars(CallStep(c)) /\ WF_vars(ThreadStep(c))

------------------------------------------------------------------------------
Claim == [id : 1 .. MaxId, args : Args, by : Calls \cup {Nobody}]
Threads == {"none", "queued", "acquire"} \cup Writing \cup {"done", "failed"}

\* Type invariant.  The file always parses: a reader takes no lock, so this is
\* that it never sees a file half written, whoever died while writing.
ClaimsTypeOK ==
  /\ file \in Seq(Claim)
  /\ tmp \in Seq(Claim) \cup {Torn, NoFile}
  /\ fileLock \in Calls \cup {Nobody}
  /\ lock \in [Procs -> Calls \cup {Nobody}]
  /\ pc \in [Calls -> Coroutine \cup {"new", "over"}]
  /\ proc \in [Calls -> Procs \cup {Nobody}]
  /\ thread \in [Calls -> Threads]
  /\ seen \in [Calls -> Seq(Claim)]
  /\ id \in [Calls -> 0 .. MaxId]
  /\ keys \in [Args -> 0 .. MaxId]
  /\ reply \in [Calls -> {"none", "filed", "replayed", "error", "cut"}]
  /\ faults \in 0 .. MaxFaults

\* The inductive core: writers exclude each other, so what a writer has read is
\* the file, what it swaps in is the file and its claim, and no two claims share
\* an id.
WritersExclude ==
  /\ \A c \in Calls : thread[c] \in Writing <=> fileLock = c
  /\ \A c \in Calls : thread[c] \in {"write", "flush", "replace"} =>
       /\ seen[c] = file
       /\ id[c] \notin IdsIn(file)
  /\ \A c \in Calls : thread[c] = "replace" =>
       tmp = Append(file, [id |-> id[c], args |-> ArgsOf[c], by |-> c])
  /\ \A i, j \in DOMAIN file : file[i].id = file[j].id => i = j

\* What a confirmation id stands for: a claim on file with the caller's own
\* arguments, the one it filed itself unless it was told of a replay.  The same of
\* every idempotency key: a retry is never told of a claim that was not written,
\* wherever the first attempt was cut off.
ConfirmationsAreGenuine ==
  /\ \A c \in Calls : reply[c] \in {"filed", "replayed"} =>
       \E i \in DOMAIN file : /\ file[i].id = id[c]
                              /\ file[i].args = ArgsOf[c]
                              /\ reply[c] = "filed" => file[i].by = c
  /\ \A a \in Args : keys[a] # 0 =>
       \E i \in DOMAIN file : file[i].id = keys[a] /\ file[i].args = a

\* Every call comes to an end: neither lock is ever left behind, by a cancelled
\* call, a failed append or a dead process.
CallsEnd == \A c \in Calls : pc[c] = "lookup" ~> pc[c] = "over"

ToldOf ==
  {[id |-> id[c], args |-> ArgsOf[c]] :
     c \in {d \in Calls : reply[d] \in {"filed", "replayed"}}}

Log == INSTANCE ClaimLog WITH
  Ids <- 1 .. MaxId,
  log <- {[id |-> file[i].id, args |-> file[i].args] : i \in DOMAIN file},
  told <- ToldOf

\* Either adapter under submit_claim keeps the port's promise.
ClaimLogSpec == Log!Spec
==============================================================================
