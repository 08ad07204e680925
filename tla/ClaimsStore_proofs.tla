-------------------------- MODULE ClaimsStore_proofs --------------------------
(***************************************************************************)
(* Proofs about ClaimsStore, for any calls, processes, arguments and       *)
(* claims on file, over either repository: the file always parses, writers *)
(* exclude each other, a confirmation names a claim on file, and the port's *)
(* promise (ClaimLog) is kept.                                             *)
(***************************************************************************)
EXTENDS ClaimsStore, OrderLemmas, SequenceTheorems, TLAPS

\* Ids have four digits and numbers five.
LEMMA Digits == MaxId \in Nat /\ MaxId >= 8821 /\ MaxNumber \in Nat /\ MaxNumber = 10 * MaxId + 9
BY DEF MaxId, MaxNumber

-----------------------------------------------------------------------------
\* Claims on file.

\* The claim a call files.
Filed(c) == [id |-> id[c], args |-> ArgsOf[c], by |-> c]

OnFile(r) == \E i \in DOMAIN file : file[i] = r

\* There is a claim of this number with these arguments.
HasClaim(n, a) == \E i \in DOMAIN file : file[i].id = n /\ file[i].args = a

\* What appending a claim does to a list of them.
LEMMA AppendFacts ==
  ASSUME NEW claims \in Seq(Claim), NEW r \in Claim
  PROVE  /\ Append(claims, r) \in Seq(Claim)
         /\ \A i \in DOMAIN claims : i \in DOMAIN Append(claims, r) /\ Append(claims, r)[i] = claims[i]
         /\ \A i \in DOMAIN Append(claims, r) :
              i \in DOMAIN claims \/ (i = Len(claims) + 1 /\ Append(claims, r)[i] = r)
         /\ Len(claims) + 1 \in DOMAIN Append(claims, r) /\ Append(claims, r)[Len(claims) + 1] = r
         /\ IdsIn(Append(claims, r)) = IdsIn(claims) \cup {r.id}
<1>1. /\ Append(claims, r) \in Seq(Claim) /\ Len(claims) \in Nat
      /\ DOMAIN claims = 1 .. Len(claims) /\ DOMAIN Append(claims, r) = 1 .. Len(claims) + 1
      /\ \A i \in 1 .. Len(claims) : Append(claims, r)[i] = claims[i]
      /\ Append(claims, r)[Len(claims) + 1] = r
  BY AppendProperties, LenProperties
<1> DEFINE more == Append(claims, r)
<1> HIDE DEF more
<1>2. /\ \A i \in DOMAIN claims : i \in DOMAIN more /\ more[i] = claims[i]
      /\ \A i \in DOMAIN more : i \in DOMAIN claims \/ (i = Len(claims) + 1 /\ more[i] = r)
      /\ Len(claims) + 1 \in DOMAIN more /\ more[Len(claims) + 1] = r
  BY <1>1 DEF more
<1>3. IdsIn(more) = IdsIn(claims) \cup {r.id} BY <1>2 DEF IdsIn
<1>4. QED BY <1>1, <1>2, <1>3 DEF more

\* Ids are numbers of at most four digits.
LEMMA IdFacts ==
  ASSUME NEW claims \in Seq(Claim)
  PROVE  IdsIn(claims) \subseteq 1 .. MaxId
<1>1. \A i \in DOMAIN claims : claims[i] \in Claim BY ElementOfSeq
<1>2. QED BY <1>1 DEF IdsIn, Claim

\* The next id is one no claim has.
LEMMA NextIdFacts ==
  ASSUME NEW claims \in Seq(Claim)
  PROVE  /\ NextId(claims) \in Nat \ {0}
         /\ NextId(claims) \notin IdsIn(claims)
<1>1. IdsIn(claims) \subseteq 1 .. MaxId BY IdFacts
<1>2. CASE claims = <<>>
  <2>1. NextId(claims) = 8821 BY <1>2 DEF NextId
  <2>2. DOMAIN claims = {} BY <1>2
  <2>3. QED BY <2>1, <2>2 DEF IdsIn
<1>3. CASE claims # <<>>
  <2> DEFINE A == IdsIn(claims)
             above == {b \in Nat : \A i \in A : i <= b}
  <2>1. A # {}
    <3>1. 1 \in DOMAIN claims BY <1>3, LenProperties, EmptySeq
    <3>2. QED BY <3>1 DEF IdsIn
  <2>2. A \subseteq 1 .. MaxId BY <1>1
  <2> HIDE DEF A
  <2>3. MaxId \in above BY <2>2, Digits
  <2>4. PICK b \in above : \A d \in above : b <= d BY <2>3, SmallestNat
  <2>5. b \in A
    <3> SUFFICES ASSUME b \notin A PROVE FALSE
      OBVIOUS
    <3>1. \A i \in A : i <= b - 1 BY <2>2, <2>4
    <3>2. b - 1 \in Nat
      <4>1. PICK i \in A : TRUE BY <2>1
      <4>2. i \in Int /\ i >= 1 /\ i <= b - 1 /\ b \in Nat BY <2>2, <3>1, <4>1
      <4>3. QED BY <4>2
    <3>3. QED BY <2>4, <3>1, <3>2
  <2>6. \E i \in A : \A j \in A : j <= i BY <2>4, <2>5
  <2>7. PICK m : m = (CHOOSE i \in A : \A j \in A : j <= i) OBVIOUS
  <2>8. m \in A /\ \A j \in A : j <= m BY <2>6, <2>7
  <2>9. NextId(claims) = 1 + m BY <1>3, <2>7 DEF NextId, A
  <2>10. m \in Nat /\ 1 + m \in Nat \ {0} /\ 1 + m \notin A BY <2>2, <2>8, Digits
  <2>11. QED BY <2>9, <2>10 DEF A
<1>4. QED BY <1>2, <1>3

\* A number of the sequence gives an id.
LEMMA NumberedFacts ==
  ASSUME NEW n \in 1 .. MaxNumber
  PROVE  Numbered(n) \in 1 .. MaxId
<1>1. n \in Nat /\ n >= 1 /\ n <= 10 * MaxId + 9 /\ MaxId \in Nat /\ MaxId >= 9 BY Digits
<1>2. n > MaxId => n \div 10 \in 1 .. MaxId BY <1>1
<1>3. QED BY <1>1, <1>2 DEF Numbered

-----------------------------------------------------------------------------
\* The invariant.

DatabaseInv ==
  /\ backend \in {"file", "postgres"}
  /\ number \in 1 .. MaxNumber + 1
  /\ \A c \in Calls : thread[c] \in {"acquire"} \cup Writing => backend = "file"
  /\ \A c \in Calls : thread[c] \in {"write", "flush", "replace"} => id[c] # 0

\* Where a call is, its thread and its reply agree; and once a call has been
\* told of a claim, nothing of it is left that could change its id.
ProgramInv ==
  \A c \in Calls :
    /\ pc[c] \in {"new", "lookup", "replay", "lock"} => thread[c] = "none"
    /\ pc[c] = "put" => thread[c] = "done"
    /\ reply[c] # "none" <=> pc[c] = "over"
    /\ reply[c] = "filed" => thread[c] \in {"none", "done"}
    /\ reply[c] = "replayed" => thread[c] = "none"

\* What has been written is on file, and so is what a key stands for.
FiledInv ==
  /\ \A c \in Calls : thread[c] \in {"unlock", "done"} \/ reply[c] = "filed" => OnFile(Filed(c))
  /\ \A c \in Calls : pc[c] = "replay" \/ reply[c] = "replayed" => HasClaim(id[c], ArgsOf[c])
  /\ \A a \in Args : keys[a] # 0 => HasClaim(keys[a], a)

CInv == ClaimsTypeOK /\ DatabaseInv /\ WritersExclude /\ ProgramInv /\ FiledInv

\* Nothing is going on to begin with.
LEMMA InitCInv == ASSUME Init PROVE CInv
<1>1. ASSUME NEW claims, Stored(claims)
      PROVE  claims \in Seq(Claim) /\ \A i, j \in DOMAIN claims : claims[i].id = claims[j].id => i = j
  <2>1. [id : 1 .. MaxId, args : Args, by : {Nobody}] \subseteq Claim BY DEF Claim
  <2>2. /\ claims \in Seq([id : 1 .. MaxId, args : Args, by : {Nobody}])
        /\ \A i, j \in DOMAIN claims : claims[i].id = claims[j].id => i = j
    BY <1>1 DEF Stored
  <2>3. claims \in Seq(Claim) BY <2>1, <2>2, SeqMonotonic
  <2>4. QED BY <2>2, <2>3
<1>2. file \in Seq(Claim) /\ \A i, j \in DOMAIN file : file[i].id = file[j].id => i = j
  <2>1. file = Seed \/ file = Rows BY DEF Init
  <2>2. Stored(Seed) /\ Stored(Rows) BY StoredAssumption
  <2>3. Stored(file) BY <2>1, <2>2
  <2>4. QED BY <1>1, <2>3
<1>3. ClaimsTypeOK
  <2>1. /\ 0 \in 0 .. MaxId /\ 0 \in 0 .. MaxFaults
    BY ClaimsAssumption, Digits
  <2>2. <<>> \in Seq(Claim) BY EmptySeq, Zenon
  <2>3. QED BY <1>2, <2>1, <2>2 DEF Init, ClaimsTypeOK, Threads
<1>4. DatabaseInv
  <2>1. number \in 1 .. MaxNumber + 1 BY ClaimsAssumption, Digits DEF Init
  <2>2. backend \in {"file", "postgres"} /\ \A c \in Calls : thread[c] = "none" BY DEF Init
  <2>3. QED BY <2>1, <2>2 DEF DatabaseInv, Writing
<1>5. WritersExclude
  <2>1. /\ \A c \in Calls : thread[c] = "none" /\ c # Nobody
        /\ fileLock = Nobody
    BY ClaimsAssumption DEF Init
  <2>2. QED BY <1>2, <2>1 DEF WritersExclude, Writing
<1>6. ProgramInv BY DEF Init, ProgramInv
<1>7. FiledInv BY DEF Init, FiledInv
<1>8. QED BY <1>3, <1>4, <1>5, <1>6, <1>7 DEF CInv

-----------------------------------------------------------------------------
\* Types.

\* The actions that leave both files alone.
Aside(c) ==
  \/ Start(c) \/ Lookup(c) \/ Replay(c) \/ TakeLock(c) \/ Send(c) \/ Written(c) \/ Put(c)
  \/ StartThread(c) \/ Acquire(c) \/ ReadClaims(c) \/ ReadFails(c) \/ Release(c)
  \/ LockTimesOut(c) \/ LookupFails(c) \/ PutFails(c) \/ Cancel(c)

\* A fault is counted.
LEMMA FaultType ==
  ASSUME faults \in 0 .. MaxFaults, Fault
  PROVE  faults' \in 0 .. MaxFaults
BY ClaimsAssumption DEF Fault

\* They keep the types.
LEMMA AsideTypes ==
  ASSUME CInv, NEW c \in Calls, Aside(c)
  PROVE  ClaimsTypeOK'
<1> USE DEF ClaimsTypeOK, Finish
<1>0. ClaimsTypeOK BY DEF CInv
<1>1. CASE Start(c) BY <1>0, <1>1 DEF Start, Coroutine, database
<1>2. CASE Lookup(c)
  <2>1. keys[ArgsOf[c]] \in 0 .. MaxId BY <1>0, ClaimsAssumption
  <2>2. QED BY <1>0, <1>2, <2>1 DEF Lookup, Coroutine, database
<1>3. CASE Replay(c) BY <1>0, <1>3 DEF Replay, memory, database
<1>4. CASE TakeLock(c) BY <1>0, <1>4 DEF TakeLock, Coroutine, Threads, database
<1>5. CASE Send(c) BY <1>0, <1>5 DEF Send, Coroutine, Threads, database
<1>6. CASE Written(c) BY <1>0, <1>6 DEF Written, Coroutine, database
<1>7. CASE Put(c) BY <1>0, <1>7 DEF Put, memory, database
<1>8. CASE StartThread(c) BY <1>0, <1>8 DEF StartThread, Threads, database
<1>9. CASE Acquire(c) BY <1>0, <1>9 DEF Acquire, Threads, Writing, database
<1>10. CASE ReadClaims(c)
  <2>1. NextId(file) \in 0 .. MaxId
    <3>1. NextId(file) \in Nat /\ NextId(file) <= MaxId BY <1>0, <1>10, NextIdFacts DEF ReadClaims
    <3>2. QED BY <3>1, Digits
  <2>2. QED BY <1>0, <1>10, <2>1 DEF ReadClaims, Threads, Writing, database
<1>11. CASE ReadFails(c) BY <1>0, <1>11 DEF ReadFails, Threads, database
<1>12. CASE Release(c) BY <1>0, <1>12 DEF Release, Threads, database
<1>13. CASE LockTimesOut(c)
  <2>1. faults' \in 0 .. MaxFaults BY <1>0, <1>13, FaultType DEF LockTimesOut
  <2>2. QED BY <1>0, <1>13, <2>1 DEF LockTimesOut, Threads, database
<1>14. CASE LookupFails(c)
  <2>1. faults' \in 0 .. MaxFaults BY <1>0, <1>14, FaultType DEF LookupFails
  <2>2. QED BY <1>0, <1>14, <2>1 DEF LookupFails, memory, database
<1>15. CASE PutFails(c)
  <2>1. faults' \in 0 .. MaxFaults BY <1>0, <1>15, FaultType DEF PutFails
  <2>2. QED BY <1>0, <1>15, <2>1 DEF PutFails, memory, database
<1>16. CASE Cancel(c)
  <2>1. faults' \in 0 .. MaxFaults BY <1>0, <1>16, FaultType DEF Cancel
  <2>2. thread' \in [Calls -> Threads] BY <1>0, <1>16 DEF Cancel, Threads
  <2>3. keys' \in [Args -> 0 .. MaxId] BY <1>0, <1>16 DEF Cancel
  <2>4. QED BY <1>0, <1>16, <2>1, <2>2, <2>3 DEF Cancel, database
<1>17. QED
  BY <1>1, <1>2, <1>3, <1>4, <1>5, <1>6, <1>7, <1>8, <1>9, <1>10, <1>11, <1>12, <1>13,
     <1>14, <1>15, <1>16 DEF Aside

\* The claims file and its temporary file hold lists of claims or nothing whole.
LEMMA FileTypes ==
  ASSUME CInv, NEW c \in Calls,
         \/ WriteTmp(c) \/ FlushTmp(c) \/ Replace(c) \/ Insert(c) \/ InsertFails(c)
  PROVE  ClaimsTypeOK' /\ number' \in 1 .. MaxNumber + 1
<1> USE DEF ClaimsTypeOK
<1>0. ClaimsTypeOK /\ number \in 1 .. MaxNumber + 1 BY DEF CInv, DatabaseInv
<1>1. CASE WriteTmp(c) BY <1>0, <1>1 DEF WriteTmp, Threads, Writing, database
<1>2. CASE FlushTmp(c)
  <2>1. id[c] \in 1 .. MaxId /\ seen[c] \in Seq(Claim)
    <3>1. id[c] \in 0 .. MaxId /\ id[c] # 0 BY <1>0, <1>2 DEF FlushTmp, CInv, DatabaseInv
    <3>2. QED BY <1>0, <3>1, Digits
  <2>2. [id |-> id[c], args |-> ArgsOf[c], by |-> c] \in Claim
    BY <2>1, ClaimsAssumption DEF Claim
  <2>3. tmp' \in Seq(Claim) BY <1>2, <2>1, <2>2, AppendFacts DEF FlushTmp
  <2>4. QED BY <1>0, <1>2, <2>3 DEF FlushTmp, Threads, Writing, database
<1>3. CASE Replace(c)
  <2>1. id[c] \in 1 .. MaxId
    <3>1. id[c] \in 0 .. MaxId /\ id[c] # 0 BY <1>0, <1>3 DEF Replace, CInv, DatabaseInv
    <3>2. QED BY <1>0, <3>1, Digits
  <2>2. [id |-> id[c], args |-> ArgsOf[c], by |-> c] \in Claim
    BY <2>1, ClaimsAssumption DEF Claim
  <2>3. tmp = Append(file, [id |-> id[c], args |-> ArgsOf[c], by |-> c])
    BY <1>3 DEF Replace, CInv, WritersExclude
  <2>4. tmp \in Seq(Claim) BY <1>0, <2>2, <2>3, AppendFacts
  <2>5. QED BY <1>0, <1>3, <2>4 DEF Replace, Threads, Writing, database
<1>4. ASSUME number <= MaxNumber
      PROVE  /\ Numbered(number) \in 1 .. MaxId /\ Numbered(number) \in 0 .. MaxId
             /\ number + 1 \in 1 .. MaxNumber + 1 /\ Append(file, Row(c)) \in Seq(Claim)
  <2>1. number \in 1 .. MaxNumber /\ number + 1 \in 1 .. MaxNumber + 1 BY <1>0, <1>4, Digits
  <2>2. Numbered(number) \in 1 .. MaxId BY <2>1, NumberedFacts
  <2>3. Row(c) \in Claim BY <2>2, ClaimsAssumption DEF Row, Claim
  <2>4. QED BY <1>0, <2>1, <2>2, <2>3, AppendFacts
<1>5. CASE Insert(c) BY <1>0, <1>4, <1>5 DEF Insert, Threads
<1>6. CASE InsertFails(c)
  <2>1. faults' \in 0 .. MaxFaults BY <1>0, <1>6, FaultType DEF InsertFails
  <2>2. QED BY <1>0, <1>4, <1>6, <2>1 DEF InsertFails, Threads
<1>7. QED BY <1>0, <1>1, <1>2, <1>3, <1>5, <1>6 DEF WriteTmp, FlushTmp, Replace, database

\* So do the death of a process and the end of a key.
LEMMA OtherTypes ==
  ASSUME CInv, \/ \E p \in Procs : Crash(p)
               \/ \E a \in Args : Lapse(a)
               \/ UNCHANGED vars
  PROVE  ClaimsTypeOK'
<1> USE DEF ClaimsTypeOK
<1>0. ClaimsTypeOK BY DEF CInv
<1>1. ASSUME NEW p \in Procs, Crash(p) PROVE ClaimsTypeOK'
  <2>1. faults' \in 0 .. MaxFaults BY <1>0, <1>1, FaultType DEF Crash
  <2>2. thread' \in [Calls -> Threads]
    <3>1. "none" \in Threads BY DEF Threads
    <3>2. QED BY <1>0, <1>1, <3>1 DEF Crash
  <2>3. /\ pc' \in [Calls -> Coroutine \cup {"new", "over"}]
        /\ reply' \in [Calls -> {"none", "filed", "replayed", "error", "cut"}]
    BY <1>0, <1>1 DEF Crash
  <2>4. lock' \in [Procs -> Calls \cup {Nobody}] /\ fileLock' \in Calls \cup {Nobody}
    BY <1>0, <1>1 DEF Crash
  <2>5. UNCHANGED <<file, tmp, proc, seen, id, keys>> BY <1>1 DEF Crash
  <2>6. QED BY <1>0, <2>1, <2>2, <2>3, <2>4, <2>5
<1>2. ASSUME NEW a \in Args, Lapse(a) PROVE ClaimsTypeOK'
  <2>1. faults' \in 0 .. MaxFaults BY <1>0, <1>2, FaultType DEF Lapse
  <2>2. keys' \in [Args -> 0 .. MaxId] BY <1>0, <1>2, Digits DEF Lapse
  <2>3. QED BY <1>0, <1>2, <2>1, <2>2 DEF Lapse, memory
<1>3. CASE UNCHANGED vars BY <1>0, <1>3 DEF vars, memory
<1>4. QED BY <1>1, <1>2, <1>3

-----------------------------------------------------------------------------
\* Calls and their threads.

\* A process that dies takes its calls with it, and their threads, but for a
\* statement that is on its way.
LEMMA CrashFacts ==
  ASSUME CInv, NEW p \in Procs, Crash(p)
  PROVE  /\ \A c \in Calls : thread'[c] = thread[c] \/ thread'[c] = "none"
         /\ \A c \in Calls : \/ pc'[c] = pc[c] /\ reply'[c] = reply[c] /\ pc[c] \notin Coroutine
                             \/ pc'[c] = pc[c] /\ reply'[c] = reply[c] /\ thread'[c] = thread[c]
                             \/ pc[c] \in Coroutine /\ pc'[c] = "over" /\ reply'[c] = "cut"
         /\ \A c \in Calls : thread'[c] \in Writing => fileLock' = fileLock
         /\ \A c \in Calls : fileLock' = c => thread'[c] = thread[c] /\ fileLock = c
         /\ UNCHANGED <<backend, number, file, tmp, proc, seen, id, keys>>
<1> DEFINE dies == {c \in Calls : proc[c] = p}
<1>1. ClaimsTypeOK /\ WritersExclude BY DEF CInv
<1>2. PICK sent \in SUBSET {c \in dies : backend = "postgres" /\ thread[c] = "queued"} :
        thread' = [c \in Calls |-> IF c \in dies \ sent THEN "none" ELSE thread[c]]
  BY DEF Crash
<1>3. /\ pc' = [c \in Calls |-> IF c \in dies \cap Active THEN "over" ELSE pc[c]]
      /\ reply' = [c \in Calls |-> IF c \in dies \cap Active THEN "cut" ELSE reply[c]]
      /\ fileLock' = IF fileLock \in dies THEN Nobody ELSE fileLock
      /\ UNCHANGED <<backend, number, file, tmp, proc, seen, id, keys>>
  BY DEF Crash, database
<1>4. \A c \in Calls : c # Nobody BY ClaimsAssumption
<1>5. \A c \in Calls : thread[c] \in Writing <=> fileLock = c BY <1>1 DEF WritersExclude
<1>6. ASSUME NEW c \in Calls PROVE c \in Active <=> pc[c] \in Coroutine BY DEF Active
<1>7. ASSUME NEW c \in Calls
      PROVE  \/ pc'[c] = pc[c] /\ reply'[c] = reply[c] /\ pc[c] \notin Coroutine
             \/ pc'[c] = pc[c] /\ reply'[c] = reply[c] /\ thread'[c] = thread[c]
             \/ pc[c] \in Coroutine /\ pc'[c] = "over" /\ reply'[c] = "cut"
  <2>1. CASE c \in dies \cap Active BY <1>3, <1>6, <2>1
  <2>2. CASE c \in dies /\ c \notin Active BY <1>3, <1>6, <2>2
  <2>3. CASE c \notin dies BY <1>2, <1>3, <2>3
  <2>4. QED BY <2>1, <2>2, <2>3
<1>8. ASSUME NEW c \in Calls, thread'[c] \in Writing PROVE fileLock' = fileLock
  <2>1. thread'[c] = thread[c] /\ (c \notin dies \/ c \in sent)
    BY <1>2, <1>8 DEF Writing
  <2>2. c \notin sent BY <1>8, <2>1 DEF Writing
  <2>3. fileLock = c /\ c \notin dies BY <1>5, <1>8, <2>1, <2>2
  <2>4. QED BY <1>3, <2>3
<1>9. ASSUME NEW c \in Calls, fileLock' = c PROVE thread'[c] = thread[c] /\ fileLock = c
  BY <1>2, <1>3, <1>4, <1>9
<1>10. \A c \in Calls : thread'[c] = thread[c] \/ thread'[c] = "none" BY <1>2
<1>11. QED BY <1>3, <1>7, <1>8, <1>9, <1>10

\* Calls, threads and replies go on agreeing.
LEMMA ProgramStep ==
  ASSUME CInv, [Next]_vars
  PROVE  ProgramInv'
<1>0. ClaimsTypeOK /\ ProgramInv BY DEF CInv
<1>1. /\ pc \in [Calls -> Coroutine \cup {"new", "over"}] /\ thread \in [Calls -> Threads]
      /\ reply \in [Calls -> {"none", "filed", "replayed", "error", "cut"}]
  BY <1>0 DEF ClaimsTypeOK
<1> SUFFICES ASSUME NEW d \in Calls
    PROVE  /\ pc'[d] \in {"new", "lookup", "replay", "lock"} => thread'[d] = "none"
           /\ pc'[d] = "put" => thread'[d] = "done"
           /\ reply'[d] # "none" <=> pc'[d] = "over"
           /\ reply'[d] = "filed" => thread'[d] \in {"none", "done"}
           /\ reply'[d] = "replayed" => thread'[d] = "none"
  BY DEF ProgramInv
<1>2. /\ pc[d] \in {"new", "lookup", "replay", "lock"} => thread[d] = "none"
      /\ pc[d] = "put" => thread[d] = "done"
      /\ reply[d] # "none" <=> pc[d] = "over"
      /\ reply[d] = "filed" => thread[d] \in {"none", "done"}
      /\ reply[d] = "replayed" => thread[d] = "none"
  BY <1>0 DEF ProgramInv
<1> DEFINE Goal ==
      /\ pc'[d] \in {"new", "lookup", "replay", "lock"} => thread'[d] = "none"
      /\ pc'[d] = "put" => thread'[d] = "done"
      /\ reply'[d] # "none" <=> pc'[d] = "over"
      /\ reply'[d] = "filed" => thread'[d] \in {"none", "done"}
      /\ reply'[d] = "replayed" => thread'[d] = "none"
<1>3. ASSUME NEW c \in Calls,
             \/ Start(c) \/ Lookup(c) \/ Replay(c) \/ TakeLock(c) \/ Send(c) \/ Written(c) \/ Put(c)
             \/ LookupFails(c) \/ PutFails(c)
      PROVE Goal
  BY <1>1, <1>2, <1>3 DEF Start, Lookup, Replay, TakeLock, Send, Written, Put, LookupFails, PutFails,
     Finish, memory
<1>4. ASSUME NEW c \in Calls,
             \/ StartThread(c) \/ Acquire(c) \/ ReadClaims(c) \/ ReadFails(c) \/ WriteTmp(c)
             \/ FlushTmp(c) \/ Replace(c) \/ Release(c) \/ Insert(c) \/ LockTimesOut(c) \/ InsertFails(c)
      PROVE Goal
  <2>1. /\ thread[c] \notin {"none", "done"} /\ UNCHANGED <<pc, reply>>
        /\ \E t \in Threads : thread' = [thread EXCEPT ![c] = t]
    BY <1>4 DEF StartThread, Acquire, ReadClaims, ReadFails, WriteTmp, FlushTmp, Replace, Release,
       Insert, LockTimesOut, InsertFails, Threads, Writing
  <2>2. QED BY <1>1, <1>2, <2>1
<1>5. ASSUME NEW c \in Calls, Cancel(c) PROVE Goal
  <2>1. /\ pc[c] \in Coroutine /\ pc' = [pc EXCEPT ![c] = "over"] /\ reply' = [reply EXCEPT ![c] = "cut"]
        /\ thread' = [thread EXCEPT ![c] = IF thread[c] = "queued" THEN "none" ELSE thread[c]]
           \/ thread' = thread
    BY <1>1, <1>5 DEF Cancel, Finish
  <2>2. QED BY <1>1, <1>2, <2>1
<1>6. ASSUME NEW p \in Procs, Crash(p) PROVE Goal
  BY <1>1, <1>2, <1>6, CrashFacts DEF Coroutine
<1>7. ASSUME NEW a \in Args, Lapse(a) PROVE Goal BY <1>2, <1>7 DEF Lapse, memory
<1>8. CASE UNCHANGED vars BY <1>2, <1>8 DEF vars, memory
<1>9. QED BY <1>3, <1>4, <1>5, <1>6, <1>7, <1>8 DEF Next, CallStep, ThreadStep

\* Only the file adapter has appends that take steps.
LEMMA DatabaseStep ==
  ASSUME CInv, [Next]_vars
  PROVE  DatabaseInv'
<1>0. ClaimsTypeOK /\ DatabaseInv /\ ProgramInv BY DEF CInv
<1>1. /\ thread \in [Calls -> Threads] /\ id \in [Calls -> 0 .. MaxId]
  BY <1>0 DEF ClaimsTypeOK
<1>2. backend' = backend /\ number' \in 1 .. MaxNumber + 1
  <2>1. number \in 1 .. MaxNumber + 1 BY <1>0 DEF DatabaseInv
  <2>2. ASSUME NEW c \in Calls, Insert(c) \/ InsertFails(c)
        PROVE backend' = backend /\ number' \in 1 .. MaxNumber + 1
    BY <2>2, FileTypes DEF Insert, InsertFails
  <2>3. ASSUME ~(\E c \in Calls : Insert(c) \/ InsertFails(c))
        PROVE  backend' = backend /\ number' = number
    BY <2>3 DEF Next, CallStep, ThreadStep, Start, Lookup, Replay, TakeLock, Send, Written, Put,
       StartThread, Acquire, ReadClaims, ReadFails, WriteTmp, FlushTmp, Replace, Release,
       LockTimesOut, LookupFails, PutFails, Cancel, Crash, Lapse, database, vars
  <2>4. QED BY <2>1, <2>2, <2>3
<1> SUFFICES ASSUME NEW d \in Calls
    PROVE  /\ thread'[d] \in {"acquire"} \cup Writing => backend = "file"
           /\ thread'[d] \in {"write", "flush", "replace"} => id'[d] # 0
  BY <1>0, <1>2 DEF DatabaseInv
<1>3. /\ thread[d] \in {"acquire"} \cup Writing => backend = "file"
      /\ thread[d] \in {"write", "flush", "replace"} => id[d] # 0
  BY <1>0 DEF DatabaseInv
<1> DEFINE Goal ==
      /\ thread'[d] \in {"acquire"} \cup Writing => backend = "file"
      /\ thread'[d] \in {"write", "flush", "replace"} => id'[d] # 0
<1>4. ASSUME NEW c \in Calls,
             \/ Start(c) \/ Replay(c) \/ TakeLock(c) \/ Send(c) \/ Written(c) \/ Put(c)
             \/ LookupFails(c) \/ PutFails(c) \/ Cancel(c)
      PROVE Goal
  <2>1. id' = id /\ (thread'[d] = thread[d] \/ thread'[d] \in {"none", "queued"})
    BY <1>1, <1>4 DEF Start, Replay, TakeLock, Send, Written, Put, LookupFails, PutFails, Cancel, memory
  <2>2. QED BY <1>3, <2>1 DEF Writing
<1>5. ASSUME NEW c \in Calls, Lookup(c) PROVE Goal
  <2>1. thread' = thread /\ thread[c] = "none" /\ id' = [id EXCEPT ![c] = keys[ArgsOf[c]]]
    BY <1>0, <1>5 DEF Lookup, ProgramInv
  <2>2. QED BY <1>1, <1>3, <2>1
<1>6. ASSUME NEW c \in Calls,
             \/ StartThread(c) \/ Acquire(c) \/ ReadFails(c) \/ WriteTmp(c) \/ FlushTmp(c)
             \/ Replace(c) \/ Release(c) \/ Insert(c) \/ LockTimesOut(c) \/ InsertFails(c)
      PROVE Goal
  <2>1. CASE c # d
    <3>1. thread'[d] = thread[d] /\ id'[d] = id[d]
      BY <1>1, <1>6, <2>1 DEF StartThread, Acquire, ReadFails, WriteTmp, FlushTmp, Replace, Release,
         Insert, LockTimesOut, InsertFails
    <3>2. QED BY <1>3, <3>1
  <2>2. CASE c = d
    <3>1. /\ thread'[d] \in {"acquire"} \cup Writing =>
               backend = "file" \/ thread[d] \in {"acquire"} \cup Writing
          /\ thread'[d] \in {"write", "flush", "replace"} =>
               thread[d] \in {"write", "flush"} /\ id'[d] = id[d]
      BY <1>1, <1>6, <2>2 DEF StartThread, Acquire, ReadFails, WriteTmp, FlushTmp, Replace, Release,
         Insert, LockTimesOut, InsertFails, Writing
    <3>2. QED BY <1>3, <3>1
  <2>3. QED BY <2>1, <2>2
<1>7. ASSUME NEW c \in Calls, ReadClaims(c) PROVE Goal
  <2>1. /\ thread[c] = "read" /\ thread' = [thread EXCEPT ![c] = "write"]
        /\ id' = [id EXCEPT ![c] = NextId(file)]
    BY <1>7 DEF ReadClaims
  <2>2. NextId(file) # 0 BY <1>0, NextIdFacts DEF ClaimsTypeOK
  <2>3. QED BY <1>1, <1>3, <2>1, <2>2 DEF Writing
<1>8. ASSUME NEW p \in Procs, Crash(p) PROVE Goal
  <2>1. id' = id /\ (thread'[d] = thread[d] \/ thread'[d] = "none") BY <1>8, CrashFacts
  <2>2. QED BY <1>3, <2>1 DEF Writing
<1>9. CASE UNCHANGED vars \/ \E a \in Args : Lapse(a)
  <2>1. thread' = thread /\ id' = id BY <1>9 DEF vars, Lapse, memory
  <2>2. QED BY <1>3, <2>1
<1>10. QED BY <1>4, <1>5, <1>6, <1>7, <1>8, <1>9 DEF Next, CallStep, ThreadStep

-----------------------------------------------------------------------------
\* The file.

\* The file changes by a claim under a new id: one that a thread has written to the
\* temporary file, or a row.
LEMMA FileSteps ==
  ASSUME CInv, [Next]_vars
  PROVE  \/ file' = file
         \/ \E c \in Calls : \E r \in Claim :
              /\ file' = Append(file, r) /\ r.id \notin IdsIn(file)
              /\ r = [id |-> r.id, args |-> ArgsOf[c], by |-> c]
              /\ \/ Replace(c) /\ r.id = id[c]
                 \/ backend = "postgres" /\ Insert(c) /\ id'[c] = r.id
                 \/ backend = "postgres" /\ InsertFails(c)
<1>0. ClaimsTypeOK /\ WritersExclude /\ DatabaseInv BY DEF CInv
<1>1. ASSUME NEW c \in Calls, Replace(c)
      PROVE  \E r \in Claim : /\ file' = Append(file, r) /\ r.id \notin IdsIn(file)
                              /\ r = [id |-> r.id, args |-> ArgsOf[c], by |-> c] /\ r.id = id[c]
  <2> DEFINE r == [id |-> id[c], args |-> ArgsOf[c], by |-> c]
  <2>1. thread[c] = "replace" /\ file' = tmp BY <1>1 DEF Replace
  <2>2. file' = Append(file, r) /\ id[c] \notin IdsIn(file) BY <1>0, <2>1 DEF WritersExclude
  <2>3. id[c] \in 1 .. MaxId
    <3>1. id[c] \in 0 .. MaxId /\ id[c] # 0 BY <1>0, <2>1 DEF ClaimsTypeOK, DatabaseInv
    <3>2. QED BY <3>1, Digits
  <2>4. r \in Claim BY <2>3, ClaimsAssumption DEF Claim
  <2>5. QED BY <2>2, <2>4
<1>2. ASSUME NEW c \in Calls, number <= MaxNumber PROVE Row(c) \in Claim
  <2>1. number \in 1 .. MaxNumber BY <1>0, <1>2, Digits DEF DatabaseInv
  <2>2. QED BY <2>1, NumberedFacts, ClaimsAssumption DEF Row, Claim
<1>3. ASSUME NEW c \in Calls, Insert(c), file' # file
      PROVE  \E r \in Claim : /\ file' = Append(file, r) /\ r.id \notin IdsIn(file)
                              /\ r = [id |-> r.id, args |-> ArgsOf[c], by |-> c]
                              /\ backend = "postgres" /\ id'[c] = r.id
  <2>1. /\ file' = Append(file, Row(c)) /\ Numbered(number) \notin IdsIn(file)
        /\ id' = [id EXCEPT ![c] = Numbered(number)] /\ backend = "postgres" /\ number <= MaxNumber
    BY <1>3 DEF Insert
  <2>2. Row(c) = [id |-> Row(c).id, args |-> ArgsOf[c], by |-> c] /\ Row(c).id = Numbered(number)
    BY DEF Row
  <2>3. id'[c] = Numbered(number) BY <1>0, <2>1 DEF ClaimsTypeOK
  <2>4. QED BY <1>2, <2>1, <2>2, <2>3
<1>4. ASSUME NEW c \in Calls, InsertFails(c), file' # file
      PROVE  \E r \in Claim : /\ file' = Append(file, r) /\ r.id \notin IdsIn(file)
                              /\ r = [id |-> r.id, args |-> ArgsOf[c], by |-> c]
                              /\ backend = "postgres"
  <2>1. /\ file' = Append(file, Row(c)) /\ Numbered(number) \notin IdsIn(file)
        /\ backend = "postgres" /\ number <= MaxNumber
    BY <1>4 DEF InsertFails
  <2>2. Row(c) = [id |-> Row(c).id, args |-> ArgsOf[c], by |-> c] /\ Row(c).id = Numbered(number)
    BY DEF Row
  <2>3. QED BY <1>2, <2>1, <2>2
<1>5. ASSUME ~(\E c \in Calls : Replace(c) \/ Insert(c) \/ InsertFails(c))
      PROVE  file' = file
  BY <1>5 DEF Next, CallStep, ThreadStep, Start, Lookup, Replay, TakeLock, Send, Written, Put,
     StartThread, Acquire, ReadClaims, ReadFails, WriteTmp, FlushTmp, Release,
     LockTimesOut, LookupFails, PutFails, Cancel, Crash, Lapse, vars
<1>6. QED BY <1>1, <1>3, <1>4, <1>5

\* Nothing is lost from the file.
LEMMA FileGrows ==
  ASSUME CInv, [Next]_vars
  PROVE  \A i \in DOMAIN file : i \in DOMAIN file' /\ file'[i] = file[i]
<1>1. file \in Seq(Claim) BY DEF CInv, ClaimsTypeOK
<1>2. file' = file \/ \E r \in Claim : file' = Append(file, r) BY FileSteps
<1>3. QED BY <1>1, <1>2, AppendFacts

\* Writers go on excluding each other.
LEMMA WritersStep ==
  ASSUME CInv, [Next]_vars
  PROVE  WritersExclude'
<1>0. ClaimsTypeOK /\ WritersExclude /\ DatabaseInv /\ ProgramInv BY DEF CInv
<1>1. /\ thread \in [Calls -> Threads] /\ id \in [Calls -> 0 .. MaxId] /\ file \in Seq(Claim)
      /\ seen \in [Calls -> Seq(Claim)] /\ Nobody \notin Calls
  BY <1>0, ClaimsAssumption DEF ClaimsTypeOK
<1>2. \A i, j \in DOMAIN file' : file'[i].id = file'[j].id => i = j
  <2>1. \A i, j \in DOMAIN file : file[i].id = file[j].id => i = j BY <1>0 DEF WritersExclude
  <2>2. CASE file' = file BY <2>1, <2>2
  <2>3. ASSUME NEW r \in Claim, file' = Append(file, r), r.id \notin IdsIn(file)
        PROVE  \A i, j \in DOMAIN file' : file'[i].id = file'[j].id => i = j
    <3>1. /\ \A i \in DOMAIN file : i \in DOMAIN file' /\ file'[i] = file[i]
          /\ \A i \in DOMAIN file' : i \in DOMAIN file \/ (i = Len(file) + 1 /\ file'[i] = r)
      BY <1>1, <2>3, AppendFacts
    <3>2. \A i \in DOMAIN file : file[i].id # r.id BY <2>3 DEF IdsIn
    <3>3. QED BY <2>1, <3>1, <3>2
  <2>4. QED BY <2>2, <2>3, FileSteps
<1> DEFINE Part(d) ==
      /\ thread'[d] \in Writing <=> fileLock' = d
      /\ thread'[d] \in {"write", "flush", "replace"} => seen'[d] = file' /\ id'[d] \notin IdsIn(file')
      /\ thread'[d] = "replace" => tmp' = Append(file', [id |-> id'[d], args |-> ArgsOf[d], by |-> d])
<1>3. SUFFICES ASSUME NEW d \in Calls PROVE Part(d)
  BY <1>2 DEF WritersExclude, IdsIn
<1>4. /\ thread[d] \in Writing <=> fileLock = d
      /\ thread[d] \in {"write", "flush", "replace"} => seen[d] = file /\ id[d] \notin IdsIn(file)
      /\ thread[d] = "replace" => tmp = Append(file, [id |-> id[d], args |-> ArgsOf[d], by |-> d])
  BY <1>0 DEF WritersExclude
<1>5. ASSUME NEW c \in Calls,
             \/ Start(c) \/ Replay(c) \/ TakeLock(c) \/ Send(c) \/ Written(c) \/ Put(c)
             \/ StartThread(c) \/ LockTimesOut(c) \/ LookupFails(c) \/ PutFails(c) \/ Cancel(c)
      PROVE Part(d)
  <2>1. /\ UNCHANGED <<file, tmp, fileLock, seen, id>>
        /\ thread'[d] = thread[d] \/ (thread[d] \notin Writing /\ thread'[d] \notin Writing)
    <3>1. CASE TakeLock(c) \/ Send(c)
      <4>1. thread[c] = "none" /\ thread' = [thread EXCEPT ![c] = "queued"]
            /\ UNCHANGED <<file, tmp, fileLock, seen, id>>
        BY <1>0, <3>1 DEF TakeLock, Send, ProgramInv
      <4>2. QED BY <1>1, <4>1 DEF Writing
    <3>2. CASE ~(TakeLock(c) \/ Send(c))
      BY <1>1, <1>5, <3>2 DEF Start, Replay, Written, Put, StartThread, LockTimesOut,
         LookupFails, PutFails, Cancel, Writing, memory
    <3>3. QED BY <3>1, <3>2
  <2>2. QED BY <1>4, <2>1 DEF Writing
<1>6. ASSUME NEW c \in Calls, Lookup(c) PROVE Part(d)
  <2>1. /\ thread[c] = "none" /\ UNCHANGED <<file, tmp, fileLock, seen, thread>>
        /\ id' = [id EXCEPT ![c] = keys[ArgsOf[c]]]
    BY <1>0, <1>6 DEF Lookup, ProgramInv
  <2>2. thread[d] = "none" \/ id'[d] = id[d] BY <1>1, <2>1
  <2>3. QED BY <1>4, <2>1, <2>2
<1>7. ASSUME NEW c \in Calls, Acquire(c) PROVE Part(d)
  <2>1. /\ fileLock = Nobody /\ fileLock' = c /\ thread' = [thread EXCEPT ![c] = "read"]
        /\ UNCHANGED <<file, tmp, seen, id>>
    BY <1>7 DEF Acquire
  <2>2. QED BY <1>1, <1>4, <2>1 DEF Writing
<1>8. ASSUME NEW c \in Calls, ReadFails(c) \/ Release(c) PROVE Part(d)
  <2>1. /\ thread[c] \in Writing /\ fileLock' = Nobody /\ UNCHANGED <<file, tmp, seen, id>>
        /\ \E t \in {"failed", "done"} : thread' = [thread EXCEPT ![c] = t]
    BY <1>8 DEF ReadFails, Release, Writing
  <2>2. fileLock = c BY <1>0, <2>1 DEF WritersExclude
  <2>3. QED BY <1>1, <1>4, <2>1, <2>2 DEF Writing
<1>9. ASSUME NEW c \in Calls, ReadClaims(c) PROVE Part(d)
  <2>1. /\ thread[c] = "read" /\ thread' = [thread EXCEPT ![c] = "write"]
        /\ seen' = [seen EXCEPT ![c] = file] /\ id' = [id EXCEPT ![c] = NextId(file)]
        /\ UNCHANGED <<file, tmp, fileLock>>
    BY <1>9 DEF ReadClaims
  <2>2. NextId(file) \notin IdsIn(file) BY <1>1, NextIdFacts
  <2>3. CASE c = d BY <1>1, <1>4, <2>1, <2>2, <2>3 DEF Writing
  <2>4. CASE c # d BY <1>1, <1>4, <2>1, <2>4
  <2>5. QED BY <2>3, <2>4
<1>10. ASSUME NEW c \in Calls, WriteTmp(c) \/ FlushTmp(c) PROVE Part(d)
  <2>1. /\ thread[c] \in {"write", "flush"} /\ UNCHANGED <<file, fileLock, seen, id>>
        /\ \/ thread' = [thread EXCEPT ![c] = "flush"]
           \/ /\ thread' = [thread EXCEPT ![c] = "replace"]
              /\ tmp' = Append(seen[c], [id |-> id[c], args |-> ArgsOf[c], by |-> c])
    BY <1>10 DEF WriteTmp, FlushTmp
  <2>2. fileLock = c /\ seen[c] = file BY <1>0, <2>1 DEF WritersExclude, Writing
  <2>3. CASE c = d BY <1>1, <1>4, <2>1, <2>2, <2>3 DEF Writing
  <2>4. CASE c # d
    <3>1. thread[d] \notin Writing /\ thread'[d] = thread[d] BY <1>1, <1>4, <2>1, <2>2, <2>4
    <3>2. QED BY <1>4, <2>1, <3>1 DEF Writing
  <2>5. QED BY <2>3, <2>4
<1>11. ASSUME NEW c \in Calls, Replace(c) PROVE Part(d)
  <2>1. /\ thread[c] = "replace" /\ thread' = [thread EXCEPT ![c] = "unlock"]
        /\ UNCHANGED <<fileLock, seen, id>>
    BY <1>11 DEF Replace
  <2>2. fileLock = c BY <1>0, <2>1 DEF WritersExclude, Writing
  <2>3. CASE c = d BY <1>1, <1>4, <2>1, <2>3 DEF Writing
  <2>4. CASE c # d
    <3>1. thread[d] \notin Writing /\ thread'[d] = thread[d] BY <1>1, <1>4, <2>1, <2>2, <2>4
    <3>2. QED BY <1>4, <2>1, <3>1 DEF Writing
  <2>5. QED BY <2>3, <2>4
<1>12. ASSUME NEW c \in Calls, Insert(c) \/ InsertFails(c) PROVE Part(d)
  <2>1. /\ backend = "postgres" /\ thread[c] = "queued" /\ UNCHANGED <<tmp, fileLock, seen>>
        /\ \E t \in {"done", "failed"} : thread' = [thread EXCEPT ![c] = t]
    BY <1>12 DEF Insert, InsertFails
  <2>2. thread[d] \notin Writing BY <1>0, <2>1 DEF DatabaseInv
  <2>3. thread'[d] \notin Writing BY <1>1, <2>1, <2>2 DEF Writing
  <2>4. QED BY <1>4, <2>1, <2>2, <2>3 DEF Writing
<1>13. ASSUME NEW p \in Procs, Crash(p) PROVE Part(d)
  <2>1. /\ UNCHANGED <<file, tmp, seen, id>>
        /\ thread'[d] = thread[d] \/ thread'[d] = "none"
        /\ thread'[d] \in Writing => fileLock' = fileLock
        /\ fileLock' = d => thread'[d] = thread[d] /\ fileLock = d
    BY <1>13, CrashFacts
  <2>2. thread'[d] \in Writing <=> fileLock' = d BY <1>4, <2>1 DEF Writing
  <2>3. QED BY <1>4, <2>1, <2>2
<1>14. CASE UNCHANGED vars \/ \E a \in Args : Lapse(a)
  <2>1. UNCHANGED <<thread, id, seen, file, tmp, fileLock>> BY <1>14 DEF vars, Lapse, memory
  <2>2. QED BY <1>4, <2>1
<1>15. QED BY <1>5, <1>6, <1>7, <1>8, <1>9, <1>10, <1>11, <1>12, <1>13, <1>14
           DEF Next, CallStep, ThreadStep

-----------------------------------------------------------------------------
\* What has been written, and what is told of it.

\* Claims stay on file.
LEMMA ClaimsStay ==
  ASSUME CInv, [Next]_vars
  PROVE  /\ \A r \in Claim : OnFile(r) => OnFile(r)'
         /\ \A n \in 0 .. MaxId : \A a \in Args : HasClaim(n, a) => HasClaim(n, a)'
BY FileGrows DEF OnFile, HasClaim

\* A call that is through has its claim on file.
LEMMA OnFileHas ==
  ASSUME NEW c \in Calls, OnFile(Filed(c))
  PROVE  HasClaim(id[c], ArgsOf[c])
BY DEF OnFile, HasClaim, Filed

\* What a key stands for stays on file, and a key is stored for what is.
LEMMA KeysStep ==
  ASSUME CInv, [Next]_vars, NEW a \in Args, keys'[a] # 0
  PROVE  \E i \in DOMAIN file' : file'[i].id = keys'[a] /\ file'[i].args = a
<1> DEFINE Kept == \E i \in DOMAIN file' : file'[i].id = keys'[a] /\ file'[i].args = a
<1>0. ClaimsTypeOK /\ FiledInv /\ ProgramInv BY DEF CInv
<1>1. keys \in [Args -> 0 .. MaxId] /\ id \in [Calls -> 0 .. MaxId]
  BY <1>0 DEF ClaimsTypeOK
<1>2. ASSUME keys'[a] = keys[a] PROVE Kept
  <2>1. HasClaim(keys[a], a) BY <1>0, <1>2 DEF FiledInv
  <2>2. QED BY <1>2, <2>1, FileGrows DEF HasClaim
<1>3. ASSUME NEW c \in Calls, pc[c] = "put", keys' = [keys EXCEPT ![ArgsOf[c]] = id[c]]
      PROVE  Kept
  <2>1. CASE a = ArgsOf[c]
    <3>1. thread[c] = "done" BY <1>0, <1>3 DEF ProgramInv
    <3>2. HasClaim(id[c], ArgsOf[c]) BY <1>0, <3>1, OnFileHas DEF FiledInv
    <3>3. keys'[a] = id[c] BY <1>1, <1>3, <2>1
    <3>4. QED BY <2>1, <3>2, <3>3, FileGrows DEF HasClaim
  <2>2. CASE a # ArgsOf[c] BY <1>1, <1>2, <1>3, <2>2
  <2>3. QED BY <2>1, <2>2
<1>4. ASSUME NEW c \in Calls, Put(c) \/ PutFails(c) \/ Cancel(c)
      PROVE  \/ keys' = keys
             \/ pc[c] = "put" /\ keys' = [keys EXCEPT ![ArgsOf[c]] = id[c]]
  BY <1>4 DEF Put, PutFails, Cancel
<1>5. ASSUME NEW b \in Args, Lapse(b) PROVE keys'[a] = keys[a] \/ keys'[a] = 0
  BY <1>1, <1>5 DEF Lapse
<1>6. ASSUME ~(\E c \in Calls : Put(c) \/ PutFails(c) \/ Cancel(c)), ~(\E b \in Args : Lapse(b))
      PROVE  keys' = keys
  BY <1>6 DEF Next, CallStep, ThreadStep, Start, Lookup, Replay, TakeLock, Send, Written,
     StartThread, Acquire, ReadClaims, ReadFails, WriteTmp, FlushTmp, Replace, Release, Insert,
     LockTimesOut, InsertFails, LookupFails, Crash, vars
<1>7. QED BY <1>2, <1>3, <1>4, <1>5, <1>6

\* What a step does to one call's id, thread, reply and place, as far as claims on
\* file go.
LEMMA CallSteps ==
  ASSUME CInv, [Next]_vars, NEW d \in Calls
  PROVE  /\ \/ id'[d] = id[d]
            \/ Lookup(d) \/ ReadClaims(d) \/ Insert(d)
         /\ thread'[d] \in {"unlock", "done"} =>
              thread[d] \in {"unlock", "done"} \/ Replace(d) \/ (Insert(d) /\ file' # file)
         /\ reply'[d] = "filed" => reply[d] = "filed" \/ Put(d)
         /\ pc'[d] = "replay" => pc[d] = "replay" \/ Lookup(d)
         /\ reply'[d] = "replayed" => reply[d] = "replayed" \/ pc[d] = "replay"
<1>0. ClaimsTypeOK BY DEF CInv
<1>1. /\ pc \in [Calls -> Coroutine \cup {"new", "over"}] /\ thread \in [Calls -> Threads]
      /\ reply \in [Calls -> {"none", "filed", "replayed", "error", "cut"}]
      /\ id \in [Calls -> 0 .. MaxId] /\ file \in Seq(Claim)
  BY <1>0 DEF ClaimsTypeOK
<1> DEFINE Goal ==
      /\ id'[d] = id[d] \/ Lookup(d) \/ ReadClaims(d) \/ Insert(d)
      /\ thread'[d] \in {"unlock", "done"} =>
           thread[d] \in {"unlock", "done"} \/ Replace(d) \/ (Insert(d) /\ file' # file)
      /\ reply'[d] = "filed" => reply[d] = "filed" \/ Put(d)
      /\ pc'[d] = "replay" => pc[d] = "replay" \/ Lookup(d)
      /\ reply'[d] = "replayed" => reply[d] = "replayed" \/ pc[d] = "replay"
<1>2. ASSUME NEW c \in Calls,
             \/ Start(c) \/ Lookup(c) \/ Replay(c) \/ TakeLock(c) \/ Send(c) \/ Written(c) \/ Put(c)
             \/ LookupFails(c) \/ PutFails(c)
      PROVE Goal
  <2>1. CASE c = d
    BY <1>1, <1>2, <2>1 DEF Start, Lookup, Replay, TakeLock, Send, Written, Put, LookupFails, PutFails,
       Finish, memory
  <2>2. CASE c # d
    <3>1. pc'[d] = pc[d] /\ reply'[d] = reply[d] /\ id'[d] = id[d] /\ thread'[d] = thread[d]
      BY <1>1, <1>2, <2>2 DEF Start, Lookup, Replay, TakeLock, Send, Written, Put, LookupFails,
         PutFails, Finish, memory
    <3>2. QED BY <3>1
  <2>3. QED BY <2>1, <2>2
<1>3. ASSUME NEW c \in Calls,
             \/ StartThread(c) \/ Acquire(c) \/ ReadClaims(c) \/ ReadFails(c) \/ WriteTmp(c)
             \/ FlushTmp(c) \/ Replace(c) \/ Release(c) \/ LockTimesOut(c) \/ InsertFails(c)
      PROVE Goal
  <2>1. UNCHANGED <<pc, reply>> /\ (c # d => id'[d] = id[d] /\ thread'[d] = thread[d])
    BY <1>1, <1>3 DEF StartThread, Acquire, ReadClaims, ReadFails, WriteTmp, FlushTmp, Replace,
       Release, LockTimesOut, InsertFails
  <2>2. c = d => /\ id'[d] = id[d] \/ ReadClaims(d)
                 /\ thread'[d] \in {"unlock", "done"} => thread[d] = "unlock" \/ Replace(d)
    BY <1>1, <1>3 DEF StartThread, Acquire, ReadClaims, ReadFails, WriteTmp, FlushTmp, Replace,
       Release, LockTimesOut, InsertFails
  <2>3. QED BY <2>1, <2>2
<1>4. ASSUME NEW c \in Calls, Insert(c) PROVE Goal
  <2>1. UNCHANGED <<pc, reply>> /\ (c # d => id'[d] = id[d] /\ thread'[d] = thread[d])
    BY <1>1, <1>4 DEF Insert
  <2>2. CASE thread' = [thread EXCEPT ![c] = "failed"] BY <1>1, <1>4, <2>1, <2>2
  <2>3. CASE file' = Append(file, Row(c)) /\ number <= MaxNumber
    <3>1. file' # file
      <4>1. Row(c) \in Claim
        <5>1. number \in 1 .. MaxNumber BY <2>3, Digits DEF CInv, DatabaseInv
        <5>2. QED BY <5>1, NumberedFacts, ClaimsAssumption DEF Row, Claim
      <4>2. Len(file) \in Nat /\ Len(Append(file, Row(c))) = Len(file) + 1
        BY <1>1, <4>1, AppendProperties, LenProperties
      <4>3. QED BY <2>3, <4>2
    <3>2. QED BY <1>4, <2>1, <3>1
  <2>4. QED BY <1>4, <2>2, <2>3 DEF Insert
<1>5. ASSUME NEW c \in Calls, Cancel(c) PROVE Goal
  <2>1. /\ id' = id /\ pc' = [pc EXCEPT ![c] = "over"] /\ reply' = [reply EXCEPT ![c] = "cut"]
        /\ thread' = [thread EXCEPT ![c] = IF thread[c] = "queued" THEN "none" ELSE thread[c]]
           \/ thread' = thread
    BY <1>1, <1>5 DEF Cancel, Finish
  <2>2. QED BY <1>1, <2>1
<1>6. ASSUME NEW p \in Procs, Crash(p) PROVE Goal
  BY <1>1, <1>6, CrashFacts DEF Coroutine
<1>7. ASSUME UNCHANGED vars \/ \E a \in Args : Lapse(a) PROVE Goal
  BY <1>7 DEF Lapse, vars, memory
<1>8. QED BY <1>2, <1>3, <1>4, <1>5, <1>6, <1>7 DEF Next, CallStep, ThreadStep

\* The id of a call whose claim is written, or found, is not changed any more.
LEMMA IdStays ==
  ASSUME CInv, [Next]_vars, NEW d \in Calls,
         \/ thread[d] \in {"unlock", "done"} \/ pc[d] = "replay"
         \/ reply[d] \in {"filed", "replayed"}
  PROVE  id'[d] = id[d]
<1>1. ProgramInv BY DEF CInv
<1>2. ~Lookup(d) BY <1>1 DEF ProgramInv, Lookup
<1>3. ~ReadClaims(d) /\ ~Insert(d) BY <1>1 DEF ProgramInv, ReadClaims, Insert
<1>4. QED BY <1>2, <1>3, CallSteps

\* What is told goes on being true.
LEMMA FiledStep ==
  ASSUME CInv, [Next]_vars
  PROVE  FiledInv'
<1>0. ClaimsTypeOK /\ FiledInv /\ ProgramInv /\ WritersExclude /\ DatabaseInv BY DEF CInv
<1>1. id \in [Calls -> 0 .. MaxId] /\ file \in Seq(Claim) /\ thread \in [Calls -> Threads]
  BY <1>0 DEF ClaimsTypeOK
<1>2. ASSUME NEW d \in Calls, OnFile(Filed(d)), id'[d] = id[d]
      PROVE  OnFile(Filed(d))'
  BY <1>2, FileGrows DEF OnFile, Filed
<1>3. ASSUME NEW d \in Calls, Replace(d) PROVE OnFile(Filed(d))'
  <2>1. /\ thread[d] = "replace" /\ file' = tmp /\ id' = id BY <1>3 DEF Replace
  <2>2. file' = Append(file, [id |-> id[d], args |-> ArgsOf[d], by |-> d])
    BY <1>0, <2>1 DEF WritersExclude
  <2>3. [id |-> id[d], args |-> ArgsOf[d], by |-> d] \in Claim
    <3>1. id[d] \in 0 .. MaxId /\ id[d] # 0 BY <1>0, <1>1, <2>1 DEF DatabaseInv
    <3>2. id[d] \in 1 .. MaxId BY <3>1, Digits
    <3>3. QED BY <3>2, ClaimsAssumption DEF Claim
  <2>4. \E i \in DOMAIN file' : file'[i] = [id |-> id[d], args |-> ArgsOf[d], by |-> d]
    BY <1>1, <2>2, <2>3, AppendFacts
  <2>5. QED BY <2>1, <2>4 DEF OnFile, Filed
<1>4. ASSUME NEW d \in Calls, Insert(d), file' # file PROVE OnFile(Filed(d))'
  <2>1. /\ file' = Append(file, Row(d)) /\ number <= MaxNumber
        /\ id' = [id EXCEPT ![d] = Numbered(number)]
    BY <1>4 DEF Insert
  <2>2. Row(d) \in Claim
    <3>1. number \in 1 .. MaxNumber BY <1>0, <2>1, Digits DEF DatabaseInv
    <3>2. QED BY <3>1, NumberedFacts, ClaimsAssumption DEF Row, Claim
  <2>3. Row(d) = [id |-> id'[d], args |-> ArgsOf[d], by |-> d] BY <1>1, <2>1 DEF Row
  <2>4. \E i \in DOMAIN file' : file'[i] = Row(d) BY <1>1, <2>1, <2>2, AppendFacts
  <2>5. QED BY <2>3, <2>4 DEF OnFile, Filed
<1>5. ASSUME NEW d \in Calls, thread'[d] \in {"unlock", "done"} PROVE OnFile(Filed(d))'
  <2>1. CASE thread[d] \in {"unlock", "done"}
    <3>1. OnFile(Filed(d)) BY <1>0, <2>1 DEF FiledInv
    <3>2. id'[d] = id[d] BY <2>1, IdStays
    <3>3. QED BY <1>2, <3>1, <3>2
  <2>2. CASE Replace(d) BY <1>3, <2>2
  <2>3. CASE Insert(d) /\ file' # file BY <1>4, <2>3
  <2>4. QED BY <1>5, <2>1, <2>2, <2>3, CallSteps
<1>6. ASSUME NEW d \in Calls, reply'[d] = "filed" PROVE OnFile(Filed(d))'
  <2>1. CASE reply[d] = "filed"
    <3>1. OnFile(Filed(d)) BY <1>0, <2>1 DEF FiledInv
    <3>2. id'[d] = id[d] BY <2>1, IdStays
    <3>3. QED BY <1>2, <3>1, <3>2
  <2>2. CASE Put(d)
    <3>1. thread[d] = "done" BY <1>0, <2>2 DEF Put, ProgramInv
    <3>2. OnFile(Filed(d)) BY <1>0, <3>1 DEF FiledInv
    <3>3. id'[d] = id[d] BY <2>2 DEF Put, memory
    <3>4. QED BY <1>2, <3>2, <3>3
  <2>3. QED BY <1>6, <2>1, <2>2, CallSteps
<1>7. ASSUME NEW d \in Calls, pc'[d] = "replay" \/ reply'[d] = "replayed"
      PROVE  HasClaim(id[d], ArgsOf[d])'
  <2>1. CASE pc[d] = "replay" \/ reply[d] = "replayed"
    <3>1. HasClaim(id[d], ArgsOf[d]) BY <1>0, <2>1 DEF FiledInv
    <3>2. id'[d] = id[d] BY <2>1, IdStays
    <3>3. QED BY <3>1, <3>2, FileGrows DEF HasClaim
  <2>2. CASE Lookup(d) /\ pc'[d] = "replay"
    <3>1. keys[ArgsOf[d]] # 0 /\ id'[d] = keys[ArgsOf[d]] /\ file' = file
      BY <1>0, <1>1, <2>2 DEF Lookup, ClaimsTypeOK
    <3>2. ArgsOf[d] \in Args BY ClaimsAssumption
    <3>3. HasClaim(keys[ArgsOf[d]], ArgsOf[d]) BY <1>0, <3>1, <3>2 DEF FiledInv
    <3>4. QED BY <3>1, <3>3 DEF HasClaim
  <2>3. QED BY <1>7, <2>1, <2>2, CallSteps
<1>8. ASSUME NEW a \in Args, keys'[a] # 0
      PROVE  \E i \in DOMAIN file' : file'[i].id = keys'[a] /\ file'[i].args = a
  BY <1>8, KeysStep
<1>9. QED BY <1>5, <1>6, <1>7, <1>8 DEF FiledInv, HasClaim

-----------------------------------------------------------------------------
\* The theorems.

\* Every step keeps the invariant.
LEMMA StepCInv == CInv /\ [Next]_vars => CInv'
<1> SUFFICES ASSUME CInv, [Next]_vars PROVE CInv'
  OBVIOUS
<1>1. ClaimsTypeOK'
  BY AsideTypes, FileTypes, OtherTypes DEF Next, CallStep, ThreadStep, Aside
<1>2. DatabaseInv' BY DatabaseStep
<1>3. WritersExclude' BY WritersStep
<1>4. ProgramInv' BY ProgramStep
<1>5. FiledInv' BY FiledStep
<1>6. QED BY <1>1, <1>2, <1>3, <1>4, <1>5 DEF CInv

\* The invariant holds throughout.
LEMMA ClaimsInvariant == Spec => []CInv
<1>1. Init => CInv BY InitCInv
<1>2. QED BY <1>1, StepCInv, PTL DEF Spec

\* Type correctness; above all, whoever reads the claims file finds a whole one,
\* wherever a writer was cut off.
THEOREM ClaimsTypeCorrect == Spec => []ClaimsTypeOK
<1>1. CInv => ClaimsTypeOK BY DEF CInv
<1>2. QED BY <1>1, ClaimsInvariant, PTL

\* The file lock keeps writers of every process apart, so that no claim is
\* overwritten and no id assigned twice.
THEOREM WritersAreExclusive == Spec => []WritersExclude
<1>1. CInv => WritersExclude BY DEF CInv
<1>2. QED BY <1>1, ClaimsInvariant, PTL

\* A caller who is told of a claim, and a key that is stored for one, name a claim on
\* file with the caller's own arguments.
THEOREM ConfirmationsHold == Spec => []ConfirmationsAreGenuine
<1>1. ASSUME CInv PROVE ConfirmationsAreGenuine
  <2>1. FiledInv BY <1>1 DEF CInv
  <2>2. ASSUME NEW c \in Calls, reply[c] = "filed"
        PROVE  \E i \in DOMAIN file : file[i].id = id[c] /\ file[i].args = ArgsOf[c] /\ file[i].by = c
    BY <2>1, <2>2 DEF FiledInv, OnFile, Filed
  <2>3. ASSUME NEW c \in Calls, reply[c] = "replayed"
        PROVE  \E i \in DOMAIN file : file[i].id = id[c] /\ file[i].args = ArgsOf[c]
    BY <2>1, <2>3 DEF FiledInv, HasClaim
  <2>4. ASSUME NEW a \in Args, keys[a] # 0
        PROVE  \E i \in DOMAIN file : file[i].id = keys[a] /\ file[i].args = a
    BY <2>1, <2>4 DEF FiledInv, HasClaim
  <2>5. QED BY <2>2, <2>3, <2>4 DEF ConfirmationsAreGenuine
<1>2. QED BY <1>1, ClaimsInvariant, PTL

-----------------------------------------------------------------------------
\* The promise of the port.

\* The log under its refinement.
LLog == {[id |-> file[i].id, args |-> file[i].args] : i \in DOMAIN file}

Told(c) == reply[c] \in {"filed", "replayed"}

\* Only a put and a replay tell anyone of a claim.
LEMMA RepliesStay ==
  ASSUME CInv, [Next]_vars, ~(\E c \in Calls : Put(c) \/ Replay(c)), NEW d \in Calls
  PROVE  reply'[d] \in {"filed", "replayed"} <=> reply[d] \in {"filed", "replayed"}
<1>0. /\ ProgramInv
      /\ reply \in [Calls -> {"none", "filed", "replayed", "error", "cut"}]
  BY DEF CInv, ClaimsTypeOK
<1>1. ASSUME NEW c \in Calls, pc[c] \in Coroutine,
             reply' = [reply EXCEPT ![c] = "error"] \/ reply' = [reply EXCEPT ![c] = "cut"]
      PROVE  Told(d)' <=> Told(d)
  BY <1>0, <1>1 DEF ProgramInv, Told, Coroutine
<1>2. ASSUME NEW c \in Calls, LookupFails(c) \/ PutFails(c) \/ Cancel(c) \/ Written(c)
      PROVE  \/ reply' = reply
             \/ /\ pc[c] \in Coroutine
                /\ reply' = [reply EXCEPT ![c] = "error"] \/ reply' = [reply EXCEPT ![c] = "cut"]
  BY <1>2 DEF LookupFails, PutFails, Cancel, Written, Finish, Coroutine
<1>3. ASSUME NEW p \in Procs, Crash(p) PROVE Told(d)' <=> Told(d)
  BY <1>0, <1>3, CrashFacts DEF Told, ProgramInv, Coroutine
<1>4. ASSUME ~(\E c \in Calls : LookupFails(c) \/ PutFails(c) \/ Cancel(c) \/ Written(c)),
             ~(\E p \in Procs : Crash(p))
      PROVE  reply' = reply
  BY <1>4 DEF Next, CallStep, ThreadStep, Start, Lookup, TakeLock, Send, StartThread, Acquire,
     ReadClaims, ReadFails, WriteTmp, FlushTmp, Replace, Release, Insert, LockTimesOut, InsertFails,
     Lapse, vars
<1>5. QED BY <1>1, <1>2, <1>3, <1>4 DEF Told

\* Nobody is told anything else in such a step.
LEMMA ToldStays ==
  ASSUME CInv, [Next]_vars, ~(\E c \in Calls : Put(c) \/ Replay(c))
  PROVE  ToldOf' = ToldOf
<1>1. \A d \in Calls : Told(d)' <=> Told(d) BY RepliesStay DEF Told
<1>2. \A d \in Calls : Told(d) => id'[d] = id[d] BY IdStays DEF Told
<1>3. QED BY <1>1, <1>2 DEF ToldOf, Told

\* A put or a replay tells of a claim on file, or of none.
LEMMA TellSteps ==
  ASSUME CInv, NEW c \in Calls, Put(c) \/ Replay(c)
  PROVE  /\ LLog' = LLog
         /\ ToldOf' = ToldOf \/ \E claim \in LLog : ToldOf' = ToldOf \cup {claim}
<1> DEFINE claim == [id |-> id[c], args |-> ArgsOf[c]]
<1>0. /\ FiledInv /\ ProgramInv
      /\ reply \in [Calls -> {"none", "filed", "replayed", "error", "cut"}]
  BY DEF CInv, ClaimsTypeOK
<1>1. file' = file /\ id' = id BY DEF Put, Replay, memory
<1>2. HasClaim(id[c], ArgsOf[c])
  <2>1. CASE Put(c)
    <3>1. thread[c] = "done" BY <1>0, <2>1 DEF Put, ProgramInv
    <3>2. QED BY <1>0, <3>1, OnFileHas DEF FiledInv
  <2>2. CASE Replay(c) BY <1>0, <2>2 DEF Replay, FiledInv
  <2>3. QED BY <2>1, <2>2
<1>3. claim \in LLog BY <1>2 DEF HasClaim, LLog
<1>4. /\ reply[c] = "none"
      /\ \E r \in {"filed", "replayed", "error"} : reply' = [reply EXCEPT ![c] = r]
  BY <1>0 DEF Put, Replay, ProgramInv, Finish
<1>5. PICK r \in {"filed", "replayed", "error"} : reply' = [reply EXCEPT ![c] = r] BY <1>4
<1>6. \A d \in Calls : d # c => (Told(d)' <=> Told(d)) BY <1>0, <1>5 DEF Told
<1>7. ~Told(c) /\ (Told(c)' <=> r # "error") BY <1>0, <1>4, <1>5 DEF Told
<1>8. CASE r = "error"
  <2>1. ToldOf' = ToldOf BY <1>1, <1>6, <1>7, <1>8 DEF ToldOf, Told
  <2>2. QED BY <1>1, <2>1 DEF LLog
<1>9. CASE r # "error"
  <2>1. ToldOf' = ToldOf \cup {claim} BY <1>1, <1>6, <1>7, <1>9 DEF ToldOf, Told
  <2>2. QED BY <1>1, <1>3, <2>1 DEF LLog
<1>10. QED BY <1>8, <1>9

\* A claim is filed whole, under an id of its own.
LEMMA FileFiles ==
  ASSUME CInv, [Next]_vars, file' # file
  PROVE  Log!File
<1>0. file \in Seq(Claim) BY DEF CInv, ClaimsTypeOK
<1>1. PICK c \in Calls : \E r \in Claim :
        /\ file' = Append(file, r) /\ r.id \notin IdsIn(file)
        /\ Replace(c) \/ Insert(c) \/ InsertFails(c)
  BY FileSteps
<1>2. PICK r \in Claim : file' = Append(file, r) /\ r.id \notin IdsIn(file) BY <1>1
<1> DEFINE claim == [id |-> r.id, args |-> r.args]
<1>3. LLog' = LLog \cup {claim}
  <2>1. /\ \A i \in DOMAIN file : i \in DOMAIN file' /\ file'[i] = file[i]
        /\ \A i \in DOMAIN file' : i \in DOMAIN file \/ file'[i] = r
        /\ \E i \in DOMAIN file' : file'[i] = r
    BY <1>0, <1>2, AppendFacts
  <2>2. LLog' \subseteq LLog \cup {claim} BY <2>1 DEF LLog
  <2>3. LLog \subseteq LLog' BY <2>1 DEF LLog
  <2>4. claim \in LLog' BY <2>1 DEF LLog
  <2>5. QED BY <2>2, <2>3, <2>4
<1>4. claim \in [id : 1 .. MaxId, args : Args] BY DEF Claim
<1>5. \A other \in LLog : other.id # claim.id BY <1>2 DEF LLog, IdsIn
<1>6. claim \notin LLog BY <1>5
<1>7. ToldOf' = ToldOf
  <2>1. pc' = pc /\ reply' = reply BY <1>1 DEF Replace, Insert, InsertFails
  <2>2. \A d \in Calls : Told(d) => id'[d] = id[d] BY IdStays DEF Told
  <2>3. QED BY <2>1, <2>2 DEF ToldOf, Told
<1>8. claim \in LLog' \ LLog BY <1>3, <1>6
<1>9. \E new \in LLog' \ LLog :
        /\ LLog' = LLog \cup {new}
        /\ new \in [id : 1 .. MaxId, args : Args]
        /\ \A other \in LLog : other.id # new.id
  BY <1>3, <1>4, <1>5, <1>8
<1>10. QED BY <1>7, <1>9 DEF Log!File, LLog

\* Over either repository, a claim is filed whole, in one step and for good, under an
\* id no other claim has; and a confirmation tells of a claim on file: submit_claim
\* keeps the promise of the ClaimsRepository port.
THEOREM StoreImplementsLog == Spec => ClaimLogSpec
<1>1. Init => ToldOf = {} BY DEF Init, ToldOf
<1>2. CInv /\ [Next]_vars => [Log!File \/ Log!Tell]_<<LLog, ToldOf>>
  <2> SUFFICES ASSUME CInv, [Next]_vars PROVE [Log!File \/ Log!Tell]_<<LLog, ToldOf>>
    OBVIOUS
  <2>1. CASE file' # file BY <2>1, FileFiles
  <2>2. CASE file' = file /\ \E c \in Calls : Put(c) \/ Replay(c)
    <3>1. /\ LLog' = LLog
          /\ ToldOf' = ToldOf \/ \E claim \in LLog : ToldOf' = ToldOf \cup {claim}
      BY <2>2, TellSteps
    <3>2. QED BY <3>1 DEF Log!Tell, LLog
  <2>3. CASE file' = file /\ ~(\E c \in Calls : Put(c) \/ Replay(c))
    <3>1. LLog' = LLog BY <2>3 DEF LLog
    <3>2. ToldOf' = ToldOf BY <2>3, ToldStays
    <3>3. QED BY <3>1, <3>2
  <2>4. QED BY <2>1, <2>2, <2>3
<1>3. QED
  BY <1>1, <1>2, ClaimsInvariant, PTL DEF Spec, ClaimLogSpec, Log!Spec, LLog
===============================================================================
