-------------------------- MODULE ModelAccess_proofs --------------------------
(***************************************************************************)
(* Proofs about ModelAccess, for any threshold, timeouts, budget and costs: *)
(* an ailing primary is spared between probes, no retry begins late, and   *)
(* calls of equal cost stay within the budget of any minute.               *)
(***************************************************************************)
EXTENDS ModelAccess, OrderLemmas, SequenceTheorems, FiniteSetTheorems, TLAPS

Engaged == {"hold", "pace", "asking"}

\* The bounds are numbers.
LEMMA Bounds ==
  /\ Attempts \in Nat \ {0} /\ FailureThreshold \in Nat \ {0} /\ ResetAfter \in Nat \ {0}
  /\ Window \in Nat \ {0} /\ Deadline \in Nat /\ MinInterval \in Nat /\ LlmTimeout \in Nat
  /\ Delays \subseteq Nat
BY AccessAssumption

NumbersOK ==
  /\ pc \in {"idle", "attempt", "backoff"} \cup Engaged
  /\ attempt \in Nat
  /\ pc # "hold" => timer \in Nat
  /\ pc = "attempt" => timer = 0
  /\ elapsed \in 0 .. Deadline
  /\ sinceLast \in 0 .. MinInterval
  /\ failures \in Nat
  /\ openFor \in {Closed} \cup 0 .. ResetAfter
  /\ streak \in 0 .. FailureThreshold
  /\ quiet \in 0 .. ResetAfter

\* The breaker's count is the streak until the circuit opens; then its clock is
\* the time since the last failure; and a half-open one leaves a count one short
\* of the threshold once that clock has run out.
BreakerInv ==
  /\ streak < FailureThreshold => failures = streak /\ openFor = Closed
  /\ streak = FailureThreshold =>
       \/ openFor = Closed /\ failures = FailureThreshold - 1 /\ quiet = ResetAfter
       \/ failures = FailureThreshold /\ openFor = quiet
  /\ pc \in Engaged /\ provider = "primary" => openFor = Closed

\* A sleep between attempts ends before the deadline.
DeadlineInv ==
  /\ pc = "backoff" => elapsed + timer < Deadline
  /\ RetriesBeginInTime

AInv == NumbersOK /\ BreakerInv /\ DeadlineInv

\* The circuit is closed and nothing has failed yet.
LEMMA InitAInv == ASSUME Init PROVE AInv
BY Bounds
   DEF Init, AInv, NumbersOK, BreakerInv, DeadlineInv, RetriesBeginInTime, Engaged, Closed

\* Leaving a provider's loop, for the other one or for the caller.
LEMMA LeavingKeepsDeadline ==
  ASSUME AInv, NextProvider \/ Return \/ TryProvider("primary")
  PROVE  /\ DeadlineInv'
         /\ attempt' \in Nat /\ timer' \in Nat /\ elapsed' \in 0 .. Deadline
         /\ pc' \in {"idle", "attempt"} /\ timer' = 0
BY Bounds
   DEF AInv, NumbersOK, DeadlineInv, RetriesBeginInTime, NextProvider, Return, TryProvider

\* Failures and answers keep the breaker's count and the streak together.
LEMMA RecordingKeepsBreaker ==
  ASSUME AInv, pc = "asking", RecordSuccess \/ RecordFailure, pc' \notin Engaged
  PROVE  /\ BreakerInv'
         /\ failures' \in Nat /\ openFor' \in {Closed} \cup 0 .. ResetAfter
         /\ streak' \in 0 .. FailureThreshold /\ quiet' \in 0 .. ResetAfter
<1> USE Bounds
<1>1. CASE provider # "primary"
  BY <1>1 DEF AInv, NumbersOK, BreakerInv, RecordSuccess, RecordFailure, Engaged, breakerVars
<1>2. CASE provider = "primary" /\ RecordSuccess
  BY <1>2 DEF AInv, NumbersOK, BreakerInv, RecordSuccess, Engaged
<1>3. CASE provider = "primary" /\ RecordFailure
  <2>1. openFor = Closed BY <1>3 DEF AInv, BreakerInv, Engaged
  <2>2. /\ failures' = failures + 1 /\ quiet' = 0
        /\ streak' = Least(streak + 1, FailureThreshold)
        /\ openFor' = IF failures + 1 >= FailureThreshold THEN 0 ELSE Closed
    BY <1>3, <2>1 DEF RecordFailure
  <2>3. CASE streak < FailureThreshold
    BY <2>1, <2>2, <2>3 DEF AInv, NumbersOK, BreakerInv, Engaged, Least, Closed
  <2>4. CASE streak = FailureThreshold
    <3>1. failures = FailureThreshold - 1
      BY <2>1, <2>4 DEF AInv, NumbersOK, BreakerInv, Closed
    <3>2. QED
      BY <2>2, <2>4, <3>1 DEF AInv, NumbersOK, BreakerInv, Engaged, Least, Closed
  <2>5. QED BY <2>3, <2>4 DEF AInv, NumbersOK
<1>4. QED BY <1>1, <1>2, <1>3

\* Every step keeps the invariant.
LEMMA StepAInv == ASSUME AInv, [Next]_vars PROVE AInv'
<1> USE Bounds
<1>1. CASE Call
  <2>1. BreakerInv' BY <1>1 DEF Call, TryProvider, AInv, BreakerInv, breakerVars, history, Engaged
  <2>2. QED
    BY <1>1, <2>1, LeavingKeepsDeadline
       DEF Call, AInv, NumbersOK, breakerVars, limiterVars, history, Engaged
<1>2. CASE CircuitIsOpen
  <2>1. NextProvider /\ UNCHANGED <<breakerVars, limiterVars, history>>
    BY <1>2 DEF CircuitIsOpen
  <2>2. DeadlineInv' /\ attempt' \in Nat /\ timer' \in Nat /\ elapsed' \in 0 .. Deadline
        /\ pc' \in {"idle", "attempt"} /\ timer' = 0
    BY <2>1, LeavingKeepsDeadline
  <2>3. BreakerInv' BY <2>1, <2>2 DEF AInv, BreakerInv, breakerVars, history, Engaged
  <2>4. QED
    BY <2>1, <2>2, <2>3 DEF AInv, NumbersOK, breakerVars, limiterVars, history
<1>3. CASE Attempt
  <2>1. /\ pc = "attempt" /\ ~IsOpen /\ HalfOpen
        /\ UNCHANGED <<attempt, sinceLast, streak, quiet, provider, elapsed>>
        /\ \/ pc' = "hold"
           \/ pc' = "pace" /\ timer' = MinInterval - sinceLast
    BY <1>3 DEF Attempt, Begin, Await, history
  <2>2. BreakerInv' /\ failures' \in Nat /\ openFor' \in {Closed} \cup 0 .. ResetAfter
    <3>1. CASE provider = "primary" /\ openFor >= ResetAfter
      BY <2>1, <3>1 DEF HalfOpen, AInv, NumbersOK, BreakerInv, Engaged, Closed
    <3>2. CASE provider = "primary" /\ openFor = Closed
      BY <2>1, <3>2 DEF HalfOpen, AInv, NumbersOK, BreakerInv, breakerVars, Closed
    <3>3. CASE provider # "primary"
      BY <2>1, <3>3 DEF HalfOpen, AInv, NumbersOK, BreakerInv, breakerVars
    <3>4. QED BY <2>1, <3>1, <3>2, <3>3 DEF IsOpen, AInv, NumbersOK
  <2>3. QED
    BY <2>1, <2>2 DEF AInv, NumbersOK, DeadlineInv, RetriesBeginInTime, Engaged
<1>4. CASE Held
  <2>1. QED
    BY <1>4 DEF Held, Await, AInv, NumbersOK, BreakerInv, DeadlineInv, RetriesBeginInTime,
       breakerVars, history, Engaged
<1>5. CASE Send
  BY <1>5 DEF Send, Await, AInv, NumbersOK, BreakerInv, DeadlineInv, RetriesBeginInTime,
     breakerVars, history, Engaged
<1>6. CASE Answered \/ Rejected
  <2>1. pc = "asking" /\ RecordSuccess /\ Return /\ UNCHANGED sinceLast
    BY <1>6 DEF Answered, Rejected, limiterVars
  <2>2. pc' \notin Engaged BY <2>1 DEF Return, Engaged
  <2>3. QED
    BY <2>1, <2>2, LeavingKeepsDeadline, RecordingKeepsBreaker DEF AInv, NumbersOK
<1>7. CASE Failed
  <2>1. PICK delay \in Delays : Retry(delay) BY <1>7 DEF Failed
  <2>2. pc = "asking" /\ RecordFailure /\ UNCHANGED sinceLast
    BY <1>7 DEF Failed, limiterVars
  <2>3. CASE NextProvider
    <3>1. pc' \notin Engaged BY <2>3, LeavingKeepsDeadline DEF Engaged
    <3>2. QED
      BY <2>2, <2>3, <3>1, LeavingKeepsDeadline, RecordingKeepsBreaker DEF AInv, NumbersOK
  <2>4. CASE ~(attempt + 1 = Attempts \/ elapsed + delay >= Deadline)
    <3>1. /\ pc' = "backoff" /\ timer' = delay /\ attempt' = attempt + 1
          /\ elapsed' = elapsed /\ elapsed + delay < Deadline
      BY <2>1, <2>4 DEF Retry, Await, AInv, NumbersOK
    <3>2. DeadlineInv' BY <3>1 DEF DeadlineInv, RetriesBeginInTime
    <3>3. QED
      BY <2>2, <3>1, <3>2, RecordingKeepsBreaker DEF AInv, NumbersOK, Engaged
  <2>5. QED BY <2>1, <2>3, <2>4 DEF Retry
<1>8. CASE BackedOff
  BY <1>8 DEF BackedOff, AInv, NumbersOK, BreakerInv, DeadlineInv, RetriesBeginInTime,
     breakerVars, limiterVars, history, Engaged
<1>9. CASE Cancel
  <2>1. Return /\ UNCHANGED <<failures, openFor, streak, quiet, sinceLast>>
    BY <1>9 DEF Cancel, breakerVars, limiterVars, history
  <2>2. BreakerInv' BY <2>1 DEF Return, AInv, BreakerInv, Engaged
  <2>3. QED BY <2>1, <2>2, LeavingKeepsDeadline DEF AInv, NumbersOK
<1>10. CASE Tick
  <2>1. NumbersOK'
    BY <1>10 DEF Tick, AInv, NumbersOK, Least, Closed
  <2>2. BreakerInv'
    <3>1. /\ quiet' = Least(quiet + 1, ResetAfter)
          /\ openFor' = IF openFor = Closed THEN Closed ELSE Least(openFor + 1, ResetAfter)
          /\ UNCHANGED <<pc, provider, failures, streak>>
      BY <1>10 DEF Tick
    <3>2. openFor = quiet => Least(openFor + 1, ResetAfter) = Least(quiet + 1, ResetAfter)
      OBVIOUS
    <3>3. quiet = ResetAfter => quiet' = ResetAfter BY <3>1 DEF Least
    <3>4. openFor = quiet => openFor # Closed BY DEF AInv, NumbersOK, Closed
    <3>5. openFor = quiet => openFor' = quiet' BY <3>1, <3>2, <3>4
    <3>6. QED BY <3>1, <3>3, <3>5 DEF AInv, BreakerInv
  <2>3. DeadlineInv'
    <3>1. CASE pc = "backoff"
      BY <1>10, <3>1 DEF Tick, AInv, NumbersOK, DeadlineInv, RetriesBeginInTime, Least
    <3>2. CASE pc = "attempt"
      BY <1>10, <3>2 DEF Tick, AInv, NumbersOK
    <3>3. CASE pc \notin {"backoff", "attempt"}
      BY <1>10, <3>3 DEF Tick, DeadlineInv, RetriesBeginInTime
    <3>4. QED BY <3>1, <3>2, <3>3
  <2>4. QED BY <2>1, <2>2, <2>3 DEF AInv
<1>11. CASE UNCHANGED vars
  BY <1>11 DEF vars, callVars, breakerVars, limiterVars, history, AInv, NumbersOK,
     BreakerInv, DeadlineInv, RetriesBeginInTime
<1>12. QED
  BY <1>1, <1>2, <1>3, <1>4, <1>5, <1>6, <1>7, <1>8, <1>9, <1>10, <1>11 DEF Next, CallStep

\* The invariant holds throughout, whatever fails, is refused or is cancelled.
THEOREM AccessInvariance == Spec => []AInv
<1>1. Init => AInv BY InitAInv
<1>2. AInv /\ [Next]_vars => AInv' BY StepAInv
<1>3. QED BY <1>1, <1>2, PTL DEF Spec

\* call_with_retry never begins a retry at or after the deadline, for any
\* delays a provider asks for.
THEOREM NoLateRetry == Spec => []RetriesBeginInTime
<1>1. AInv => RetriesBeginInTime BY DEF AInv, DeadlineInv
<1>2. QED BY <1>1, AccessInvariance, PTL

\* Once its circuit has opened, the primary is asked once per reset time until
\* it answers, for any threshold and reset time and through cancelled calls.
THEOREM PrimaryIsSpared == Spec => ProbesAreSpaced
<1>1. AInv /\ [Next]_vars =>
        [pc = "pace" /\ pc' = "asking" /\ provider = "primary" /\ streak = FailureThreshold
           => quiet >= ResetAfter]_vars
  <2> SUFFICES ASSUME AInv, pc = "pace", provider = "primary", streak = FailureThreshold
               PROVE  quiet >= ResetAfter
    OBVIOUS
  <2>1. openFor = Closed BY DEF AInv, BreakerInv, Engaged
  <2>2. openFor # quiet BY <2>1 DEF AInv, NumbersOK, Closed
  <2>3. quiet = ResetAfter BY <2>1, <2>2 DEF AInv, BreakerInv
  <2>4. QED BY <2>3, Bounds
<1>2. QED BY <1>1, AccessInvariance, PTL DEF Spec, ProbesAreSpaced

-----------------------------------------------------------------------------
\* r holds those of the first n entries of s that are within the window, in their
\* order: its j-th entry is s's b[j]-th.
IsIndex(r, b, n, s) ==
  /\ r \in Seq(Entries) /\ b \in [1 .. Len(r) -> 1 .. n]
  /\ \A j \in 1 .. Len(r) : r[j] = s[b[j]] /\ s[b[j]].age < Window
  /\ \A i, j \in 1 .. Len(r) : i < j => b[i] < b[j]
  /\ \A i \in 1 .. n : s[i].age < Window => \E j \in 1 .. Len(r) : b[j] = i

\* One more entry of s.
LEMMA IndexGrows ==
  ASSUME NEW s \in Seq(Entries), NEW n \in Nat, n < Len(s), NEW r, NEW b, IsIndex(r, b, n, s)
  PROVE  \E c : IsIndex(IF s[n + 1].age < Window THEN Append(r, s[n + 1]) ELSE r, c, n + 1, s)
<1>1. s[n + 1] \in Entries /\ n + 1 \in 1 .. Len(s) BY LenProperties
<1>2. r \in Seq(Entries) /\ Len(r) \in Nat BY LenProperties DEF IsIndex
<1>3. CASE s[n + 1].age < Window
  <2> DEFINE R == Append(r, s[n + 1])
             c == [j \in 1 .. Len(r) + 1 |-> IF j = Len(r) + 1 THEN n + 1 ELSE b[j]]
  <2>1. /\ R \in Seq(Entries) /\ Len(R) = Len(r) + 1 /\ R[Len(r) + 1] = s[n + 1]
        /\ \A j \in 1 .. Len(r) : R[j] = r[j]
    BY <1>1, <1>2, AppendProperties
  <2> HIDE DEF R
  <2>2. /\ \A j \in 1 .. Len(r) : c[j] = b[j] /\ c[j] \in 1 .. n
        /\ c[Len(r) + 1] = n + 1
    <3>1. b \in [1 .. Len(r) -> 1 .. n] BY DEF IsIndex
    <3>2. \A j \in 1 .. Len(r) : b[j] \in 1 .. n BY <3>1
    <3>3. \A j \in 1 .. Len(r) : j \in 1 .. Len(r) + 1 /\ j # Len(r) + 1 BY <1>2
    <3>4. Len(r) + 1 \in 1 .. Len(r) + 1 BY <1>2
    <3>5. QED BY <3>2, <3>3, <3>4
  <2>a. \A j \in 1 .. Len(r) + 1 : j \in 1 .. Len(r) \/ j = Len(r) + 1 BY <1>2
  <2>3. c \in [1 .. Len(R) -> 1 .. n + 1]
    <3>1. \A j \in 1 .. Len(r) + 1 : c[j] \in 1 .. n + 1
      <4> HIDE DEF c
      <4>1. QED BY <1>1, <2>2, <2>a
    <3>2. DOMAIN c = 1 .. Len(r) + 1 OBVIOUS
    <3>3. c = [j \in 1 .. Len(r) + 1 |-> c[j]] OBVIOUS
    <3> HIDE DEF c
    <3>4. QED BY <2>1, <3>1, <3>3
  <2> HIDE DEF c
  <2>4. \A j \in 1 .. Len(R) : R[j] = s[c[j]] /\ s[c[j]].age < Window
    BY <1>2, <1>3, <2>1, <2>2 DEF IsIndex
  <2>5. ASSUME NEW i \in 1 .. Len(R), NEW j \in 1 .. Len(R), i < j PROVE c[i] < c[j]
    <3>1. i \in 1 .. Len(r) BY <1>2, <2>1, <2>5
    <3>2. CASE j \in 1 .. Len(r) BY <2>2, <2>5, <3>1, <3>2 DEF IsIndex
    <3>3. CASE j = Len(r) + 1
      <4>1. c[i] \in 1 .. n /\ c[j] = n + 1 BY <2>2, <3>1, <3>3
      <4>2. QED BY <4>1
    <3>4. QED BY <2>1, <2>a, <3>2, <3>3
  <2>6. \A i \in 1 .. n + 1 : s[i].age < Window => \E j \in 1 .. Len(R) : c[j] = i
    <3>1. \A i \in 1 .. n : s[i].age < Window => \E j \in 1 .. Len(r) : b[j] = i
      BY DEF IsIndex
    <3>2. Len(r) + 1 \in 1 .. Len(R) /\ \A j \in 1 .. Len(r) : j \in 1 .. Len(R)
      BY <1>2, <2>1
    <3>3. \A i \in 1 .. n + 1 : i = n + 1 \/ i \in 1 .. n OBVIOUS
    <3>4. QED BY <2>2, <3>1, <3>2, <3>3
  <2>7. IsIndex(R, c, n + 1, s) BY <2>1, <2>3, <2>4, <2>5, <2>6 DEF IsIndex
  <2>8. QED BY <1>3, <2>7 DEF R
<1>4. CASE ~(s[n + 1].age < Window)
  <2>1. b \in [1 .. Len(r) -> 1 .. n + 1] BY <1>2 DEF IsIndex
  <2>2. \A i \in 1 .. n + 1 : i = n + 1 \/ i \in 1 .. n OBVIOUS
  <2>3. IsIndex(r, b, n + 1, s) BY <1>4, <2>1, <2>2 DEF IsIndex
  <2>4. QED BY <1>4, <2>3
<1>5. QED BY <1>3, <1>4

\* The prefixes of what Recent keeps, as it computes them.
Keeps(g, s) ==
  g = [n \in 0 .. Len(s) |->
         IF n = 0 THEN <<>>
         ELSE IF s[n].age < Window THEN Append(g[n - 1], s[n])
         ELSE g[n - 1]]

\* There are such prefixes: by the first length at which there would be none.
LEMMA KeepsExists ==
  ASSUME NEW s \in Seq(Entries)
  PROVE  \E g : Keeps(g, s)
<1> DEFINE Step(g) == [n \in 0 .. Len(s) |->
                         IF n = 0 THEN <<>>
                         ELSE IF s[n].age < Window THEN Append(g[n - 1], s[n])
                         ELSE g[n - 1]]
           Upto(n) == \E g : /\ g = [i \in 0 .. Len(s) |-> g[i]]
                             /\ \A i \in 0 .. Len(s) : i <= n => g[i] = Step(g)[i]
           Fails == {n \in Nat : ~Upto(n)}
<1>0. Len(s) \in Nat BY LenProperties
<1>1. Upto(0)
  <2> DEFINE g == [i \in 0 .. Len(s) |-> <<>>]
  <2>1. g = [i \in 0 .. Len(s) |-> g[i]] OBVIOUS
  <2>2. \A i \in 0 .. Len(s) : i <= 0 => g[i] = Step(g)[i] OBVIOUS
  <2> HIDE DEF g, Step
  <2>3. QED BY <2>1, <2>2
<1>2. ASSUME NEW n \in Nat, Upto(n) PROVE Upto(n + 1)
  <2>1. PICK g : /\ g = [i \in 0 .. Len(s) |-> g[i]]
                 /\ \A i \in 0 .. Len(s) : i <= n => g[i] = Step(g)[i]
    BY <1>2
  <2> DEFINE h == Step(g)
  <2>2. h = [i \in 0 .. Len(s) |-> h[i]] OBVIOUS
  <2>3. ASSUME NEW i \in 0 .. Len(s), i <= n + 1 PROVE h[i] = Step(h)[i]
    <3>1. CASE i = 0 BY <3>1
    <3>2. CASE i # 0
      <4>1. i - 1 \in 0 .. Len(s) /\ i - 1 <= n BY <1>0, <2>3, <3>2
      <4>2. g[i - 1] = h[i - 1] BY <2>1, <4>1
      <4>3. h[i] = IF s[i].age < Window THEN Append(g[i - 1], s[i]) ELSE g[i - 1]
        BY <3>2
      <4>4. Step(h)[i] = IF s[i].age < Window THEN Append(h[i - 1], s[i]) ELSE h[i - 1]
        BY <3>2
      <4> HIDE DEF h, Step
      <4>5. QED BY <4>2, <4>3, <4>4
    <3>3. QED BY <3>1, <3>2
  <2> HIDE DEF h, Step
  <2>4. QED BY <2>2, <2>3
<1>3. Fails = {}
  <2> HIDE DEF Upto
  <2>1. SUFFICES ASSUME Fails # {} PROVE FALSE OBVIOUS
  <2>2. PICK n \in Fails : \A m \in Fails : n <= m
    <3>1. Fails \in SUBSET Nat OBVIOUS
    <3> HIDE DEF Fails
    <3>2. QED BY <2>1, <3>1, SmallestNat
  <2>3. n # 0 BY <1>1
  <2>4. n - 1 \in Nat /\ n - 1 \notin Fails /\ (n - 1) + 1 = n BY <2>2, <2>3
  <2>5. QED BY <1>2, <2>2, <2>4
<1>4. Upto(Len(s)) BY <1>0, <1>3
<1>5. PICK g : /\ g = [i \in 0 .. Len(s) |-> g[i]]
               /\ \A i \in 0 .. Len(s) : i <= Len(s) => g[i] = Step(g)[i]
  BY <1>4
<1>6. \A i \in 0 .. Len(s) : g[i] = Step(g)[i] BY <1>0, <1>5
<1>7. g = Step(g) BY <1>5, <1>6
<1>8. QED BY <1>7 DEF Keeps

\* _spent_last_minute: what it keeps, in which order, and that it drops no other.
LEMMA RecentIndex ==
  ASSUME NEW s \in Seq(Entries)
  PROVE  \E b : IsIndex(Recent(s), b, Len(s), s)
<1> DEFINE g == CHOOSE g : Keeps(g, s)
           Fails == {n \in 0 .. Len(s) : ~ \E b : IsIndex(g[n], b, n, s)}
<1>0. Len(s) \in Nat BY LenProperties
<1>1. Recent(s) = g[Len(s)] BY DEF Recent, Keeps
<1>2. Keeps(g, s) BY KeepsExists
<1> HIDE DEF g
<1>3. 0 \notin Fails
  <2>1. g[0] = <<>> BY <1>0, <1>2 DEF Keeps
  <2>2. IsIndex(<<>>, <<>>, 0, s)
    <3>1. <<>> \in [1 .. 0 -> 1 .. 0] OBVIOUS
    <3>2. QED BY <3>1 DEF IsIndex
  <2>3. QED BY <2>1, <2>2
<1>4. ASSUME NEW n \in 0 .. Len(s), n + 1 \in Fails PROVE n \in Fails
  <2>1. SUFFICES ASSUME NEW b, IsIndex(g[n], b, n, s) PROVE FALSE OBVIOUS
  <2>2. n \in Nat /\ n < Len(s) /\ n + 1 \in 0 .. Len(s) BY <1>0, <1>4
  <2>3. g[n + 1] = IF s[n + 1].age < Window THEN Append(g[n], s[n + 1]) ELSE g[n]
    <3>1. n + 1 # 0 /\ (n + 1) - 1 = n BY <2>2
    <3>2. g[n + 1] = IF s[n + 1].age < Window THEN Append(g[(n + 1) - 1], s[n + 1])
                     ELSE g[(n + 1) - 1]
      BY <1>2, <2>2, <3>1 DEF Keeps
    <3>3. QED BY <3>1, <3>2
  <2>4. \E c : IsIndex(g[n + 1], c, n + 1, s) BY <2>1, <2>2, <2>3, IndexGrows
  <2>5. QED BY <1>4, <2>4
<1>5. Fails = {}
  <2>1. SUFFICES ASSUME Fails # {} PROVE FALSE OBVIOUS
  <2>2. Fails \in SUBSET Nat BY <1>0
  <2>3. PICK n \in Fails : \A m \in Fails : n <= m
    <3> HIDE DEF Fails
    <3>1. QED BY <2>1, <2>2, SmallestNat
  <2>4. n # 0 BY <1>3
  <2>5. n - 1 \in 0 .. Len(s) /\ (n - 1) + 1 = n BY <1>0, <2>3, <2>4
  <2>6. n - 1 \in Fails BY <1>4, <2>3, <2>5
  <2>7. n <= n - 1 BY <2>3, <2>6
  <2>8. QED BY <2>2, <2>3, <2>7
<1>6. Len(s) \in 0 .. Len(s) BY <1>0
<1>7. QED BY <1>1, <1>5, <1>6

-----------------------------------------------------------------------------
\* The budget, when every request that costs anything costs what is estimated.
EqualCosts == Costs \subseteq {0, FirstEstimate} /\ FirstEstimate <= TokensPerMinute

\* The entries of a ledger that are within the window, and the budget with n
\* requests more than those.
InWindow(s) == {i \in 1 .. Len(s) : s[i].age < Window}
Fits(s, n) == FirstEstimate * (Cardinality(InWindow(s)) + n) <= TokensPerMinute

LedgerOK(s) == s \in Seq(Entries) /\ \A i \in 1 .. Len(s) : s[i].tokens = FirstEstimate

ChargedOK(s) ==
  /\ s \in Seq(Entries)
  /\ \A i \in 1 .. Len(s) : s[i].tokens \in {0, FirstEstimate} /\ s[i].age < Window

\* The requests the limiter has to answer for: those that cost something, and
\* the one that is out, whose cost it does not know yet.
Counted(c, asking) ==
  {i \in 1 .. Len(c) : c[i].tokens # 0 \/ (asking /\ i = Len(c))}

\* m finds each of them in the ledger, as old as it is, and the one that is out
\* as the last.
Matched(m, c, l, asking) ==
  /\ m \in [Counted(c, asking) -> 1 .. Len(l)]
  /\ \A i, j \in Counted(c, asking) : m[i] = m[j] => i = j
  /\ \A i \in Counted(c, asking) : l[m[i]].age = c[i].age
  /\ asking => Len(c) > 0 /\ m[Len(c)] = Len(l)

\* What is in the window fits the budget, with one request more while acquire
\* paces one; while it waits, the ledger fits once its oldest entry has left.
BudgetInv ==
  /\ LedgerOK(ledger) /\ ChargedOK(charged) /\ estimate = FirstEstimate
  /\ \E m : Matched(m, charged, ledger, pc = "asking")
  /\ Fits(ledger, 0)
  /\ pc = "asking" => Len(charged) > 0 /\ charged[Len(charged)].age + timer <= LlmTimeout
  /\ pc = "pace" => Fits(ledger, 1)
  /\ pc = "hold" => /\ Len(ledger) > 0 /\ FirstEstimate * Len(ledger) <= TokensPerMinute
                    /\ timer = Window - ledger[1].age

\* The constants the budget is about.
LEMMA BudgetBounds ==
  /\ FirstEstimate \in Nat /\ TokensPerMinute \in Nat /\ Window \in Nat \ {0}
  /\ LlmTimeout \in Nat /\ LlmTimeout < Window
BY AccessAssumption

\* Less of the same fits as well.
LEMMA ProductGrows ==
  ASSUME NEW a \in Nat, NEW b \in Nat, NEW e \in Nat, a <= b
  PROVE  e * a <= e * b
<1>1. b - a \in Nat /\ b = a + (b - a) OBVIOUS
<1>2. e * b = e * a + e * (b - a) BY <1>1
<1>3. e * (b - a) \in Nat /\ e * a \in Nat BY <1>1
<1>4. QED BY <1>2, <1>3

\* The entries within the window are finitely many, no more than there are.
LEMMA WindowSize ==
  ASSUME NEW s \in Seq(Entries)
  PROVE  /\ IsFiniteSet(InWindow(s)) /\ Cardinality(InWindow(s)) \in Nat
         /\ Len(s) \in Nat /\ Cardinality(InWindow(s)) <= Len(s)
<1>1. Len(s) \in Nat BY LenProperties
<1>2. IsFiniteSet(1 .. Len(s)) /\ Cardinality(1 .. Len(s)) = Len(s)
  BY <1>1, IntervalSize
<1>3. InWindow(s) \in SUBSET (1 .. Len(s)) BY DEF InWindow
<1>4. IsFiniteSet(InWindow(s)) /\ Cardinality(InWindow(s)) <= Cardinality(1 .. Len(s))
  BY <1>2, <1>3, FS_Subset
<1>5. QED BY <1>1, <1>2, <1>4, FS_CardinalityType

\* The same entries, or fewer, within the window fit as well.
LEMMA FitsFewer ==
  ASSUME NEW s \in Seq(Entries), NEW r \in Seq(Entries), NEW n \in Nat,
         InWindow(r) \subseteq InWindow(s), Fits(s, n)
  PROVE  Fits(r, n)
<1> DEFINE a == Cardinality(InWindow(r))
           b == Cardinality(InWindow(s))
<1>1. a \in Nat /\ b \in Nat BY WindowSize
<1>2. a <= b BY WindowSize, FS_Subset
<1>3. FirstEstimate * (b + n) <= TokensPerMinute BY DEF Fits
<1> HIDE DEF a, b
<1>4. FirstEstimate * (a + n) <= FirstEstimate * (b + n)
  BY <1>1, <1>2, BudgetBounds, ProductGrows
<1>5. FirstEstimate * (a + n) \in Int /\ FirstEstimate * (b + n) \in Int
  BY <1>1, BudgetBounds
<1>6. FirstEstimate * (a + n) <= TokensPerMinute BY <1>3, <1>4, <1>5, BudgetBounds
<1>7. QED BY <1>6 DEF Fits, a

\* _spent_last_minute of a ledger: all it keeps is within the window, it is no
\* more than was, and every request that counts is still found.
LEMMA RecentKeeps ==
  ASSUME NEW l, LedgerOK(l)
  PROVE  /\ LedgerOK(Recent(l))
         /\ InWindow(Recent(l)) = 1 .. Len(Recent(l))
         /\ Cardinality(InWindow(Recent(l))) = Len(Recent(l))
         /\ Len(Recent(l)) <= Cardinality(InWindow(l))
         /\ \A c, m : ChargedOK(c) /\ Matched(m, c, l, FALSE)
                        => \E k : Matched(k, c, Recent(l), FALSE)
<1> DEFINE r == Recent(l)
<1>0. l \in Seq(Entries) BY DEF LedgerOK
<1>1. PICK b : IsIndex(Recent(l), b, Len(l), l) BY <1>0, RecentIndex
<1> HIDE DEF r
<1>2. IsIndex(r, b, Len(l), l) BY <1>1 DEF r
<1>3. r \in Seq(Entries) /\ Len(r) \in Nat /\ Len(l) \in Nat
  BY <1>0, <1>2, LenProperties DEF IsIndex
<1>4. \A j \in 1 .. Len(r) : b[j] \in 1 .. Len(l) /\ r[j] = l[b[j]] /\ l[b[j]].age < Window
  BY <1>2 DEF IsIndex
<1>5. LedgerOK(r) BY <1>3, <1>4 DEF LedgerOK
<1>6. InWindow(r) = 1 .. Len(r) BY <1>4 DEF InWindow
<1>7. Cardinality(1 .. Len(r)) = Len(r) /\ IsFiniteSet(1 .. Len(r))
  BY <1>3, IntervalSize
<1>8. Len(r) <= Cardinality(InWindow(l))
  <2>1. \A j \in 1 .. Len(r) : b[j] \in InWindow(l) BY <1>4 DEF InWindow
  <2>2. b \in [1 .. Len(r) -> InWindow(l)]
    <3>1. b \in [1 .. Len(r) -> 1 .. Len(l)] BY <1>2 DEF IsIndex
    <3>2. QED BY <2>1, <3>1
  <2>3. \A i, j \in 1 .. Len(r) : b[i] = b[j] => i = j
    <3>1. ASSUME NEW i \in 1 .. Len(r), NEW j \in 1 .. Len(r), b[i] = b[j] PROVE i = j
      <4>1. ~(b[i] < b[j]) /\ ~(b[j] < b[i]) BY <1>3, <1>4, <3>1
      <4>2. ~(i < j) /\ ~(j < i) BY <1>2, <4>1 DEF IsIndex
      <4>3. QED BY <1>3, <4>2
    <3>2. QED BY <3>1
  <2>4. b \in Injection(1 .. Len(r), InWindow(l)) BY <2>2, <2>3 DEF Injection, IsInjective
  <2>5. Cardinality(1 .. Len(r)) <= Cardinality(InWindow(l))
    BY <1>0, <2>4, WindowSize, FS_Injection
  <2>6. QED BY <1>7, <2>5
<1>9. ASSUME NEW c, NEW m, ChargedOK(c), Matched(m, c, l, FALSE)
      PROVE  \E k : Matched(k, c, r, FALSE)
  <2> DEFINE C == Counted(c, FALSE)
             k == [i \in C |-> CHOOSE j \in 1 .. Len(r) : b[j] = m[i]]
  <2>1. ASSUME NEW i \in C PROVE m[i] \in 1 .. Len(l) /\ l[m[i]].age = c[i].age /\ c[i].age < Window
    <3>1. i \in 1 .. Len(c) BY DEF Counted
    <3>2. QED BY <1>9, <3>1 DEF Matched, ChargedOK
  <2>2. \A i \in C : \E j \in 1 .. Len(r) : b[j] = m[i] BY <1>2, <2>1 DEF IsIndex
  <2> HIDE DEF C
  <2>3. \A i \in C : k[i] \in 1 .. Len(r) /\ b[k[i]] = m[i] BY <2>2
  <2>4. k \in [C -> 1 .. Len(r)] BY <2>3
  <2> HIDE DEF k
  <2>5. \A i, j \in C : k[i] = k[j] => i = j
    BY <1>9, <2>3 DEF Matched, C
  <2>6. \A i \in C : r[k[i]].age = c[i].age BY <1>4, <2>1, <2>3
  <2>7. Matched(k, c, r, FALSE) BY <2>4, <2>5, <2>6 DEF Matched, C
  <2>8. QED BY <2>7
<1>10. QED BY <1>5, <1>6, <1>7, <1>8, <1>9 DEF r

\* What a ledger of equal entries adds up to.
LEMMA TokensOfLedger ==
  ASSUME NEW l, LedgerOK(l)
  PROVE  Tokens(l) = FirstEstimate * Len(l)
<1>1. l \in Seq(Entries) /\ Len(l) \in Nat /\ DOMAIN l = 1 .. Len(l)
  BY LenProperties DEF LedgerOK
<1> DEFINE f == [i \in 1 .. Len(l) |-> l[i].tokens]
<1>2. f \in [1 .. Len(l) -> Nat] /\ \A i \in 1 .. Len(l) : f[i] = FirstEstimate
  BY BudgetBounds DEF LedgerOK
<1>3. Tokens(l) = SumFunction(f) BY <1>1 DEF Tokens
<1>4. IsFiniteSet(1 .. Len(l)) /\ Cardinality(1 .. Len(l)) = Len(l)
  BY <1>1, IntervalSize
<1> HIDE DEF f
<1>5. SumFunction(f) = FirstEstimate * Cardinality(1 .. Len(l))
  BY <1>2, <1>4, BudgetBounds, SumOfEquals
<1>6. QED BY <1>3, <1>4, <1>5

\* What was charged is at most the budget, when all that counts is in a ledger
\* whose window fits it.
LEMMA ChargedFits ==
  ASSUME NEW c, NEW l, NEW m, NEW asking \in BOOLEAN,
         ChargedOK(c), LedgerOK(l), Matched(m, c, l, asking), Fits(l, 0)
  PROVE  Tokens(c) <= TokensPerMinute
<1>1. /\ c \in Seq(Entries) /\ Len(c) \in Nat /\ DOMAIN c = 1 .. Len(c)
      /\ l \in Seq(Entries) /\ Len(l) \in Nat
  BY LenProperties DEF LedgerOK, ChargedOK
<1> DEFINE f == [i \in 1 .. Len(c) |-> c[i].tokens]
           A == {i \in 1 .. Len(c) : c[i].tokens # 0}
           g == [i \in A |-> m[i]]
<1>2. f \in [1 .. Len(c) -> Nat] /\ \A i \in 1 .. Len(c) : f[i] <= FirstEstimate
  BY BudgetBounds DEF ChargedOK
<1>3. Tokens(c) = SumFunction(f) BY <1>1 DEF Tokens
<1>4. \A i \in (1 .. Len(c)) \ A : f[i] = 0 OBVIOUS
<1>5. A \in SUBSET (1 .. Len(c)) /\ A \subseteq Counted(c, asking) BY DEF Counted
<1>6. \A i \in A : m[i] \in InWindow(l)
  <2>1. ASSUME NEW i \in A PROVE m[i] \in InWindow(l)
    <3>1. m[i] \in 1 .. Len(l) /\ l[m[i]].age = c[i].age BY <1>5 DEF Matched
    <3>2. c[i].age < Window BY DEF ChargedOK
    <3>3. QED BY <3>1, <3>2 DEF InWindow
  <2>2. QED BY <2>1
<1>7. \A i, j \in A : m[i] = m[j] => i = j BY <1>5 DEF Matched
<1>8. IsFiniteSet(1 .. Len(c)) BY <1>1, IntervalSize
<1>9. IsFiniteSet(A) /\ Cardinality(A) \in Nat
  <2> HIDE DEF A
  <2>1. QED BY <1>5, <1>8, FS_Subset, FS_CardinalityType
<1> HIDE DEF A, f
<1>10. g \in Injection(A, InWindow(l)) BY <1>6, <1>7 DEF Injection, IsInjective
<1>11. Cardinality(A) <= Cardinality(InWindow(l)) BY <1>1, <1>10, WindowSize, FS_Injection
<1> DEFINE a == Cardinality(A)
           b == Cardinality(InWindow(l))
<1>12. SumFunction(f) <= FirstEstimate * a
  BY <1>2, <1>4, <1>5, <1>8, BudgetBounds, SumBound
<1>13. a \in Nat /\ b \in Nat /\ a <= b BY <1>1, <1>9, <1>11, WindowSize
<1>14. FirstEstimate * (b + 0) <= TokensPerMinute BY DEF Fits
<1>15. SumFunction(f) \in Nat BY <1>2, <1>8, SumType
<1> HIDE DEF a, b
<1>16. FirstEstimate * a <= FirstEstimate * b BY <1>13, BudgetBounds, ProductGrows
<1>17. b + 0 = b /\ FirstEstimate * a \in Int /\ FirstEstimate * b \in Int
  BY <1>13, BudgetBounds
<1>18. QED BY <1>3, <1>12, <1>14, <1>15, <1>16, <1>17, BudgetBounds

\* A request that is over, or given up, is no longer looked for unless it cost.
LEMMA MatchForgets ==
  ASSUME NEW c \in Seq(Entries), NEW l \in Seq(Entries), NEW asking, NEW m,
         Matched(m, c, l, asking)
  PROVE  \E k : Matched(k, c, l, FALSE)
<1> DEFINE C == Counted(c, FALSE)
           k == [i \in C |-> m[i]]
<1>1. C \subseteq Counted(c, asking) BY DEF Counted
<1>2. Matched(k, c, l, FALSE) BY <1>1 DEF Matched
<1>3. QED BY <1>2

\* Acquire's first look at the budget.
LEMMA AttemptKeepsBudget ==
  ASSUME EqualCosts, BudgetInv, Attempt
  PROVE  BudgetInv'
<1>0. /\ LedgerOK(ledger) /\ ledger \in Seq(Entries) /\ ChargedOK(charged)
      /\ estimate = FirstEstimate /\ Fits(ledger, 0) /\ pc = "attempt"
      /\ FirstEstimate <= TokensPerMinute
  BY DEF BudgetInv, Attempt, EqualCosts, LedgerOK
<1>1. PICK m : Matched(m, charged, ledger, FALSE) BY <1>0 DEF BudgetInv
<1> DEFINE kept == IF TokensPerMinute > 0 THEN Recent(ledger) ELSE ledger
           over == TokensPerMinute > 0 /\ kept # <<>> /\ Tokens(kept) + estimate > TokensPerMinute
<1>2. /\ ledger' = kept /\ UNCHANGED <<charged, estimate>>
      /\ IF over THEN pc' = "hold" /\ timer' = Window - kept[1].age
         ELSE pc' = "pace"
  BY DEF Attempt, Begin, Await, history
<1>3. CASE TokensPerMinute > 0
  <2>1. kept = Recent(ledger) BY <1>3
  <2>2. /\ LedgerOK(kept) /\ Cardinality(InWindow(kept)) = Len(kept)
        /\ Len(kept) <= Cardinality(InWindow(ledger))
        /\ \E k : Matched(k, charged, kept, FALSE)
    BY <1>0, <1>1, <2>1, RecentKeeps
  <2>3. kept \in Seq(Entries) /\ Len(kept) \in Nat /\ Cardinality(InWindow(ledger)) \in Nat
        /\ (kept = <<>> <=> Len(kept) = 0)
    BY <1>0, <2>2, LenProperties, WindowSize, EmptySeq DEF LedgerOK
  <2>4. Tokens(kept) = FirstEstimate * Len(kept) BY <2>2, TokensOfLedger
  <2> DEFINE over1 == kept # <<>> /\ Tokens(kept) + FirstEstimate > TokensPerMinute
  <2>5. over <=> over1 BY <1>0, <1>3
  <2> HIDE DEF kept, over
  <2>6. FirstEstimate * Len(kept) <= TokensPerMinute
    <3>1. FirstEstimate * (Cardinality(InWindow(ledger)) + 0) <= TokensPerMinute
      BY <1>0 DEF Fits
    <3>2. FirstEstimate * Len(kept) <= FirstEstimate * Cardinality(InWindow(ledger))
      BY <2>2, <2>3, BudgetBounds, ProductGrows
    <3>3. Cardinality(InWindow(ledger)) + 0 = Cardinality(InWindow(ledger)) BY <2>3
    <3>4. FirstEstimate * Len(kept) \in Int
          /\ FirstEstimate * Cardinality(InWindow(ledger)) \in Int
      BY <2>3, BudgetBounds
    <3>5. QED BY <3>1, <3>2, <3>3, <3>4, BudgetBounds
  <2>7. Fits(kept, 0)
    <3>1. Len(kept) + 0 = Len(kept) BY <2>3
    <3>2. QED BY <2>2, <2>6, <3>1 DEF Fits
  <2>8. CASE over1
    <3>1. pc' = "hold" /\ timer' = Window - kept[1].age BY <1>2, <2>5, <2>8
    <3>2. Len(kept) > 0 BY <2>3, <2>8
    <3>3. QED BY <1>0, <1>2, <2>2, <2>6, <2>7, <3>1, <3>2 DEF BudgetInv
  <2>9. CASE ~over1
    <3>1. pc' = "pace" BY <1>2, <2>5, <2>9
    <3>2. FirstEstimate * (Len(kept) + 1) <= TokensPerMinute
      <4>1. FirstEstimate * (Len(kept) + 1) = FirstEstimate * Len(kept) + FirstEstimate
        BY <2>3, BudgetBounds
      <4>2. CASE kept = <<>>
        <5>1. FirstEstimate * Len(kept) = 0 BY <2>3, <4>2, BudgetBounds
        <5>2. QED BY <1>0, <4>1, <5>1, BudgetBounds
      <4>3. CASE kept # <<>>
        <5>1. ~(FirstEstimate * Len(kept) + FirstEstimate > TokensPerMinute)
          BY <2>4, <2>9, <4>3
        <5>2. FirstEstimate * Len(kept) \in Int BY <2>3, BudgetBounds
        <5>3. QED BY <4>1, <5>1, <5>2, BudgetBounds
      <4>4. QED BY <4>2, <4>3
    <3>3. Fits(kept, 1) BY <2>2, <3>2 DEF Fits
    <3>4. QED BY <1>0, <1>2, <2>2, <2>7, <3>1, <3>3 DEF BudgetInv
  <2>10. QED BY <2>8, <2>9
<1>4. CASE ~(TokensPerMinute > 0)
  <2>1. kept = ledger /\ ~over BY <1>4
  <2>2. FirstEstimate = 0 /\ TokensPerMinute = 0 BY <1>0, <1>4, BudgetBounds
  <2> HIDE DEF kept, over
  <2>3. Fits(ledger, 1) BY <1>0, <2>2, WindowSize DEF Fits
  <2>4. QED BY <1>0, <1>1, <1>2, <2>1, <2>3 DEF BudgetInv
<1>5. QED BY <1>3, <1>4

\* The wait for the budget is over: the oldest entry has left the window.
LEMMA HeldKeepsBudget ==
  ASSUME BudgetInv, Held
  PROVE  BudgetInv'
<1>0. /\ LedgerOK(ledger) /\ ledger \in Seq(Entries) /\ ChargedOK(charged)
      /\ estimate = FirstEstimate /\ pc = "hold" /\ timer = 0
      /\ Len(ledger) > 0 /\ FirstEstimate * Len(ledger) <= TokensPerMinute
      /\ timer = Window - ledger[1].age
  BY DEF BudgetInv, Held, LedgerOK
<1>1. PICK m : Matched(m, charged, ledger, FALSE) BY <1>0 DEF BudgetInv
<1>2. ledger' = Recent(ledger) /\ pc' = "pace" /\ UNCHANGED <<charged, estimate>>
  BY DEF Held, Await, history
<1> DEFINE r == Recent(ledger)
<1>3. /\ LedgerOK(r) /\ r \in Seq(Entries) /\ Cardinality(InWindow(r)) = Len(r)
      /\ Len(r) <= Cardinality(InWindow(ledger))
      /\ \E k : Matched(k, charged, r, FALSE)
  BY <1>0, <1>1, RecentKeeps DEF LedgerOK
<1> HIDE DEF r
<1>4. Len(r) \in Nat /\ Len(ledger) \in Nat BY <1>0, <1>3, LenProperties
<1>5. Cardinality(InWindow(ledger)) <= Len(ledger) - 1
  <2>1. 1 \in 1 .. Len(ledger) BY <1>0, <1>4
  <2>2. ledger[1] \in Entries BY <1>0, <2>1, ElementOfSeq
  <2>3. ledger[1].age = Window BY <1>0, <2>2, BudgetBounds DEF Entries
  <2>4. 1 \notin InWindow(ledger) BY <2>3, BudgetBounds DEF InWindow
  <2>5. InWindow(ledger) \in SUBSET ((1 .. Len(ledger)) \ {1})
    BY <2>4 DEF InWindow
  <2> DEFINE I == 1 .. Len(ledger)
  <2>6. IsFiniteSet(I) /\ Cardinality(I) = Len(ledger) BY <1>4, IntervalSize
  <2>7. IsFiniteSet(I \ {1}) /\ Cardinality(I \ {1}) = Len(ledger) - 1
    <3>1. 1 \in I BY <2>1
    <3> HIDE DEF I
    <3>2. QED BY <2>6, <3>1, FS_RemoveElement
  <2>8. QED BY <2>5, <2>7, FS_Subset
<1>6. Cardinality(InWindow(ledger)) \in Nat BY <1>0, WindowSize
<1>7. FirstEstimate * (Len(r) + 1) <= TokensPerMinute
  <2>1. Len(r) + 1 <= Len(ledger) BY <1>3, <1>4, <1>5, <1>6
  <2>2. FirstEstimate * (Len(r) + 1) <= FirstEstimate * Len(ledger)
    BY <1>4, <2>1, BudgetBounds, ProductGrows
  <2>3. FirstEstimate * (Len(r) + 1) \in Int /\ FirstEstimate * Len(ledger) \in Int
    BY <1>4, BudgetBounds
  <2>4. QED BY <1>0, <2>2, <2>3, BudgetBounds
<1>8. FirstEstimate * (Len(r) + 0) <= TokensPerMinute
  <2>1. FirstEstimate * (Len(r) + 0) <= FirstEstimate * (Len(r) + 1)
    BY <1>4, BudgetBounds, ProductGrows
  <2>2. FirstEstimate * (Len(r) + 0) \in Int /\ FirstEstimate * (Len(r) + 1) \in Int
    BY <1>4, BudgetBounds
  <2>3. QED BY <1>7, <2>1, <2>2, BudgetBounds
<1>9. Fits(r, 1) /\ Fits(r, 0) BY <1>3, <1>7, <1>8 DEF Fits
<1>10. ledger' = r BY <1>2 DEF r
<1>11. QED BY <1>0, <1>2, <1>3, <1>9, <1>10 DEF BudgetInv

\* The request goes out on the room that was left for it.
LEMMA SendKeepsBudget ==
  ASSUME EqualCosts, BudgetInv, Send
  PROVE  BudgetInv'
<1>0. /\ LedgerOK(ledger) /\ ledger \in Seq(Entries)
      /\ ChargedOK(charged) /\ charged \in Seq(Entries)
      /\ estimate = FirstEstimate /\ pc = "pace" /\ Fits(ledger, 1)
      /\ Len(ledger) \in Nat /\ Len(charged) \in Nat
  BY LenProperties DEF BudgetInv, Send, LedgerOK, ChargedOK
<1>1. PICK m : Matched(m, charged, ledger, FALSE) BY <1>0 DEF BudgetInv
<1> DEFINE e == [age |-> 0, tokens |-> FirstEstimate]
           nl == Len(ledger) + 1
           nc == Len(charged) + 1
<1>2. PICK cost \in Costs : charged' = Append(charged, [age |-> 0, tokens |-> cost])
  BY DEF Send
<1> DEFINE d == [age |-> 0, tokens |-> cost]
<1>3. /\ ledger' = Append(ledger, e) /\ pc' = "asking" /\ timer' = LlmTimeout
      /\ estimate' = estimate
  BY <1>0 DEF Send, Await
<1>4. e \in Entries /\ e.tokens = FirstEstimate /\ e.age = 0
  BY BudgetBounds DEF Entries
<1>5. d \in Entries /\ d.tokens \in {0, FirstEstimate} /\ d.age = 0
  BY BudgetBounds DEF Entries, EqualCosts
<1> HIDE DEF e, d
<1>6. /\ ledger' \in Seq(Entries) /\ Len(ledger') = nl /\ ledger'[nl] = e
      /\ \A i \in 1 .. Len(ledger) : ledger'[i] = ledger[i]
  BY <1>0, <1>3, <1>4, AppendProperties
<1>7. /\ charged' \in Seq(Entries) /\ Len(charged') = nc /\ charged'[nc] = d
      /\ \A i \in 1 .. Len(charged) : charged'[i] = charged[i]
  BY <1>0, <1>2, <1>5, AppendProperties DEF d
<1>8. /\ \A i \in 1 .. nl : i \in 1 .. Len(ledger) \/ i = nl
      /\ \A i \in 1 .. nc : i \in 1 .. Len(charged) \/ i = nc
      /\ nl \in 1 .. nl /\ nc \in 1 .. nc /\ nl \notin 1 .. Len(ledger)
      /\ nc \notin 1 .. Len(charged)
      /\ \A i \in 1 .. Len(ledger) : i \in 1 .. nl
      /\ nc > 0 /\ nl > 0
  BY <1>0
<1> HIDE DEF nl, nc
<1>9. LedgerOK(ledger') BY <1>0, <1>4, <1>6, <1>8 DEF LedgerOK
<1>10. ChargedOK(charged') BY <1>0, <1>5, <1>7, <1>8, BudgetBounds DEF ChargedOK
<1>11. \E k : Matched(k, charged', ledger', TRUE)
  <2> DEFINE C == Counted(charged', TRUE)
             B == Counted(charged, FALSE)
             k == [i \in C |-> IF i = nc THEN nl ELSE m[i]]
  <2>1. C = B \cup {nc} BY <1>7, <1>8 DEF Counted
  <2>2. nc \notin B BY <1>8 DEF Counted
  <2>3. \A i \in B : m[i] \in 1 .. Len(ledger) /\ ledger[m[i]].age = charged[i].age
                     /\ i \in 1 .. Len(charged)
    BY <1>1 DEF Matched, Counted
  <2>4. \A i, j \in B : m[i] = m[j] => i = j BY <1>1 DEF Matched
  <2> HIDE DEF B, C
  <2>5. /\ nc \in C /\ k[nc] = nl /\ \A i \in B : k[i] = m[i]
        /\ \A i \in C : i = nc \/ i \in B
    BY <2>1, <2>2
  <2>6. \A i \in C : k[i] \in 1 .. nl BY <1>8, <2>3, <2>5
  <2>7. k \in [C -> 1 .. nl] BY <2>6
  <2> HIDE DEF k
  <2>8. \A i, j \in C : k[i] = k[j] => i = j BY <1>8, <2>3, <2>4, <2>5
  <2>9. \A i \in C : ledger'[k[i]].age = charged'[i].age
    BY <1>4, <1>5, <1>6, <1>7, <2>3, <2>5
  <2>10. Matched(k, charged', ledger', TRUE)
    BY <1>6, <1>7, <1>8, <2>5, <2>7, <2>8, <2>9 DEF Matched, C
  <2>11. QED BY <2>10
<1>12. Fits(ledger', 0)
  <2>1. InWindow(ledger') = InWindow(ledger) \cup {nl}
    BY <1>4, <1>6, <1>8, BudgetBounds DEF InWindow
  <2>2. nl \notin InWindow(ledger) BY <1>8 DEF InWindow
  <2> DEFINE n == Cardinality(InWindow(ledger))
  <2>3. IsFiniteSet(InWindow(ledger)) /\ n \in Nat BY <1>0, WindowSize
  <2>4. Cardinality(InWindow(ledger')) = n + 1 BY <2>1, <2>2, <2>3, FS_AddElement
  <2>5. FirstEstimate * (n + 1) <= TokensPerMinute BY <1>0 DEF Fits
  <2> HIDE DEF n
  <2>6. (n + 1) + 0 = n + 1 BY <2>3
  <2>7. QED BY <2>4, <2>5, <2>6 DEF Fits
<1>13. Len(charged') > 0 /\ charged'[Len(charged')].age + timer' <= LlmTimeout
  BY <1>3, <1>5, <1>7, <1>8, BudgetBounds
<1>14. QED BY <1>0, <1>3, <1>9, <1>10, <1>11, <1>12, <1>13 DEF BudgetInv

\* record: the reservation turns out right, or the request cost nothing and its
\* reservation, the last in the ledger, goes.
LEMMA AnsweredKeepsBudget ==
  ASSUME BudgetInv, Answered
  PROVE  BudgetInv'
<1>0. /\ LedgerOK(ledger) /\ ledger \in Seq(Entries)
      /\ ChargedOK(charged) /\ charged \in Seq(Entries)
      /\ estimate = FirstEstimate /\ pc = "asking" /\ Fits(ledger, 0)
      /\ Len(ledger) \in Nat /\ Len(charged) \in Nat
  BY LenProperties DEF BudgetInv, Answered, LedgerOK, ChargedOK
<1>1. PICK m : Matched(m, charged, ledger, TRUE) BY <1>0 DEF BudgetInv
<1>2. Len(charged) > 0 /\ m[Len(charged)] = Len(ledger) BY <1>1 DEF Matched
<1> DEFINE cost == charged[Len(charged)].tokens
<1>3. Record(cost) /\ pc' = "idle" /\ charged' = charged
  BY DEF Answered, Return, Last
<1>4. cost \in {0, FirstEstimate}
  <2>1. Len(charged) \in 1 .. Len(charged) BY <1>0, <1>2
  <2>2. QED BY <1>0, <2>1 DEF ChargedOK
<1>5. Len(charged) \in Counted(charged, TRUE) BY <1>0, <1>2 DEF Counted
<1>6. Len(ledger) \in 1 .. Len(ledger) BY <1>1, <1>2, <1>5 DEF Matched
<1>7. CASE cost = 0
  <2> DEFINE l == SubSeq(ledger, 1, Len(ledger) - 1)
             C == Counted(charged, FALSE)
             k == [i \in C |-> m[i]]
  <2>1. ledger' = l /\ estimate' = estimate BY <1>3, <1>7 DEF Record, Front
  <2>2. /\ l \in Seq(Entries) /\ Len(l) = Len(ledger) - 1
        /\ \A i \in 1 .. Len(ledger) - 1 : l[i] = ledger[i]
    <3> DEFINE n == Len(ledger) - 1
    <3>1. n \in Nat BY <1>0, <1>6
    <3>2. \A i \in 1 .. n : ledger[i] \in Entries
      BY <1>0, <1>6, ElementOfSeq
    <3> HIDE DEF n
    <3>3. /\ l \in Seq(Entries)
          /\ Len(l) = IF 1 <= n THEN n - 1 + 1 ELSE 0
          /\ \A i \in 1 .. n - 1 + 1 : l[i] = ledger[1 + i - 1]
      BY <1>0, <3>1, <3>2, SubSeqProperties DEF n
    <3> HIDE DEF l
    <3>4. Len(l) = n /\ n - 1 + 1 = n BY <3>1, <3>3
    <3>5. \A i \in 1 .. n : 1 + i - 1 = i BY <3>1
    <3>6. \A i \in 1 .. n : l[i] = ledger[i] BY <3>3, <3>4, <3>5
    <3>7. QED BY <3>3, <3>4, <3>6 DEF n
  <2> HIDE DEF l
  <2>3. Len(charged) \notin C BY <1>7 DEF Counted
  <2>4. C \subseteq Counted(charged, TRUE) BY DEF Counted
  <2>5. \A i \in C : m[i] \in 1 .. Len(ledger) /\ m[i] # Len(ledger)
                     /\ ledger[m[i]].age = charged[i].age
    BY <1>1, <1>2, <1>5, <2>3, <2>4 DEF Matched
  <2>6. \A i, j \in C : m[i] = m[j] => i = j BY <1>1, <2>4 DEF Matched
  <2> HIDE DEF C
  <2>7. \A i \in C : m[i] \in 1 .. Len(l) BY <1>0, <2>2, <2>5
  <2>8. \A i \in C : l[m[i]].age = charged[i].age BY <2>2, <2>5, <2>7
  <2>9. Matched(k, charged, l, FALSE) BY <2>6, <2>7, <2>8 DEF Matched, C
  <2>10. LedgerOK(l) BY <1>0, <2>2 DEF LedgerOK
  <2>11. InWindow(l) \subseteq InWindow(ledger) BY <1>0, <2>2 DEF InWindow
  <2>12. Fits(l, 0) BY <1>0, <2>2, <2>11, FitsFewer
  <2>13. QED BY <1>0, <1>3, <2>1, <2>9, <2>10, <2>12 DEF BudgetInv
<1>8. CASE cost # 0
  <2>1. cost = FirstEstimate BY <1>4, <1>8
  <2>2. /\ ledger' = [ledger EXCEPT ![Len(ledger)].tokens = FirstEstimate]
        /\ estimate' = (7 * FirstEstimate + 3 * FirstEstimate) \div 10
    BY <1>0, <1>3, <1>8, <2>1 DEF Record
  <2>3. estimate' = FirstEstimate BY <2>2, BudgetBounds
  <2>4. ledger' = ledger
    <3>1. ledger[Len(ledger)] \in Entries BY <1>0, <1>6, ElementOfSeq
    <3>2. ledger[Len(ledger)].tokens = FirstEstimate BY <1>0, <1>6 DEF LedgerOK
    <3>3. [ledger[Len(ledger)] EXCEPT !.tokens = FirstEstimate] = ledger[Len(ledger)]
      BY <3>1, <3>2 DEF Entries
    <3>4. ledger' = [ledger EXCEPT ![Len(ledger)] = ledger[Len(ledger)]] BY <2>2, <3>3
    <3>5. QED BY <1>0, <3>4, LenProperties
  <2>5. \E k : Matched(k, charged, ledger, FALSE) BY <1>0, <1>1, MatchForgets
  <2>6. QED BY <1>0, <1>3, <2>3, <2>4, <2>5 DEF BudgetInv
<1>9. QED BY <1>7, <1>8

\* A tick ages the ledger and what was charged alike, and a request that is out
\* is answered, refused or given up before it leaves the window.
LEMMA TickKeepsBudget ==
  ASSUME BudgetInv, AInv, Tick
  PROVE  BudgetInv'
<1>0. /\ LedgerOK(ledger) /\ ledger \in Seq(Entries)
      /\ ChargedOK(charged) /\ charged \in Seq(Entries)
      /\ estimate = FirstEstimate /\ Fits(ledger, 0)
      /\ Len(ledger) \in Nat /\ Len(charged) \in Nat
      /\ DOMAIN ledger = 1 .. Len(ledger) /\ DOMAIN charged = 1 .. Len(charged)
  BY LenProperties DEF BudgetInv, LedgerOK, ChargedOK
<1> DEFINE asking == pc = "asking"
           l == Aged(ledger)
           a == Aged(charged)
           r == Recent(a)
<1>1. PICK m : Matched(m, charged, ledger, asking) BY DEF BudgetInv
<1>2. /\ ledger' = l /\ charged' = r /\ pc' = pc /\ estimate' = estimate
      /\ pc = "idle" \/ timer > 0
      /\ timer' = IF timer > 0 THEN timer - 1 ELSE 0
  BY DEF Tick
<1>3. ASSUME NEW s \in Seq(Entries)
      PROVE  /\ Aged(s) \in Seq(Entries) /\ Len(Aged(s)) = Len(s)
             /\ \A i \in 1 .. Len(s) : /\ Aged(s)[i].tokens = s[i].tokens
                                       /\ Aged(s)[i].age = Least(s[i].age + 1, Window)
                                       /\ s[i].age \in 0 .. Window
  <2>1. Len(s) \in Nat /\ DOMAIN s = 1 .. Len(s) BY LenProperties
  <2>2. \A i \in 1 .. Len(s) : s[i] \in Entries BY ElementOfSeq
  <2>3. \A i \in 1 .. Len(s) : Least(s[i].age + 1, Window) \in 0 .. Window
    BY <2>2, BudgetBounds DEF Least, Entries
  <2> DEFINE e(i) == [s[i] EXCEPT !.age = Least(@ + 1, Window)]
  <2>4. \A i \in 1 .. Len(s) :
          e(i) \in Entries /\ e(i).tokens = s[i].tokens /\ e(i).age = Least(s[i].age + 1, Window)
    BY <2>2, <2>3 DEF Entries
  <2>5. Aged(s) = [i \in 1 .. Len(s) |-> e(i)] BY <2>1 DEF Aged
  <2> HIDE DEF e
  <2>6. Aged(s) \in Seq(Entries) /\ Len(Aged(s)) = Len(s)
    <3>1. Aged(s) \in [1 .. Len(s) -> Entries] BY <2>4, <2>5
    <3>2. Aged(s) \in Seq(Entries) BY <2>1, <3>1, IsASeq
    <3>3. DOMAIN Aged(s) = 1 .. Len(s) BY <2>5
    <3>4. QED BY <2>1, <3>2, <3>3, LenProperties
  <2>7. \A i \in 1 .. Len(s) : s[i].age \in 0 .. Window BY <2>2 DEF Entries
  <2>8. QED BY <2>4, <2>5, <2>6, <2>7
<1>4. /\ l \in Seq(Entries) /\ Len(l) = Len(ledger)
      /\ \A i \in 1 .. Len(ledger) : /\ l[i].tokens = ledger[i].tokens
                                     /\ l[i].age = Least(ledger[i].age + 1, Window)
                                     /\ ledger[i].age \in 0 .. Window
  BY <1>0, <1>3
<1>5. /\ a \in Seq(Entries) /\ Len(a) = Len(charged)
      /\ \A i \in 1 .. Len(charged) : /\ a[i].tokens = charged[i].tokens
                                      /\ a[i].age = Least(charged[i].age + 1, Window)
                                      /\ charged[i].age \in 0 .. Window
  BY <1>0, <1>3
<1>6. PICK b : IsIndex(r, b, Len(a), a) BY <1>5, RecentIndex
<1> HIDE DEF l, a, r
<1>7. /\ r \in Seq(Entries) /\ Len(r) \in Nat
      /\ \A j \in 1 .. Len(r) : /\ b[j] \in 1 .. Len(charged)
                                /\ r[j] = a[b[j]] /\ a[b[j]].age < Window
  <2>1. /\ r \in Seq(Entries) /\ b \in [1 .. Len(r) -> 1 .. Len(charged)]
        /\ \A j \in 1 .. Len(r) : r[j] = a[b[j]] /\ a[b[j]].age < Window
    BY <1>5, <1>6 DEF IsIndex
  <2>2. Len(r) \in Nat BY <2>1, LenProperties
  <2>3. \A j \in 1 .. Len(r) : b[j] \in 1 .. Len(charged) BY <2>1
  <2>4. QED BY <2>1, <2>2, <2>3
<1>8. LedgerOK(l) BY <1>0, <1>4 DEF LedgerOK
<1>9. ChargedOK(r)
  <2>1. \A i \in 1 .. Len(charged) : a[i].tokens \in {0, FirstEstimate}
    BY <1>0, <1>5 DEF ChargedOK
  <2>2. \A j \in 1 .. Len(r) : r[j].tokens \in {0, FirstEstimate} /\ r[j].age < Window
    BY <1>7, <2>1
  <2>3. QED BY <1>7, <2>2 DEF ChargedOK
<1>10. InWindow(l) \subseteq InWindow(ledger)
  BY <1>4, BudgetBounds DEF InWindow, Least
<1>11. Fits(l, 0) BY <1>0, <1>4, <1>10, FitsFewer
<1>12. ASSUME asking
       PROVE  /\ Len(charged) > 0 /\ Len(r) > 0 /\ b[Len(r)] = Len(charged)
              /\ r[Len(r)].age + timer' <= LlmTimeout
  <2>1. Len(charged) > 0 /\ charged[Len(charged)].age + timer <= LlmTimeout /\ timer > 0
    BY <1>2, <1>12 DEF BudgetInv
  <2>2. timer \in Nat BY <1>12 DEF AInv, NumbersOK
  <2>3. Len(charged) \in 1 .. Len(charged) BY <1>0, <2>1
  <2>4. a[Len(charged)].age = charged[Len(charged)].age + 1
        /\ a[Len(charged)].age < Window
    BY <1>5, <2>1, <2>2, <2>3, BudgetBounds DEF Least
  <2>5. PICK j \in 1 .. Len(r) : b[j] = Len(charged)
    BY <1>5, <1>6, <2>3, <2>4 DEF IsIndex
  <2>6. j = Len(r)
    <3>1. SUFFICES ASSUME j < Len(r) PROVE FALSE BY <1>7
    <3>2. Len(r) \in 1 .. Len(r) BY <1>7, <2>5
    <3>3. b[j] < b[Len(r)] BY <1>6, <2>5, <3>1, <3>2 DEF IsIndex
    <3>4. QED BY <1>0, <1>7, <2>5, <3>2, <3>3
  <2>7. r[Len(r)] = a[Len(charged)] BY <1>7, <2>5, <2>6
  <2>8. charged[Len(charged)].age \in Nat BY <1>5, <2>3, BudgetBounds
  <2>9. QED BY <1>2, <1>7, <2>1, <2>2, <2>4, <2>5, <2>6, <2>7, <2>8, BudgetBounds
<1>13. \E k : Matched(k, r, l, asking)
  <2> DEFINE C == Counted(r, asking)
             B == Counted(charged, asking)
             k == [j \in C |-> m[b[j]]]
  <2>1. ASSUME NEW j \in C PROVE j \in 1 .. Len(r) /\ b[j] \in B
    <3>1. j \in 1 .. Len(r) /\ (r[j].tokens # 0 \/ (asking /\ j = Len(r))) BY DEF Counted
    <3>2. b[j] \in 1 .. Len(charged) /\ r[j].tokens = charged[b[j]].tokens
      BY <1>5, <1>7, <3>1
    <3>3. asking /\ j = Len(r) => b[j] = Len(charged) BY <1>12
    <3>4. QED BY <3>1, <3>2, <3>3 DEF Counted
  <2>2. /\ \A i \in B : m[i] \in 1 .. Len(ledger) /\ ledger[m[i]].age = charged[i].age
                        /\ i \in 1 .. Len(charged)
        /\ \A i, j \in B : m[i] = m[j] => i = j
        /\ asking => m[Len(charged)] = Len(ledger)
    BY <1>1 DEF Matched, Counted
  <2>3. asking => Len(r) \in C
    BY <1>7, <1>12 DEF Counted
  <2> HIDE DEF B, C
  <2>4. \A i, j \in C : b[i] = b[j] => i = j
    <3>1. ASSUME NEW i \in C, NEW j \in C, b[i] = b[j] PROVE i = j
      <4>1. i \in 1 .. Len(r) /\ j \in 1 .. Len(r) BY <2>1
      <4>2. b[i] \in 1 .. Len(charged) /\ b[j] \in 1 .. Len(charged) BY <1>7, <4>1
      <4>3. ~(b[i] < b[j]) /\ ~(b[j] < b[i]) BY <1>0, <3>1, <4>2
      <4>4. ~(i < j) /\ ~(j < i) BY <1>6, <4>1, <4>3 DEF IsIndex
      <4>5. QED BY <1>7, <4>1, <4>4
    <3>2. QED BY <3>1
  <2>5. k \in [C -> 1 .. Len(l)] BY <1>4, <2>1, <2>2
  <2>6. \A i, j \in C : k[i] = k[j] => i = j BY <2>1, <2>2, <2>4
  <2>7. \A j \in C : l[k[j]].age = r[j].age
    <3>1. ASSUME NEW j \in C PROVE l[k[j]].age = r[j].age
      <4>1. b[j] \in B /\ j \in 1 .. Len(r) /\ k[j] = m[b[j]] BY <2>1
      <4>2. l[k[j]].age = Least(ledger[m[b[j]]].age + 1, Window) BY <1>4, <2>2, <4>1
      <4>3. r[j].age = Least(charged[b[j]].age + 1, Window) BY <1>5, <1>7, <2>2, <4>1
      <4>4. ledger[m[b[j]]].age = charged[b[j]].age BY <2>2, <4>1
      <4>5. QED BY <4>2, <4>3, <4>4
    <3>2. QED BY <3>1
  <2>8. asking => Len(r) > 0 /\ k[Len(r)] = Len(l)
    BY <1>4, <1>12, <2>2, <2>3
  <2> HIDE DEF k
  <2>9. Matched(k, r, l, asking) BY <2>5, <2>6, <2>7, <2>8 DEF Matched, C
  <2>10. QED BY <2>9
<1>14. pc = "pace" => Fits(l, 1)
  <2>1. pc = "pace" => Fits(ledger, 1) BY DEF BudgetInv
  <2>2. QED BY <1>0, <1>4, <1>10, <2>1, FitsFewer
<1>15. ASSUME pc = "hold"
       PROVE  /\ Len(l) > 0 /\ FirstEstimate * Len(l) <= TokensPerMinute
              /\ timer' = Window - l[1].age
  <2>1. /\ Len(ledger) > 0 /\ FirstEstimate * Len(ledger) <= TokensPerMinute
        /\ timer = Window - ledger[1].age /\ timer > 0
    BY <1>2, <1>15 DEF BudgetInv
  <2>2. 1 \in 1 .. Len(ledger) BY <1>0, <2>1
  <2>3. l[1].age = Least(ledger[1].age + 1, Window) /\ ledger[1].age \in 0 .. Window
    BY <1>4, <2>2
  <2>4. timer' = Window - l[1].age BY <1>2, <2>1, <2>3, BudgetBounds DEF Least
  <2>5. QED BY <1>4, <2>1, <2>4
<1>16. QED
  BY <1>0, <1>2, <1>8, <1>9, <1>11, <1>12, <1>13, <1>14, <1>15 DEF BudgetInv

\* A call that takes up or leaves a provider books nothing.
LEMMA IdlingKeepsBudget ==
  ASSUME BudgetInv, UNCHANGED <<ledger, charged, estimate>>,
         pc' \notin {"asking", "pace", "hold"}
  PROVE  BudgetInv'
<1>1. ledger \in Seq(Entries) /\ charged \in Seq(Entries)
  BY DEF BudgetInv, LedgerOK, ChargedOK
<1>2. PICK m : Matched(m, charged, ledger, pc = "asking") BY DEF BudgetInv
<1>3. \E k : Matched(k, charged, ledger, FALSE) BY <1>1, <1>2, MatchForgets
<1>4. (pc' = "asking") = FALSE OBVIOUS
<1>5. QED BY <1>3, <1>4 DEF BudgetInv

\* Every step keeps to the budget.
LEMMA StepBudget ==
  ASSUME EqualCosts, AInv, BudgetInv, [Next]_vars
  PROVE  BudgetInv'
<1>1. CASE Call \/ CircuitIsOpen \/ Rejected \/ BackedOff \/ Cancel
  <2>1. UNCHANGED <<ledger, charged, estimate>>
    BY <1>1 DEF Call, CircuitIsOpen, Rejected, BackedOff, Cancel, limiterVars, history
  <2>2. pc' \in {"idle", "attempt"}
    BY <1>1 DEF Call, CircuitIsOpen, Rejected, BackedOff, Cancel, TryProvider,
       NextProvider, Return
  <2>3. QED BY <2>1, <2>2, IdlingKeepsBudget
<1>2. CASE Failed
  <2>1. UNCHANGED <<ledger, charged, estimate>> BY <1>2 DEF Failed, limiterVars
  <2>2. pc' \in {"idle", "attempt", "backoff"}
    BY <1>2 DEF Failed, Retry, NextProvider, TryProvider, Return, Await
  <2>3. QED BY <2>1, <2>2, IdlingKeepsBudget
<1>3. CASE Attempt BY <1>3, AttemptKeepsBudget
<1>4. CASE Held BY <1>4, HeldKeepsBudget
<1>5. CASE Send BY <1>5, SendKeepsBudget
<1>6. CASE Answered BY <1>6, AnsweredKeepsBudget
<1>7. CASE Tick BY <1>7, TickKeepsBudget
<1>8. CASE UNCHANGED vars
  BY <1>8 DEF vars, callVars, limiterVars, history, BudgetInv
<1>9. QED
  BY <1>1, <1>2, <1>3, <1>4, <1>5, <1>6, <1>7, <1>8 DEF Next, CallStep

\* EgressLimiter's promise (resilient.py: "the window is a rolling 60 s ledger of
\* actual spend"): when the calls that cost anything all cost what the limiter
\* starts out to estimate, the provider never counts more than the budget within
\* a minute, for any budget, window, delays and timeouts and whatever failed or
\* was cut off - although acquire looks at the budget before it waits, and only
\* then.
THEOREM MinuteFitsBudget == Spec => []EqualCallsStayInBudget
<1>1. CASE EqualCosts
  <2>1. Init => BudgetInv
    <3> SUFFICES ASSUME Init PROVE BudgetInv OBVIOUS
    <3>1. /\ ledger = <<>> /\ charged = <<>> /\ estimate = FirstEstimate /\ pc = "idle"
      BY DEF Init
    <3>2. <<>> \in Seq(Entries) /\ Len(<<>>) = 0 OBVIOUS
    <3>3. LedgerOK(<<>>) /\ ChargedOK(<<>>) BY <3>2 DEF LedgerOK, ChargedOK
    <3>4. Matched(<<>>, <<>>, <<>>, FALSE) BY <3>2 DEF Matched, Counted
    <3>5. InWindow(<<>>) = {} BY <3>2 DEF InWindow
    <3>6. Cardinality(InWindow(<<>>)) = 0 BY <3>5, FS_EmptySet
    <3>7. Fits(<<>>, 0) BY <3>6, BudgetBounds DEF Fits
    <3>8. QED BY <3>1, <3>3, <3>4, <3>7 DEF BudgetInv
  <2>2. AInv /\ BudgetInv /\ [Next]_vars => BudgetInv' BY <1>1, StepBudget
  <2>3. BudgetInv => EqualCallsStayInBudget
    <3> SUFFICES ASSUME BudgetInv PROVE Tokens(charged) <= TokensPerMinute
      BY DEF EqualCallsStayInBudget
    <3>1. PICK m : Matched(m, charged, ledger, pc = "asking") BY DEF BudgetInv
    <3>2. (pc = "asking") \in BOOLEAN OBVIOUS
    <3>3. QED BY <3>1, <3>2, ChargedFits DEF BudgetInv
  <2>4. QED BY <2>1, <2>2, <2>3, AccessInvariance, PTL DEF Spec
<1>2. CASE ~EqualCosts
  <2>1. EqualCallsStayInBudget BY <1>2 DEF EqualCosts, EqualCallsStayInBudget
  <2>2. QED BY <2>1, PTL
<1>3. QED BY <1>1, <1>2
===============================================================================
