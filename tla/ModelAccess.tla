----------------------------- MODULE ModelAccess -----------------------------
(***************************************************************************)
(* The call path to the language model (backend/agent/app/providers/       *)
(* resilient.py over backend/libs/resilience/policy.py): the egress        *)
(* limiter, retries within a deadline, the circuit breaker and the         *)
(* fallback provider, as one worker's graph uses them, one call at a time. *)
(* Any await may be cut off by the run timeout of the worker.              *)
(***************************************************************************)
EXTENDS Integers, SequencesExt

CONSTANTS
  Attempts,          \* RetryPolicy.attempts
  Deadline,          \* RetryPolicy.deadline_s, in ticks
  Delays,            \* what backoff draws or a provider's Retry-After asks, in ticks
  FailureThreshold,  \* CircuitBreaker.failure_threshold
  ResetAfter,        \* CircuitBreaker.reset_after_s, in ticks
  Window,            \* the ledger's rolling minute, in ticks
  MinInterval,       \* 60 s / requests_per_minute, in ticks
  TokensPerMinute,   \* the token budget, 0 for none
  FirstEstimate,     \* the estimate the limiter starts with
  Costs,             \* what a request may cost; 0 is a model that meters nothing
  LlmTimeout,        \* AgentSettings.llm_timeout_s, in ticks; under a minute
  HasFallback        \* whether a fallback provider is configured

ASSUME AccessAssumption ==
  /\ {Attempts, FailureThreshold, ResetAfter, Window} \subseteq Nat \ {0}
  /\ {Deadline, MinInterval, TokensPerMinute, FirstEstimate, LlmTimeout} \subseteq Nat
  /\ Delays \subseteq Nat /\ Delays # {}
  /\ Costs \subseteq Nat /\ Costs # {}
  /\ HasFallback \in BOOLEAN
  /\ LlmTimeout < Window

Closed == -1     \* openFor, while the circuit is closed

VARIABLES
  pc,         \* where ainvoke is: idle, or in one of its awaits or at an attempt
  provider,   \* whose turn it is
  attempt,    \* attempts of this provider made so far
  elapsed,    \* ticks since this provider's first attempt, up to Deadline
  timer,      \* ticks left of the await
  failures,   \* the breaker's count
  openFor,    \* ticks since the circuit opened, up to ResetAfter; or Closed
  ledger,     \* the limiter's requests, oldest first: age and tokens
  estimate,   \* tokens reserved for the next request
  sinceLast,  \* ticks since the last request, up to MinInterval
  \* History: what happened to the primary, and what the provider counts.
  streak,     \* failures of the primary since it last answered, up to the threshold
  quiet,      \* ticks since the last of them, up to ResetAfter
  charged     \* the requests sent in the last Window: age and true cost

callVars == <<pc, provider, attempt, elapsed, timer>>
breakerVars == <<failures, openFor>>
limiterVars == <<ledger, estimate, sinceLast>>
history == <<streak, quiet, charged>>
vars == <<callVars, breakerVars, limiterVars, history>>

Providers == {"primary", "fallback"}
Entries == [age : 0 .. Window, tokens : Nat]

Least(a, b) == IF a < b THEN a ELSE b
Tokens(entries) == SumFunction([i \in DOMAIN entries |-> entries[i].tokens])
Aged(entries) ==
  [i \in DOMAIN entries |-> [entries[i] EXCEPT !.age = Least(@ + 1, Window)]]

\* _spent_last_minute drops what is a minute old.
Recent(entries) ==
  LET kept[n \in 0 .. Len(entries)] ==
        IF n = 0 THEN <<>>
        ELSE IF entries[n].age < Window THEN Append(kept[n - 1], entries[n])
        ELSE kept[n - 1]
  IN  kept[Len(entries)]

Init ==
  /\ pc = "idle" /\ provider = "primary"
  /\ attempt = 0 /\ elapsed = 0 /\ timer = 0
  /\ failures = 0 /\ openFor = Closed
  /\ ledger = <<>> /\ estimate = FirstEstimate /\ sinceLast = MinInterval
  /\ streak = 0 /\ quiet = ResetAfter /\ charged = <<>>

\* The outer ainvoke hands the request to a provider's retry loop.
TryProvider(p) ==
  /\ pc' = "attempt" /\ provider' = p
  /\ attempt' = 0 /\ elapsed' = 0 /\ timer' = 0

\* ainvoke is over, with an answer or an exception.
Return ==
  /\ pc' = "idle" /\ timer' = 0
  /\ UNCHANGED <<provider, attempt, elapsed>>

\* Mutant of NextProvider: the two providers are tried in turn.
NextProviderInTurn ==
  IF ~HasFallback THEN Return
  ELSE TryProvider(IF provider = "primary" THEN "fallback" ELSE "primary")

\* The retry loop raised CircuitOpen or its last transient error.
NextProvider ==
  IF provider = "primary" /\ HasFallback THEN TryProvider("fallback") ELSE Return

Await(p, ticks) ==
  /\ pc' = p /\ timer' = ticks
  /\ UNCHANGED <<provider, elapsed>>

Call ==
  /\ pc = "idle"
  /\ TryProvider("primary")
  /\ UNCHANGED <<breakerVars, limiterVars, history>>

-----------------------------------------------------------------------------
\* is_open: the fallback's loop has no breaker.
IsOpen == provider = "primary" /\ openFor # Closed /\ openFor < ResetAfter

\* is_open's side effect once the reset time is over: one failure re-opens it.
HalfOpen ==
  IF provider = "primary" /\ openFor >= ResetAfter
  THEN failures' = FailureThreshold - 1 /\ openFor' = Closed
  ELSE UNCHANGED breakerVars

RecordSuccess ==
  IF provider = "primary"
  THEN failures' = 0 /\ openFor' = Closed /\ streak' = 0 /\ UNCHANGED quiet
  ELSE UNCHANGED <<breakerVars, streak, quiet>>

RecordFailure ==
  IF provider = "primary"
  THEN /\ failures' = failures + 1
       /\ openFor' = IF failures + 1 >= FailureThreshold THEN 0 ELSE openFor
       /\ streak' = Least(streak + 1, FailureThreshold)
       /\ quiet' = 0
  ELSE UNCHANGED <<breakerVars, streak, quiet>>

-----------------------------------------------------------------------------
\* raise_if_open, at the top of every round of the loop.
CircuitIsOpen ==
  /\ pc = "attempt" /\ IsOpen
  /\ NextProvider
  /\ UNCHANGED <<breakerVars, limiterVars, history>>

\* acquire up to its first sleep: over budget it waits for the oldest entry to
\* leave the window, otherwise only for the interval between requests.
Begin ==
  /\ HalfOpen
  /\ LET kept == IF TokensPerMinute > 0 THEN Recent(ledger) ELSE ledger
     IN  /\ ledger' = kept
         /\ IF TokensPerMinute > 0 /\ kept # <<>>
               /\ Tokens(kept) + estimate > TokensPerMinute
            THEN Await("hold", Window - kept[1].age)
            ELSE Await("pace", MinInterval - sinceLast)
  /\ UNCHANGED <<attempt, estimate, sinceLast, history>>

\* Mutant of Attempt: the breaker is looked at before the loop only.
AttemptUnchecked ==
  /\ pc = "attempt"
  /\ ~IsOpen \/ attempt > 0
  /\ Begin

Attempt ==
  /\ pc = "attempt" /\ ~IsOpen
  /\ Begin

\* acquire, after the wait for the budget, which it does not look at again.
Held ==
  /\ pc = "hold" /\ timer = 0
  /\ ledger' = Recent(ledger)
  /\ Await("pace", MinInterval - sinceLast)
  /\ UNCHANGED <<attempt, breakerVars, estimate, sinceLast, history>>

\* The reservation is booked and the request goes out, to cost what it will.
Send ==
  /\ pc = "pace" /\ timer = 0
  /\ ledger' = Append(ledger, [age |-> 0, tokens |-> estimate])
  /\ sinceLast' = 0
  /\ \E c \in Costs : charged' = Append(charged, [age |-> 0, tokens |-> c])
  /\ Await("asking", LlmTimeout)
  /\ UNCHANGED <<attempt, breakerVars, estimate, streak, quiet>>

\* record: the reservation becomes the reported usage, or goes if there is none.
Record(cost) ==
  IF cost = 0
  THEN ledger' = Front(ledger) /\ UNCHANGED estimate
  ELSE /\ ledger' = [ledger EXCEPT ![Len(ledger)].tokens = cost]
       /\ estimate' = (7 * estimate + 3 * cost) \div 10

Answered ==
  /\ pc = "asking"
  /\ Record(Last(charged).tokens)
  /\ RecordSuccess
  /\ Return
  /\ UNCHANGED <<sinceLast, charged>>

\* A permanent error counts as an answer for the breaker and goes to the caller;
\* its reservation stays.
Rejected ==
  /\ pc = "asking"
  /\ RecordSuccess
  /\ Return
  /\ UNCHANGED <<limiterVars, charged>>

\* Mutant of Retry: the delay is not counted against the deadline.
RetryPastDeadline(delay) ==
  IF attempt + 1 = Attempts \/ elapsed >= Deadline
  THEN NextProvider
  ELSE Await("backoff", delay) /\ attempt' = attempt + 1

\* The loop's decision after a failure: sleep and try again, or stop.
Retry(delay) ==
  IF attempt + 1 = Attempts \/ elapsed + delay >= Deadline
  THEN NextProvider
  ELSE Await("backoff", delay) /\ attempt' = attempt + 1

\* Mutant of Failed: a failed request gives its reservation back.
FailedRefunded ==
  /\ pc = "asking"
  /\ RecordFailure
  /\ ledger' = Front(ledger)
  /\ \E delay \in Delays : Retry(delay)
  /\ UNCHANGED <<estimate, sinceLast, charged>>

\* A transient or unknown error, a timeout of the client included; the
\* reservation stays.
Failed ==
  /\ pc = "asking"
  /\ RecordFailure
  /\ \E delay \in Delays : Retry(delay)
  /\ UNCHANGED <<limiterVars, charged>>

BackedOff ==
  /\ pc = "backoff" /\ timer = 0
  /\ pc' = "attempt"
  /\ UNCHANGED <<provider, attempt, elapsed, timer, breakerVars, limiterVars, history>>

\* wait_for cancels the run: CancelledError is no Exception, so neither the
\* loop nor the breaker takes notice, and a reservation already made stays.
Cancel ==
  /\ pc \in {"asking", "backoff"} \/ (pc \in {"hold", "pace"} /\ timer > 0)
  /\ Return
  /\ UNCHANGED <<breakerVars, limiterVars, history>>

\* Time passes while nothing is due.
Tick ==
  /\ pc = "idle" \/ timer > 0
  /\ timer' = IF timer > 0 THEN timer - 1 ELSE 0
  /\ elapsed' = IF pc = "idle" THEN elapsed ELSE Least(elapsed + 1, Deadline)
  /\ openFor' = IF openFor = Closed THEN Closed ELSE Least(openFor + 1, ResetAfter)
  /\ ledger' = Aged(ledger)
  /\ sinceLast' = Least(sinceLast + 1, MinInterval)
  /\ quiet' = Least(quiet + 1, ResetAfter)
  /\ charged' = Recent(Aged(charged))
  /\ UNCHANGED <<pc, provider, attempt, failures, estimate, streak>>

\* The steps a call takes by itself.
CallStep ==
  CircuitIsOpen \/ Attempt \/ Held \/ Send \/ Answered \/ Rejected \/ Failed \/ BackedOff

Next == Call \/ CallStep \/ Cancel \/ Tick

\* The event loop runs what is due and time passes; requests and cancellations
\* may never come.
Spec == Init /\ [][Next]_vars
FairSpec == Spec /\ WF_vars(CallStep) /\ WF_vars(Tick)

-----------------------------------------------------------------------------
\* Type invariant; the circuit opens at the threshold and never counts past it.
AccessTypeOK ==
  /\ pc \in {"idle", "attempt", "hold", "pace", "asking", "backoff"}
  /\ provider \in Providers
  /\ attempt \in 0 .. Attempts - 1
  /\ elapsed \in 0 .. Deadline
  /\ timer \in Nat
  /\ failures \in 0 .. FailureThreshold
  /\ openFor \in {Closed} \cup 0 .. ResetAfter
  /\ openFor # Closed <=> failures = FailureThreshold
  /\ ledger \in Seq(Entries)
  /\ estimate \in Nat
  /\ sinceLast \in 0 .. MinInterval
  /\ streak \in 0 .. FailureThreshold
  /\ quiet \in 0 .. ResetAfter
  /\ charged \in Seq(Entries)

\* Once the primary has failed as often as the breaker allows without one answer
\* between, it is asked again only after the reset time since its last failure,
\* whichever call asks and whatever was cancelled meanwhile.
ProbesAreSpaced ==
  [][pc = "pace" /\ pc' = "asking" /\ provider = "primary" /\ streak = FailureThreshold
       => quiet >= ResetAfter]_vars

\* If all requests that cost anything cost the same, the provider never counts
\* more than the budget within a minute, whatever failed or was cut off and
\* although acquire looks at the budget only before it waits.
EqualCallsStayInBudget ==
  Costs \subseteq {0, FirstEstimate} /\ FirstEstimate <= TokensPerMinute
    => Tokens(charged) <= TokensPerMinute

\* No retry begins at or after the deadline: call_with_retry counts the sleep
\* before it sleeps.
RetriesBeginInTime == pc = "attempt" /\ attempt > 0 => elapsed < Deadline

\* Every call returns or raises, through retries, waits for the budget, an open
\* circuit and the fallback.
EveryCallReturns == pc # "idle" ~> pc = "idle"
==============================================================================
