----------------------------- MODULE RateLimiter -----------------------------
(***************************************************************************)
(* The ingress token bucket (backend/libs/adapters/ratelimit_redis.py): one *)
(* bucket per user in Redis, read, decided and written by one Lua script.  *)
(* The time a check is made at is the calling gateway's own clock.         *)
(*                                                                         *)
(* The unit of tokens is what a bucket refills in one tick.                *)
(***************************************************************************)
EXTENDS Integers

CONSTANTS
  Users,
  Gateways,   \* gateway processes
  Ahead,      \* how far each one's clock runs ahead of Redis's
  MaxAhead,
  Burst,      \* requests a full bucket allows
  Cost,       \* ticks in which one request's worth is refilled
  None,
  MaxTime     \* bound on the clock

ASSUME LimiterAssumption ==
  /\ MaxAhead \in Nat
  /\ Ahead \in [Gateways -> 0 .. MaxAhead]
  /\ Burst \in Nat \ {0}
  /\ Cost \in Nat \ {0}
  /\ Burst * Cost \in Nat \ {0} /\ Burst * Cost >= Cost
  /\ None \notin Nat
  /\ MaxTime \in Nat

VARIABLES
  time,     \* Redis's clock
  bucket,   \* each user's key, [tokens, ts, expires]
  spent,    \* tokens each user has spent since its bucket was last made
  opened,   \* when that was, by the clock of the gateway that made it
  promise   \* what the last 429 said: the time to retry at, and the gateway it came from

limiterVars == <<time, bucket, spent, opened, promise>>

Capacity == Burst * Cost

LimiterInit ==
  /\ time = 0
  /\ bucket = [u \in Users |-> [tokens |-> Capacity, ts |-> 0, expires |-> 0]]
  /\ spent = [u \in Users |-> 0]
  /\ opened = [u \in Users |-> 0]
  /\ promise = [u \in Users |-> None]

Clock(g) == time + Ahead[g]

\* The key has lapsed, or was never there.
Lapsed(u) == time >= bucket[u].expires

Least(x, y) == IF x <= y THEN x ELSE y

\* What the bucket holds when it is looked at.
Level(u, now) ==
  IF Lapsed(u) THEN Capacity
  ELSE Least(Capacity, bucket[u].tokens + (now - bucket[u].ts))

\* HMSET and EXPIRE.
Store(u, tokens, now) ==
  bucket' = [bucket EXCEPT ![u] =
               [tokens |-> tokens, ts |-> now, expires |-> time + Capacity + 1]]

\* Mutant of Allow: what the request costs is not taken.
AllowForFree(u, g) ==
  /\ Level(u, Clock(g)) >= Cost
  /\ Store(u, Level(u, Clock(g)), Clock(g))
  /\ spent' = [spent EXCEPT ![u] = IF Lapsed(u) THEN Cost ELSE @ + Cost]
  /\ opened' = [opened EXCEPT ![u] = IF Lapsed(u) THEN Clock(g) ELSE @]
  /\ promise' = [promise EXCEPT ![u] = None]
  /\ UNCHANGED time

\* check lets a request through.
Allow(u, g) ==
  /\ Level(u, Clock(g)) >= Cost
  /\ Store(u, Level(u, Clock(g)) - Cost, Clock(g))
  /\ spent' = [spent EXCEPT ![u] = IF Lapsed(u) THEN Cost ELSE @ + Cost]
  /\ opened' = [opened EXCEPT ![u] = IF Lapsed(u) THEN Clock(g) ELSE @]
  /\ promise' = [promise EXCEPT ![u] = None]
  /\ UNCHANGED time

\* Retry-After counts from when the refusal is received, by whatever clock the
\* caller has; the wait itself was computed with the gateway's.
Promised(u, g) == [until |-> time + (Cost - Level(u, Clock(g))), by |-> g]

\* Mutant of Deny: the request is charged although it is refused.
DenyAndCharge(u, g) ==
  /\ Level(u, Clock(g)) < Cost
  /\ Store(u, Level(u, Clock(g)) - Cost, Clock(g))
  /\ promise' = [promise EXCEPT ![u] = Promised(u, g)]
  /\ UNCHANGED <<time, spent, opened>>

\* check raises RateLimited: nothing is taken, what was refilled is stored, and
\* the exception says how long to wait.
Deny(u, g) ==
  /\ Level(u, Clock(g)) < Cost
  /\ Store(u, Level(u, Clock(g)), Clock(g))
  /\ promise' = [promise EXCEPT ![u] = Promised(u, g)]
  /\ UNCHANGED <<time, spent, opened>>

Tick ==
  /\ time < MaxTime
  /\ time' = time + 1
  /\ UNCHANGED <<bucket, spent, opened, promise>>

------------------------------------------------------------------------------
LimiterTypeOK ==
  /\ time \in 0 .. MaxTime
  /\ bucket \in [Users -> [tokens : Int, ts : Nat, expires : Nat]]
  /\ spent \in [Users -> Nat]
  /\ opened \in [Users -> Nat]
  /\ promise \in [Users -> [until : Nat, by : Gateways] \cup {None}]

\* Since a user's bucket was last made, the user has spent no more than a full
\* bucket and what was refilled since, give or take what the clocks disagree by,
\* whichever gateways the requests went through.
SpentWithinBudget ==
  \A u \in Users :
    ~Lapsed(u) => spent[u] <= Capacity + ((time + MaxAhead) - opened[u])

\* How much longer a retry through gateway g takes than the 429 said: by what g's
\* clock is behind that of the gateway that sent it.  Below 0 it takes less.
Behind(u, g) == Ahead[promise[u].by] - Ahead[g]

\* A user that is refused, waits as long as the last 429 said, in the time that
\* really passes, and makes no other request meanwhile, is let through by every
\* gateway whose clock is not behind that of the one that refused; one that is
\* behind it refuses for as much longer as it is behind, and no longer.
RetryAfterIsHonest ==
  [][\A u \in Users, g \in Gateways :
       Deny(u, g) /\ promise[u] # None =>
         time < promise[u].until + Behind(u, g)]_limiterVars
==============================================================================
