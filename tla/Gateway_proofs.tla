---------------------------- MODULE Gateway_proofs ----------------------------
(***************************************************************************)
(* Proofs about Gateway and RateLimiter, for any number of users, gateways *)
(* and requests, any clocks and any faults: type correctness, the budget   *)
(* and the promise of the limiter, the history that is kept, and which     *)
(* conversations are started and continued.                                *)
(***************************************************************************)
EXTENDS Gateway, OrderLemmas, FiniteSetTheorems, TLAPS

-----------------------------------------------------------------------------
\* The limiter.

\* What the bucket holds and what was spent from it are covered by what it held
\* when it was made and what its time stamp accounts for; the stamp is at most a
\* full skew ahead; and a promise is the time at which the bucket is worth Cost by
\* the clock of the gateway that made it.
Kept(said, held) == said.until = held.ts + (Cost - held.tokens) - Ahead[said.by]

BucketInv ==
  \A u \in Users :
    /\ ~Lapsed(u) => bucket[u].tokens + spent[u] <= Capacity + (bucket[u].ts - opened[u])
    /\ bucket[u].ts - bucket[u].tokens <= time + MaxAhead
    /\ promise[u] # None => Kept(promise[u], bucket[u])

LimiterInv == LimiterTypeOK /\ BucketInv

\* A bucket has room for a request.
LEMMA CapacityFact == Capacity \in Nat /\ Cost \in Nat \ {0} /\ Capacity >= Cost /\ MaxAhead \in Nat
BY LimiterAssumption DEF Capacity

\* Every gateway's clock is between Redis's and MaxAhead later.
LEMMA ClockFact ==
  ASSUME LimiterTypeOK, NEW g \in Gateways
  PROVE  Clock(g) \in Nat /\ time \in Nat /\ Clock(g) >= time /\ Clock(g) <= time + MaxAhead
<1>1. Ahead[g] \in Nat /\ Ahead[g] <= MaxAhead /\ MaxAhead \in Nat BY LimiterAssumption
<1>2. time \in Nat BY LimiterAssumption DEF LimiterTypeOK
<1>3. QED BY <1>1, <1>2 DEF Clock

\* The limiter's invariant holds to begin with.
LEMMA LimiterInitInv == ASSUME LimiterInit PROVE LimiterInv
<1>1. 0 \in 0 .. MaxTime /\ None \notin Nat BY LimiterAssumption
<1>2. LimiterTypeOK BY <1>1, CapacityFact DEF LimiterInit, LimiterTypeOK
<1>3. BucketInv
  <2> SUFFICES ASSUME NEW u \in Users
      PROVE /\ ~Lapsed(u) => bucket[u].tokens + spent[u] <= Capacity + (bucket[u].ts - opened[u])
            /\ bucket[u].ts - bucket[u].tokens <= time + MaxAhead
            /\ promise[u] # None => Kept(promise[u], bucket[u])
    BY DEF BucketInv
  <2>1. /\ bucket[u].tokens = Capacity /\ bucket[u].ts = 0 /\ spent[u] = 0
        /\ opened[u] = 0 /\ time = 0 /\ promise[u] = None
    BY DEF LimiterInit
  <2>2. QED BY <2>1, CapacityFact
<1>4. QED BY <1>2, <1>3 DEF LimiterInv

\* A request that is let through keeps it.
LEMMA AllowKeeps ==
  ASSUME LimiterInv, NEW v \in Users, NEW g \in Gateways, Allow(v, g)
  PROVE  LimiterInv'
<1> DEFINE now == Clock(g)
           level == Level(v, now)
<1>1. /\ now \in Nat /\ time \in Nat /\ now >= time /\ now <= time + MaxAhead
  BY ClockFact DEF LimiterInv
<1>2. /\ bucket[v].tokens \in Int /\ bucket[v].ts \in Nat /\ spent[v] \in Nat /\ opened[v] \in Nat
  BY DEF LimiterInv, LimiterTypeOK
<1>3. /\ level \in Int /\ level <= Capacity
      /\ Lapsed(v) => level = Capacity
      /\ ~Lapsed(v) => level <= bucket[v].tokens + (now - bucket[v].ts)
  BY <1>1, <1>2, CapacityFact DEF Level, Least
<1>4. level >= Cost BY DEF Allow
<1>5. /\ bucket' = [bucket EXCEPT ![v] =
                      [tokens |-> level - Cost, ts |-> now, expires |-> time + Capacity + 1]]
      /\ spent' = [spent EXCEPT ![v] = IF Lapsed(v) THEN Cost ELSE @ + Cost]
      /\ opened' = [opened EXCEPT ![v] = IF Lapsed(v) THEN now ELSE @]
      /\ promise' = [promise EXCEPT ![v] = None]
      /\ time' = time
  BY DEF Allow, Store
<1>6. /\ bucket'[v] = [tokens |-> level - Cost, ts |-> now, expires |-> time + Capacity + 1]
      /\ spent'[v] = (IF Lapsed(v) THEN Cost ELSE spent[v] + Cost)
      /\ opened'[v] = (IF Lapsed(v) THEN now ELSE opened[v])
      /\ promise'[v] = None
  BY <1>5 DEF LimiterInv, LimiterTypeOK
<1>7. \A u \in Users \ {v} : /\ bucket'[u] = bucket[u] /\ spent'[u] = spent[u]
                             /\ opened'[u] = opened[u] /\ promise'[u] = promise[u]
  BY <1>5 DEF LimiterInv, LimiterTypeOK
<1> HIDE DEF now, level
<1>8. LimiterTypeOK'
  <2>1. [tokens |-> level - Cost, ts |-> now, expires |-> time + Capacity + 1]
          \in [tokens : Int, ts : Nat, expires : Nat]
    BY <1>1, <1>3, CapacityFact
  <2>2. (IF Lapsed(v) THEN Cost ELSE spent[v] + Cost) \in Nat BY <1>2, CapacityFact
  <2>3. (IF Lapsed(v) THEN now ELSE opened[v]) \in Nat BY <1>1, <1>2
  <2>4. /\ time \in 0 .. MaxTime /\ bucket \in [Users -> [tokens : Int, ts : Nat, expires : Nat]]
        /\ spent \in [Users -> Nat] /\ opened \in [Users -> Nat]
        /\ promise \in [Users -> [until : Nat, by : Gateways] \cup {None}]
    BY DEF LimiterInv, LimiterTypeOK
  <2>5. bucket' \in [Users -> [tokens : Int, ts : Nat, expires : Nat]] BY <1>5, <2>1, <2>4
  <2>6. spent' \in [Users -> Nat]
    <3>1. spent' = [spent EXCEPT ![v] = IF Lapsed(v) THEN Cost ELSE spent[v] + Cost] BY <1>5, <2>4
    <3>2. QED BY <3>1, <2>2, <2>4
  <2>7. opened' \in [Users -> Nat]
    <3>1. opened' = [opened EXCEPT ![v] = IF Lapsed(v) THEN now ELSE opened[v]] BY <1>5, <2>4
    <3>2. QED BY <3>1, <2>3, <2>4
  <2>8. promise' \in [Users -> [until : Nat, by : Gateways] \cup {None}] BY <1>5, <2>4
  <2>9. QED BY <1>5, <2>4, <2>5, <2>6, <2>7, <2>8 DEF LimiterTypeOK
<1>9. BucketInv'
  <2> SUFFICES ASSUME NEW u \in Users
      PROVE /\ ~Lapsed(u)' => bucket'[u].tokens + spent'[u] <= Capacity + (bucket'[u].ts - opened'[u])
            /\ bucket'[u].ts - bucket'[u].tokens <= time' + MaxAhead
            /\ promise'[u] # None => Kept(promise'[u], bucket'[u])
    BY DEF BucketInv, Capacity
  <2>1. CASE u = v
    <3>1. /\ bucket'[u].tokens = level - Cost /\ bucket'[u].ts = now BY <1>6, <2>1
    <3>2. bucket'[u].ts - bucket'[u].tokens <= time' + MaxAhead
      BY <3>1, <1>1, <1>3, <1>4, <1>5, CapacityFact
    <3>3. CASE Lapsed(v)
      BY <3>1, <3>2, <3>3, <1>1, <1>3, <1>6, <2>1, CapacityFact
    <3>4. CASE ~Lapsed(v)
      <4>1. bucket[v].tokens + spent[v] <= Capacity + (bucket[v].ts - opened[v])
        BY <3>4 DEF LimiterInv, BucketInv
      <4>2. QED BY <3>1, <3>2, <3>4, <4>1, <1>1, <1>2, <1>3, <1>6, <2>1, CapacityFact
    <3>5. QED BY <3>3, <3>4
  <2>2. CASE u # v
    <3>1. /\ bucket'[u] = bucket[u] /\ spent'[u] = spent[u]
          /\ opened'[u] = opened[u] /\ promise'[u] = promise[u] /\ time' = time
      BY <1>5, <1>7, <2>2
    <3>2. Lapsed(u)' = Lapsed(u) BY <3>1 DEF Lapsed
    <3>3. QED BY <3>1, <3>2 DEF LimiterInv, BucketInv
  <2>3. QED BY <2>1, <2>2
<1>10. QED BY <1>8, <1>9 DEF LimiterInv

\* So does one that is refused.
LEMMA DenyKeeps ==
  ASSUME LimiterInv, NEW v \in Users, NEW g \in Gateways, Deny(v, g)
  PROVE  LimiterInv'
<1> DEFINE now == Clock(g)
           level == Level(v, now)
           said == [until |-> time + (Cost - level), by |-> g]
<1>1. /\ now \in Nat /\ time \in Nat /\ now >= time /\ now <= time + MaxAhead
  BY ClockFact DEF LimiterInv
<1>2. /\ bucket[v].tokens \in Int /\ bucket[v].ts \in Nat /\ spent[v] \in Nat /\ opened[v] \in Nat
  BY DEF LimiterInv, LimiterTypeOK
<1>3. level < Cost BY DEF Deny
<1>4. ~Lapsed(v) /\ level = bucket[v].tokens + (now - bucket[v].ts) /\ level \in Int
  BY <1>1, <1>2, <1>3, CapacityFact DEF Level, Least
<1>5. /\ bucket' = [bucket EXCEPT ![v] =
                      [tokens |-> level, ts |-> now, expires |-> time + Capacity + 1]]
      /\ spent' = spent /\ opened' = opened /\ time' = time
      /\ promise' = [promise EXCEPT ![v] = said]
  BY DEF Deny, Store, Promised
<1>6. /\ bucket'[v] = [tokens |-> level, ts |-> now, expires |-> time + Capacity + 1]
      /\ promise'[v] = said
  BY <1>5 DEF LimiterInv, LimiterTypeOK
<1>7. \A u \in Users \ {v} : bucket'[u] = bucket[u] /\ promise'[u] = promise[u]
  BY <1>5 DEF LimiterInv, LimiterTypeOK
<1>t. Kept(said, [tokens |-> level, ts |-> now, expires |-> time + Capacity + 1])
  BY <1>1, <1>4, CapacityFact, LimiterAssumption DEF Kept, Clock
<1> HIDE DEF now, level, said
<1>8. LimiterTypeOK'
  <2>1. /\ [tokens |-> level, ts |-> now, expires |-> time + Capacity + 1]
             \in [tokens : Int, ts : Nat, expires : Nat]
        /\ said \in [until : Nat, by : Gateways]
    BY <1>1, <1>3, <1>4, CapacityFact DEF said
  <2>2. /\ time \in 0 .. MaxTime /\ bucket \in [Users -> [tokens : Int, ts : Nat, expires : Nat]]
        /\ spent \in [Users -> Nat] /\ opened \in [Users -> Nat]
        /\ promise \in [Users -> [until : Nat, by : Gateways] \cup {None}]
    BY DEF LimiterInv, LimiterTypeOK
  <2>3. bucket' \in [Users -> [tokens : Int, ts : Nat, expires : Nat]] BY <1>5, <2>1, <2>2
  <2>4. promise' \in [Users -> [until : Nat, by : Gateways] \cup {None}] BY <1>5, <2>1, <2>2
  <2>5. QED BY <1>5, <2>2, <2>3, <2>4 DEF LimiterTypeOK
<1>9. BucketInv'
  <2> SUFFICES ASSUME NEW u \in Users
      PROVE /\ ~Lapsed(u)' => bucket'[u].tokens + spent'[u] <= Capacity + (bucket'[u].ts - opened'[u])
            /\ bucket'[u].ts - bucket'[u].tokens <= time' + MaxAhead
            /\ promise'[u] # None => Kept(promise'[u], bucket'[u])
    BY DEF BucketInv, Capacity
  <2>1. CASE u = v
    <3>1. bucket'[u].tokens = level /\ bucket'[u].ts = now BY <1>6, <2>1
    <3>2. /\ bucket[v].tokens + spent[v] <= Capacity + (bucket[v].ts - opened[v])
          /\ bucket[v].ts - bucket[v].tokens <= time + MaxAhead
      BY <1>4 DEF LimiterInv, BucketInv
    <3>3. QED BY <3>1, <3>2, <1>t, <1>1, <1>2, <1>4, <1>5, <1>6, <2>1, CapacityFact
  <2>2. CASE u # v
    <3>1. /\ bucket'[u] = bucket[u] /\ spent'[u] = spent[u]
          /\ opened'[u] = opened[u] /\ promise'[u] = promise[u] /\ time' = time
      BY <1>5, <1>7, <2>2
    <3>2. Lapsed(u)' = Lapsed(u) BY <3>1 DEF Lapsed
    <3>3. QED BY <3>1, <3>2 DEF LimiterInv, BucketInv
  <2>3. QED BY <2>1, <2>2
<1>10. QED BY <1>8, <1>9 DEF LimiterInv

\* Time passes, and keys lapse, without harm.
LEMMA TickKeeps == ASSUME LimiterInv, Tick PROVE LimiterInv'
<1>1. /\ time' = time + 1 /\ time < MaxTime /\ bucket' = bucket /\ spent' = spent
      /\ opened' = opened /\ promise' = promise
  BY DEF Tick
<1>2. time \in 0 .. MaxTime /\ MaxTime \in Nat BY LimiterAssumption DEF LimiterInv, LimiterTypeOK
<1>3. LimiterTypeOK' BY <1>1, <1>2 DEF LimiterInv, LimiterTypeOK
<1>4. BucketInv'
  <2> SUFFICES ASSUME NEW u \in Users
      PROVE /\ ~Lapsed(u)' => bucket[u].tokens + spent[u] <= Capacity + (bucket[u].ts - opened[u])
            /\ bucket[u].ts - bucket[u].tokens <= time' + MaxAhead
            /\ promise[u] # None => Kept(promise[u], bucket[u])
    BY <1>1 DEF BucketInv, Capacity
  <2>1. bucket[u].tokens \in Int /\ bucket[u].ts \in Nat /\ bucket[u].expires \in Nat
    BY DEF LimiterInv, LimiterTypeOK
  <2>2. ~Lapsed(u)' => ~Lapsed(u) BY <1>1, <1>2, <2>1 DEF Lapsed
  <2>3. QED BY <1>1, <1>2, <2>1, <2>2, CapacityFact DEF LimiterInv, BucketInv
<1>5. QED BY <1>3, <1>4 DEF LimiterInv

\* Nothing happens to the limiter.
LEMMA LimiterStutters ==
  ASSUME LimiterInv, UNCHANGED limiterVars
  PROVE  LimiterInv'
<1>1. /\ time' = time /\ bucket' = bucket /\ spent' = spent
      /\ opened' = opened /\ promise' = promise
  BY DEF limiterVars
<1>2. LimiterTypeOK' BY <1>1 DEF LimiterInv, LimiterTypeOK
<1>3. BucketInv' BY <1>1 DEF LimiterInv, BucketInv, Lapsed, Capacity
<1>4. QED BY <1>2, <1>3 DEF LimiterInv

\* What was spent is within the budget.
LEMMA BudgetHolds == ASSUME LimiterInv PROVE SpentWithinBudget
<1> SUFFICES ASSUME NEW u \in Users, ~Lapsed(u)
    PROVE spent[u] <= Capacity + ((time + MaxAhead) - opened[u])
  BY DEF SpentWithinBudget
<1>1. /\ bucket[u].tokens \in Int /\ bucket[u].ts \in Nat /\ spent[u] \in Nat
      /\ opened[u] \in Nat /\ time \in Nat
  BY LimiterAssumption DEF LimiterInv, LimiterTypeOK
<1>2. /\ bucket[u].tokens + spent[u] <= Capacity + (bucket[u].ts - opened[u])
      /\ bucket[u].ts - bucket[u].tokens <= time + MaxAhead
  BY DEF LimiterInv, BucketInv
<1>3. QED BY <1>1, <1>2, CapacityFact

\* Who is refused again came before the time it was told, or to a clock behind.
LEMMA PromiseHolds ==
  ASSUME LimiterInv, NEW u \in Users, NEW g \in Gateways, Deny(u, g), promise[u] # None
  PROVE  time < promise[u].until + Behind(u, g)
<1>1. Clock(g) = time + Ahead[g] /\ Ahead[g] \in Nat /\ time \in Nat
  BY LimiterAssumption DEF Clock, LimiterInv, LimiterTypeOK
<1>2. bucket[u].tokens \in Int /\ bucket[u].ts \in Nat BY DEF LimiterInv, LimiterTypeOK
<1>3. promise[u].until \in Nat /\ promise[u].by \in Gateways
  BY DEF LimiterInv, LimiterTypeOK
<1>4. Ahead[promise[u].by] \in Nat BY <1>3, LimiterAssumption
<1>5. Level(u, Clock(g)) < Cost BY DEF Deny
<1>6. bucket[u].tokens + (Clock(g) - bucket[u].ts) < Cost
  BY <1>1, <1>2, <1>5, CapacityFact DEF Level, Least
<1>7. promise[u].until = bucket[u].ts + (Cost - bucket[u].tokens) - Ahead[promise[u].by]
  BY DEF LimiterInv, BucketInv, Kept
<1>8. QED BY <1>1, <1>2, <1>3, <1>4, <1>6, <1>7, CapacityFact DEF Behind
-----------------------------------------------------------------------------
\* Where requests and conversations stand.

\* A request beyond ensure has a conversation that exists.
Placed == {"ask", "asking", "enqueue", "waiting", "answer", "answering", "done"}

\* A request has its user and, from ensure on, its conversation; an id that a
\* response told is that of a conversation, so ensure never creates it; only
\* the REST door stores messages, and asking for a token enqueues nothing.
Standing(q) ==
  /\ pc[q] # "unsent" => user[q] \in Users
  /\ pc[q] \in Placed => conv[q] \in Ids /\ owner[conv[q]] \in Users
  /\ asked[q] \in Requests => owner[asked[q]] \in Users
  /\ pc[q] = "insert" => asked[q] \in Given \cup {None}
  /\ pc[q] \in {"ask", "asking", "answer", "answering"} => kind[q] = "rest"
  /\ pc[q] \in {"enqueue", "waiting"} => kind[q] # "token"

\* Types and standing, and no time stamp later than the latest.
BasicInv ==
  /\ GatewayTypeOK
  /\ \A q \in Requests : Standing(q)
  /\ \A q \in Requests : began[q] <= stamp
  /\ \A c \in Ids : updated[c] <= stamp
  /\ \A m \in messages : m.at <= stamp

\* None is no id and nobody.
LEMMA NoneFact == None \notin Ids /\ None \notin Users /\ None \notin Requests /\ Requests \subseteq Ids /\ Given \subseteq Ids
BY GatewayAssumption DEF Ids

\* What creating a conversation does.
LEMMA CreateFacts ==
  ASSUME BasicInv, NEW q \in Requests, pc[q] = "insert", Create(q)
  PROVE  /\ NewId(q) \in Ids /\ NewId(q) \in Given \cup {q}
         /\ owner' \in [Ids -> Users \cup {None}] /\ updated' \in [Ids -> Nat]
         /\ thread' \in [Users -> Ids \cup {None}]
         /\ owner'[NewId(q)] \in Users
         /\ \A c \in Ids : owner[c] # None => owner'[c] = owner[c] /\ updated'[c] = updated[c]
         /\ \A c \in Ids : c # NewId(q) => owner'[c] = owner[c]
         /\ \A c \in Ids : updated'[c] <= stamp
         /\ \/ UNCHANGED <<owner, updated, thread>>
            \/ /\ owner[NewId(q)] = None
               /\ owner'[NewId(q)] = user[q] /\ updated'[NewId(q)] = began[q]
               /\ thread' = [thread EXCEPT ![user[q]] = NewId(q)]
<1>1. user[q] \in Users /\ asked[q] \in Given \cup {None} BY DEF BasicInv, Standing
<1>2. /\ owner \in [Ids -> Users \cup {None}] /\ updated \in [Ids -> Nat]
      /\ thread \in [Users -> Ids \cup {None}] /\ began[q] \in Nat
  BY DEF BasicInv, GatewayTypeOK
<1>3. NewId(q) \in Ids /\ NewId(q) \in Given \cup {q} BY <1>1, NoneFact DEF NewId
<1>4. began[q] <= stamp /\ \A c \in Ids : updated[c] <= stamp BY DEF BasicInv
<1>5. CASE owner[NewId(q)] = None
  <2>1. /\ owner' = [owner EXCEPT ![NewId(q)] = user[q]]
        /\ updated' = [updated EXCEPT ![NewId(q)] = began[q]]
        /\ thread' = [thread EXCEPT ![user[q]] = NewId(q)]
    BY <1>5 DEF Create
  <2>2. QED BY <2>1, <1>1, <1>2, <1>3, <1>4, <1>5
<1>6. CASE owner[NewId(q)] # None
  <2>1. UNCHANGED <<owner, updated, thread>> BY <1>6 DEF Create
  <2>2. QED BY <2>1, <1>2, <1>3, <1>4, <1>6
<1>7. QED BY <1>5, <1>6

\* What storing a message does.
LEMMA WriteFacts ==
  ASSUME BasicInv, NEW q \in Requests, pc[q] \in {"asking", "answering"},
         NEW role \in Roles, Write(q, role)
  PROVE  /\ messages' \in SUBSET Message /\ updated' \in [Ids -> Nat]
         /\ thread' \in [Users -> Ids \cup {None}] /\ crowded' \in SUBSET Users
         /\ messages' = messages \cup
              {[conv |-> conv[q], req |-> q, role |-> role, at |-> began[q]]}
         /\ conv[q] \in Ids /\ owner[conv[q]] \in Users
         /\ updated' = [updated EXCEPT ![conv[q]] = began[q]]
         /\ \/ /\ owner[conv[q]] = user[q] /\ crowded' = crowded
               /\ thread' = [thread EXCEPT ![user[q]] = conv[q]]
            \/ /\ owner[conv[q]] # user[q] /\ crowded' = crowded \cup {owner[conv[q]]}
               /\ thread' = thread
         /\ \A c \in Ids : updated'[c] <= stamp
         /\ \A m \in messages' : m.at <= stamp
<1>1. conv[q] \in Ids /\ owner[conv[q]] \in Users /\ user[q] \in Users
  BY DEF BasicInv, Standing, Placed
<1>2. /\ updated \in [Ids -> Nat] /\ thread \in [Users -> Ids \cup {None}]
      /\ crowded \in SUBSET Users /\ messages \in SUBSET Message /\ began[q] \in Nat
  BY DEF BasicInv, GatewayTypeOK
<1>3. /\ began[q] <= stamp /\ \A c \in Ids : updated[c] <= stamp
      /\ \A m \in messages : m.at <= stamp
  BY DEF BasicInv
<1>4. /\ messages' = messages \cup
           {[conv |-> conv[q], req |-> q, role |-> role, at |-> began[q]]}
      /\ updated' = [updated EXCEPT ![conv[q]] = began[q]]
  BY DEF Write
<1>5. [conv |-> conv[q], req |-> q, role |-> role, at |-> began[q]] \in Message
  BY <1>1, <1>2 DEF Message
<1>6. messages' \in SUBSET Message /\ \A m \in messages' : m.at <= stamp
  BY <1>2, <1>3, <1>4, <1>5
<1>7. updated' \in [Ids -> Nat] /\ \A c \in Ids : updated'[c] <= stamp
  BY <1>1, <1>2, <1>3, <1>4
<1>8. CASE owner[conv[q]] = user[q]
  <2>1. thread' = [thread EXCEPT ![user[q]] = conv[q]] /\ crowded' = crowded BY <1>8 DEF Write
  <2>2. QED BY <2>1, <1>1, <1>2, <1>4, <1>6, <1>7, <1>8
<1>9. CASE owner[conv[q]] # user[q]
  <2>1. crowded' = crowded \cup {owner[conv[q]]} /\ thread' = thread BY <1>9 DEF Write
  <2>2. QED BY <2>1, <1>1, <1>2, <1>4, <1>6, <1>7, <1>9
<1>10. QED BY <1>8, <1>9

\* The conversation ensure finds is one that exists.
LEMMA FoundFacts ==
  ASSUME BasicInv, NEW q \in Requests, Find(q)
  PROVE  /\ conv'[q] \in Ids \cup {None}
         /\ conv'[q] # None => owner[conv'[q]] \in Users
         /\ conv'[q] # None => pc'[q] = AfterEnsure(q) /\ began' = began /\ stamp' = stamp
         /\ conv'[q] # None => asked' = [asked EXCEPT ![q] = None]
         /\ conv'[q] = None => /\ pc'[q] = "insert" /\ asked' = asked /\ asked[q] \notin Requests
                               /\ stamp' = stamp + 1 /\ began' = [began EXCEPT ![q] = stamp + 1]
         /\ conv'[q] = None /\ asked[q] = None => Owned(user[q]) = {}
         /\ conv' = [conv EXCEPT ![q] = conv'[q]] /\ pc' = [pc EXCEPT ![q] = pc'[q]]
         /\ user[q] \in Users
         /\ asked[q] = None /\ Owned(user[q]) # {} => conv'[q] = Latest(user[q])
<1> DEFINE u == user[q]
           found == IF asked[q] # None
                    THEN IF owner[asked[q]] # None THEN asked[q] ELSE None
                    ELSE IF Owned(u) # {} THEN Latest(u) ELSE None
<1>1. /\ pc[q] = "find" /\ conv' = [conv EXCEPT ![q] = found]
      /\ IF found = None THEN Begin(q) /\ UNCHANGED asked
         ELSE UNCHANGED <<began, stamp>> /\ asked' = [asked EXCEPT ![q] = None]
      /\ pc' = [pc EXCEPT ![q] = IF found = None THEN "insert" ELSE AfterEnsure(q)]
  BY DEF Find, Goto
<1>2. /\ u \in Users /\ asked[q] \in Ids \cup {None}
      /\ asked[q] \in Requests => owner[asked[q]] \in Users
  BY <1>1 DEF BasicInv, Standing, GatewayTypeOK
<1>3. conv \in [Requests -> Ids \cup {None}] /\ pc \in [Requests -> PCs]
  BY DEF BasicInv, GatewayTypeOK
<1>4. conv'[q] = found /\ pc'[q] = IF found = None THEN "insert" ELSE AfterEnsure(q)
  BY <1>1, <1>3
<1>5. owner \in [Ids -> Users \cup {None}] /\ updated \in [Ids -> Nat]
  BY DEF BasicInv, GatewayTypeOK
<1>6. Owned(u) # {} => Latest(u) \in Owned(u) /\ Latest(u) # None
  <2> SUFFICES ASSUME Owned(u) # {} PROVE Latest(u) \in Owned(u) /\ Latest(u) # None
    OBVIOUS
  <2>1. \E c \in Owned(u) : \A d \in Owned(u) : updated[d] <= updated[c]
    <3>1. \A c \in Ids : updated[c] \in Nat /\ updated[c] <= stamp BY <1>5 DEF BasicInv
    <3>2. stamp \in Nat BY DEF BasicInv, GatewayTypeOK
    <3> DEFINE ages == {stamp - updated[c] : c \in Owned(u)}
    <3>3. ages \subseteq Nat /\ ages # {} BY <3>1, <3>2 DEF Owned
    <3>4. PICK a \in ages : \A b \in ages : a <= b BY <3>3, SmallestNat
    <3>5. PICK c \in Owned(u) : a = stamp - updated[c] BY <3>4
    <3>6. \A d \in Owned(u) : updated[d] <= updated[c]
      <4> TAKE d \in Owned(u)
      <4>1. stamp - updated[c] <= stamp - updated[d] BY <3>4, <3>5
      <4>2. QED BY <4>1, <3>1, <3>2 DEF Owned
    <3>7. QED BY <3>6
  <2>2. Latest(u) \in Owned(u) BY <2>1 DEF Latest
  <2>3. QED BY <2>2, NoneFact DEF Owned
<1>7. \A c \in Owned(u) : c \in Ids /\ owner[c] = u BY DEF Owned
<1>8. CASE asked[q] # None
  <2>1. found = IF owner[asked[q]] # None THEN asked[q] ELSE None BY <1>8
  <2> HIDE DEF found, u
  <2>2. CASE owner[asked[q]] # None
    <3>1. found = asked[q] /\ found # None BY <1>8, <2>1, <2>2
    <3>2. asked[q] \in Ids BY <1>2, <1>8
    <3>3. QED BY <1>1, <1>2, <1>3, <1>4, <1>5, <1>8, <2>2, <3>1, <3>2 DEF u
  <2>3. CASE owner[asked[q]] = None
    <3>1. found = None BY <2>1, <2>3
    <3>2. asked[q] \notin Requests BY <1>2, <2>3, NoneFact
    <3>3. QED BY <1>1, <1>2, <1>3, <1>4, <1>8, <3>1, <3>2 DEF u, Begin
  <2>4. QED BY <2>2, <2>3
<1>9. CASE asked[q] = None
  <2>1. found = IF Owned(u) # {} THEN Latest(u) ELSE None BY <1>9
  <2> HIDE DEF found, u
  <2>2. CASE Owned(u) # {}
    <3>1. found = Latest(u) BY <2>1, <2>2
    <3>2. found \in Ids /\ owner[found] = u /\ found # None BY <1>6, <1>7, <2>2, <3>1
    <3>3. QED BY <1>1, <1>2, <1>3, <1>4, <1>9, <2>2, <3>1, <3>2 DEF u
  <2>3. CASE Owned(u) = {}
    <3>1. found = None /\ asked[q] \notin Requests BY <2>1, <2>3, <1>9, NoneFact
    <3>2. QED BY <1>1, <1>2, <1>3, <1>4, <1>9, <2>3, <3>1 DEF u, Begin
  <2>4. QED BY <2>2, <2>3
<1>10. QED BY <1>8, <1>9

\* A request that does not move stands where it stood.
LEMMA StandingKept ==
  ASSUME NEW p \in Requests, Standing(p), pc'[p] = pc[p], user'[p] = user[p], conv'[p] = conv[p],
         asked'[p] = asked[p], kind'[p] = kind[p],
         \A c \in Ids : owner[c] \in Users => owner'[c] \in Users
  PROVE  Standing(p)'
BY DEF Standing, Ids

\* Types and standing hold to begin with.
LEMMA BasicInit == ASSUME Init PROVE BasicInv
<1>1. LimiterTypeOK BY LimiterInitInv DEF Init, LimiterInv
<1>2. GatewayTypeOK
  <2>1. 0 \in 0 .. MaxFaults BY GatewayAssumption
  <2>2. QED BY <1>1, <2>1 DEF Init, GatewayTypeOK, PCs, Kinds, Over
<1>3. ASSUME NEW q \in Requests PROVE Standing(q)
  BY NoneFact DEF Init, Standing, Placed
<1>4. QED BY <1>2, <1>3 DEF Init, BasicInv

\* A request that arrives.
LEMMA BasicArrive ==
  ASSUME BasicInv, LimiterTypeOK', NEW q \in Requests, Arrive(q)
  PROVE  BasicInv'
<1>1. PICK u \in Users, k \in Kinds,
           c \in {None} \cup Given
                 \cup {conv[p] : p \in {r \in Requests : pc[r] = "done" /\ kind[r] # "ws"}} :
        /\ user' = [user EXCEPT ![q] = u]
        /\ kind' = [kind EXCEPT ![q] = k]
        /\ asked' = [asked EXCEPT ![q] = c]
        /\ pc' = [pc EXCEPT ![q] = IF k = "rest" THEN "check" ELSE "find"]
        /\ crowded' = IF Active \cap Of(u) # {} THEN crowded \cup {u} ELSE crowded
  BY DEF Arrive, Goto
<1>2. pc[q] = "unsent" /\ UNCHANGED <<conv, began, run, store, thread, faults>>
  BY DEF Arrive
<1>3. c \in Ids \cup {None} /\ (c \in Requests => owner[c] \in Users)
  <2>1. CASE c \in {None} \cup Given BY <2>1, NoneFact, GatewayAssumption
  <2>2. CASE \E p \in Requests : pc[p] = "done" /\ c = conv[p]
    BY <2>2 DEF BasicInv, Standing, Placed
  <2>3. QED BY <2>1, <2>2
<1>4. GatewayTypeOK'
  BY <1>1, <1>2, <1>3 DEF BasicInv, GatewayTypeOK, store, PCs, Over
<1>5. ASSUME NEW p \in Requests PROVE Standing(p)'
  <2>1. CASE p = q
    <3>1. /\ user'[q] = u /\ asked'[q] = c /\ pc'[q] \in {"check", "find"} /\ owner' = owner
      BY <1>1, <1>2 DEF BasicInv, GatewayTypeOK, store
    <3>2. QED BY <3>1, <1>3, <2>1 DEF Standing, Placed
  <2>2. CASE p # q
    <3>1. /\ user'[p] = user[p] /\ asked'[p] = asked[p] /\ pc'[p] = pc[p] /\ conv'[p] = conv[p]
          /\ kind'[p] = kind[p] /\ owner' = owner
      BY <1>1, <1>2, <2>2 DEF BasicInv, GatewayTypeOK, store
    <3>2. QED BY <3>1, StandingKept DEF BasicInv
  <2>3. QED BY <2>1, <2>2
<1>6. QED BY <1>2, <1>4, <1>5 DEF BasicInv, store

\* A step of one request that changes its place and little else.
Moves(q) ==
  /\ \E p \in PCs : pc' = [pc EXCEPT ![q] = p]
  /\ \E r \in {"none", "going", "answered", "broken"} : run' = [run EXCEPT ![q] = r]
  /\ UNCHANGED <<kind, user, asked, conv, owner, updated, messages, thread>>
  /\ pc[q] # "unsent"
  /\ pc'[q] \in Placed => pc[q] \in Placed
  /\ pc'[q] # "insert"
  /\ pc'[q] \in {"ask", "asking", "answer", "answering"} => kind[q] = "rest"
  /\ pc'[q] \in {"enqueue", "waiting"} => kind[q] # "token"
  /\ crowded' = crowded
  /\ faults' \in 0 .. MaxFaults
  /\ \/ stamp' = stamp /\ (began' = began \/ began' = [began EXCEPT ![q] = 0])
     \/ stamp' = stamp + 1 /\ began' = [began EXCEPT ![q] = stamp + 1]

\* Such a step keeps the types and the standing.
LEMMA BasicMoves ==
  ASSUME BasicInv, LimiterTypeOK', NEW q \in Requests, Moves(q)
  PROVE  BasicInv'
<1>1. stamp \in Nat /\ began \in [Requests -> Nat] BY DEF BasicInv, GatewayTypeOK
<1>2. GatewayTypeOK'
  <2>1. pc' \in [Requests -> PCs] BY DEF Moves, BasicInv, GatewayTypeOK
  <2>2. run' \in [Requests -> {"none", "going", "answered", "broken"}]
    BY DEF Moves, BasicInv, GatewayTypeOK
  <2>3. began' \in [Requests -> Nat] /\ stamp' \in Nat BY <1>1 DEF Moves
  <2>4. QED BY <2>1, <2>2, <2>3 DEF Moves, BasicInv, GatewayTypeOK
<1>3. ASSUME NEW p \in Requests PROVE Standing(p)'
  <2>1. CASE p = q
    <3>1. /\ user'[q] = user[q] /\ asked'[q] = asked[q] /\ conv'[q] = conv[q]
          /\ kind'[q] = kind[q] /\ owner' = owner
          /\ pc[q] # "unsent" /\ pc'[q] # "insert" /\ (pc'[q] \in Placed => pc[q] \in Placed)
          /\ pc'[q] \in {"ask", "asking", "answer", "answering"} => kind[q] = "rest"
          /\ pc'[q] \in {"enqueue", "waiting"} => kind[q] # "token"
      BY DEF Moves
    <3>2. QED BY <3>1, <2>1 DEF BasicInv, Standing
  <2>2. CASE p # q
    <3>1. pc'[p] = pc[p]
      BY <2>2 DEF Moves, BasicInv, GatewayTypeOK
    <3>2. /\ user'[p] = user[p] /\ asked'[p] = asked[p] /\ conv'[p] = conv[p]
          /\ kind'[p] = kind[p] /\ owner' = owner
      BY DEF Moves
    <3>3. QED BY <3>1, <3>2, StandingKept DEF BasicInv
  <2>3. QED BY <2>1, <2>2
<1>4. /\ \A p \in Requests : began'[p] <= stamp'
      /\ \A c \in Ids : updated'[c] <= stamp'
      /\ \A m \in messages' : m.at <= stamp'
  <2>1. /\ \A p \in Requests : began[p] <= stamp
        /\ \A c \in Ids : updated[c] <= stamp
        /\ \A m \in messages : m.at <= stamp
        /\ updated \in [Ids -> Nat] /\ \A m \in messages : m.at \in Nat
    BY DEF BasicInv, GatewayTypeOK, Message
  <2>2. updated' = updated /\ messages' = messages BY DEF Moves
  <2>3. CASE stamp' = stamp /\ (began' = began \/ began' = [began EXCEPT ![q] = 0])
    BY <1>1, <2>1, <2>2, <2>3
  <2>4. CASE stamp' = stamp + 1 /\ began' = [began EXCEPT ![q] = stamp + 1]
    BY <1>1, <2>1, <2>2, <2>4
  <2>5. QED BY <2>3, <2>4 DEF Moves
<1>5. QED BY <1>2, <1>3, <1>4 DEF BasicInv

\* Most steps are of that kind.
LEMMA MostStepsMove ==
  ASSUME BasicInv, NEW q \in Requests,
         \/ Check(q) \/ Busy(q) \/ BeginMessage(q) \/ Enqueue(q) \/ RunEnds(q) \/ Collect(q)
         \/ Fail(q) /\ UNCHANGED <<owner, updated, messages, thread, crowded>>
  PROVE  Moves(q)
<1>1. /\ pc \in [Requests -> PCs] /\ run \in [Requests -> {"none", "going", "answered", "broken"}]
      /\ kind \in [Requests -> Kinds] /\ faults \in 0 .. MaxFaults
  BY DEF BasicInv, GatewayTypeOK
<1>2. pc' = [pc EXCEPT ![q] = pc'[q]] /\ pc'[q] \in PCs /\ pc'[q] # "insert" /\ pc[q] # "unsent"
  <2>1. CASE Check(q) BY <2>1, <1>1 DEF Check, Goto, PCs, Over
  <2>2. CASE Busy(q) BY <2>2, <1>1 DEF Busy, Goto, PCs, Over
  <2>3. CASE BeginMessage(q) BY <2>3, <1>1 DEF BeginMessage, Goto, PCs
  <2>4. CASE Enqueue(q) BY <2>4, <1>1 DEF Enqueue, Goto, PCs
  <2>5. CASE RunEnds(q) BY <2>5, <1>1 DEF RunEnds, PCs
  <2>6. CASE Collect(q) BY <2>6, <1>1 DEF Collect, Goto, PCs, Over
  <2>7. CASE Fail(q) BY <2>7, <1>1 DEF Fail, Goto, PCs, Over, Active
  <2>8. QED BY <2>1, <2>2, <2>3, <2>4, <2>5, <2>6, <2>7
<1>3. run' = [run EXCEPT ![q] = run'[q]] /\ run'[q] \in {"none", "going", "answered", "broken"}
  <2>1. CASE Enqueue(q) BY <2>1, <1>1 DEF Enqueue
  <2>2. CASE RunEnds(q) BY <2>2, <1>1 DEF RunEnds
  <2>3. CASE Fail(q) BY <2>3, <1>1 DEF Fail
  <2>4. CASE Check(q) \/ Busy(q) \/ BeginMessage(q) \/ Collect(q)
    BY <2>4, <1>1 DEF Check, Busy, BeginMessage, Collect
  <2>5. QED BY <2>1, <2>2, <2>3, <2>4
<1>4. /\ UNCHANGED <<kind, user, asked, conv, owner, updated, messages, thread>>
      /\ crowded' = crowded /\ faults' \in 0 .. MaxFaults
  BY <1>1, GatewayAssumption
     DEF Check, Busy, BeginMessage, Enqueue, RunEnds, Collect, Fail, store, seen
<1>5. pc'[q] \in Placed => pc[q] \in Placed
  BY <1>1 DEF Check, Busy, BeginMessage, Enqueue, RunEnds, Collect, Fail, Goto, Placed
<1>6. pc'[q] \in {"ask", "asking", "answer", "answering"} => kind[q] = "rest"
  <2>1. pc[q] \in {"ask", "asking", "answer", "answering"} => kind[q] = "rest"
    BY DEF BasicInv, Standing
  <2>2. CASE Collect(q)
    <3>1. pc'[q] = IF kind[q] = "ws" THEN "done" ELSE IF run[q] = "answered" THEN "answer" ELSE "failed"
      BY <2>2, <1>1 DEF Collect, Goto
    <3>2. kind[q] # "token" BY <2>2 DEF Collect, BasicInv, Standing
    <3>3. QED BY <3>1, <3>2, <1>1 DEF Kinds
  <2>3. CASE ~Collect(q)
    BY <2>1, <2>3, <1>1 DEF Check, Busy, BeginMessage, Enqueue, RunEnds, Fail, Goto
  <2>4. QED BY <2>2, <2>3
<1>6a. pc'[q] \in {"enqueue", "waiting"} => kind[q] # "token"
  <2>1. pc[q] \in {"enqueue", "waiting", "ask", "asking"} => kind[q] # "token"
    BY DEF BasicInv, Standing
  <2>2. QED BY <2>1, <1>1 DEF Check, Busy, BeginMessage, Enqueue, RunEnds, Collect, Fail, Goto
<1>7. \/ stamp' = stamp /\ (began' = began \/ began' = [began EXCEPT ![q] = 0])
      \/ stamp' = stamp + 1 /\ began' = [began EXCEPT ![q] = stamp + 1]
  BY DEF Check, Busy, BeginMessage, Begin, Enqueue, RunEnds, Collect, Fail, store
<1>8. QED BY <1>2, <1>3, <1>4, <1>5, <1>6, <1>6a, <1>7 DEF Moves

\* Where a request goes when it has its conversation.
LEMMA AfterFacts ==
  ASSUME BasicInv, NEW q \in Requests
  PROVE  /\ AfterEnsure(q) \in {"ask", "enqueue", "done"}
         /\ AfterEnsure(q) = "ask" <=> kind[q] = "rest"
         /\ AfterEnsure(q) = "enqueue" <=> kind[q] = "ws"
         /\ AfterEnsure(q) = "done" <=> kind[q] = "token"
BY DEF BasicInv, GatewayTypeOK, Kinds, AfterEnsure

\* A request that looks for its conversation.
LEMMA BasicFind ==
  ASSUME BasicInv, LimiterTypeOK', NEW q \in Requests, Find(q)
  PROVE  BasicInv'
<1>1. /\ pc[q] = "find"
      /\ UNCHANGED <<kind, user, run, owner, updated, messages, thread, crowded, faults>>
  BY DEF Find, seen
<1>2. /\ pc' = [pc EXCEPT ![q] = pc'[q]] /\ conv' = [conv EXCEPT ![q] = conv'[q]]
      /\ conv'[q] \in Ids \cup {None}
      /\ conv'[q] # None => owner[conv'[q]] \in Users
      /\ conv'[q] # None => pc'[q] = AfterEnsure(q) /\ began' = began /\ stamp' = stamp
      /\ conv'[q] # None => asked' = [asked EXCEPT ![q] = None]
      /\ conv'[q] = None => /\ pc'[q] = "insert" /\ asked' = asked /\ asked[q] \notin Requests
                            /\ stamp' = stamp + 1 /\ began' = [began EXCEPT ![q] = stamp + 1]
      /\ user[q] \in Users
  BY FoundFacts
<1>3. pc'[q] \in PCs BY <1>2, AfterFacts DEF PCs, Over
<1>4. /\ stamp \in Nat /\ began \in [Requests -> Nat] /\ asked \in [Requests -> Ids \cup {None}]
      /\ pc \in [Requests -> PCs] /\ conv \in [Requests -> Ids \cup {None}]
  BY DEF BasicInv, GatewayTypeOK
<1>5. /\ stamp' \in Nat /\ began' \in [Requests -> Nat] /\ stamp' >= stamp
      /\ asked' \in [Requests -> Ids \cup {None}] /\ asked'[q] \in Given \cup {None}
      /\ \A p \in Requests : began'[p] <= stamp'
  <2>1. \A p \in Requests : began[p] <= stamp BY DEF BasicInv
  <2>2. CASE conv'[q] # None BY <1>2, <1>4, <2>1, <2>2
  <2>3. CASE conv'[q] = None BY <1>2, <1>4, <2>1, <2>3 DEF Ids
  <2>4. QED BY <2>2, <2>3
<1>6. GatewayTypeOK' BY <1>1, <1>2, <1>3, <1>4, <1>5 DEF BasicInv, GatewayTypeOK
<1>7. ASSUME NEW p \in Requests PROVE Standing(p)'
  <2>1. CASE p = q
    <3>1. user'[q] = user[q] /\ kind'[q] = kind[q] /\ owner' = owner BY <1>1
    <3>2. asked'[q] \notin Requests BY <1>5, NoneFact, GatewayAssumption
    <3>3. CASE conv'[q] = None
      <4>1. pc'[q] = "insert" BY <1>2, <3>3
      <4>2. QED BY <4>1, <3>1, <3>2, <1>2, <1>5, <2>1 DEF Standing, Placed
    <3>4. CASE conv'[q] # None
      <4>1. pc'[q] = AfterEnsure(q) /\ conv'[q] \in Ids /\ owner[conv'[q]] \in Users
        BY <1>2, <3>4
      <4>2. QED BY <4>1, <3>1, <3>2, <1>2, <1>5, <2>1, AfterFacts DEF Standing, Placed
    <3>5. QED BY <3>3, <3>4
  <2>2. CASE p # q
    <3>1. /\ pc'[p] = pc[p] /\ conv'[p] = conv[p] /\ asked'[p] = asked[p]
          /\ user' = user /\ kind' = kind /\ owner' = owner
      BY <1>1, <1>2, <1>4, <2>2
    <3>2. QED BY <3>1, StandingKept DEF BasicInv
  <2>3. QED BY <2>1, <2>2
<1>8. /\ \A c \in Ids : updated'[c] <= stamp'
      /\ \A m \in messages' : m.at <= stamp'
  <2>1. /\ \A c \in Ids : updated[c] <= stamp
        /\ \A m \in messages : m.at <= stamp
        /\ updated \in [Ids -> Nat] /\ \A m \in messages : m.at \in Nat
    BY DEF BasicInv, GatewayTypeOK, Message
  <2>2. QED BY <1>1, <1>4, <1>5, <2>1
<1>9. QED BY <1>5, <1>6, <1>7, <1>8 DEF BasicInv

\* A conversation is created, and the request goes on or is told of a failure.
LEMMA BasicCreate ==
  ASSUME BasicInv, LimiterTypeOK', NEW q \in Requests, pc[q] = "insert", Create(q),
         began' = [began EXCEPT ![q] = 0],
         UNCHANGED <<kind, user, run, messages, stamp, crowded>>, faults' \in 0 .. MaxFaults,
         \/ Insert(q)
         \/ pc' = [pc EXCEPT ![q] = "failed"] /\ UNCHANGED <<asked, conv>>
  PROVE  BasicInv'
<1>1. /\ NewId(q) \in Ids
      /\ owner' \in [Ids -> Users \cup {None}] /\ updated' \in [Ids -> Nat]
      /\ thread' \in [Users -> Ids \cup {None}]
      /\ owner'[NewId(q)] \in Users
      /\ \A c \in Ids : owner[c] # None => owner'[c] = owner[c]
      /\ \A c \in Ids : updated'[c] <= stamp
  BY CreateFacts
<1>2. /\ pc \in [Requests -> PCs] /\ conv \in [Requests -> Ids \cup {None}] /\ stamp \in Nat
      /\ began \in [Requests -> Nat] /\ asked \in [Requests -> Ids \cup {None}]
  BY DEF BasicInv, GatewayTypeOK
<1>3. /\ pc' = [pc EXCEPT ![q] = pc'[q]]
      /\ conv' = [conv EXCEPT ![q] = conv'[q]]
      /\ asked' = [asked EXCEPT ![q] = asked'[q]]
      /\ \/ /\ pc'[q] = AfterEnsure(q) /\ conv'[q] = NewId(q) /\ asked'[q] = None
         \/ /\ pc'[q] = "failed" /\ conv'[q] = conv[q] /\ asked'[q] = asked[q]
  BY <1>2 DEF Insert, Goto
<1>4. pc'[q] \in PCs /\ conv'[q] \in Ids \cup {None} /\ asked'[q] \in Ids \cup {None}
  BY <1>1, <1>2, <1>3, AfterFacts DEF PCs, Over
<1>5. GatewayTypeOK' BY <1>1, <1>2, <1>3, <1>4 DEF BasicInv, GatewayTypeOK
<1>6. ASSUME NEW p \in Requests PROVE Standing(p)'
  <2>1. CASE p = q
    <3>1. user[q] \in Users /\ asked[q] \in Given \cup {None} BY DEF BasicInv, Standing
    <3>2. asked'[q] \notin Requests BY <1>3, <3>1, NoneFact, GatewayAssumption
    <3>3. QED BY <1>1, <1>3, <2>1, <3>1, <3>2, AfterFacts DEF Standing, Placed
  <2>2. CASE p # q
    <3>1. /\ pc'[p] = pc[p] /\ conv'[p] = conv[p] /\ asked'[p] = asked[p]
          /\ user' = user /\ kind' = kind
      BY <1>2, <1>3, <2>2
    <3>2. \A c \in Ids : owner[c] \in Users => owner'[c] \in Users BY <1>1, NoneFact
    <3>3. QED BY <3>1, <3>2, StandingKept DEF BasicInv
  <2>3. QED BY <2>1, <2>2
<1>7. \A p \in Requests : began'[p] <= stamp'
  BY <1>2 DEF BasicInv
<1>8. QED BY <1>1, <1>5, <1>6, <1>7 DEF BasicInv

\* A message is stored, and the request goes on or is told of a failure.
LEMMA BasicWrite ==
  ASSUME BasicInv, LimiterTypeOK', NEW q \in Requests, pc[q] \in {"asking", "answering"},
         NEW role \in Roles, Write(q, role), began' = [began EXCEPT ![q] = 0],
         UNCHANGED <<kind, user, asked, conv, run, owner, stamp>>, faults' \in 0 .. MaxFaults,
         NEW p1 \in {"enqueue", "done", "failed"}, pc' = [pc EXCEPT ![q] = p1]
  PROVE  BasicInv'
<1>1. /\ messages' \in SUBSET Message /\ updated' \in [Ids -> Nat]
      /\ thread' \in [Users -> Ids \cup {None}] /\ crowded' \in SUBSET Users
      /\ \A c \in Ids : updated'[c] <= stamp
      /\ \A m \in messages' : m.at <= stamp
  BY WriteFacts
<1>2. pc \in [Requests -> PCs] /\ began \in [Requests -> Nat] /\ stamp \in Nat
  BY DEF BasicInv, GatewayTypeOK
<1>3. pc' \in [Requests -> PCs] /\ pc'[q] = p1 BY <1>2 DEF PCs, Over
<1>4. began' \in [Requests -> Nat] /\ \A p \in Requests : began'[p] <= stamp
  BY <1>2 DEF BasicInv
<1>5. GatewayTypeOK' BY <1>1, <1>3, <1>4 DEF BasicInv, GatewayTypeOK
<1>6. ASSUME NEW p \in Requests PROVE Standing(p)'
  <2>1. CASE p = q
    <3>1. Standing(q) BY DEF BasicInv
    <3>2. kind[q] = "rest" BY <3>1 DEF Standing
    <3>3. QED BY <1>3, <2>1, <3>1, <3>2 DEF Standing, Placed
  <2>2. CASE p # q
    <3>1. pc'[p] = pc[p] BY <1>2, <2>2
    <3>2. QED BY <3>1, StandingKept DEF BasicInv
  <2>3. QED BY <2>1, <2>2
<1>7. QED BY <1>1, <1>4, <1>5, <1>6 DEF BasicInv

\* The ways in which a request can fail.
LEMMA FailCases ==
  ASSUME BasicInv, NEW q \in Requests, Fail(q)
  PROVE  /\ pc' = [pc EXCEPT ![q] = "failed"] /\ began' = [began EXCEPT ![q] = 0]
         /\ UNCHANGED <<kind, user, asked, conv, messages>> \/ pc[q] \in {"asking", "answering"}
         /\ UNCHANGED <<kind, user, asked, conv, stamp>> /\ faults' \in 0 .. MaxFaults
         /\ \/ UNCHANGED <<owner, updated, messages, thread, crowded>>
            \/ pc[q] = "insert" /\ Create(q) /\ UNCHANGED <<messages, crowded, run>>
            \/ /\ UNCHANGED <<owner, run>>
               /\ \/ pc[q] = "asking" /\ Write(q, "user")
                  \/ pc[q] = "answering" /\ Write(q, "assistant")
<1>1. faults \in 0 .. MaxFaults /\ MaxFaults \in Nat
  BY GatewayAssumption DEF BasicInv, GatewayTypeOK
<1>2. faults' \in 0 .. MaxFaults BY <1>1 DEF Fail
<1>3. QED BY <1>2 DEF Fail, Goto

\* The limiter's part of a step.
LEMMA LimiterStep ==
  ASSUME LimiterInv, BasicInv, [Next]_vars
  PROVE  LimiterInv'
<1>1. ASSUME NEW q \in Requests, Check(q) PROVE LimiterInv'
  <2>1. user[q] \in Users BY <1>1 DEF BasicInv, Standing, Check
  <2>2. QED BY <1>1, <2>1, AllowKeeps, DenyKeeps DEF Check
<1>2. ASSUME NEW q \in Requests,
             \/ Arrive(q) \/ Busy(q) \/ Find(q) \/ Insert(q) \/ BeginMessage(q)
             \/ CommitMessage(q) \/ Enqueue(q) \/ RunEnds(q) \/ Collect(q) \/ Fail(q)
      PROVE LimiterInv'
  <2>1. UNCHANGED limiterVars
    BY <1>2 DEF Arrive, Busy, Find, Insert, BeginMessage, CommitMessage, Enqueue, RunEnds,
                Collect, Fail
  <2>2. QED BY <2>1, LimiterStutters
<1>3. CASE Time BY <1>3, TickKeeps DEF Time
<1>4. CASE UNCHANGED vars BY <1>4, LimiterStutters DEF vars
<1>5. QED BY <1>1, <1>2, <1>3, <1>4 DEF Next

\* Types and standing are kept by every step.
LEMMA BasicStep ==
  ASSUME BasicInv, LimiterTypeOK', [Next]_vars
  PROVE  BasicInv'
<1>1. ASSUME NEW q \in Requests, Insert(q) PROVE BasicInv'
  <2>1. /\ pc[q] = "insert" /\ Create(q) /\ began' = [began EXCEPT ![q] = 0]
        /\ UNCHANGED <<kind, user, run, messages, stamp, crowded, faults>>
    BY <1>1 DEF Insert
  <2>2. faults' \in 0 .. MaxFaults BY <2>1 DEF BasicInv, GatewayTypeOK
  <2>3. QED BY <1>1, <2>1, <2>2, BasicCreate
<1>2. ASSUME NEW q \in Requests, CommitMessage(q) PROVE BasicInv'
  <2>1. /\ began' = [began EXCEPT ![q] = 0]
        /\ UNCHANGED <<kind, user, asked, conv, run, owner, stamp, faults>>
    BY <1>2 DEF CommitMessage
  <2>2. faults' \in 0 .. MaxFaults BY <2>1 DEF BasicInv, GatewayTypeOK
  <2>3. CASE pc[q] = "asking" /\ Write(q, "user") /\ Goto(q, "enqueue")
    <3>1. "user" \in Roles /\ pc' = [pc EXCEPT ![q] = "enqueue"] BY <2>3 DEF Roles, Goto
    <3>2. QED BY <2>1, <2>2, <2>3, <3>1, BasicWrite
  <2>4. CASE pc[q] = "answering" /\ Write(q, "assistant") /\ Goto(q, "done")
    <3>1. "assistant" \in Roles /\ pc' = [pc EXCEPT ![q] = "done"] BY <2>4 DEF Roles, Goto
    <3>2. QED BY <2>1, <2>2, <2>4, <3>1, BasicWrite
  <2>5. QED BY <1>2, <2>3, <2>4 DEF CommitMessage
<1>3. ASSUME NEW q \in Requests, Fail(q) PROVE BasicInv'
  <2>1. /\ pc' = [pc EXCEPT ![q] = "failed"] /\ began' = [began EXCEPT ![q] = 0]
        /\ UNCHANGED <<kind, user, asked, conv, stamp>> /\ faults' \in 0 .. MaxFaults
    BY <1>3, FailCases
  <2>2. CASE UNCHANGED <<owner, updated, messages, thread, crowded>>
    BY <1>3, <2>2, MostStepsMove, BasicMoves
  <2>3. CASE pc[q] = "insert" /\ Create(q) /\ UNCHANGED <<messages, crowded, run>>
    BY <2>1, <2>3, BasicCreate
  <2>4. CASE UNCHANGED <<owner, run>> /\ pc[q] = "asking" /\ Write(q, "user")
    <3>1. "user" \in Roles BY DEF Roles
    <3>2. QED BY <2>1, <2>4, <3>1, BasicWrite
  <2>5. CASE UNCHANGED <<owner, run>> /\ pc[q] = "answering" /\ Write(q, "assistant")
    <3>1. "assistant" \in Roles BY DEF Roles
    <3>2. QED BY <2>1, <2>5, <3>1, BasicWrite
  <2>6. QED BY <1>3, <2>2, <2>3, <2>4, <2>5, FailCases
<1>4. ASSUME NEW q \in Requests,
             Check(q) \/ Busy(q) \/ BeginMessage(q) \/ Enqueue(q) \/ RunEnds(q) \/ Collect(q)
      PROVE BasicInv'
  BY <1>4, MostStepsMove, BasicMoves
<1>5. CASE Time \/ UNCHANGED vars
  <2>1. UNCHANGED <<request, store, seen>> BY <1>5 DEF Time, vars
  <2>2. GatewayTypeOK' BY <2>1 DEF BasicInv, GatewayTypeOK, request, store, seen
  <2>3. QED BY <2>1, <2>2 DEF BasicInv, Standing, request, store
<1>6. QED BY <1>1, <1>2, <1>3, <1>4, <1>5, BasicArrive, BasicFind DEF Next

-----------------------------------------------------------------------------
\* The history.

\* What the store holds of a request, by where it is: nothing before its question
\* is committed, nothing but its question until its answer is; and its answer only
\* if there was one, after the question.
Story(q) ==
  /\ kind[q] # "rest" \/ pc[q] \in {"unsent", "check", "find", "insert", "ask", "asking"}
       => \A m \in messages : m.req # q
  /\ pc[q] \in {"enqueue", "waiting", "answer", "answering"}
       => /\ \A m \in messages : m.req = q => m.role = "user"
          /\ kind[q] = "rest" =>
               \E m \in messages : m.req = q /\ m.role = "user" /\ m.conv = conv[q]
  /\ pc[q] \in {"answer", "answering"} => run[q] = "answered"
  /\ pc[q] = "answering" => \A m \in messages : m.req = q => m.at < began[q]
  /\ pc[q] = "done" /\ kind[q] = "rest" =>
       \E m \in messages : m.req = q /\ m.role = "assistant" /\ m.conv = conv[q]
  /\ \A m \in messages : m.req = q /\ m.role = "assistant" =>
       /\ run[q] = "answered"
       /\ \E n \in messages : n.role = "user" /\ n.req = q /\ n.conv = m.conv /\ n.at < m.at

SaidOnce == \A m, n \in messages : m.req = n.req /\ m.role = n.role => m = n

HistoryInv == SaidOnce /\ \A q \in Requests : Story(q)

\* A request that does not move keeps its story when others store messages.
LEMMA StoryKept ==
  ASSUME NEW p \in Requests, Story(p), pc'[p] = pc[p], kind'[p] = kind[p], run'[p] = run[p],
         conv'[p] = conv[p], began'[p] = began[p], messages \subseteq messages',
         \A m \in messages' : m.req = p => m \in messages
  PROVE  Story(p)'
<1>1. ASSUME kind'[p] # "rest" \/ pc'[p] \in {"unsent", "check", "find", "insert", "ask", "asking"},
             NEW m \in messages'
      PROVE m.req # p
  BY <1>1 DEF Story
<1>2. ASSUME pc'[p] \in {"enqueue", "waiting", "answer", "answering"}
      PROVE  /\ \A m \in messages' : m.req = p => m.role = "user"
             /\ kind'[p] = "rest" =>
                  \E m \in messages' : m.req = p /\ m.role = "user" /\ m.conv = conv'[p]
  BY <1>2 DEF Story
<1>3. pc'[p] \in {"answer", "answering"} => run'[p] = "answered" BY DEF Story
<1>4. ASSUME pc'[p] = "answering", NEW m \in messages', m.req = p PROVE m.at < began'[p]
  BY <1>4 DEF Story
<1>5. pc'[p] = "done" /\ kind'[p] = "rest" =>
        \E m \in messages' : m.req = p /\ m.role = "assistant" /\ m.conv = conv'[p]
  BY DEF Story
<1>6. ASSUME NEW m \in messages', m.req = p, m.role = "assistant"
      PROVE  /\ run'[p] = "answered"
             /\ \E n \in messages' : n.role = "user" /\ n.req = p /\ n.conv = m.conv /\ n.at < m.at
  BY <1>6 DEF Story
<1>7. QED BY <1>1, <1>2, <1>3, <1>4, <1>5, <1>6 DEF Story

\* The history is empty to begin with.
LEMMA HistoryInit == ASSUME Init PROVE HistoryInv
BY DEF Init, HistoryInv, SaidOnce, Story

\* Steps that store nothing.
LEMMA HistoryQuiet ==
  ASSUME BasicInv, HistoryInv, NEW q \in Requests, messages' = messages,
         \/ Arrive(q) \/ Check(q) \/ Busy(q) \/ Find(q) \/ Insert(q)
         \/ BeginMessage(q) \/ Enqueue(q) \/ RunEnds(q) \/ Collect(q) \/ Fail(q)
  PROVE  HistoryInv'
<1>1. /\ pc \in [Requests -> PCs] /\ run \in [Requests -> {"none", "going", "answered", "broken"}]
      /\ kind \in [Requests -> Kinds] /\ conv \in [Requests -> Ids \cup {None}]
      /\ began \in [Requests -> Nat] /\ stamp \in Nat
      /\ \A m \in messages : m.at \in Nat /\ m.at <= stamp
  BY DEF BasicInv, GatewayTypeOK, Message
<1>2. Story(q) /\ Standing(q) BY DEF HistoryInv, BasicInv
<1>3. Story(q)'
  <2>1. CASE Arrive(q)
    <3>1. /\ pc[q] = "unsent" /\ pc'[q] \in {"check", "find"}
      BY <2>1, <1>1 DEF Arrive, Goto
    <3>2. QED BY <3>1, <1>2 DEF Story
  <2>2. CASE Check(q) \/ Busy(q)
    <3>1. /\ pc[q] \in {"check", "find"} /\ pc'[q] \in {"find", "refused"}
      BY <2>2, <1>1 DEF Check, Busy, Goto
    <3>2. QED BY <3>1, <1>2 DEF Story
  <2>3. CASE Find(q) \/ Insert(q)
    <3>1. /\ pc[q] \in {"find", "insert"} /\ kind' = kind
          /\ pc'[q] = "insert" \/ pc'[q] = AfterEnsure(q)
      <4>1. CASE Find(q) BY <4>1, FoundFacts DEF Find
      <4>2. CASE Insert(q) BY <4>2, <1>1 DEF Insert, Goto
      <4>3. QED BY <2>3, <4>1, <4>2
    <3>2. \A m \in messages : m.req # q BY <3>1, <1>2 DEF Story
    <3>3. QED BY <3>1, <3>2, AfterFacts DEF Story
  <2>4. CASE BeginMessage(q)
    <3>1. /\ pc[q] \in {"ask", "answer"} /\ began'[q] = stamp + 1
          /\ pc'[q] = IF pc[q] = "ask" THEN "asking" ELSE "answering"
          /\ UNCHANGED <<kind, conv, run>>
      BY <2>4, <1>1 DEF BeginMessage, Begin, Goto
    <3>2. \A m \in messages : m.at < stamp + 1 BY <1>1
    <3>3. CASE pc[q] = "ask" BY <3>1, <3>3, <1>2 DEF Story
    <3>4. CASE pc[q] = "answer" BY <3>1, <3>2, <3>4, <1>2 DEF Story
    <3>5. QED BY <3>1, <3>3, <3>4
  <2>5. CASE Enqueue(q) \/ RunEnds(q)
    <3>1. /\ pc[q] \in {"enqueue", "waiting"} /\ pc'[q] = "waiting" /\ UNCHANGED <<kind, conv, began>>
      BY <2>5, <1>1 DEF Enqueue, RunEnds, Goto
    <3>2. \A m \in messages : m.req = q => m.role # "assistant" BY <3>1, <1>2 DEF Story
    <3>3. QED BY <3>1, <3>2, <1>2 DEF Story
  <2>6. CASE Collect(q)
    <3>1. /\ pc[q] = "waiting" /\ UNCHANGED <<kind, conv, began, run>>
          /\ pc'[q] = IF kind[q] = "ws" THEN "done" ELSE IF run[q] = "answered" THEN "answer" ELSE "failed"
      BY <2>6, <1>1 DEF Collect, Goto
    <3>2. CASE pc'[q] = "answer" BY <3>1, <3>2, <1>2 DEF Story
    <3>3. CASE pc'[q] # "answer" BY <3>1, <3>3, <1>2 DEF Story
    <3>4. QED BY <3>2, <3>3
  <2>7. CASE Fail(q)
    <3>1. /\ pc'[q] = "failed" /\ UNCHANGED <<kind, conv>>
          /\ run' = run \/ pc[q] = "enqueue"
      BY <2>7, <1>1 DEF Fail, Goto
    <3>2. pc[q] = "enqueue" => \A m \in messages : m.req = q => m.role # "assistant"
      BY <1>2 DEF Story
    <3>3. QED BY <3>1, <3>2, <1>2 DEF Story
  <2>8. QED BY <2>1, <2>2, <2>3, <2>4, <2>5, <2>6, <2>7
<1>4. ASSUME NEW p \in Requests, p # q PROVE Story(p)'
  <2>1. pc'[p] = pc[p]
    BY <1>1, <1>4, FoundFacts DEF Arrive, Check, Busy, Insert, BeginMessage, Enqueue, RunEnds, Collect,
       Fail, Goto
  <2>2. /\ kind'[p] = kind[p] /\ run'[p] = run[p]
    BY <1>1, <1>4 DEF Arrive, Check, Busy, Find, Insert, BeginMessage, Enqueue, RunEnds, Collect, Fail
  <2>3. conv'[p] = conv[p]
    BY <1>1, <1>4, FoundFacts
       DEF Arrive, Check, Busy, Insert, BeginMessage, Enqueue, RunEnds, Collect, Fail
  <2>4. began'[p] = began[p]
    BY <1>1, <1>4 DEF Arrive, Check, Busy, Find, Insert, BeginMessage, Begin, Enqueue, RunEnds,
       Collect, Fail
  <2>5. QED BY <2>1, <2>2, <2>3, <2>4, StoryKept DEF HistoryInv
<1>5. QED BY <1>3, <1>4 DEF HistoryInv, SaidOnce

\* A question or an answer is stored, and the caller is told so or of a failure.
LEMMA HistoryWrite ==
  ASSUME BasicInv, HistoryInv, NEW q \in Requests, UNCHANGED <<kind, conv, run>>,
         began' = [began EXCEPT ![q] = 0],
         NEW p1 \in {"enqueue", "done", "failed"}, pc' = [pc EXCEPT ![q] = p1],
         \/ pc[q] = "asking" /\ Write(q, "user") /\ p1 # "done"
         \/ pc[q] = "answering" /\ Write(q, "assistant") /\ p1 # "enqueue"
  PROVE  HistoryInv'
<1>1. /\ pc \in [Requests -> PCs] /\ began \in [Requests -> Nat]
      /\ Story(q) /\ Standing(q) /\ SaidOnce
  BY DEF BasicInv, GatewayTypeOK, HistoryInv
<1>2. pc'[q] = p1 /\ kind[q] = "rest" BY <1>1 DEF Standing
<1>3. CASE pc[q] = "asking" /\ Write(q, "user") /\ p1 # "done"
  <2> DEFINE new == [conv |-> conv[q], req |-> q, role |-> "user", at |-> began[q]]
  <2>1. messages' = messages \cup {new} BY <1>3 DEF Write
  <2>2. new.req = q /\ new.role = "user" /\ new.conv = conv[q] OBVIOUS
  <2> HIDE DEF new
  <2>3. \A m \in messages : m.req # q BY <1>1, <1>3 DEF Story
  <2>4. Story(q)' BY <1>2, <1>3, <2>1, <2>2, <2>3 DEF Story
  <2>5. SaidOnce' BY <1>1, <2>1, <2>2, <2>3 DEF SaidOnce
  <2>6. ASSUME NEW p \in Requests, p # q PROVE Story(p)'
    <3>1. pc'[p] = pc[p] /\ began'[p] = began[p] BY <1>1, <2>6
    <3>2. \A m \in messages' : m.req = p => m \in messages BY <2>1, <2>2, <2>6
    <3>3. QED BY <3>1, <3>2, <2>1, StoryKept DEF HistoryInv
  <2>7. QED BY <2>4, <2>5, <2>6 DEF HistoryInv
<1>4. CASE pc[q] = "answering" /\ Write(q, "assistant") /\ p1 # "enqueue"
  <2> DEFINE new == [conv |-> conv[q], req |-> q, role |-> "assistant", at |-> began[q]]
  <2>1. messages' = messages \cup {new} BY <1>4 DEF Write
  <2>2. /\ new.req = q /\ new.role = "assistant" /\ new.conv = conv[q] /\ new.at = began[q]
        /\ new.role # "user"
    OBVIOUS
  <2> HIDE DEF new
  <2>3. /\ \A m \in messages : m.req = q => m.role = "user" /\ m.at < began[q]
        /\ run[q] = "answered"
    BY <1>1, <1>4 DEF Story
  <2>4. PICK n \in messages : n.req = q /\ n.role = "user" /\ n.conv = conv[q]
    BY <1>1, <1>2, <1>4 DEF Story
  <2>5. ASSUME NEW m \in messages', m.req = q, m.role = "assistant"
        PROVE  /\ run'[q] = "answered"
               /\ \E k \in messages' : k.role = "user" /\ k.req = q /\ k.conv = m.conv /\ k.at < m.at
    <3>1. m = new BY <2>1, <2>3, <2>5
    <3>2. n \in messages' /\ n.at < new.at BY <2>1, <2>2, <2>3, <2>4
    <3>3. QED BY <2>2, <2>3, <2>4, <3>1, <3>2
  <2>6. Story(q)' BY <1>2, <1>4, <2>1, <2>2, <2>5 DEF Story
  <2>7. SaidOnce' BY <1>1, <2>1, <2>2, <2>3 DEF SaidOnce
  <2>8. ASSUME NEW p \in Requests, p # q PROVE Story(p)'
    <3>1. pc'[p] = pc[p] /\ began'[p] = began[p] BY <1>1, <2>8
    <3>2. \A m \in messages' : m.req = p => m \in messages BY <2>1, <2>2, <2>8
    <3>3. QED BY <3>1, <3>2, <2>1, StoryKept DEF HistoryInv
  <2>9. QED BY <2>6, <2>7, <2>8 DEF HistoryInv
<1>5. QED BY <1>3, <1>4

\* Every step keeps the history true.
LEMMA HistoryStep ==
  ASSUME BasicInv, HistoryInv, [Next]_vars
  PROVE  HistoryInv'
<1>1. ASSUME NEW q \in Requests, CommitMessage(q) PROVE HistoryInv'
  <2>1. began' = [began EXCEPT ![q] = 0] /\ UNCHANGED <<kind, conv, run>>
    BY <1>1 DEF CommitMessage
  <2>2. \/ pc[q] = "asking" /\ Write(q, "user") /\ pc' = [pc EXCEPT ![q] = "enqueue"]
        \/ pc[q] = "answering" /\ Write(q, "assistant") /\ pc' = [pc EXCEPT ![q] = "done"]
    BY <1>1 DEF CommitMessage, Goto
  <2>3. CASE pc[q] = "asking" /\ Write(q, "user") /\ pc' = [pc EXCEPT ![q] = "enqueue"]
    BY <2>1, <2>3, HistoryWrite
  <2>4. CASE pc[q] = "answering" /\ Write(q, "assistant") /\ pc' = [pc EXCEPT ![q] = "done"]
    BY <2>1, <2>4, HistoryWrite
  <2>5. QED BY <2>2, <2>3, <2>4
<1>2. ASSUME NEW q \in Requests, Fail(q) PROVE HistoryInv'
  <2>1. /\ pc' = [pc EXCEPT ![q] = "failed"] /\ began' = [began EXCEPT ![q] = 0]
        /\ UNCHANGED <<kind, conv>>
    BY <1>2, FailCases
  <2>2. CASE messages' = messages BY <1>2, <2>2, HistoryQuiet
  <2>3. CASE run' = run /\ pc[q] = "asking" /\ Write(q, "user") BY <2>1, <2>3, HistoryWrite
  <2>4. CASE run' = run /\ pc[q] = "answering" /\ Write(q, "assistant") BY <2>1, <2>4, HistoryWrite
  <2>5. QED BY <1>2, <2>2, <2>3, <2>4, FailCases
<1>3. ASSUME NEW q \in Requests,
             \/ Arrive(q) \/ Check(q) \/ Busy(q) \/ Find(q) \/ Insert(q)
             \/ BeginMessage(q) \/ Enqueue(q) \/ RunEnds(q) \/ Collect(q)
      PROVE HistoryInv'
  <2>1. messages' = messages
    BY <1>3 DEF Arrive, Check, Busy, Find, Insert, BeginMessage, Enqueue, RunEnds, Collect, store
  <2>2. QED BY <1>3, <2>1, HistoryQuiet
<1>4. CASE Time \/ UNCHANGED vars
  <2>1. UNCHANGED <<request, store>> BY <1>4 DEF Time, vars
  <2>2. QED BY <2>1 DEF HistoryInv, SaidOnce, Story, request, store
<1>5. QED BY <1>1, <1>2, <1>3, <1>4 DEF Next

\* The invariant says what is promised of the history.
LEMMA HistoryHolds == ASSUME BasicInv, HistoryInv PROVE HistoryIsTrue
<1>1. \A m \in messages : m.req \in Requests BY DEF BasicInv, GatewayTypeOK, Message
<1>2. QED BY <1>1 DEF HistoryInv, SaidOnce, Story, HistoryIsTrue

-----------------------------------------------------------------------------
\* Which conversations are started.

\* What every step does to the requests in progress, to those that are about to
\* start a conversation, and to the conversations.
LEMMA StepFacts ==
  ASSUME BasicInv, [Next]_vars
  PROVE  /\ Active' \subseteq Active \/ \E q \in Requests : Arrive(q)
         /\ \A p \in Requests : pc'[p] = "insert" =>
              \/ pc[p] = "insert" /\ asked'[p] = asked[p] /\ user'[p] = user[p]
              \/ pc[p] = "find" /\ asked'[p] = asked[p] /\ user'[p] = user[p]
                 /\ (asked[p] = None => Owned(user[p]) = {})
         /\ owner' = owner \/ \E q \in Requests : pc[q] = "insert" /\ Create(q)
<1>1. /\ pc \in [Requests -> PCs] /\ asked \in [Requests -> Ids \cup {None}]
      /\ kind \in [Requests -> Kinds]
  BY DEF BasicInv, GatewayTypeOK
<1> DEFINE Goal ==
      /\ Active' \subseteq Active
      /\ \A p \in Requests : pc'[p] = "insert" =>
           \/ pc[p] = "insert" /\ asked'[p] = asked[p] /\ user'[p] = user[p]
           \/ pc[p] = "find" /\ asked'[p] = asked[p] /\ user'[p] = user[p]
              /\ (asked[p] = None => Owned(user[p]) = {})
      /\ owner' = owner \/ \E q \in Requests : pc[q] = "insert" /\ Create(q)
<1>2. ASSUME NEW q \in Requests, Arrive(q)
      PROVE  /\ owner' = owner
             /\ \A p \in Requests : pc'[p] = "insert" =>
                  pc[p] = "insert" /\ asked'[p] = asked[p] /\ user'[p] = user[p]
  <2>1. pc[q] = "unsent" /\ owner' = owner /\ pc'[q] # "insert" BY <1>1, <1>2 DEF Arrive, Goto, store
  <2>2. ASSUME NEW p \in Requests, p # q
        PROVE  pc'[p] = pc[p] /\ asked'[p] = asked[p] /\ user'[p] = user[p]
    BY <1>1, <1>2, <2>2 DEF Arrive, Goto, BasicInv, GatewayTypeOK
  <2>3. QED BY <2>1, <2>2
<1>3. ASSUME NEW q \in Requests,
             \/ Check(q) \/ Busy(q) \/ BeginMessage(q) \/ CommitMessage(q) \/ Enqueue(q)
             \/ RunEnds(q) \/ Collect(q)
      PROVE Goal
  <2>1. /\ pc[q] \notin Over \cup {"unsent"} /\ UNCHANGED <<user, asked, owner>>
    BY <1>3 DEF Check, Busy, BeginMessage, CommitMessage, Enqueue, RunEnds, Collect, Over, store
  <2>2. \A p \in Requests \ {q} : pc'[p] = pc[p]
    BY <1>1, <1>3 DEF Check, Busy, BeginMessage, CommitMessage, Enqueue, RunEnds, Collect, Goto
  <2>3. pc'[q] # "insert"
    BY <1>1, <1>3 DEF Check, Busy, BeginMessage, CommitMessage, Enqueue, RunEnds, Collect, Goto
  <2>4. Active' \subseteq Active BY <2>1, <2>2 DEF Active
  <2>5. QED BY <2>1, <2>2, <2>3, <2>4
<1>4. ASSUME NEW q \in Requests, Fail(q) PROVE Goal
  <2>1. /\ q \in Active /\ pc' = [pc EXCEPT ![q] = "failed"] /\ UNCHANGED <<user, asked>>
        /\ owner' = owner \/ (pc[q] = "insert" /\ Create(q))
    BY <1>4, FailCases DEF Fail
  <2>2. Active' \subseteq Active BY <1>1, <2>1 DEF Active, Over
  <2>3. QED BY <1>1, <2>1, <2>2
<1>5. ASSUME NEW q \in Requests, Insert(q) PROVE Goal
  <2>1. /\ pc[q] = "insert" /\ Create(q) /\ user' = user
        /\ pc' = [pc EXCEPT ![q] = AfterEnsure(q)] /\ asked' = [asked EXCEPT ![q] = None]
    BY <1>5 DEF Insert, Goto
  <2>2. pc'[q] # "insert" BY <1>1, <2>1, AfterFacts
  <2>3. Active' \subseteq Active BY <1>1, <2>1 DEF Active, Over
  <2>4. QED BY <1>1, <2>1, <2>2, <2>3
<1>6. ASSUME NEW q \in Requests, Find(q) PROVE Goal
  <2>1. /\ pc[q] = "find" /\ UNCHANGED <<user, owner>> BY <1>6 DEF Find
  <2>2. pc'[q] = "insert" => asked' = asked /\ (asked[q] = None => Owned(user[q]) = {})
    BY <1>6, FoundFacts, AfterFacts
  <2>3. \A p \in Requests \ {q} : pc'[p] = pc[p] /\ asked'[p] = asked[p]
    <3>1. pc' = [pc EXCEPT ![q] = pc'[q]] BY <1>6, FoundFacts
    <3>2. asked' = asked \/ asked' = [asked EXCEPT ![q] = None] BY <1>6, FoundFacts
    <3>3. QED BY <1>1, <3>1, <3>2
  <2>4. Active' \subseteq Active BY <2>1, <2>3 DEF Active, Over
  <2>5. QED BY <2>1, <2>2, <2>3, <2>4
<1>7. ASSUME Time \/ UNCHANGED vars PROVE Goal
  <2>1. UNCHANGED <<pc, user, asked, owner>> BY <1>7 DEF Time, vars, request, store
  <2>2. QED BY <2>1 DEF Active
<1>8. QED BY <1>2, <1>3, <1>4, <1>5, <1>6, <1>7 DEF Next

\* The requests that started a conversation of a user's or are about to.
Starters(u) ==
  {q \in Requests : \/ owner[q] = u
                    \/ pc[q] = "insert" /\ asked[q] = None /\ user[q] = u}

StartsInv ==
  /\ Cardinality(Active) <= Slots
  /\ \A u \in Users : Cardinality(Starters(u)) <= Slots

\* Sets of requests are finite.
LEMMA RequestsFinite ==
  ASSUME NEW S \in SUBSET Requests
  PROVE  IsFiniteSet(S) /\ Cardinality(S) \in Nat
<1>1. IsFiniteSet(S) BY GatewayAssumption, FS_Subset
<1>2. QED BY <1>1, FS_CardinalityType

\* A part of a set is no larger.
LEMMA PartOfRequests ==
  ASSUME NEW T \in SUBSET Requests, NEW S \in SUBSET T
  PROVE  Cardinality(S) <= Cardinality(T)
<1>1. IsFiniteSet(T) BY RequestsFinite
<1>2. QED BY <1>1, FS_Subset

\* Nothing is started to begin with.
LEMMA StartsInit == ASSUME Init PROVE StartsInv
<1>1. Slots \in Nat BY GatewayAssumption
<1>2. Active = {} BY DEF Init, Active
<1>3. \A u \in Users : Starters(u) = {}
  <2> SUFFICES ASSUME NEW u \in Users, NEW q \in Requests, q \in Starters(u) PROVE FALSE
    BY DEF Starters
  <2>1. pc[q] = "unsent" /\ owner[q] = None BY NoneFact DEF Init
  <2>2. QED BY <2>1, NoneFact DEF Starters
<1>4. QED BY <1>1, <1>2, <1>3, FS_EmptySet DEF StartsInv

\* No more requests are in progress than there is room for, and a user that has a
\* conversation gets no new starters.
LEMMA StartsStep ==
  ASSUME BasicInv, StartsInv, [Next]_vars
  PROVE  StartsInv'
<1>1. Slots \in Nat BY GatewayAssumption
<1>2. pc \in [Requests -> PCs] /\ owner \in [Ids -> Users \cup {None}]
  BY DEF BasicInv, GatewayTypeOK
<1>3. Cardinality(Active') <= Slots
  <2>1. CASE Active' \subseteq Active
    <3>1. Active \in SUBSET Requests BY DEF Active
    <3>2. Cardinality(Active') <= Cardinality(Active) BY <2>1, <3>1, PartOfRequests
    <3>3. Active' \in SUBSET Requests BY <2>1, <3>1
    <3>4. QED BY <1>1, <3>1, <3>2, <3>3, RequestsFinite DEF StartsInv
  <2>2. ASSUME NEW q \in Requests, Arrive(q) PROVE Cardinality(Active') <= Slots
    <3>1. Cardinality(Active) < Slots /\ Active \in SUBSET Requests BY <2>2 DEF Arrive, Active
    <3>2. Active' \subseteq Active \cup {q}
      <4>1. \A p \in Requests \ {q} : pc'[p] = pc[p] BY <1>2, <2>2 DEF Arrive, Goto
      <4>2. QED BY <4>1 DEF Active
    <3>3. IsFiniteSet(Active) /\ Cardinality(Active) \in Nat BY <3>1, RequestsFinite
    <3>4. /\ Cardinality(Active \cup {q}) <= Cardinality(Active) + 1
          /\ Active \cup {q} \in SUBSET Requests
      <4>1. Cardinality(Active \cup {q}) =
              IF q \in Active THEN Cardinality(Active) ELSE Cardinality(Active) + 1
        BY <3>3, FS_AddElement
      <4>2. QED BY <3>1, <3>3, <4>1
    <3>5. Cardinality(Active') <= Cardinality(Active \cup {q}) BY <3>2, <3>4, PartOfRequests
    <3>6. Active' \in SUBSET Requests BY <3>2, <3>4
    <3>7. QED BY <1>1, <3>1, <3>3, <3>4, <3>5, <3>6, RequestsFinite
  <2>3. QED BY <2>1, <2>2, StepFacts
<1>4. ASSUME NEW u \in Users PROVE Cardinality(Starters(u)') <= Slots
  <2>1. ASSUME NEW p \in Requests, p \in Starters(u)', p \notin Starters(u)
        PROVE  Owned(u) = {} /\ p \in Active
    <3>1. owner'[p] # u
      <4> SUFFICES ASSUME owner'[p] = u PROVE FALSE
        OBVIOUS
      <4>1. owner[p] # u BY <2>1 DEF Starters
      <4>2. PICK q \in Requests : pc[q] = "insert" /\ Create(q) BY <4>1, StepFacts
      <4>3. p = NewId(q) /\ owner'[p] = user[q]
        <5>1. /\ NewId(q) \in Given \cup {q}
              /\ \A c \in Ids : c # NewId(q) => owner'[c] = owner[c]
              /\ \A c \in Ids : owner[c] # None => owner'[c] = owner[c]
              /\ owner' = owner \/ owner'[NewId(q)] = user[q]
          BY <4>2, CreateFacts
        <5>2. QED BY <4>1, <5>1, NoneFact
      <4>4. asked[q] = None /\ p = q
        BY <4>2, <4>3, GatewayAssumption DEF NewId, BasicInv, Standing
      <4>5. QED BY <2>1, <4>2, <4>3, <4>4 DEF Starters
    <3>2. pc'[p] = "insert" /\ asked'[p] = None /\ user'[p] = u BY <2>1, <3>1 DEF Starters
    <3>3. ~(pc[p] = "insert" /\ asked[p] = None /\ user[p] = u) BY <2>1 DEF Starters
    <3>4. pc[p] = "find" /\ user[p] = u /\ Owned(u) = {} BY <3>2, <3>3, StepFacts
    <3>5. QED BY <3>4 DEF Active, Over
  <2>2. Starters(u) \in SUBSET Requests /\ Starters(u)' \in SUBSET Requests BY DEF Starters
  <2>3. CASE Owned(u) # {}
    <3>1. Starters(u)' \subseteq Starters(u) BY <2>1, <2>2, <2>3
    <3>2. QED BY <1>1, <2>2, <3>1, PartOfRequests, RequestsFinite DEF StartsInv
  <2>4. CASE Owned(u) = {}
    <3>1. Active \in SUBSET Requests BY DEF Active
    <3>2. Starters(u) \subseteq Active
      <4>1. \A q \in Requests : owner[q] # u BY <2>4, NoneFact DEF Owned
      <4>2. QED BY <4>1 DEF Starters, Active, Over
    <3>3. Starters(u)' \subseteq Active BY <2>1, <2>2, <3>2
    <3>4. QED BY <1>1, <2>2, <3>1, <3>3, PartOfRequests, RequestsFinite DEF StartsInv
  <2>5. QED BY <2>3, <2>4
<1>5. QED BY <1>3, <1>4 DEF StartsInv

\* The invariant bounds the conversations that requests started.
LEMMA StartsHold == ASSUME StartsInv PROVE StartsAreBounded
<1> SUFFICES ASSUME NEW u \in Users
    PROVE Cardinality({q \in Requests : owner[q] = u}) <= Slots
  BY DEF StartsAreBounded
<1>1. {q \in Requests : owner[q] = u} \subseteq Starters(u) BY DEF Starters
<1>2. Starters(u) \in SUBSET Requests /\ {q \in Requests : owner[q] = u} \in SUBSET Requests
  BY DEF Starters
<1>3. Cardinality({q \in Requests : owner[q] = u}) <= Cardinality(Starters(u))
  BY <1>1, <1>2, PartOfRequests
<1>4. QED BY <1>2, <1>3, RequestsFinite, GatewayAssumption DEF StartsInv

-----------------------------------------------------------------------------
\* Which conversation is continued.

\* A user whose requests come one at a time has at most one in progress; the
\* conversation last started or written to is the one updated last; and the
\* transaction of the request in progress is younger than all of the user's
\* conversations.
Threaded(u) ==
  /\ \A p, q \in Active \cap Of(u) : p = q
  /\ Owned(u) # {} => thread[u] \in Owned(u)
  /\ Owned(u) = {} => thread[u] = None
  /\ \A d \in Owned(u) : d # thread[u] => updated[d] < updated[thread[u]]
  /\ \A q \in Requests : pc[q] \in {"insert", "asking", "answering"} /\ user[q] = u =>
       \A d \in Owned(u) : updated[d] < began[q]

ThreadInv == \A u \in Users \ crowded : Threaded(u)

\* What does not touch a user's conversations, and starts no transaction of the
\* user's but a new one, leaves the user's thread alone.
LEMMA ThreadKept ==
  ASSUME BasicInv, NEW u \in Users, Threaded(u), Owned(u)' = Owned(u), thread'[u] = thread[u],
         \A d \in Owned(u) : updated'[d] = updated[d],
         \A p \in Requests : p \in Active' /\ user'[p] = u => p \in Active /\ user[p] = u,
         \A p \in Requests : pc'[p] \in {"insert", "asking", "answering"} /\ user'[p] = u =>
           \/ pc'[p] = pc[p] /\ began'[p] = began[p] /\ user[p] = u
           \/ began'[p] = stamp + 1
  PROVE  Threaded(u)'
<1>1. \A p, q \in (Active \cap Of(u))' : p = q BY DEF Threaded, Of
<1>2. Owned(u)' # {} => thread'[u] \in Owned(u)' BY DEF Threaded
<1>3. Owned(u)' = {} => thread'[u] = None BY DEF Threaded
<1>4. \A d \in Owned(u)' : d # thread'[u] => updated'[d] < updated'[thread'[u]]
  BY <1>2 DEF Threaded
<1>5. ASSUME NEW p \in Requests, pc'[p] \in {"insert", "asking", "answering"}, user'[p] = u,
             NEW d \in Owned(u)
      PROVE  updated'[d] < began'[p]
  <2>1. updated'[d] = updated[d] /\ d \in Ids BY DEF Owned
  <2>2. CASE pc'[p] = pc[p] /\ began'[p] = began[p] /\ user[p] = u
    BY <1>5, <2>1, <2>2 DEF Threaded
  <2>3. CASE began'[p] = stamp + 1
    <3>1. updated[d] <= stamp /\ updated[d] \in Nat /\ stamp \in Nat
      BY <2>1 DEF BasicInv, GatewayTypeOK
    <3>2. QED BY <2>1, <2>3, <3>1
  <2>4. QED BY <1>5, <2>2, <2>3
<1>6. QED BY <1>1, <1>2, <1>3, <1>4, <1>5 DEF Threaded

\* Nobody has a thread to begin with.
LEMMA ThreadInit == ASSUME Init PROVE ThreadInv
<1> SUFFICES ASSUME NEW u \in Users PROVE Threaded(u)
  BY DEF ThreadInv
<1>1. Active = {} /\ thread[u] = None BY DEF Init, Active
<1>2. Owned(u) = {} BY NoneFact DEF Init, Owned
<1>3. QED BY <1>1, <1>2 DEF Threaded

\* A request is over in one step with the transaction that creates its conversation
\* or writes to it, or goes on to where it has none.
LEMMA ThreadCreate ==
  ASSUME BasicInv, ThreadInv, NEW q \in Requests, pc[q] = "insert", Create(q),
         NEW p1 \in {"ask", "enqueue", "done", "failed"}, pc' = [pc EXCEPT ![q] = p1],
         began' = [began EXCEPT ![q] = 0], UNCHANGED <<user, crowded>>
  PROVE  ThreadInv'
<1>1. /\ pc \in [Requests -> PCs] /\ began \in [Requests -> Nat] /\ pc'[q] = p1
      /\ owner \in [Ids -> Users \cup {None}] /\ thread \in [Users -> Ids \cup {None}]
      /\ user[q] \in Users
  BY DEF BasicInv, GatewayTypeOK, Standing
<1>2. \A p \in Requests \ {q} : pc'[p] = pc[p] /\ began'[p] = began[p] BY <1>1
<1>3. Active' \subseteq Active BY <1>1, <1>2 DEF Active, Over
<1>4. \A p \in Requests : pc'[p] \in {"insert", "asking", "answering"} =>
        pc'[p] = pc[p] /\ began'[p] = began[p] /\ p # q
  BY <1>1, <1>2
<1>5. SUFFICES ASSUME NEW u \in Users, u \notin crowded PROVE Threaded(u)'
  BY DEF ThreadInv
<1>6. Threaded(u) BY <1>5 DEF ThreadInv
<1>7. /\ NewId(q) \in Ids
      /\ \A c \in Ids : owner[c] # None => owner'[c] = owner[c] /\ updated'[c] = updated[c]
      /\ \A c \in Ids : c # NewId(q) => owner'[c] = owner[c]
      /\ \/ UNCHANGED <<owner, updated, thread>>
         \/ /\ owner[NewId(q)] = None
            /\ owner'[NewId(q)] = user[q] /\ updated'[NewId(q)] = began[q]
            /\ thread' = [thread EXCEPT ![user[q]] = NewId(q)]
  BY CreateFacts
<1>8. CASE UNCHANGED <<owner, updated, thread>> \/ u # user[q]
  <2>1. thread'[u] = thread[u] BY <1>1, <1>7, <1>8
  <2>2. Owned(u)' = Owned(u)
    <3>1. \A c \in Ids : owner'[c] = u <=> owner[c] = u BY <1>7, <1>8, NoneFact
    <3>2. QED BY <3>1 DEF Owned
  <2>3. \A d \in Owned(u) : updated'[d] = updated[d] BY <1>7, NoneFact DEF Owned
  <2>4. QED BY <1>3, <1>4, <1>6, <2>1, <2>2, <2>3, ThreadKept
<1>9. CASE u = user[q] /\ owner[NewId(q)] = None
           /\ owner'[NewId(q)] = user[q] /\ updated'[NewId(q)] = began[q]
           /\ thread' = [thread EXCEPT ![user[q]] = NewId(q)]
  <2>1. thread'[u] = NewId(q) BY <1>1, <1>9
  <2>2. Owned(u)' = Owned(u) \cup {NewId(q)} /\ NewId(q) \notin Owned(u)
    <3>1. \A c \in Ids : owner'[c] = u <=> owner[c] = u \/ c = NewId(q) BY <1>7, <1>9, NoneFact
    <3>2. QED BY <1>7, <1>9, <3>1, NoneFact DEF Owned
  <2>3. \A d \in Owned(u) : updated'[d] < updated'[NewId(q)]
    <3>1. \A d \in Owned(u) : updated[d] < began[q] BY <1>6, <1>9 DEF Threaded
    <3>2. \A d \in Owned(u) : updated'[d] = updated[d] BY <1>7, NoneFact DEF Owned
    <3>3. QED BY <1>9, <3>1, <3>2
  <2>4. q \in Active \cap Of(u) BY <1>9 DEF Active, Over, Of
  <2>5. \A p \in Requests : pc'[p] \in {"insert", "asking", "answering"} => user'[p] # u
    <3>1. \A p \in Requests : p \in Active \cap Of(u) => p = q BY <1>6, <2>4 DEF Threaded
    <3>2. QED BY <1>4, <3>1 DEF Active, Over, Of
  <2>6. \A p, r \in (Active \cap Of(u))' : p = r BY <1>3, <1>6 DEF Threaded, Of
  <2>7. QED BY <2>1, <2>2, <2>3, <2>5, <2>6 DEF Threaded
<1>10. QED BY <1>7, <1>8, <1>9

\* Likewise with one that stores a message.
LEMMA ThreadWrite ==
  ASSUME BasicInv, ThreadInv, NEW q \in Requests, pc[q] \in {"asking", "answering"},
         NEW role \in Roles, Write(q, role),
         NEW p1 \in {"enqueue", "done", "failed"}, pc' = [pc EXCEPT ![q] = p1],
         began' = [began EXCEPT ![q] = 0], UNCHANGED <<user, owner>>
  PROVE  ThreadInv'
<1>1. /\ pc \in [Requests -> PCs] /\ began \in [Requests -> Nat] /\ pc'[q] = p1
      /\ updated \in [Ids -> Nat] /\ thread \in [Users -> Ids \cup {None}]
      /\ user[q] \in Users
  BY DEF BasicInv, GatewayTypeOK, Standing
<1>2. \A p \in Requests \ {q} : pc'[p] = pc[p] /\ began'[p] = began[p] BY <1>1
<1>3. Active' \subseteq Active BY <1>1, <1>2 DEF Active, Over
<1>4. \A p \in Requests : pc'[p] \in {"insert", "asking", "answering"} =>
        pc'[p] = pc[p] /\ began'[p] = began[p] /\ p # q
  BY <1>1, <1>2
<1> DEFINE c == conv[q]
<1>5. /\ c \in Ids /\ owner[c] \in Users
      /\ updated' = [updated EXCEPT ![c] = began[q]]
      /\ \/ /\ owner[c] = user[q] /\ crowded' = crowded
            /\ thread' = [thread EXCEPT ![user[q]] = c]
         \/ /\ owner[c] # user[q] /\ crowded' = crowded \cup {owner[c]}
            /\ thread' = thread
  BY WriteFacts
<1> HIDE DEF c
<1>6. SUFFICES ASSUME NEW u \in Users, u \notin crowded' PROVE Threaded(u)'
  BY DEF ThreadInv
<1>7. Threaded(u) BY <1>5, <1>6 DEF ThreadInv
<1>8. Owned(u)' = Owned(u) BY DEF Owned
<1>9. CASE owner[c] # u
  <2>1. thread'[u] = thread[u] BY <1>1, <1>5, <1>9
  <2>2. \A d \in Owned(u) : updated'[d] = updated[d] BY <1>1, <1>5, <1>9 DEF Owned
  <2>3. QED BY <1>3, <1>4, <1>7, <1>8, <2>1, <2>2, ThreadKept
<1>10. CASE owner[c] = u
  <2>1. user[q] = u /\ thread'[u] = c BY <1>1, <1>5, <1>6, <1>10
  <2>2. c \in Owned(u) BY <1>5, <1>10 DEF Owned
  <2>3. \A d \in Owned(u) : updated[d] < began[q] BY <1>7, <2>1 DEF Threaded
  <2>4. updated'[c] = began[q] /\ \A d \in Owned(u) : d # c => updated'[d] = updated[d]
    BY <1>1, <1>5 DEF Owned
  <2>5. q \in Active \cap Of(u) BY <2>1 DEF Active, Over, Of
  <2>6. \A p \in Requests : pc'[p] \in {"insert", "asking", "answering"} => user'[p] # u
    <3>1. \A p \in Requests : p \in Active \cap Of(u) => p = q BY <1>7, <2>5 DEF Threaded
    <3>2. QED BY <1>4, <3>1 DEF Active, Over, Of
  <2>7. \A p, r \in (Active \cap Of(u))' : p = r BY <1>3, <1>7 DEF Threaded, Of
  <2>8. \A d \in Owned(u)' : d # thread'[u] => updated'[d] < updated'[thread'[u]]
    BY <1>8, <2>1, <2>3, <2>4
  <2>9. QED BY <1>8, <2>1, <2>2, <2>6, <2>7, <2>8 DEF Threaded
<1>11. QED BY <1>9, <1>10

\* The other steps leave every thread alone; a request that arrives while another
\* of the same user's is in progress makes the user crowded.
LEMMA ThreadQuiet ==
  ASSUME BasicInv, ThreadInv, NEW q \in Requests, UNCHANGED <<owner, updated, thread>>,
         \/ Arrive(q) \/ Check(q) \/ Busy(q) \/ Find(q) \/ BeginMessage(q) \/ Enqueue(q)
         \/ RunEnds(q) \/ Collect(q)
         \/ Fail(q) /\ UNCHANGED crowded
  PROVE  ThreadInv'
<1>1. /\ pc \in [Requests -> PCs] /\ began \in [Requests -> Nat]
      /\ user \in [Requests -> Users \cup {None}] /\ kind \in [Requests -> Kinds]
  BY DEF BasicInv, GatewayTypeOK
<1>2. \A u \in Users : Owned(u)' = Owned(u) BY DEF Owned
<1>3. crowded \subseteq crowded'
  BY DEF Arrive, Check, Busy, Find, BeginMessage, Enqueue, RunEnds, Collect, seen
<1>4. SUFFICES ASSUME NEW u \in Users, u \notin crowded' PROVE Threaded(u)'
  BY DEF ThreadInv
<1>5. Threaded(u) BY <1>3, <1>4 DEF ThreadInv
<1>6. CASE Arrive(q)
  <2>1. PICK v \in Users, k \in Kinds :
          /\ user' = [user EXCEPT ![q] = v]
          /\ pc' = [pc EXCEPT ![q] = IF k = "rest" THEN "check" ELSE "find"]
          /\ crowded' = IF Active \cap Of(v) # {} THEN crowded \cup {v} ELSE crowded
    BY <1>6 DEF Arrive, Goto
  <2>2. /\ began' = began /\ pc'[q] \in {"check", "find"} /\ user'[q] = v
        /\ \A p \in Requests \ {q} : pc'[p] = pc[p] /\ user'[p] = user[p]
        /\ pc[q] = "unsent"
    BY <1>1, <1>6, <2>1 DEF Arrive
  <2>3. CASE v = u
    <3>1. Active \cap Of(u) = {} BY <1>4, <2>1, <2>3
    <3>2. \A p \in (Active \cap Of(u))' : p = q BY <2>2, <3>1 DEF Active, Of
    <3>3. \A p \in Requests : pc'[p] \in {"insert", "asking", "answering"} => user'[p] # u
      BY <2>2, <3>1 DEF Active, Of, Over
    <3>4. QED BY <1>2, <1>5, <3>2, <3>3 DEF Threaded
  <2>4. CASE v # u
    <3>1. \A p \in Requests : p \in Active' /\ user'[p] = u => p \in Active /\ user[p] = u
      BY <2>2, <2>4 DEF Active
    <3>2. \A p \in Requests : pc'[p] \in {"insert", "asking", "answering"} =>
            pc'[p] = pc[p] /\ began'[p] = began[p] /\ user'[p] = user[p]
      BY <2>2
    <3>3. QED BY <1>2, <1>5, <3>1, <3>2, ThreadKept
  <2>5. QED BY <2>3, <2>4
<1>7. CASE ~Arrive(q)
  <2>1. user' = user /\ q \in Active
    BY <1>7 DEF Check, Busy, Find, BeginMessage, Enqueue, RunEnds, Collect, Fail, Active, Over
  <2>2. \A p \in Requests \ {q} : pc'[p] = pc[p] /\ began'[p] = began[p]
    <3>1. CASE Find(q)
      <4>1. /\ pc' = [pc EXCEPT ![q] = pc'[q]]
            /\ began' = began \/ began' = [began EXCEPT ![q] = stamp + 1]
        BY <3>1, FoundFacts
      <4>2. QED BY <1>1, <4>1
    <3>2. CASE ~Find(q)
      BY <1>1, <1>7, <3>2
         DEF Check, Busy, BeginMessage, Begin, Enqueue, RunEnds, Collect, Fail, Goto
    <3>3. QED BY <3>1, <3>2
  <2>3. Active' \subseteq Active BY <2>1, <2>2 DEF Active
  <2>4. pc'[q] \in {"insert", "asking", "answering"} => began'[q] = stamp + 1
    <3>1. CASE Find(q)
      <4>1. conv'[q] # None => pc'[q] \in {"ask", "enqueue", "done"} BY <3>1, FoundFacts, AfterFacts
      <4>2. conv'[q] = None => began' = [began EXCEPT ![q] = stamp + 1] BY <3>1, FoundFacts
      <4>3. QED BY <1>1, <4>1, <4>2
    <3>2. CASE ~Find(q)
      BY <1>1, <1>7, <3>2
         DEF Check, Busy, BeginMessage, Begin, Enqueue, RunEnds, Collect, Fail, Goto
    <3>3. QED BY <3>1, <3>2
  <2>5. QED BY <1>2, <1>5, <2>1, <2>2, <2>3, <2>4, ThreadKept
<1>8. QED BY <1>6, <1>7

\* Every step keeps the threads.
LEMMA ThreadStep ==
  ASSUME BasicInv, ThreadInv, [Next]_vars
  PROVE  ThreadInv'
<1>1. pc \in [Requests -> PCs] /\ user \in [Requests -> Users \cup {None}]
  BY DEF BasicInv, GatewayTypeOK
<1>2. ASSUME NEW q \in Requests, Insert(q) PROVE ThreadInv'
  <2>1. /\ pc[q] = "insert" /\ Create(q) /\ UNCHANGED <<user, crowded>>
        /\ pc' = [pc EXCEPT ![q] = AfterEnsure(q)] /\ began' = [began EXCEPT ![q] = 0]
    BY <1>2 DEF Insert, Goto
  <2>2. AfterEnsure(q) \in {"ask", "enqueue", "done", "failed"} BY AfterFacts
  <2>3. QED BY <2>1, <2>2, ThreadCreate
<1>3. ASSUME NEW q \in Requests, CommitMessage(q) PROVE ThreadInv'
  <2>1. began' = [began EXCEPT ![q] = 0] /\ UNCHANGED <<user, owner>>
    BY <1>3 DEF CommitMessage
  <2>2. CASE pc[q] = "asking" /\ Write(q, "user") /\ Goto(q, "enqueue")
    <3>1. "user" \in Roles /\ pc' = [pc EXCEPT ![q] = "enqueue"] BY <2>2 DEF Roles, Goto
    <3>2. QED BY <2>1, <2>2, <3>1, ThreadWrite
  <2>3. CASE pc[q] = "answering" /\ Write(q, "assistant") /\ Goto(q, "done")
    <3>1. "assistant" \in Roles /\ pc' = [pc EXCEPT ![q] = "done"] BY <2>3 DEF Roles, Goto
    <3>2. QED BY <2>1, <2>3, <3>1, ThreadWrite
  <2>4. QED BY <1>3, <2>2, <2>3 DEF CommitMessage
<1>4. ASSUME NEW q \in Requests, Fail(q) PROVE ThreadInv'
  <2>1. /\ pc' = [pc EXCEPT ![q] = "failed"] /\ began' = [began EXCEPT ![q] = 0] /\ user' = user
    BY <1>4, FailCases
  <2>2. CASE UNCHANGED <<owner, updated, messages, thread, crowded>>
    BY <1>4, <2>2, ThreadQuiet
  <2>3. CASE pc[q] = "insert" /\ Create(q) /\ UNCHANGED <<messages, crowded, run>>
    BY <2>1, <2>3, ThreadCreate
  <2>4. CASE UNCHANGED <<owner, run>> /\ pc[q] = "asking" /\ Write(q, "user")
    <3>1. "user" \in Roles BY DEF Roles
    <3>2. QED BY <2>1, <2>4, <3>1, ThreadWrite
  <2>5. CASE UNCHANGED <<owner, run>> /\ pc[q] = "answering" /\ Write(q, "assistant")
    <3>1. "assistant" \in Roles BY DEF Roles
    <3>2. QED BY <2>1, <2>5, <3>1, ThreadWrite
  <2>6. QED BY <1>4, <2>2, <2>3, <2>4, <2>5, FailCases
<1>5. ASSUME NEW q \in Requests,
             \/ Arrive(q) \/ Check(q) \/ Busy(q) \/ Find(q) \/ BeginMessage(q) \/ Enqueue(q)
             \/ RunEnds(q) \/ Collect(q)
      PROVE ThreadInv'
  <2>1. UNCHANGED <<owner, updated, thread>>
    BY <1>5 DEF Arrive, Check, Busy, Find, BeginMessage, Enqueue, RunEnds, Collect, store, seen
  <2>2. QED BY <1>5, <2>1, ThreadQuiet
<1>6. CASE Time \/ UNCHANGED vars
  <2>1. UNCHANGED <<request, store, seen>> BY <1>6 DEF Time, vars
  <2>2. QED BY <2>1 DEF ThreadInv, Threaded, Active, Of, Owned, request, store, seen
<1>7. QED BY <1>2, <1>3, <1>4, <1>5, <1>6 DEF Next

\* A request without an id whose user is not crowded finds the thread.
LEMMA ThreadFound ==
  ASSUME BasicInv, ThreadInv, [Next]_vars, NEW q \in Requests,
         pc[q] = "find", pc'[q] \notin {"find", "refused", "failed"}, asked[q] = None,
         user[q] \notin crowded, thread[user[q]] # None
  PROVE  conv'[q] = thread[user[q]]
<1>1. pc \in [Requests -> PCs] /\ updated \in [Ids -> Nat] BY DEF BasicInv, GatewayTypeOK
<1>2. Find(q)
  <2>1. ASSUME NEW p \in Requests,
               \/ Arrive(p) \/ Check(p) \/ Busy(p) \/ Insert(p) \/ BeginMessage(p)
               \/ CommitMessage(p) \/ Enqueue(p) \/ RunEnds(p) \/ Collect(p) \/ Fail(p)
        PROVE  FALSE
    <3>1. p # q => pc'[q] = pc[q]
      BY <1>1, <2>1 DEF Arrive, Check, Busy, Insert, BeginMessage, CommitMessage, Enqueue, RunEnds,
         Collect, Fail, Goto
    <3>2. p = q => Busy(p) \/ Fail(p)
      BY <2>1 DEF Arrive, Check, Insert, BeginMessage, CommitMessage, Enqueue, RunEnds, Collect
    <3>3. p = q => pc'[q] \in {"refused", "failed"} BY <1>1, <3>2 DEF Busy, Fail, Goto
    <3>4. QED BY <3>1, <3>3
  <2>2. ~(Time \/ UNCHANGED vars) BY DEF Time, vars, request
  <2>3. PICK p \in Requests : Find(p) BY <2>1, <2>2 DEF Next
  <2>4. p # q => pc'[q] = pc[q]
    <3>1. pc' = [pc EXCEPT ![p] = pc'[p]] BY <2>3, FoundFacts
    <3>2. QED BY <1>1, <3>1
  <2>5. QED BY <2>3, <2>4
<1> DEFINE u == user[q]
<1>3. u \in Users BY DEF BasicInv, Standing
<1>4. Threaded(u) BY <1>3 DEF ThreadInv
<1>5. Owned(u) # {} /\ thread[u] \in Owned(u) BY <1>4 DEF Threaded
<1>6. conv'[q] = Latest(u) BY <1>2, <1>5, FoundFacts
<1> HIDE DEF u
<1>7. \A d \in Owned(u) : d \in Ids /\ updated[d] \in Nat BY <1>1 DEF Owned
<1>8. \A d \in Owned(u) : updated[d] <= updated[thread[u]] BY <1>4, <1>5, <1>7 DEF Threaded
<1>9. Latest(u) \in Owned(u) /\ \A d \in Owned(u) : updated[d] <= updated[Latest(u)]
  BY <1>5, <1>8 DEF Latest
<1>10. Latest(u) = thread[u]
  <2>1. Latest(u) # thread[u] => updated[Latest(u)] < updated[thread[u]] BY <1>4, <1>9 DEF Threaded
  <2>2. updated[thread[u]] <= updated[Latest(u)] BY <1>5, <1>9
  <2>3. QED BY <1>5, <1>7, <1>9, <2>1, <2>2
<1>11. QED BY <1>6, <1>10 DEF u

-----------------------------------------------------------------------------
\* What is proved of Gateway and its limiter.

Inv == LimiterInv /\ BasicInv /\ HistoryInv /\ StartsInv /\ ThreadInv

\* The invariant the theorems rest on holds in every state of the specification.
LEMMA Invariance == Spec => []Inv
<1>1. Init => Inv
  BY LimiterInitInv, BasicInit, HistoryInit, StartsInit, ThreadInit DEF Init, Inv
<1>2. Inv /\ [Next]_vars => Inv'
  <2> SUFFICES ASSUME Inv, [Next]_vars PROVE Inv'
    OBVIOUS
  <2>1. LimiterInv' BY LimiterStep DEF Inv
  <2>2. BasicInv' BY <2>1, BasicStep DEF Inv, LimiterInv
  <2>3. HistoryInv' /\ StartsInv' /\ ThreadInv' BY HistoryStep, StartsStep, ThreadStep DEF Inv
  <2>4. QED BY <2>1, <2>2, <2>3 DEF Inv
<1>3. QED BY <1>1, <1>2, PTL DEF Spec

\* Every variable of the gateway, its store and its limiter keeps its type.
THEOREM GatewayTypeCorrect == Spec => []GatewayTypeOK
<1>1. Inv => GatewayTypeOK BY DEF Inv, BasicInv
<1>2. QED BY <1>1, Invariance, PTL

\* Since a bucket was made, a user has spent no more than a full one and what was
\* refilled, whatever the gateways, their clocks and the order of requests
\* (adapters/ratelimit_redis.py: the script).
THEOREM BudgetIsKept == Spec => []SpentWithinBudget
<1>1. Inv => SpentWithinBudget BY BudgetHolds DEF Inv
<1>2. QED BY <1>1, Invariance, PTL

\* Waiting as long as Retry-After said is enough at every gateway whose clock is
\* not behind the refusing one's, and at any other once the difference has passed
\* too (adapters/ratelimit_redis.py: the script and check).
THEOREM RefusalsAreHonest == Spec => RetryAfterIsHonest
<1>1. ASSUME Inv
      PROVE  [\A u \in Users, g \in Gateways :
                Deny(u, g) /\ promise[u] # None =>
                  time < promise[u].until + Behind(u, g)]_limiterVars
  BY <1>1, PromiseHolds DEF Inv
<1>2. QED BY <1>1, Invariance, PTL DEF RetryAfterIsHonest

\* An answer in the history stands after its question, once, and only if it was
\* given (gateway/app/main.py: chat).
THEOREM HistoryIsKept == Spec => []HistoryIsTrue
<1>1. Inv => HistoryIsTrue BY HistoryHolds DEF Inv
<1>2. QED BY <1>1, Invariance, PTL

\* First messages that race start no more conversations than requests can be in
\* progress (conversations_postgres.py: ensure).
THEOREM StartsAreFew == Spec => []StartsAreBounded
<1>1. Inv => StartsAreBounded BY StartsHold DEF Inv
<1>2. QED BY <1>1, Invariance, PTL

\* A user whose requests come one at a time goes on in the conversation last
\* started or written to (conversations_postgres.py: ensure, add_message).
THEOREM ThreadIsContinued == Spec => ThreadContinues
<1>1. ASSUME Inv, [Next]_vars
      PROVE  [\A q \in Requests :
                (/\ pc[q] = "find" /\ pc'[q] \notin {"find", "refused", "failed"}
                 /\ asked[q] = None
                 /\ user[q] \notin crowded
                 /\ thread[user[q]] # None)
                => conv'[q] = thread[user[q]]]_vars
  BY <1>1, ThreadFound DEF Inv
<1>2. QED BY <1>1, Invariance, PTL DEF ThreadContinues, Spec
=============================================================================
