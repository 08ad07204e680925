---------------------------- MODULE Policy_proofs ----------------------------
(***************************************************************************)
(* Proofs about the two modules on the policy documents, Retrieval and     *)
(* Settlement.                                                             *)
(*                                                                         *)
(* Retrieval: for every set of document versions, every embedding and term *)
(* weight, every TopK that a request may ask for, any number of ingests,   *)
(* searches, edits and restarts and every way they interleave, what an     *)
(* ingest read is in the index, copies of a section stay bounded, a search *)
(* loses no result, and fusion rewards agreement.                          *)
(*                                                                         *)
(* Settlement: for every policy document, amount, worker and history of    *)
(* edits and failures, every split shown or reported adds up, and a larger *)
(* loss never leaves either party paying less. While every fetch succeeds  *)
(* and every worker runs, edits or not, what is reported is what was       *)
(* shown, and the caps of the copy in use are applied.                     *)
(***************************************************************************)
EXTENDS Settlement, Retrieval, OrderLemmas, SequenceTheorems, TLAPS

-----------------------------------------------------------------------------
\* Retrieval.

\* The members of S that come before x.
Ahead(x, S, before) == {y \in S : <<y, x>> \in before}

\* "before" puts the members of S in one order.
Orders(before, S) ==
  /\ \A x \in S : <<x, x>> \notin before
  /\ \A x, y, z \in S : <<x, y>> \in before /\ <<y, z>> \in before => <<x, z>> \in before
  /\ \A x, y \in S : x = y \/ <<x, y>> \in before \/ <<y, x>> \in before

\* In a finite set that is ordered, as many members come before one as its place
\* says, and every place is taken.
LEMMA PlacesAreTaken ==
  ASSUME NEW S, IsFiniteSet(S), NEW before, Orders(before, S)
  PROVE  /\ Cardinality(S) \in Nat
         /\ \A x \in S : Cardinality(Ahead(x, S, before)) \in 0 .. (Cardinality(S) - 1)
         /\ \A x, y \in S : <<x, y>> \in before =>
              Cardinality(Ahead(x, S, before)) < Cardinality(Ahead(y, S, before))
         /\ \A n \in 0 .. (Cardinality(S) - 1) :
              \E x \in S : Cardinality(Ahead(x, S, before)) = n
<1> DEFINE ahead(x) == Ahead(x, S, before)
           place == [x \in S |-> Cardinality(ahead(x))]
           N == Cardinality(S)
<1>1. N \in Nat BY FS_CardinalityType
<1>2. ASSUME NEW x \in S
      PROVE  IsFiniteSet(ahead(x)) /\ Cardinality(ahead(x)) \in 0 .. (N - 1)
  <2>1. ahead(x) \in SUBSET S /\ x \notin ahead(x) BY DEF Ahead, Orders
  <2>2. /\ IsFiniteSet(ahead(x)) /\ Cardinality(ahead(x)) <= N
        /\ N = Cardinality(ahead(x)) => S = ahead(x)
    BY <2>1, FS_Subset
  <2>3. Cardinality(ahead(x)) \in Nat BY <2>2, FS_CardinalityType
  <2>4. Cardinality(ahead(x)) # N BY <2>1, <2>2
  <2>5. QED BY <1>1, <2>2, <2>3, <2>4
<1>3. ASSUME NEW x \in S, NEW y \in S, <<x, y>> \in before
      PROVE  Cardinality(ahead(x)) < Cardinality(ahead(y))
  <2>1. ahead(x) \in SUBSET ahead(y) BY <1>3 DEF Ahead, Orders
  <2>2. x \in ahead(y) /\ x \notin ahead(x) BY <1>3 DEF Ahead, Orders
  <2>3. IsFiniteSet(ahead(y)) /\ Cardinality(ahead(y)) \in 0 .. (N - 1) BY <1>2
  <2>4. Cardinality(ahead(x)) \in 0 .. (N - 1) BY <1>2
  <2>5. /\ Cardinality(ahead(x)) <= Cardinality(ahead(y))
        /\ Cardinality(ahead(y)) = Cardinality(ahead(x)) => ahead(y) = ahead(x)
    BY <2>1, <2>3, FS_Subset
  <2>6. QED BY <1>1, <2>2, <2>3, <2>4, <2>5
<1> HIDE DEF ahead
<1>4. place \in Injection(S, 0 .. (N - 1))
  <2>1. place \in [S -> 0 .. (N - 1)] BY <1>2
  <2>2. ASSUME NEW x \in S, NEW y \in S, place[x] = place[y] PROVE x = y
    <3>1. Cardinality(ahead(x)) = Cardinality(ahead(y)) BY <2>2
    <3>2. Cardinality(ahead(x)) \in Nat BY <1>1, <1>2
    <3>3. <<x, y>> \notin before /\ <<y, x>> \notin before BY <1>3, <3>1, <3>2
    <3>4. QED BY <3>3 DEF Orders
  <2>3. QED BY <2>1, <2>2 DEF Injection, IsInjective
<1>5. IsFiniteSet(0 .. (N - 1)) /\ Cardinality(0 .. (N - 1)) = N
  <2>1. 0 \in Int /\ N - 1 \in Int BY <1>1
  <2>2. IsFiniteSet(0 .. (N - 1)) /\ Cardinality(0 .. (N - 1)) = IF 0 > N - 1 THEN 0 ELSE N - 1 - 0 + 1
    BY <2>1, FS_Interval
  <2>3. QED BY <1>1, <2>2
<1>6. place \in Surjection(S, 0 .. (N - 1)) BY <1>4, <1>5, FS_Injection
<1>7. \A n \in 0 .. (N - 1) : \E x \in S : Cardinality(ahead(x)) = n
  <2>1. \A n \in 0 .. (N - 1) : \E x \in S : place[x] = n BY <1>6 DEF Surjection
  <2>2. QED BY <2>1
<1>8. QED BY <1>1, <1>2, <1>3, <1>7 DEF ahead

\* f lists n members of S in their order and leaves out none that comes before one
\* it lists.
Leads(f, n, S, before) ==
  /\ n \in Nat /\ f \in [1 .. n -> S]
  /\ \A i, j \in 1 .. n : i < j => <<f[i], f[j]>> \in before
  /\ \A i \in 1 .. n, x \in S : <<x, f[i]>> \in before => \E j \in 1 .. n : f[j] = x
  /\ n = Cardinality(S) => \A x \in S : \E j \in 1 .. n : f[j] = x

\* First does so, as far as it goes.
LEMMA FirstLists ==
  ASSUME NEW S, IsFiniteSet(S), NEW before, Orders(before, S), NEW k \in Nat,
         NEW n, n = IF Cardinality(S) < k THEN Cardinality(S) ELSE k
  PROVE  Leads(First(k, S, before), n, S, before)
<1> DEFINE N == Cardinality(S)
           f == First(k, S, before)
           place(x) == Cardinality(Ahead(x, S, before))
<1>1. /\ N \in Nat
      /\ \A x \in S : place(x) \in 0 .. (N - 1)
      /\ \A x, y \in S : <<x, y>> \in before => place(x) < place(y)
      /\ \A m \in 0 .. (N - 1) : \E x \in S : place(x) = m
  BY PlacesAreTaken
<1>2. n \in Nat /\ n <= N /\ n <= k BY <1>1
<1>3. f = [i \in 1 .. n |-> CHOOSE x \in S : place(x) = i - 1] BY DEF First, Ahead
<1> HIDE DEF place, f
<1>4. \A i \in 1 .. n : f[i] \in S /\ place(f[i]) = i - 1
  <2>1. TAKE i \in 1 .. n
  <2>2. i - 1 \in 0 .. (N - 1) BY <1>1, <1>2
  <2>3. \E x \in S : place(x) = i - 1 BY <1>1, <2>2
  <2>4. f[i] = CHOOSE x \in S : place(x) = i - 1 BY <1>3
  <2>5. QED BY <2>3, <2>4
<1>5. \A x, y \in S : place(x) < place(y) => <<x, y>> \in before
  <2>1. SUFFICES ASSUME NEW x \in S, NEW y \in S, place(x) < place(y)
                 PROVE  <<x, y>> \in before
    OBVIOUS
  <2>2. place(x) \in Nat /\ place(y) \in Nat BY <1>1
  <2>3. x # y /\ <<y, x>> \notin before BY <1>1, <2>1, <2>2
  <2>4. QED BY <2>3 DEF Orders
<1>6. \A x \in S : place(x) < n => \E j \in 1 .. n : f[j] = x
  <2>1. SUFFICES ASSUME NEW x \in S, place(x) < n PROVE \E j \in 1 .. n : f[j] = x
    OBVIOUS
  <2>2. place(x) \in Nat /\ place(x) + 1 \in 1 .. n BY <1>1, <1>2, <2>1
  <2>3. f[place(x) + 1] \in S /\ place(f[place(x) + 1]) = place(x) BY <1>4, <2>2
  <2>4. f[place(x) + 1] = x
    <3>1. place(f[place(x) + 1]) \in Nat BY <2>2, <2>3
    <3>2. <<f[place(x) + 1], x>> \notin before /\ <<x, f[place(x) + 1]>> \notin before
      BY <1>1, <2>2, <2>3
    <3>3. QED BY <2>3, <3>2 DEF Orders
  <2>5. QED BY <2>2, <2>4
<1>7. f \in [1 .. n -> S] BY <1>3, <1>4
<1>8. \A i, j \in 1 .. n : i < j => <<f[i], f[j]>> \in before
  <2>1. SUFFICES ASSUME NEW i \in 1 .. n, NEW j \in 1 .. n, i < j PROVE <<f[i], f[j]>> \in before
    OBVIOUS
  <2>2. place(f[i]) < place(f[j]) BY <1>2, <1>4, <2>1
  <2>3. QED BY <1>4, <1>5, <2>2
<1>9. \A i \in 1 .. n, x \in S : <<x, f[i]>> \in before => \E j \in 1 .. n : f[j] = x
  <2>1. SUFFICES ASSUME NEW i \in 1 .. n, NEW x \in S, <<x, f[i]>> \in before
                 PROVE  \E j \in 1 .. n : f[j] = x
    OBVIOUS
  <2>2. place(x) < place(f[i]) BY <1>1, <1>4, <2>1
  <2>3. place(x) \in Nat /\ place(f[i]) = i - 1 BY <1>1, <1>4
  <2>4. place(x) < n BY <1>2, <2>2, <2>3
  <2>5. QED BY <1>6, <2>4
<1>10. n = N => \A x \in S : \E j \in 1 .. n : f[j] = x
  <2>1. SUFFICES ASSUME n = N, NEW x \in S PROVE \E j \in 1 .. n : f[j] = x
    OBVIOUS
  <2>2. place(x) \in 0 .. (N - 1) BY <1>1
  <2>3. place(x) < n BY <1>1, <2>1, <2>2
  <2>4. QED BY <1>6, <2>3
<1>11. QED BY <1>2, <1>7, <1>8, <1>9, <1>10 DEF f, Leads

\* A nonempty set of positions has a greatest one.
LEMMA GreatestOf ==
  ASSUME NEW n \in Nat, NEW S \in SUBSET (1 .. n), S # {}
  PROVE  Greatest(S) \in S /\ \A m \in S : m <= Greatest(S)
<1> DEFINE From == {n - m : m \in S}
<1>1. From \in SUBSET Nat /\ From # {}
  <2>1. \A m \in S : n - m \in Nat OBVIOUS
  <2>2. PICK m \in S : TRUE OBVIOUS
  <2>3. n - m \in From BY <2>2
  <2>4. QED BY <2>1, <2>3
<1>2. PICK d \in From : \A e \in From : d <= e
  <2> HIDE DEF From
  <2>1. QED BY <1>1, SmallestNat
<1>3. PICK m \in S : d = n - m BY <1>2
<1>4. ASSUME NEW l \in S PROVE l <= m
  <2>1. n - l \in From OBVIOUS
  <2>2. d <= n - l BY <1>2, <2>1
  <2>3. QED BY <1>3, <2>2
<1>5. \E g \in S : \A l \in S : l <= g BY <1>4
<1>6. QED BY <1>5 DEF Greatest

\* The pairs of positions in K in their order.
InOrder(K) == {p \in K \X K : p[1] < p[2]}

\* Positions are finitely many and ordered.
LEMMA PositionsAreOrdered ==
  ASSUME NEW n \in Nat, NEW K \in SUBSET (1 .. n)
  PROVE  IsFiniteSet(K) /\ Cardinality(K) \in Nat /\ Orders(InOrder(K), K)
<1>1. IsFiniteSet(1 .. n) BY IntervalSize
<1>2. IsFiniteSet(K) /\ Cardinality(K) \in Nat BY <1>1, FS_Subset, FS_CardinalityType
<1>3. \A x, y \in K : <<x, y>> \in InOrder(K) <=> x < y BY DEF InOrder
<1>4. K \subseteq Int OBVIOUS
<1>5. Orders(InOrder(K), K) BY <1>3, <1>4 DEF Orders
<1>6. QED BY <1>2, <1>5

\* t lists the entries of s at the positions K, in their order, "at" saying where
\* each was.
Lists(t, s, K, at) ==
  /\ at \in [1 .. Cardinality(K) -> K]
  /\ t = [n \in 1 .. Cardinality(K) |-> s[at[n]]]
  /\ \A m, n \in 1 .. Cardinality(K) : m < n => at[m] < at[n]
  /\ \A k \in K : \E n \in 1 .. Cardinality(K) : at[n] = k

\* Picked keeps the entries at the positions it is given, and their order.
LEMMA PickedLists ==
  ASSUME NEW X, NEW s \in Seq(X), NEW K \in SUBSET DOMAIN s
  PROVE  /\ IsFiniteSet(K) /\ Cardinality(K) \in Nat
         /\ Picked(s, K) \in Seq(X) /\ Len(Picked(s, K)) = Cardinality(K)
         /\ \E at : Lists(Picked(s, K), s, K, at)
<1> DEFINE c == Cardinality(K)
           at == First(c, K, InOrder(K))
<1>0. Len(s) \in Nat /\ DOMAIN s = 1 .. Len(s) /\ \A i \in DOMAIN s : s[i] \in X
  BY LenProperties, ElementOfSeq
<1>1. IsFiniteSet(K) /\ c \in Nat /\ Orders(InOrder(K), K) BY <1>0, PositionsAreOrdered
<1>2. c = IF Cardinality(K) < c THEN Cardinality(K) ELSE c BY <1>1
<1>3. /\ at \in [1 .. c -> K]
      /\ \A i, j \in 1 .. c : i < j => <<at[i], at[j]>> \in InOrder(K)
      /\ \A x \in K : \E j \in 1 .. c : at[j] = x
  <2>1. Leads(at, c, K, InOrder(K)) BY <1>1, <1>2, FirstLists
  <2>2. QED BY <2>1 DEF Leads
<1>4. DOMAIN at = 1 .. c BY <1>3
<1>5. Picked(s, K) = [n \in 1 .. c |-> s[at[n]]] BY <1>4 DEF Picked, InOrder
<1> HIDE DEF at
<1>6. \A n \in 1 .. c : s[at[n]] \in X BY <1>0, <1>3
<1>7. Picked(s, K) \in Seq(X) /\ Len(Picked(s, K)) = c
  <2>1. [n \in 1 .. c |-> s[at[n]]] \in Seq(X) BY <1>1, <1>6
  <2>2. Len([n \in 1 .. c |-> s[at[n]]]) = c BY <1>1
  <2>3. QED BY <1>5, <2>1, <2>2
<1>8. \A i, j \in 1 .. c : i < j => at[i] < at[j] BY <1>3 DEF InOrder
<1>9. \A x \in K : \E j \in 1 .. c : at[j] = x BY <1>3
<1>10. Lists(Picked(s, K), s, K, at) BY <1>3, <1>5, <1>8, <1>9 DEF Lists
<1>11. QED BY <1>1, <1>7, <1>10

\* How many of the entries at the positions K are in Y.
Among(s, K, Y) == Cardinality({k \in K : s[k] \in Y})

\* It keeps each of them once: what holds of so many of the entries holds of as
\* many of those listed.
LEMMA PickedCounts ==
  ASSUME NEW X, NEW s \in Seq(X), NEW K \in SUBSET DOMAIN s, NEW Y
  PROVE  Among(Picked(s, K), DOMAIN Picked(s, K), Y) = Among(s, K, Y)
<1> DEFINE t == Picked(s, K)
           c == Cardinality(K)
           N == {n \in DOMAIN t : t[n] \in Y}
           L == {k \in K : s[k] \in Y}
<1>1. PICK at : Lists(t, s, K, at) BY PickedLists
<1>2. IsFiniteSet(K) /\ c \in Nat BY PickedLists
<1>3. /\ at \in [1 .. c -> K] /\ t = [n \in 1 .. c |-> s[at[n]]]
      /\ \A m, n \in 1 .. c : m < n => at[m] < at[n]
      /\ \A k \in K : \E n \in 1 .. c : at[n] = k
  BY <1>1 DEF Lists
<1>4. K \subseteq Int
  <2>1. DOMAIN s = 1 .. Len(s) BY LenProperties
  <2>2. QED BY <2>1
<1> HIDE DEF t
<1>5. DOMAIN t = 1 .. c /\ \A n \in 1 .. c : t[n] = s[at[n]] BY <1>3
<1> DEFINE f == [n \in N |-> at[n]]
<1>6. f \in Surjection(N, L)
  <2>1. f \in [N -> L] BY <1>3, <1>5
  <2>2. ASSUME NEW k \in L PROVE \E n \in N : f[n] = k
    <3>1. PICK n \in 1 .. c : at[n] = k BY <1>3
    <3>2. n \in N BY <1>5, <3>1
    <3>3. QED BY <3>1, <3>2
  <2>3. QED BY <2>1, <2>2 DEF Surjection
<1>7. f \in Injection(N, L)
  <2>1. f \in [N -> L] BY <1>3, <1>5
  <2>2. ASSUME NEW m \in N, NEW n \in N, f[m] = f[n] PROVE m = n
    <3>1. at[m] = at[n] BY <2>2
    <3>2. m \in 1 .. c /\ n \in 1 .. c BY <1>5
    <3>3. at[m] \in Int /\ ~(m < n) /\ ~(n < m) BY <1>3, <1>4, <3>1, <3>2
    <3>4. QED BY <1>2, <3>2, <3>3
  <2>3. QED BY <2>1, <2>2 DEF Injection, IsInjective
<1>8. IsFiniteSet(L) BY <1>2, FS_Subset
<1>9. Cardinality(N) = Cardinality(L) BY <1>6, <1>7, <1>8, FS_Injection
<1>10. QED BY <1>9 DEF t, Among

\* u is the entries of s and then those of t.
Joins(u, s, t) ==
  /\ \A i \in DOMAIN s : i \in DOMAIN u /\ u[i] = s[i]
  /\ \A j \in DOMAIN t : Len(s) + j \in DOMAIN u /\ u[Len(s) + j] = t[j]
  /\ \A n \in DOMAIN u :
       IF n <= Len(s) THEN n \in DOMAIN s /\ u[n] = s[n]
       ELSE n - Len(s) \in DOMAIN t /\ u[n] = t[n - Len(s)]

\* The concatenation of two lists is that.
LEMMA ConcatEntries ==
  ASSUME NEW X, NEW s \in Seq(X), NEW t \in Seq(X)
  PROVE  s \o t \in Seq(X) /\ Joins(s \o t, s, t)
<1>1. /\ Len(s) \in Nat /\ DOMAIN s = 1 .. Len(s)
      /\ Len(t) \in Nat /\ DOMAIN t = 1 .. Len(t)
  BY LenProperties
<1>2. /\ s \o t \in Seq(X) /\ Len(s \o t) = Len(s) + Len(t)
      /\ \A i \in 1 .. Len(s) + Len(t) :
           (s \o t)[i] = IF i <= Len(s) THEN s[i] ELSE t[i - Len(s)]
  BY ConcatProperties
<1>3. DOMAIN (s \o t) = 1 .. Len(s) + Len(t) BY <1>2, LenProperties
<1> DEFINE st == s \o t
<1> HIDE DEF st
<1>4. \A i \in DOMAIN s : i \in DOMAIN st /\ st[i] = s[i] BY <1>1, <1>2, <1>3 DEF st
<1>5. \A j \in DOMAIN t : Len(s) + j \in DOMAIN st /\ st[Len(s) + j] = t[j]
  <2>1. TAKE j \in DOMAIN t
  <2>2. Len(s) + j \in 1 .. Len(s) + Len(t) /\ ~(Len(s) + j <= Len(s)) /\ Len(s) + j - Len(s) = j
    BY <1>1
  <2>3. QED BY <1>2, <1>3, <2>2 DEF st
<1>6. \A n \in DOMAIN st :
        IF n <= Len(s) THEN n \in DOMAIN s /\ st[n] = s[n]
        ELSE n - Len(s) \in DOMAIN t /\ st[n] = t[n - Len(s)]
  BY <1>1, <1>2, <1>3 DEF st
<1>7. QED BY <1>2, <1>4, <1>5, <1>6 DEF st, Joins

\* How often an id is listed adds up where it is in one of the two lists only.
LEMMA ConcatTimes ==
  ASSUME NEW X, NEW s \in Seq(X), NEW t \in Seq(X), NEW id
  PROVE  /\ id \notin IdsIn(t) => Times(s \o t, id) = Times(s, id)
         /\ id \notin IdsIn(s) => Times(s \o t, id) = Times(t, id)
<1> DEFINE st == s \o t
           in(u) == {i \in DOMAIN u : u[i].id = id}
<1>1. /\ Len(s) \in Nat /\ DOMAIN s = 1 .. Len(s)
      /\ Len(t) \in Nat /\ DOMAIN t = 1 .. Len(t)
  BY LenProperties
<1>2. st \in Seq(X) /\ Joins(st, s, t) BY ConcatEntries
<1> HIDE DEF st
<1>3. ASSUME id \notin IdsIn(t) PROVE Times(st, id) = Times(s, id)
  <2>1. \A j \in DOMAIN t : t[j].id # id BY <1>3 DEF IdsIn
  <2>2. in(st) = in(s) BY <1>2, <2>1 DEF Joins
  <2>3. QED BY <2>2 DEF Times
<1>4. ASSUME id \notin IdsIn(s) PROVE Times(st, id) = Times(t, id)
  <2>1. \A i \in DOMAIN s : s[i].id # id BY <1>4 DEF IdsIn
  <2> DEFINE f == [j \in in(t) |-> Len(s) + j]
  <2>2. \A j \in in(t) : Len(s) + j \in in(st) BY <1>2 DEF Joins
  <2>3. \A n \in in(st) : n - Len(s) \in in(t) /\ Len(s) + (n - Len(s)) = n
    <3>1. TAKE n \in in(st)
    <3>2. n \in Int
      <4>1. DOMAIN st = 1 .. Len(st) BY <1>2, LenProperties
      <4>2. QED BY <4>1
    <3>3. ~(n <= Len(s)) BY <1>2, <2>1 DEF Joins
    <3>4. n - Len(s) \in DOMAIN t /\ st[n] = t[n - Len(s)] BY <1>2, <3>3 DEF Joins
    <3>5. QED BY <1>1, <3>2, <3>4
  <2>4. f \in Surjection(in(t), in(st))
    <3>1. \A n \in in(st) : \E j \in in(t) : f[j] = n BY <2>3
    <3>2. QED BY <2>2, <3>1 DEF Surjection
  <2>5. f \in Injection(in(t), in(st))
    <3>1. \A i, j \in in(t) : f[i] = f[j] => i = j BY <1>1
    <3>2. QED BY <2>2, <3>1 DEF Injection, IsInjective
  <2>6. IsFiniteSet(in(t))
    <3>1. in(t) \in SUBSET (1 .. Len(t)) BY <1>1
    <3>2. QED BY <1>1, <3>1, IntervalSize, FS_Subset
  <2>7. Cardinality(in(st)) = Cardinality(in(t)) BY <2>4, <2>5, <2>6, FS_Surjection
  <2>8. QED BY <2>7 DEF Times
<1>5. QED BY <1>3, <1>4 DEF st

-----------------------------------------------------------------------------
\* What the documents and the points are made of.
Point == [seed : Nat, id : Nat, text : Texts]
Chunk == [id : Nat, text : Texts]

\* A version of the documents is a list of chunks, and its points carry their ids
\* and texts.
LEMMA PointsType ==
  ASSUME NEW d \in Documents, NEW seed \in Nat
  PROVE  /\ Chunks(d) \in Seq(Chunk) /\ Points(d, seed) \in Seq(Point)
         /\ DOMAIN Points(d, seed) = DOMAIN Chunks(d)
         /\ \A i \in DOMAIN Chunks(d) :
              /\ Points(d, seed)[i].seed = seed
              /\ Points(d, seed)[i].id = Chunks(d)[i].id
              /\ Points(d, seed)[i].text = Chunks(d)[i].text
<1> DEFINE X == [id : Nat, text : Texts \cup {Blank}]
           K == {i \in DOMAIN d : d[i].text # Blank}
           c == Chunks(d)
           p == Points(d, seed)
<1>1. d \in Seq(X) BY RetrievalAssumption
<1>2. c = Picked(d, K) BY DEF Chunks
<1>3. PICK at : Lists(c, d, K, at) BY <1>1, <1>2, PickedLists
<1>4. c \in Seq(X) BY <1>1, <1>2, PickedLists
<1> HIDE DEF c
<1>5. Len(c) \in Nat /\ DOMAIN c = 1 .. Len(c) BY <1>4, LenProperties
<1>6. \A i \in DOMAIN c : c[i] \in Chunk
  <2>1. TAKE i \in DOMAIN c
  <2>2. c[i] \in X BY <1>4, <1>5, ElementOfSeq
  <2>3. \E k \in K : c[i] = d[k] BY <1>3 DEF Lists
  <2>4. c[i].text # Blank BY <2>3
  <2>5. QED BY <2>2, <2>4 DEF Chunk
<1>7. c \in Seq(Chunk)
  <2>1. [i \in 1 .. Len(c) |-> c[i]] \in Seq(Chunk) BY <1>5, <1>6
  <2>2. c = [i \in 1 .. Len(c) |-> c[i]] BY <1>4, LenProperties
  <2>3. QED BY <2>1, <2>2
<1>8. p = [i \in 1 .. Len(c) |-> [seed |-> seed, id |-> c[i].id, text |-> c[i].text]]
  BY <1>5 DEF Points, c
<1>9. p \in Seq(Point)
  <2>1. \A i \in 1 .. Len(c) : [seed |-> seed, id |-> c[i].id, text |-> c[i].text] \in Point
    BY <1>5, <1>6 DEF Point, Chunk
  <2>2. [i \in 1 .. Len(c) |-> [seed |-> seed, id |-> c[i].id, text |-> c[i].text]] \in Seq(Point)
    BY <1>5, <2>1
  <2>3. QED BY <1>8, <2>2
<1> HIDE DEF p
<1>10. /\ DOMAIN p = DOMAIN c
       /\ \A i \in DOMAIN c : p[i].seed = seed /\ p[i].id = c[i].id /\ p[i].text = c[i].text
  BY <1>5, <1>8
<1>11. QED BY <1>7, <1>9, <1>10 DEF c, p

\* Where an id is listed, its last entry is p.
Shows(s, p) ==
  \E i \in DOMAIN s : s[i] = p /\ \A j \in DOMAIN s : s[j].id = p.id => j <= i

\* Some of the new points, in their order.
LEMMA PickedPoints ==
  ASSUME NEW new \in Seq(Point), NEW K \in SUBSET DOMAIN new
  PROVE  LET fresh == Picked(new, K)
         IN  /\ fresh \in Seq(Point)
             /\ \A n \in DOMAIN fresh : \E k \in K : fresh[n] = new[k]
             /\ \A k \in K : \E n \in DOMAIN fresh :
                  /\ fresh[n] = new[k]
                  /\ (\A l \in K : new[l].id = new[k].id => l = k) =>
                       \A m \in DOMAIN fresh : fresh[m].id = new[k].id => m = n
             /\ \A id : (\A k \in DOMAIN new : new[k].id = id => k \in K) =>
                  Times(fresh, id) = Times(new, id)
<1> DEFINE fresh == Picked(new, K)
           c == Cardinality(K)
<1>1. fresh \in Seq(Point) /\ c \in Nat BY PickedLists
<1>2. PICK at : Lists(fresh, new, K, at) BY PickedLists
<1>3. \A id : (\A k \in DOMAIN new : new[k].id = id => k \in K) => Times(fresh, id) = Times(new, id)
  <2>1. SUFFICES ASSUME NEW id, \A k \in DOMAIN new : new[k].id = id => k \in K
                 PROVE  Times(fresh, id) = Times(new, id)
    OBVIOUS
  <2> DEFINE Y == {p \in Point : p.id = id}
  <2>2. Cardinality({n \in DOMAIN fresh : fresh[n] \in Y}) = Cardinality({k \in K : new[k] \in Y})
    <3> HIDE DEF Y
    <3>1. Among(fresh, DOMAIN fresh, Y) = Among(new, K, Y) BY PickedCounts
    <3>2. QED BY <3>1 DEF Among
  <2> HIDE DEF fresh
  <2>3. {n \in DOMAIN fresh : fresh[n] \in Y} = {n \in DOMAIN fresh : fresh[n].id = id}
    <3>1. \A n \in DOMAIN fresh : fresh[n] \in Point BY <1>1, LenProperties, ElementOfSeq
    <3>2. QED BY <3>1
  <2>4. {k \in K : new[k] \in Y} = {k \in DOMAIN new : new[k].id = id}
    <3>1. \A k \in DOMAIN new : new[k] \in Point BY LenProperties, ElementOfSeq
    <3>2. QED BY <2>1, <3>1
  <2>5. QED BY <2>2, <2>3, <2>4 DEF Times
<1> HIDE DEF fresh
<1>4. /\ at \in [1 .. c -> K] /\ DOMAIN fresh = 1 .. c
      /\ \A n \in 1 .. c : fresh[n] = new[at[n]]
      /\ \A m, n \in 1 .. c : m < n => at[m] < at[n]
      /\ \A k \in K : \E n \in 1 .. c : at[n] = k
  BY <1>2 DEF Lists
<1>5. \A n \in DOMAIN fresh : \E k \in K : fresh[n] = new[k] BY <1>4
<1>6. ASSUME NEW k \in K
      PROVE  \E n \in DOMAIN fresh :
               /\ fresh[n] = new[k]
               /\ (\A l \in K : new[l].id = new[k].id => l = k) =>
                    \A m \in DOMAIN fresh : fresh[m].id = new[k].id => m = n
  <2>1. PICK n \in 1 .. c : at[n] = k BY <1>4
  <2>2. ASSUME \A l \in K : new[l].id = new[k].id => l = k,
               NEW m \in DOMAIN fresh, fresh[m].id = new[k].id
        PROVE  m = n
    <3>1. m \in 1 .. c /\ at[m] \in K /\ fresh[m] = new[at[m]] BY <1>4
    <3>2. at[m] = at[n] BY <2>1, <2>2, <3>1
    <3>3. at[n] \in Int
      <4>1. DOMAIN new = 1 .. Len(new) BY LenProperties
      <4>2. QED BY <2>1, <4>1
    <3>4. ~(m < n) /\ ~(n < m) BY <1>4, <3>1, <3>2, <3>3
    <3>5. QED BY <1>1, <3>1, <3>4
  <2>3. n \in DOMAIN fresh /\ fresh[n] = new[k] BY <1>4, <2>1
  <2>4. QED BY <2>2, <2>3
<1>7. QED BY <1>1, <1>3, <1>5, <1>6 DEF fresh

\* What the in-memory store holds after an upsert: the ids of both lists, each old
\* id as often as before and each new one as often as the batch repeats it; and
\* the points of a batch without repetition are the last ones with their ids.
LEMMA MemoryUpsert ==
  ASSUME NEW points \in Seq(Point), NEW new \in Seq(Point)
  PROVE  LET after == UpsertMemory(points, new)
         IN  /\ after \in Seq(Point)
             /\ IdsIn(after) = IdsIn(points) \cup IdsIn(new)
             /\ \A id \in IdsIn(points) : Times(after, id) = Times(points, id)
             /\ \A id \in IdsIn(new) \ IdsIn(points) : Times(after, id) = Times(new, id)
             /\ Range(after) \subseteq Range(points) \cup Range(new)
             /\ IsInjective(Ids(new)) => \A k \in DOMAIN new : Shows(after, new[k])
<1> DEFINE by(i) == {k \in DOMAIN new : new[k].id = points[i].id}
           with(i) == {j \in DOMAIN points : points[j].id = points[i].id}
           kept == [i \in DOMAIN points |->
                      IF by(i) # {} /\ i = Greatest(with(i)) THEN new[Greatest(by(i))] ELSE points[i]]
           K == {k \in DOMAIN new : new[k].id \notin IdsIn(points)}
           fresh == Picked(new, K)
           after == kept \o fresh
<1>1. UpsertMemory(points, new) = after BY DEF UpsertMemory
<1>2. /\ Len(points) \in Nat /\ DOMAIN points = 1 .. Len(points)
      /\ Len(new) \in Nat /\ DOMAIN new = 1 .. Len(new)
  BY LenProperties
<1>3. \A i \in DOMAIN points : points[i] \in Point BY <1>2, ElementOfSeq
<1>4. \A k \in DOMAIN new : new[k] \in Point BY <1>2, ElementOfSeq
<1>5. ASSUME NEW i \in DOMAIN points, by(i) # {}
      PROVE  Greatest(by(i)) \in DOMAIN new /\ new[Greatest(by(i))].id = points[i].id
  <2>1. by(i) \in SUBSET (1 .. Len(new)) BY <1>2
  <2>2. Greatest(by(i)) \in by(i) BY <1>2, <1>5, <2>1, GreatestOf
  <2>3. QED BY <2>2
<1>6. ASSUME NEW i \in DOMAIN points
      PROVE  /\ Greatest(with(i)) \in DOMAIN points /\ points[Greatest(with(i))].id = points[i].id
             /\ \A j \in with(i) : j <= Greatest(with(i))
  <2>1. with(i) \in SUBSET (1 .. Len(points)) /\ i \in with(i) BY <1>2
  <2>2. Greatest(with(i)) \in with(i) /\ \A j \in with(i) : j <= Greatest(with(i))
    <3> DEFINE W == with(i)
    <3>1. W \in SUBSET (1 .. Len(points)) /\ W # {} BY <2>1
    <3> HIDE DEF W
    <3>2. Greatest(W) \in W /\ \A j \in W : j <= Greatest(W) BY <1>2, <3>1, GreatestOf
    <3>3. QED BY <3>2 DEF W
  <2>3. QED BY <2>2
<1>7. DOMAIN kept = DOMAIN points /\ \A i \in DOMAIN points : kept[i] \in Point /\ kept[i].id = points[i].id
  BY <1>3, <1>4, <1>5
<1>8. Range(kept) \subseteq Range(points) \cup Range(new)
  <2>1. \A i \in DOMAIN points : kept[i] \in Range(points) \cup Range(new) BY <1>5 DEF Range
  <2>2. QED BY <1>7, <2>1 DEF Range
<1>9. /\ fresh \in Seq(Point)
      /\ \A n \in DOMAIN fresh : \E k \in K : fresh[n] = new[k]
      /\ \A k \in K : \E n \in DOMAIN fresh :
           /\ fresh[n] = new[k]
           /\ (\A l \in K : new[l].id = new[k].id => l = k) =>
                \A m \in DOMAIN fresh : fresh[m].id = new[k].id => m = n
      /\ \A id : (\A k \in DOMAIN new : new[k].id = id => k \in K) =>
           Times(fresh, id) = Times(new, id)
  <2>1. K \in SUBSET DOMAIN new OBVIOUS
  <2> HIDE DEF K
  <2>2. QED BY <2>1, PickedPoints
<1>10. kept \in Seq(Point) /\ Len(kept) = Len(points)
  <2>1. kept = [i \in 1 .. Len(points) |-> kept[i]] BY <1>2
  <2> HIDE DEF kept
  <2>2. \A i \in 1 .. Len(points) : kept[i] \in Point BY <1>2, <1>7
  <2>3. [i \in 1 .. Len(points) |-> kept[i]] \in Seq(Point) BY <1>2, <2>2
  <2>4. Len([i \in 1 .. Len(points) |-> kept[i]]) = Len(points) BY <1>2
  <2>5. QED BY <2>1, <2>3, <2>4
<1>11. ASSUME IsInjective(Ids(new)), NEW i \in DOMAIN points, NEW k \in DOMAIN new,
              new[k].id = points[i].id
       PROVE  kept[Greatest(with(i))] = new[k]
  <2> DEFINE l == Greatest(with(i))
  <2>1. l \in DOMAIN points /\ points[l].id = points[i].id BY <1>6
  <2>2. with(l) = with(i) /\ by(l) = by(i) BY <2>1
  <2>3. k \in by(i) BY <1>11
  <2>4. \A m \in by(i) : m = k
    <3>1. \A a, b \in DOMAIN new : new[a].id = new[b].id => a = b
      BY <1>11 DEF IsInjective, Ids
    <3>2. QED BY <1>11, <3>1
  <2>5. Greatest(by(i)) = k
    <3>1. Greatest(by(i)) \in DOMAIN new /\ new[Greatest(by(i))].id = points[i].id BY <1>5, <2>3
    <3>2. QED BY <2>4, <3>1
  <2>6. QED BY <2>1, <2>2, <2>3, <2>5
<1> HIDE DEF kept, fresh
<1>12. /\ after \in Seq(Point)
       /\ \A i \in DOMAIN kept : i \in DOMAIN after /\ after[i] = kept[i]
       /\ \A j \in DOMAIN fresh : Len(points) + j \in DOMAIN after /\ after[Len(points) + j] = fresh[j]
       /\ \A n \in DOMAIN after :
            IF n <= Len(points) THEN n \in DOMAIN kept /\ after[n] = kept[n]
            ELSE n - Len(points) \in DOMAIN fresh /\ after[n] = fresh[n - Len(points)]
  <2>1. kept \o fresh \in Seq(Point) /\ Joins(kept \o fresh, kept, fresh)
    BY <1>9, <1>10, ConcatEntries
  <2>2. Len(kept) = Len(points) BY <1>10
  <2>3. QED BY <2>1, <2>2 DEF Joins
<1>13. \A id : /\ id \notin IdsIn(fresh) => Times(after, id) = Times(kept, id)
               /\ id \notin IdsIn(kept) => Times(after, id) = Times(fresh, id)
  BY <1>9, <1>10, ConcatTimes
<1> HIDE DEF after
<1>14. IdsIn(kept) = IdsIn(points) BY <1>7 DEF IdsIn
<1>15. IdsIn(fresh) = IdsIn(new) \ IdsIn(points)
  <2>1. IdsIn(fresh) \subseteq IdsIn(new) \ IdsIn(points) BY <1>9 DEF IdsIn
  <2>2. ASSUME NEW id \in IdsIn(new) \ IdsIn(points) PROVE id \in IdsIn(fresh)
    <3>1. PICK k \in DOMAIN new : new[k].id = id BY DEF IdsIn
    <3>2. k \in K BY <2>2, <3>1
    <3>3. PICK n \in DOMAIN fresh : fresh[n] = new[k] BY <1>9, <3>2
    <3>4. QED BY <3>1, <3>3 DEF IdsIn
  <2>3. QED BY <2>1, <2>2
<1>16. IdsIn(after) = IdsIn(kept) \cup IdsIn(fresh) BY <1>12 DEF IdsIn
<1>17. ASSUME NEW id \in IdsIn(points) PROVE Times(after, id) = Times(points, id)
  <2>1. Times(after, id) = Times(kept, id) BY <1>13, <1>15
  <2>2. {i \in DOMAIN kept : kept[i].id = id} = {i \in DOMAIN points : points[i].id = id} BY <1>7
  <2>3. QED BY <2>1, <2>2 DEF Times
<1>18. ASSUME NEW id \in IdsIn(new) \ IdsIn(points) PROVE Times(after, id) = Times(new, id)
  <2>1. Times(after, id) = Times(fresh, id) BY <1>13, <1>14
  <2>2. QED BY <1>9, <2>1
<1>19. ASSUME IsInjective(Ids(new)), NEW k \in DOMAIN new PROVE Shows(after, new[k])
  <2>1. CASE new[k].id \in IdsIn(points)
    <3>1. PICK i \in DOMAIN points : new[k].id = points[i].id BY <2>1 DEF IdsIn
    <3> DEFINE l == Greatest(with(i))
    <3>2. l \in DOMAIN points /\ kept[l] = new[k] BY <1>6, <1>11, <1>19, <3>1
    <3>3. l \in DOMAIN after /\ after[l] = new[k] BY <1>7, <1>12, <3>2
    <3>4. ASSUME NEW j \in DOMAIN after, after[j].id = new[k].id PROVE j <= l
      <4>1. j <= Len(points)
        <5>1. SUFFICES ASSUME ~(j <= Len(points)) PROVE FALSE OBVIOUS
        <5>2. j - Len(points) \in DOMAIN fresh /\ after[j] = fresh[j - Len(points)] BY <1>12, <5>1
        <5>3. after[j].id \in IdsIn(fresh) BY <5>2 DEF IdsIn
        <5>4. QED BY <1>15, <2>1, <3>4, <5>3
      <4>2. j \in DOMAIN points /\ points[j].id = new[k].id BY <1>7, <1>12, <3>4, <4>1
      <4>3. QED BY <1>6, <3>1, <4>2
    <3>5. QED BY <3>3, <3>4 DEF Shows
  <2>2. CASE new[k].id \notin IdsIn(points)
    <3>1. k \in K BY <2>2
    <3>2. \A l \in K : new[l].id = new[k].id => l = k BY <1>19 DEF IsInjective, Ids
    <3>3. PICK n \in DOMAIN fresh :
            fresh[n] = new[k] /\ \A m \in DOMAIN fresh : fresh[m].id = new[k].id => m = n
      BY <1>9, <3>1, <3>2
    <3>4. Len(points) + n \in DOMAIN after /\ after[Len(points) + n] = new[k] BY <1>12, <3>3
    <3>5. ASSUME NEW j \in DOMAIN after, after[j].id = new[k].id PROVE j <= Len(points) + n
      <4>1. ~(j <= Len(points))
        <5>1. SUFFICES ASSUME j <= Len(points) PROVE FALSE OBVIOUS
        <5>2. j \in DOMAIN points /\ points[j].id = new[k].id BY <1>7, <1>12, <3>5, <5>1
        <5>3. QED BY <2>2, <5>2 DEF IdsIn
      <4>2. j - Len(points) \in DOMAIN fresh /\ after[j] = fresh[j - Len(points)] BY <1>12, <4>1
      <4>3. j - Len(points) = n BY <3>3, <3>5, <4>2
      <4>4. j \in Int /\ n \in Int
        <5>1. DOMAIN after = 1 .. Len(after) /\ DOMAIN fresh = 1 .. Len(fresh) BY <1>9, <1>12, LenProperties
        <5>2. QED BY <5>1
      <4>5. QED BY <1>2, <4>3, <4>4
    <3>6. QED BY <3>4, <3>5 DEF Shows
  <2>3. QED BY <2>1, <2>2
<1>20. Range(fresh) \subseteq Range(new) BY <1>9 DEF Range
<1>21. Range(after) \subseteq Range(kept) \cup Range(fresh) BY <1>12 DEF Range
<1>22. Range(after) \subseteq Range(points) \cup Range(new) BY <1>8, <1>20, <1>21
<1>23. QED BY <1>1, <1>12, <1>14, <1>15, <1>16, <1>17, <1>18, <1>19, <1>22 DEF after

\* No two points of a list are the same one.
OneEach(s) == \A a, b \in DOMAIN s : Same(s[a], s[b]) => a = b

\* Nor are they where two such lists that share no point are put together.
LEMMA JoinedPoints ==
  ASSUME NEW s \in Seq(Point), NEW t \in Seq(Point), OneEach(s), OneEach(t),
         \A i \in DOMAIN s, j \in DOMAIN t : ~Same(s[i], t[j])
  PROVE  /\ s \o t \in Seq(Point) /\ OneEach(s \o t)
         /\ Range(s \o t) = Range(s) \cup Range(t)
<1> DEFINE u == s \o t
<1>1. u \in Seq(Point) /\ Joins(u, s, t) BY ConcatEntries
<1>2. /\ Len(s) \in Nat /\ DOMAIN s = 1 .. Len(s)
      /\ Len(t) \in Nat /\ DOMAIN t = 1 .. Len(t)
      /\ Len(u) \in Nat /\ DOMAIN u = 1 .. Len(u)
  BY <1>1, LenProperties
<1> HIDE DEF u
<1>3. ASSUME NEW a \in DOMAIN u, NEW b \in DOMAIN u, Same(u[a], u[b]) PROVE a = b
  <2>1. a \in Int /\ b \in Int BY <1>2
  <2>2. Same(u[b], u[a]) BY <1>3 DEF Same
  <2>3. CASE a <= Len(s) /\ b <= Len(s)
    BY <1>1, <1>3, <2>3 DEF Joins, OneEach
  <2>4. CASE ~(a <= Len(s)) /\ ~(b <= Len(s))
    <3>1. /\ a - Len(s) \in DOMAIN t /\ u[a] = t[a - Len(s)]
          /\ b - Len(s) \in DOMAIN t /\ u[b] = t[b - Len(s)]
      BY <1>1, <2>4 DEF Joins
    <3>2. a - Len(s) = b - Len(s) BY <1>3, <3>1 DEF OneEach
    <3>3. QED BY <1>2, <2>1, <3>2
  <2>5. CASE a <= Len(s) /\ ~(b <= Len(s))
    BY <1>1, <1>3, <2>5 DEF Joins
  <2>6. CASE ~(a <= Len(s)) /\ b <= Len(s)
    BY <1>1, <2>2, <2>6 DEF Joins
  <2>7. QED BY <2>3, <2>4, <2>5, <2>6
<1>4. Range(u) = Range(s) \cup Range(t)
  <2>1. Range(u) \subseteq Range(s) \cup Range(t) BY <1>1 DEF Joins, Range
  <2>2. Range(s) \subseteq Range(u) BY <1>1 DEF Joins, Range
  <2>3. Range(t) \subseteq Range(u) BY <1>1 DEF Joins, Range
  <2>4. QED BY <2>1, <2>2, <2>3
<1>5. QED BY <1>1, <1>3, <1>4 DEF u, OneEach

\* What Qdrant holds after an upsert: still no point twice, the ids of both lists,
\* nothing that is in neither, and every point of a batch without repetition.
LEMMA QdrantUpsert ==
  ASSUME NEW points \in Seq(Point), NEW new \in Seq(Point), OneEach(points),
         NEW after \in UpsertQdrant(points, new)
  PROVE  /\ after \in Seq(Point) /\ OneEach(after)
         /\ IdsIn(after) = IdsIn(points) \cup IdsIn(new)
         /\ Range(after) \subseteq Range(points) \cup Range(new)
         /\ OneEach(new) => Range(new) \subseteq Range(after)
<1> DEFINE by(p) == {k \in DOMAIN new : Same(new[k], p)}
           kept == [i \in DOMAIN points |->
                      IF by(points[i]) # {} THEN new[Greatest(by(points[i]))] ELSE points[i]]
           K == {k \in DOMAIN new : /\ \A i \in DOMAIN points : ~Same(points[i], new[k])
                                    /\ k = Greatest(by(new[k]))}
           fresh == Picked(new, K)
<1>1. after = kept \o fresh \/ after = fresh \o kept BY DEF UpsertQdrant
<1>2. /\ Len(points) \in Nat /\ DOMAIN points = 1 .. Len(points)
      /\ Len(new) \in Nat /\ DOMAIN new = 1 .. Len(new)
  BY LenProperties
<1>3. \A i \in DOMAIN points : points[i] \in Point BY <1>2, ElementOfSeq
<1>4. \A k \in DOMAIN new : new[k] \in Point BY <1>2, ElementOfSeq
<1>5. ASSUME NEW p, by(p) # {}
      PROVE  Greatest(by(p)) \in DOMAIN new /\ Same(new[Greatest(by(p))], p)
  <2>1. by(p) \in SUBSET (1 .. Len(new)) BY <1>2
  <2> DEFINE B == by(p)
  <2>2. Greatest(B) \in B
    <3> HIDE DEF B
    <3>1. B \in SUBSET (1 .. Len(new)) /\ B # {} BY <1>5, <2>1 DEF B
    <3>2. QED BY <1>2, <3>1, GreatestOf
  <2>3. QED BY <2>2
<1>6. /\ DOMAIN kept = DOMAIN points
      /\ \A i \in DOMAIN points : /\ kept[i] \in Point /\ Same(kept[i], points[i])
                                  /\ kept[i] \in Range(points) \cup Range(new)
  <2>1. SUFFICES ASSUME NEW i \in DOMAIN points
                 PROVE  /\ kept[i] \in Point /\ Same(kept[i], points[i])
                        /\ kept[i] \in Range(points) \cup Range(new)
    OBVIOUS
  <2>2. CASE by(points[i]) = {}
    <3>1. kept[i] = points[i] BY <2>2
    <3>2. QED BY <1>3, <3>1 DEF Same, Range
  <2>3. CASE by(points[i]) # {}
    <3>1. kept[i] = new[Greatest(by(points[i]))] BY <2>3
    <3>2. Greatest(by(points[i])) \in DOMAIN new /\ Same(new[Greatest(by(points[i]))], points[i])
      BY <1>5, <2>3
    <3> HIDE DEF by, kept
    <3>3. QED BY <1>4, <3>1, <3>2 DEF Range
  <2>4. QED BY <2>2, <2>3
<1>7. kept \in Seq(Point)
  <2>1. kept = [i \in 1 .. Len(points) |-> kept[i]] BY <1>2
  <2> HIDE DEF kept
  <2>2. \A i \in 1 .. Len(points) : kept[i] \in Point BY <1>2, <1>6
  <2>3. [i \in 1 .. Len(points) |-> kept[i]] \in Seq(Point) BY <1>2, <2>2
  <2>4. QED BY <2>1, <2>3
<1>8. OneEach(kept)
  <2>1. SUFFICES ASSUME NEW a \in DOMAIN points, NEW b \in DOMAIN points, Same(kept[a], kept[b])
                 PROVE  a = b
    BY <1>6 DEF OneEach
  <2>2. Same(points[a], points[b])
    <3> HIDE DEF kept
    <3>1. QED BY <1>6, <2>1 DEF Same
  <2>3. QED BY <2>2 DEF OneEach
<1>9. fresh \in Seq(Point) /\ \E at : Lists(fresh, new, K, at)
  <2>1. K \in SUBSET DOMAIN new OBVIOUS
  <2> HIDE DEF K
  <2>2. QED BY <2>1, PickedLists
<1>10. PICK at : Lists(fresh, new, K, at) BY <1>9
<1> DEFINE c == Cardinality(K)
<1>11. /\ at \in [1 .. c -> K] /\ DOMAIN fresh = 1 .. c
       /\ \A n \in 1 .. c : fresh[n] = new[at[n]]
       /\ \A m, n \in 1 .. c : m < n => at[m] < at[n]
       /\ \A k \in K : \E n \in 1 .. c : at[n] = k
  <2> HIDE DEF K, fresh
  <2>1. QED BY <1>10 DEF Lists
<1> HIDE DEF c
<1>12. \A k, l \in K : Same(new[k], new[l]) => k = l
  <2>1. TAKE k, l \in K
  <2>2. ASSUME Same(new[k], new[l]) PROVE k = l
    <3>1. by(new[k]) = by(new[l]) BY <2>2 DEF Same
    <3>2. QED BY <3>1
  <2>3. QED BY <2>2
<1>13. \A k \in K : /\ k \in DOMAIN new /\ k \in Int
                    /\ \A i \in DOMAIN points : ~Same(points[i], new[k])
  BY <1>2
<1>14. ASSUME NEW k \in DOMAIN new, \A i \in DOMAIN points : ~Same(points[i], new[k])
       PROVE  \E g \in K : Same(new[g], new[k])
  <2> DEFINE g == Greatest(by(new[k]))
  <2>1. k \in by(new[k]) BY DEF Same
  <2>2. g \in DOMAIN new /\ Same(new[g], new[k]) BY <1>5, <2>1
  <2>3. by(new[g]) = by(new[k]) BY <2>2 DEF Same
  <2>4. g \in K
    <3>1. g = Greatest(by(new[g])) BY <2>3
    <3>2. \A i \in DOMAIN points : ~Same(points[i], new[g]) BY <1>14, <2>2 DEF Same
    <3> HIDE DEF g
    <3>3. QED BY <2>2, <3>1, <3>2
  <2>5. QED BY <2>2, <2>4
<1>15. ASSUME OneEach(new), NEW k \in DOMAIN new
       PROVE  new[k] \in Range(kept) \cup Range(fresh)
  <2>1. \A l \in DOMAIN new : Same(new[l], new[k]) => l = k BY <1>15 DEF OneEach
  <2>2. CASE \A i \in DOMAIN points : ~Same(points[i], new[k])
    <3>1. PICK g \in K : Same(new[g], new[k]) BY <1>14, <2>2
    <3>2. k \in K BY <1>13, <2>1, <3>1
    <3> HIDE DEF K, fresh
    <3>3. QED BY <1>11, <3>2 DEF Range
  <2>3. CASE \E i \in DOMAIN points : Same(points[i], new[k])
    <3>1. PICK i \in DOMAIN points : Same(points[i], new[k]) BY <2>3
    <3>2. k \in by(points[i]) BY <3>1 DEF Same
    <3>3. Greatest(by(points[i])) \in DOMAIN new /\ Same(new[Greatest(by(points[i]))], points[i])
      BY <1>5, <3>2
    <3>4. Greatest(by(points[i])) = k BY <2>1, <3>1, <3>3 DEF Same
    <3>5. kept[i] = new[k] BY <3>2, <3>4
    <3>6. QED BY <1>6, <3>5 DEF Range
  <2>4. QED BY <2>2, <2>3
<1> HIDE DEF kept
<1>16. IdsIn(new) \subseteq IdsIn(points) \cup {new[k].id : k \in K}
  <2>1. SUFFICES ASSUME NEW k \in DOMAIN new
                 PROVE  new[k].id \in IdsIn(points) \cup {new[l].id : l \in K}
    BY DEF IdsIn
  <2>2. CASE \A i \in DOMAIN points : ~Same(points[i], new[k])
    <3>1. PICK g \in K : Same(new[g], new[k]) BY <1>14, <2>2
    <3>2. QED BY <3>1 DEF Same
  <2>3. CASE \E i \in DOMAIN points : Same(points[i], new[k])
    BY <2>3 DEF Same, IdsIn
  <2>4. QED BY <2>2, <2>3
<1> HIDE DEF K, fresh
<1>17. OneEach(fresh)
  <2>1. SUFFICES ASSUME NEW a \in 1 .. c, NEW b \in 1 .. c, Same(fresh[a], fresh[b])
                 PROVE  a = b
    BY <1>11 DEF OneEach
  <2>2. at[a] \in K /\ at[b] \in K /\ Same(new[at[a]], new[at[b]]) BY <1>11, <2>1
  <2>3. at[a] = at[b] BY <1>12, <2>2
  <2>4. ~(a < b) /\ ~(b < a) BY <1>11, <1>13, <2>2, <2>3
  <2>5. a \in Int /\ b \in Int OBVIOUS
  <2>6. QED BY <2>4, <2>5
<1>18. /\ \A i \in DOMAIN kept, j \in DOMAIN fresh : ~Same(kept[i], fresh[j])
       /\ \A j \in DOMAIN fresh, i \in DOMAIN kept : ~Same(fresh[j], kept[i])
  <2>1. SUFFICES ASSUME NEW i \in DOMAIN kept, NEW j \in DOMAIN fresh
                 PROVE  ~Same(kept[i], fresh[j]) /\ ~Same(fresh[j], kept[i])
    OBVIOUS
  <2>2. i \in DOMAIN points /\ Same(kept[i], points[i]) BY <1>6
  <2>3. fresh[j] = new[at[j]] /\ at[j] \in K BY <1>11
  <2>4. ~Same(points[i], new[at[j]]) BY <1>13, <2>2, <2>3
  <2>5. QED BY <2>2, <2>3, <2>4 DEF Same
<1>19. after \in Seq(Point) /\ OneEach(after) /\ Range(after) = Range(kept) \cup Range(fresh)
  <2>1. CASE after = kept \o fresh BY <1>7, <1>8, <1>9, <1>17, <1>18, <2>1, JoinedPoints
  <2>2. CASE after = fresh \o kept BY <1>7, <1>8, <1>9, <1>17, <1>18, <2>2, JoinedPoints
  <2>3. QED BY <1>1, <2>1, <2>2
<1>20. Range(kept) \subseteq Range(points) \cup Range(new) BY <1>6 DEF Range
<1>21. Range(fresh) \subseteq Range(new) BY <1>11, <1>13 DEF Range
<1>22. \A s : IdsIn(s) = {p.id : p \in Range(s)} BY DEF IdsIn, Range
<1>23. IdsIn(kept) = IdsIn(points) BY <1>6 DEF IdsIn, Same
<1>24. IdsIn(fresh) = {new[k].id : k \in K} BY <1>11 DEF IdsIn
<1>25. IdsIn(after) = IdsIn(kept) \cup IdsIn(fresh) BY <1>19, <1>22
<1>26. IdsIn(fresh) \subseteq IdsIn(new) BY <1>13, <1>24 DEF IdsIn
<1>27. IdsIn(after) = IdsIn(points) \cup IdsIn(new) BY <1>16, <1>23, <1>24, <1>25, <1>26
<1>28. OneEach(new) => Range(new) \subseteq Range(after)
  <2>1. OneEach(new) => \A k \in DOMAIN new : new[k] \in Range(after) BY <1>15, <1>19
  <2>2. QED BY <2>1 DEF Range
<1>29. QED BY <1>19, <1>20, <1>21, <1>27, <1>28

\* The chunks of d, if no two of them share an id, are in a store of this kind under
\* the process of this seed; in memory, and in Qdrant until the first restart, they
\* are the last with their ids.
Holding(kind, s, d, seed) ==
  IsInjective(Ids(Chunks(d))) =>
    \A p \in Range(Points(d, seed)) :
      p \in Range(s) /\ (kind = "memory" \/ seed = 0 => Shows(s, p))

\* How often a version repeats an id is a number.
LEMMA TimesType ==
  ASSUME NEW d \in Documents, NEW id
  PROVE  Times(Chunks(d), id) \in Nat
<1> DEFINE T == {i \in DOMAIN Chunks(d) : Chunks(d)[i].id = id}
<1>1. Chunks(d) \in Seq(Chunk)
  <2>1. 0 \in Nat OBVIOUS
  <2>2. QED BY <2>1, PointsType
<1>2. Len(Chunks(d)) \in Nat /\ DOMAIN Chunks(d) = 1 .. Len(Chunks(d)) BY <1>1, LenProperties
<1>3. T \in SUBSET (1 .. Len(Chunks(d))) BY <1>2
<1>4. Cardinality(T) \in Nat BY <1>2, <1>3, IntervalSize, FS_Subset, FS_CardinalityType
<1>5. QED BY <1>4 DEF Times

\* What every upsert does, in either store.
LEMMA UpsertKeeps ==
  ASSUME NEW points \in Seq(Point), NEW d \in Documents, NEW seed \in Nat,
         backend \in {"memory", "qdrant"}, backend = "qdrant" => OneEach(points),
         \A p \in Range(points) : p.seed <= seed,
         NEW after \in Upsert(points, Points(d, seed))
  PROVE  /\ after \in Seq(Point) /\ (backend = "qdrant" => OneEach(after))
         /\ \A p \in Range(after) : p.seed <= seed
         /\ IdsIn(points) \subseteq IdsIn(after)
         /\ backend = "memory" =>
              /\ \A id \in IdsIn(points) : Times(after, id) = Times(points, id)
              /\ \A id \in IdsIn(after) \ IdsIn(points) : Times(after, id) = Times(Chunks(d), id)
         /\ Holding(backend, after, d, seed)
<1> DEFINE new == Points(d, seed)
           c == Chunks(d)
<1>1. /\ c \in Seq(Chunk) /\ new \in Seq(Point) /\ DOMAIN new = DOMAIN c
      /\ \A i \in DOMAIN c : new[i].seed = seed /\ new[i].id = c[i].id /\ new[i].text = c[i].text
  BY PointsType
<1> HIDE DEF new, c
<1>2. \A id : Times(new, id) = Times(c, id)
  <2>1. \A id : {i \in DOMAIN new : new[i].id = id} = {i \in DOMAIN c : c[i].id = id} BY <1>1
  <2>2. QED BY <2>1 DEF Times
<1>3. IsInjective(Ids(c)) => IsInjective(Ids(new)) /\ OneEach(new)
  BY <1>1 DEF IsInjective, Ids, OneEach, Same
<1>4. \A p \in Range(new) : p.seed = seed BY <1>1 DEF Range
<1>5. CASE new = <<>>
  <2>1. after = points BY <1>5 DEF Upsert, new
  <2>2. Range(new) = {} BY <1>5 DEF Range
  <2>3. Holding(backend, after, d, seed) BY <2>2 DEF Holding, new
  <2>4. QED BY <2>1, <2>3
<1>6. CASE new # <<>> /\ backend = "memory"
  <2>1. after = UpsertMemory(points, new) BY <1>6 DEF Upsert, new
  <2>2. /\ after \in Seq(Point)
        /\ IdsIn(after) = IdsIn(points) \cup IdsIn(new)
        /\ \A id \in IdsIn(points) : Times(after, id) = Times(points, id)
        /\ \A id \in IdsIn(new) \ IdsIn(points) : Times(after, id) = Times(new, id)
        /\ Range(after) \subseteq Range(points) \cup Range(new)
        /\ IsInjective(Ids(new)) => \A k \in DOMAIN new : Shows(after, new[k])
    BY <1>1, <2>1, MemoryUpsert
  <2>3. \A p \in Range(after) : p.seed <= seed BY <1>4, <2>2
  <2>4. IsInjective(Ids(new)) => \A p \in Range(new) : p \in Range(after) /\ Shows(after, p)
    BY <2>2 DEF Range, Shows
  <2>5. Holding(backend, after, d, seed) BY <1>3, <2>4 DEF Holding, new, c
  <2>6. \A id \in IdsIn(after) \ IdsIn(points) : Times(after, id) = Times(c, id) BY <1>2, <2>2
  <2>7. QED BY <1>6, <2>2, <2>3, <2>5, <2>6 DEF c
<1>7. CASE new # <<>> /\ backend = "qdrant"
  <2>1. after \in UpsertQdrant(points, new) BY <1>7 DEF Upsert, new
  <2>2. /\ after \in Seq(Point) /\ OneEach(after)
        /\ IdsIn(after) = IdsIn(points) \cup IdsIn(new)
        /\ Range(after) \subseteq Range(points) \cup Range(new)
        /\ OneEach(new) => Range(new) \subseteq Range(after)
    BY <1>1, <1>7, <2>1, QdrantUpsert
  <2>3. \A p \in Range(after) : p.seed <= seed BY <1>4, <2>2
  <2>4. ASSUME seed = 0, NEW p \in Range(after) PROVE Shows(after, p)
    <3>1. PICK n \in DOMAIN after : after[n] = p BY <2>4 DEF Range
    <3>2. \A m \in DOMAIN after : after[m].seed = 0
      <4>1. \A m \in DOMAIN after : after[m].seed \in Nat
        <5>1. \A m \in DOMAIN after : after[m] \in Point BY <2>2, LenProperties, ElementOfSeq
        <5>2. QED BY <5>1 DEF Point
      <4>2. \A m \in DOMAIN after : after[m].seed <= 0 BY <2>3, <2>4 DEF Range
      <4>3. QED BY <4>1, <4>2
    <3>3. \A m \in DOMAIN after : after[m].id = p.id => m = n BY <2>2, <3>1, <3>2 DEF OneEach, Same
    <3>4. n \in Int
      <4>1. DOMAIN after = 1 .. Len(after) BY <2>2, LenProperties
      <4>2. QED BY <4>1
    <3>5. QED BY <3>1, <3>3, <3>4 DEF Shows
  <2>5. Holding(backend, after, d, seed) BY <1>3, <1>7, <2>2, <2>4 DEF Holding, new, c
  <2>6. QED BY <1>7, <2>2, <2>3, <2>5
<1>8. QED BY <1>5, <1>6, <1>7

-----------------------------------------------------------------------------
\* The types of the index and of the ingests.
IndexType ==
  /\ backend \in {"memory", "qdrant"} /\ docs \in Documents /\ taken \in Documents
  /\ store \in Seq(Point) /\ chunks \in Seq(Point)
  /\ step \in [Ingests -> Steps]
  /\ batch \in [Ingests -> Seq(Point)] /\ fetched \in [Ingests -> Seq(Point)]
  /\ restarts \in Nat /\ overlap \in BOOLEAN

\* No point is in Qdrant twice, and none comes from a process yet to start.
PointsAreOne ==
  /\ backend = "qdrant" => OneEach(store)
  /\ \A p \in Range(store) : p.seed <= restarts

\* What an ingest is about to store are the points of one version.
BatchIsRead == \A i \in Ingests : step[i] = "read" => \E d \in Documents : batch[i] = Points(d, restarts)

\* In memory an id is there no more often than in one version.
MemoryCopies ==
  backend = "memory" =>
    \A id \in IdsIn(store) : \E d \in Documents : Times(store, id) <= Times(Chunks(d), id)

\* Of CopiesAreBounded.
StoreInv == IndexType /\ PointsAreOne /\ BatchIsRead /\ MemoryCopies

\* Of IngestTakes: while no two ingests have overlapped, one is under way at most,
\* and what the last one read is wherever that ingest has got to.
TakenInv ==
  ~overlap =>
    /\ \A i, j \in Ingests : Busy(i) /\ Busy(j) => i = j
    /\ Idle => Holding(backend, chunks, taken, restarts) /\ IdsIn(chunks) = IdsIn(store)
    /\ \A i \in Ingests :
         /\ step[i] = "read" => batch[i] = Points(taken, restarts)
         /\ step[i] = "stored" => Holding(backend, store, taken, restarts)
         /\ step[i] = "fetched" =>
              Holding(backend, fetched[i], taken, restarts) /\ IdsIn(fetched[i]) = IdsIn(store)

\* A list of ids no longer than the rankings go.
Rankings == {s \in Seq(Nat) : Len(s) <= Depth}

\* Of SearchIsWhole: the ids that the vector store answered with are still in it.
DenseIsStored ==
  /\ query \in Queries \cup {NoQuery} /\ dense \in Rankings
  /\ query # NoQuery => Range(dense) \subseteq IdsIn(store)

\* Of AgreementWins: hits come from the fusion of the two rankings beside them.
HitsAreFused ==
  \/ hits = NoHits
  \/ /\ hits.dense \in Rankings /\ hits.sparse \in Rankings
     /\ hits.ids = Fused(<<hits.dense, hits.sparse>>)

\* The empty list of points meets whatever is asked of one.
LEMMA NoPoints ==
  /\ <<>> \in Seq(Point) /\ OneEach(<<>>) /\ IdsIn(<<>>) = {} /\ Range(<<>>) = {}
<1>1. DOMAIN <<>> = {} OBVIOUS
<1>2. <<>> \in Seq(Point) BY EmptySeq
<1>3. QED BY <1>1, <1>2 DEF OneEach, IdsIn, Range

\* The first ingest of a process leaves the store in order.
LEMMA InitStore == ASSUME Init PROVE StoreInv
<1>1. /\ backend \in {"memory", "qdrant"} /\ docs \in Documents /\ taken = docs
      /\ store \in Upsert(<<>>, Points(docs, 0)) /\ chunks = store
      /\ restarts = 0 /\ overlap = FALSE
  BY DEF Init
<1>2. /\ store \in Seq(Point) /\ (backend = "qdrant" => OneEach(store))
      /\ \A p \in Range(store) : p.seed <= 0
      /\ backend = "memory" =>
           \A id \in IdsIn(store) \ IdsIn(<<>>) : Times(store, id) = Times(Chunks(docs), id)
  <2> DEFINE none == <<>>
  <2>1. 0 \in Nat /\ none \in Seq(Point) /\ OneEach(none) /\ Range(none) = {}
        /\ store \in Upsert(none, Points(docs, 0))
    BY <1>1, NoPoints
  <2> HIDE DEF none
  <2>2. \A p \in Range(none) : p.seed <= 0 BY <2>1
  <2>3. /\ store \in Seq(Point) /\ (backend = "qdrant" => OneEach(store))
        /\ \A p \in Range(store) : p.seed <= 0
        /\ backend = "memory" =>
             \A id \in IdsIn(store) \ IdsIn(none) : Times(store, id) = Times(Chunks(docs), id)
    BY <1>1, <2>1, <2>2, UpsertKeeps
  <2>4. QED BY <2>3 DEF none
<1>3. IndexType
  <2>1. step \in [Ingests -> Steps] BY DEF Init, Steps
  <2>2. batch \in [Ingests -> Seq(Point)] /\ fetched \in [Ingests -> Seq(Point)]
    BY NoPoints DEF Init
  <2>3. QED BY <1>1, <1>2, <2>1, <2>2 DEF IndexType
<1>4. MemoryCopies
  <2>1. \A id : Times(Chunks(docs), id) \in Nat BY <1>1, TimesType
  <2>2. QED BY <1>1, <1>2, <2>1, NoPoints DEF MemoryCopies
<1>5. PointsAreOne BY <1>1, <1>2 DEF PointsAreOne
<1>6. BatchIsRead BY DEF Init, BatchIsRead
<1>7. QED BY <1>3, <1>4, <1>5, <1>6 DEF StoreInv

\* What an upsert of one version's points does to the invariant of the store.
LEMMA UpsertStore ==
  ASSUME StoreInv, NEW points \in Seq(Point), NEW d \in Documents, NEW seed \in Nat,
         restarts <= seed, points = store \/ points = <<>>,
         NEW after \in Upsert(points, Points(d, seed))
  PROVE  /\ after \in Seq(Point) /\ (backend = "qdrant" => OneEach(after))
         /\ \A p \in Range(after) : p.seed <= seed
         /\ IdsIn(points) \subseteq IdsIn(after)
         /\ backend = "memory" =>
              \A id \in IdsIn(after) : \E e \in Documents : Times(after, id) <= Times(Chunks(e), id)
         /\ Holding(backend, after, d, seed)
<1>1. backend \in {"memory", "qdrant"} /\ store \in Seq(Point) /\ restarts \in Nat
  BY DEF StoreInv, IndexType
<1>2. backend = "qdrant" => OneEach(points) BY NoPoints DEF StoreInv, PointsAreOne
<1>3. \A p \in Range(points) : p.seed <= seed
  <2>1. \A p \in Range(store) : p.seed \in Nat
    <3>1. \A i \in DOMAIN store : store[i] \in Point BY <1>1, LenProperties, ElementOfSeq
    <3>2. QED BY <3>1 DEF Range, Point
  <2>2. \A p \in Range(store) : p.seed <= restarts BY DEF StoreInv, PointsAreOne
  <2>3. \A p \in Range(store) : p.seed <= seed BY <1>1, <2>1, <2>2
  <2>4. QED BY <2>3, NoPoints
<1>4. /\ after \in Seq(Point) /\ (backend = "qdrant" => OneEach(after))
      /\ \A p \in Range(after) : p.seed <= seed
      /\ IdsIn(points) \subseteq IdsIn(after)
      /\ backend = "memory" =>
           /\ \A id \in IdsIn(points) : Times(after, id) = Times(points, id)
           /\ \A id \in IdsIn(after) \ IdsIn(points) : Times(after, id) = Times(Chunks(d), id)
      /\ Holding(backend, after, d, seed)
  BY <1>1, <1>2, <1>3, UpsertKeeps
<1>5. ASSUME backend = "memory", NEW id \in IdsIn(after)
      PROVE  \E e \in Documents : Times(after, id) <= Times(Chunks(e), id)
  <2>1. CASE id \in IdsIn(points)
    <3>1. Times(after, id) = Times(store, id) /\ id \in IdsIn(store) BY <1>4, <1>5, <2>1, NoPoints
    <3>2. QED BY <1>5, <3>1 DEF StoreInv, MemoryCopies
  <2>2. CASE id \notin IdsIn(points)
    <3>1. Times(after, id) = Times(Chunks(d), id) BY <1>4, <1>5, <2>2
    <3>2. Times(Chunks(d), id) \in Nat BY TimesType
    <3>3. QED BY <3>1, <3>2
  <2>3. QED BY <2>1, <2>2
<1>6. QED BY <1>4, <1>5

\* Every step keeps the store in order.
LEMMA StepStore == ASSUME StoreInv, [Next]_vars PROVE StoreInv'
<1> USE DEF StoreInv
<1>0. /\ IndexType /\ PointsAreOne /\ BatchIsRead /\ MemoryCopies OBVIOUS
<1>1. CASE Edit
  BY <1>1 DEF Edit, IndexType, PointsAreOne, BatchIsRead, MemoryCopies, index, ingest, ghosts
<1>2. ASSUME NEW i \in Ingests, Read(i) PROVE StoreInv'
  <2>1. /\ step[i] = "idle" /\ batch' = [batch EXCEPT ![i] = Points(docs, restarts)]
        /\ step' = [step EXCEPT ![i] = "read"]
        /\ overlap' = (overlap \/ \E j \in Ingests \ {i} : Busy(j)) /\ taken' = docs
        /\ UNCHANGED <<backend, docs, store, chunks, fetched, restarts>>
    BY <1>2 DEF Read, index
  <2>2. Points(docs, restarts) \in Seq(Point) BY <1>0, PointsType DEF IndexType
  <2>3. IndexType' BY <1>0, <2>1, <2>2 DEF IndexType, Steps
  <2>4. PointsAreOne' /\ MemoryCopies' BY <1>0, <2>1 DEF PointsAreOne, MemoryCopies
  <2>5. BatchIsRead'
    <3>1. docs \in Documents BY <1>0 DEF IndexType
    <3>2. QED BY <1>0, <2>1, <3>1 DEF BatchIsRead, IndexType
  <2>6. QED BY <2>3, <2>4, <2>5
<1>3. ASSUME NEW i \in Ingests, Store(i) PROVE StoreInv'
  <2>1. /\ step[i] = "read" /\ store' \in Upsert(store, batch[i])
        /\ step' = [step EXCEPT ![i] = "stored"]
        /\ UNCHANGED <<backend, docs, chunks, batch, fetched, restarts, overlap, taken>>
    BY <1>3 DEF Store, ghosts
  <2>2. PICK d \in Documents : batch[i] = Points(d, restarts) BY <1>0, <2>1 DEF BatchIsRead
  <2>3. store \in Seq(Point) /\ restarts \in Nat /\ restarts <= restarts BY <1>0 DEF IndexType
  <2>4. /\ store' \in Seq(Point) /\ (backend = "qdrant" => OneEach(store'))
        /\ \A p \in Range(store') : p.seed <= restarts
        /\ backend = "memory" =>
             \A id \in IdsIn(store') : \E e \in Documents : Times(store', id) <= Times(Chunks(e), id)
    <3>1. store' \in Upsert(store, Points(d, restarts)) BY <2>1, <2>2
    <3>2. QED BY <2>3, <3>1, UpsertStore
  <2>5. IndexType' BY <1>0, <2>1, <2>4 DEF IndexType, Steps
  <2>6. PointsAreOne' /\ MemoryCopies' BY <2>1, <2>4 DEF PointsAreOne, MemoryCopies
  <2>7. BatchIsRead' BY <1>0, <2>1 DEF BatchIsRead, IndexType
  <2>8. QED BY <2>5, <2>6, <2>7
<1>4. ASSUME NEW i \in Ingests, Fetch(i) PROVE StoreInv'
  <2>1. IndexType' BY <1>0, <1>4 DEF Fetch, IndexType, Steps, index, ghosts
  <2>2. PointsAreOne' /\ MemoryCopies'
    BY <1>0, <1>4 DEF Fetch, PointsAreOne, MemoryCopies, index
  <2>3. BatchIsRead' BY <1>0, <1>4 DEF Fetch, BatchIsRead, IndexType
  <2>4. QED BY <2>1, <2>2, <2>3
<1>5. ASSUME NEW i \in Ingests, Install(i) PROVE StoreInv'
  <2>1. IndexType' BY <1>0, <1>5, NoPoints DEF Install, IndexType, Steps, ghosts
  <2>2. PointsAreOne' /\ MemoryCopies' BY <1>0, <1>5 DEF Install, PointsAreOne, MemoryCopies
  <2>3. BatchIsRead' BY <1>0, <1>5 DEF Install, BatchIsRead, IndexType
  <2>4. QED BY <2>1, <2>2, <2>3
<1>6. ASSUME NEW q \in Queries, Search(q) PROVE StoreInv'
  BY <1>0, <1>6 DEF Search, IndexType, PointsAreOne, BatchIsRead, MemoryCopies, index, ingest, ghosts
<1>7. CASE Fuse
  BY <1>0, <1>7 DEF Fuse, IndexType, PointsAreOne, BatchIsRead, MemoryCopies, index, ingest, ghosts
<1>8. CASE Restart
  <2> DEFINE points == IF backend = "memory" THEN <<>> ELSE store
  <2>1. /\ restarts' = restarts + 1
        /\ store' \in Upsert(points, Points(docs, restarts')) /\ chunks' = store'
        /\ step' = [i \in Ingests |-> IF Busy(i) THEN "over" ELSE step[i]]
        /\ batch' = [i \in Ingests |-> <<>>] /\ fetched' = [i \in Ingests |-> <<>>]
        /\ taken' = docs /\ UNCHANGED <<backend, docs, overlap>>
    BY <1>8 DEF Restart, Boot
  <2>2. /\ points \in Seq(Point) /\ docs \in Documents
        /\ restarts' \in Nat /\ restarts <= restarts' /\ (points = store \/ points = <<>>)
    BY <1>0, <2>1, NoPoints DEF IndexType
  <2> HIDE DEF points
  <2>3. /\ store' \in Seq(Point) /\ (backend = "qdrant" => OneEach(store'))
        /\ \A p \in Range(store') : p.seed <= restarts'
        /\ backend = "memory" =>
             \A id \in IdsIn(store') : \E e \in Documents : Times(store', id) <= Times(Chunks(e), id)
    BY <2>1, <2>2, UpsertStore
  <2>4. step' \in [Ingests -> Steps] BY <1>0, <2>1 DEF IndexType, Steps
  <2>5. batch' \in [Ingests -> Seq(Point)] /\ fetched' \in [Ingests -> Seq(Point)] BY <2>1, NoPoints
  <2>6. IndexType' BY <1>0, <2>1, <2>2, <2>3, <2>4, <2>5 DEF IndexType
  <2>7. PointsAreOne' /\ MemoryCopies' BY <2>1, <2>3 DEF PointsAreOne, MemoryCopies
  <2>8. BatchIsRead'
    <3>1. \A i \in Ingests : step'[i] # "read"
      BY <2>1 DEF Busy
    <3>2. QED BY <3>1 DEF BatchIsRead
  <2>9. QED BY <2>6, <2>7, <2>8
<1>9. CASE UNCHANGED vars
  BY <1>0, <1>9 DEF vars, IndexType, PointsAreOne, BatchIsRead, MemoryCopies, index, ingest, ghosts
<1>10. QED BY <1>1, <1>2, <1>3, <1>4, <1>5, <1>6, <1>7, <1>8, <1>9 DEF Next

\* The store is in order in every state.
LEMMA StoreInvariance == Spec => []StoreInv
<1>1. Init => StoreInv BY InitStore
<1>2. StoreInv /\ [Next]_vars => StoreInv' BY StepStore
<1>3. QED BY <1>1, <1>2, PTL DEF Spec

\* In Qdrant the points of one id are of different processes, and there have been
\* no more of those than restarts and the first.
LEMMA OneOfEachProcess ==
  ASSUME StoreInv, backend = "qdrant", NEW id
  PROVE  Times(store, id) <= restarts + 1
<1> DEFINE T == {i \in DOMAIN store : store[i].id = id}
           f == [i \in T |-> store[i].seed]
<1>1. store \in Seq(Point) /\ restarts \in Nat BY DEF StoreInv, IndexType
<1>2. \A i \in T : store[i].seed \in 0 .. restarts
  <2>1. \A i \in DOMAIN store : store[i] \in Point BY <1>1, LenProperties, ElementOfSeq
  <2>2. \A i \in DOMAIN store : store[i].seed <= restarts BY DEF StoreInv, PointsAreOne, Range
  <2>3. QED BY <1>1, <2>1, <2>2 DEF Point
<1>3. \A i, j \in T : f[i] = f[j] => i = j BY DEF StoreInv, PointsAreOne, OneEach, Same
<1>4. f \in Injection(T, 0 .. restarts) BY <1>2, <1>3 DEF Injection, IsInjective
<1>5. IsFiniteSet(0 .. restarts) /\ Cardinality(0 .. restarts) = restarts + 1
  <2>1. 0 \in Int /\ restarts \in Int BY <1>1
  <2>2. /\ IsFiniteSet(0 .. restarts)
        /\ Cardinality(0 .. restarts) = IF 0 > restarts THEN 0 ELSE restarts - 0 + 1
    BY <2>1, FS_Interval
  <2>3. QED BY <1>1, <2>2
<1>6. Cardinality(T) <= Cardinality(0 .. restarts) BY <1>4, <1>5, FS_Injection
<1>7. QED BY <1>5, <1>6 DEF Times

\* Every history of edits, ingests, overlaps and restarts leaves a section in the
\* store no more often than there were processes, or in memory than one version of
\* the documents repeats it.
THEOREM CopiesStayBounded == Spec => []CopiesAreBounded
<1>1. ASSUME StoreInv PROVE CopiesAreBounded
  <2>1. backend \in {"memory", "qdrant"} BY <1>1 DEF StoreInv, IndexType
  <2>2. backend = "qdrant" => \A id \in IdsIn(store) : Times(store, id) <= restarts + 1
    BY <1>1, OneOfEachProcess
  <2>3. backend = "memory" =>
          \A id \in IdsIn(store) : \E d \in Documents : Times(store, id) <= Times(Chunks(d), id)
    BY <1>1 DEF StoreInv, MemoryCopies
  <2>4. QED BY <2>1, <2>2, <2>3 DEF CopiesAreBounded
<1>2. QED BY <1>1, StoreInvariance, PTL

-----------------------------------------------------------------------------
\* The first ingest puts what it read everywhere.
LEMMA InitTaken == ASSUME Init PROVE TakenInv
<1>1. /\ backend \in {"memory", "qdrant"} /\ docs \in Documents /\ taken = docs
      /\ store \in Upsert(<<>>, Points(docs, 0)) /\ chunks = store /\ restarts = 0
      /\ step = [i \in Ingests |-> "idle"]
  BY DEF Init
<1>2. Holding(backend, store, docs, 0)
  <2> DEFINE none == <<>>
  <2>1. 0 \in Nat /\ none \in Seq(Point) /\ OneEach(none) /\ Range(none) = {}
        /\ store \in Upsert(none, Points(docs, 0))
    BY <1>1, NoPoints
  <2> HIDE DEF none
  <2>2. \A p \in Range(none) : p.seed <= 0 BY <2>1
  <2>3. QED BY <1>1, <2>1, <2>2, UpsertKeeps
<1>3. QED BY <1>1, <1>2 DEF TakenInv, Busy

\* Every step takes it along.
LEMMA StepTaken == ASSUME StoreInv, TakenInv, [Next]_vars PROVE TakenInv'
<1>1. IndexType BY DEF StoreInv
<1>2. SUFFICES ASSUME ~overlap' PROVE TakenInv' BY DEF TakenInv
<1> DEFINE Taken ==
      /\ \A i, j \in Ingests : Busy(i) /\ Busy(j) => i = j
      /\ Idle => Holding(backend, chunks, taken, restarts) /\ IdsIn(chunks) = IdsIn(store)
      /\ \A i \in Ingests :
           /\ step[i] = "read" => batch[i] = Points(taken, restarts)
           /\ step[i] = "stored" => Holding(backend, store, taken, restarts)
           /\ step[i] = "fetched" =>
                Holding(backend, fetched[i], taken, restarts) /\ IdsIn(fetched[i]) = IdsIn(store)
<1>3. ~overlap => Taken BY DEF TakenInv
<1>4. Taken' => TakenInv' BY DEF TakenInv
<1>5. CASE Edit
  <2>1. UNCHANGED <<backend, store, chunks, step, batch, fetched, restarts, overlap, taken>>
    BY <1>5 DEF Edit, index, ingest, ghosts
  <2>2. Taken' BY <1>2, <1>3, <2>1 DEF Busy, Idle
  <2>3. QED BY <1>4, <2>2
<1>6. ASSUME NEW i \in Ingests, Read(i) PROVE TakenInv'
  <2>1. /\ step[i] = "idle" /\ batch' = [batch EXCEPT ![i] = Points(docs, restarts)]
        /\ step' = [step EXCEPT ![i] = "read"]
        /\ overlap' = (overlap \/ \E j \in Ingests \ {i} : Busy(j)) /\ taken' = docs
        /\ UNCHANGED <<backend, docs, store, chunks, fetched, restarts>>
    BY <1>6 DEF Read, index
  <2>2. \A j \in Ingests \ {i} : ~Busy(j) BY <1>2, <2>1
  <2>3. \A j \in Ingests \ {i} : step'[j] = step[j] BY <1>1, <2>1 DEF IndexType
  <2>4. step'[i] = "read" /\ batch'[i] = Points(taken', restarts') BY <1>1, <2>1 DEF IndexType
  <2>5. \A j \in Ingests \ {i} : ~Busy(j)' BY <2>2, <2>3 DEF Busy
  <2>6. Busy(i)' BY <2>4 DEF Busy
  <2>7. ~Idle' BY <2>6 DEF Idle
  <2>8. \A j \in Ingests \ {i} : step'[j] \notin {"read", "stored", "fetched"} BY <2>5 DEF Busy
  <2>9. Taken' BY <2>4, <2>5, <2>7, <2>8
  <2>10. QED BY <1>4, <2>9
<1>7. ASSUME NEW i \in Ingests, Store(i) PROVE TakenInv'
  <2>1. /\ step[i] = "read" /\ store' \in Upsert(store, batch[i])
        /\ step' = [step EXCEPT ![i] = "stored"]
        /\ UNCHANGED <<backend, chunks, batch, fetched, restarts, overlap, taken>>
    BY <1>7 DEF Store, ghosts
  <2>2. Taken BY <1>2, <1>3, <2>1
  <2>3. batch[i] = Points(taken, restarts) BY <2>1, <2>2
  <2>4. Holding(backend, store', taken, restarts)
    <3>1. store \in Seq(Point) /\ taken \in Documents /\ restarts \in Nat /\ restarts <= restarts
      BY <1>1 DEF IndexType
    <3>2. store' \in Upsert(store, Points(taken, restarts)) BY <2>1, <2>3
    <3>3. QED BY <3>1, <3>2, UpsertStore
  <2>5. step'[i] = "stored" /\ \A j \in Ingests \ {i} : step'[j] = step[j]
    BY <1>1, <2>1 DEF IndexType
  <2>6. Busy(i) /\ \A j \in Ingests \ {i} : ~Busy(j) BY <2>1, <2>2 DEF Busy
  <2>7. Busy(i)' /\ \A j \in Ingests \ {i} : ~Busy(j)' BY <2>5, <2>6 DEF Busy
  <2>8. ~Idle' BY <2>7 DEF Idle
  <2>9. \A j \in Ingests \ {i} : step'[j] \notin {"read", "stored", "fetched"} BY <2>7 DEF Busy
  <2>10. Taken' BY <2>1, <2>4, <2>5, <2>7, <2>8, <2>9
  <2>11. QED BY <1>4, <2>10
<1>8. ASSUME NEW i \in Ingests, Fetch(i) PROVE TakenInv'
  <2>1. /\ step[i] = "stored" /\ fetched' = [fetched EXCEPT ![i] = store]
        /\ step' = [step EXCEPT ![i] = "fetched"]
        /\ UNCHANGED <<backend, store, chunks, batch, restarts, overlap, taken>>
    BY <1>8 DEF Fetch, index, ghosts
  <2>2. Taken BY <1>2, <1>3, <2>1
  <2>3. Holding(backend, store, taken, restarts) BY <2>1, <2>2
  <2>4. /\ step'[i] = "fetched" /\ fetched'[i] = store
        /\ \A j \in Ingests \ {i} : step'[j] = step[j]
    BY <1>1, <2>1 DEF IndexType
  <2>5. \A j \in Ingests \ {i} : ~Busy(j) BY <2>1, <2>2 DEF Busy
  <2>6. Busy(i)' /\ \A j \in Ingests \ {i} : ~Busy(j)' BY <2>4, <2>5 DEF Busy
  <2>7. ~Idle' BY <2>6 DEF Idle
  <2>8. \A j \in Ingests \ {i} : step'[j] \notin {"read", "stored", "fetched"} BY <2>6 DEF Busy
  <2>9. Holding(backend, fetched'[i], taken, restarts) /\ IdsIn(fetched'[i]) = IdsIn(store)
    BY <2>3, <2>4
  <2>10. Taken' BY <2>1, <2>4, <2>6, <2>7, <2>8, <2>9
  <2>11. QED BY <1>4, <2>10
<1>9. ASSUME NEW i \in Ingests, Install(i) PROVE TakenInv'
  <2>1. /\ step[i] = "fetched" /\ chunks' = fetched[i]
        /\ step' = [step EXCEPT ![i] = "over"]
        /\ UNCHANGED <<backend, store, restarts, overlap, taken>>
    BY <1>9 DEF Install, ghosts
  <2>2. Taken BY <1>2, <1>3, <2>1
  <2>3. Holding(backend, chunks', taken, restarts) /\ IdsIn(chunks') = IdsIn(store) BY <2>1, <2>2
  <2>4. \A j \in Ingests \ {i} : ~Busy(j) BY <2>1, <2>2 DEF Busy
  <2>5. step'[i] = "over" /\ \A j \in Ingests \ {i} : step'[j] = step[j]
    BY <1>1, <2>1 DEF IndexType
  <2>6. \A j \in Ingests : ~Busy(j)' BY <2>4, <2>5 DEF Busy
  <2>7. \A j \in Ingests : step'[j] \notin {"read", "stored", "fetched"} BY <2>6 DEF Busy
  <2>8. Taken' BY <2>1, <2>3, <2>6, <2>7
  <2>9. QED BY <1>4, <2>8
<1>10. ASSUME NEW q \in Queries, Search(q) PROVE TakenInv'
  <2>1. UNCHANGED <<backend, store, chunks, step, batch, fetched, restarts, overlap, taken>>
    BY <1>10 DEF Search, index, ingest, ghosts
  <2>2. Taken' BY <1>2, <1>3, <2>1 DEF Busy, Idle
  <2>3. QED BY <1>4, <2>2
<1>11. CASE Fuse
  <2>1. UNCHANGED <<backend, store, chunks, step, batch, fetched, restarts, overlap, taken>>
    BY <1>11 DEF Fuse, index, ingest, ghosts
  <2>2. Taken' BY <1>2, <1>3, <2>1 DEF Busy, Idle
  <2>3. QED BY <1>4, <2>2
<1>12. CASE Restart
  <2> DEFINE points == IF backend = "memory" THEN <<>> ELSE store
  <2>1. /\ restarts' = restarts + 1
        /\ store' \in Upsert(points, Points(docs, restarts')) /\ chunks' = store'
        /\ step' = [i \in Ingests |-> IF Busy(i) THEN "over" ELSE step[i]]
        /\ taken' = docs /\ UNCHANGED <<backend, docs, overlap>>
    BY <1>12 DEF Restart, Boot
  <2>2. /\ points \in Seq(Point) /\ docs \in Documents
        /\ restarts' \in Nat /\ restarts <= restarts' /\ (points = store \/ points = <<>>)
    BY <1>1, <2>1, NoPoints DEF IndexType
  <2> HIDE DEF points
  <2>3. Holding(backend, store', docs, restarts') BY <2>1, <2>2, UpsertStore
  <2>4. \A i \in Ingests : step'[i] \notin {"read", "stored", "fetched"} BY <2>1 DEF Busy
  <2>5. \A i \in Ingests : ~Busy(i)' BY <2>4 DEF Busy
  <2>6. Taken' BY <2>1, <2>3, <2>4, <2>5
  <2>7. QED BY <1>4, <2>6
<1>13. CASE UNCHANGED vars
  <2>1. UNCHANGED <<backend, store, chunks, step, batch, fetched, restarts, overlap, taken>>
    BY <1>13 DEF vars, index, ingest, ghosts
  <2>2. Taken' BY <1>2, <1>3, <2>1 DEF Busy, Idle
  <2>3. QED BY <1>4, <2>2
<1>14. QED BY <1>5, <1>6, <1>7, <1>8, <1>9, <1>10, <1>11, <1>12, <1>13 DEF Next

\* So it is there in every state.
LEMMA TakenInvariance == Spec => []TakenInv
<1>1. Init => TakenInv BY InitTaken
<1>2. StoreInv /\ TakenInv /\ [Next]_vars => TakenInv' BY StepTaken
<1>3. QED BY <1>1, <1>2, StoreInvariance, PTL DEF Spec

\* Where the entry that a list shows for an id is the last one, it is the one that
\* the snapshot looks the id up as.
LEMMA FoundShows ==
  ASSUME chunks \in Seq(Point), NEW p, Shows(chunks, p)
  PROVE  Found(<<p.id>>)[1] = p
<1> DEFINE one == <<p.id>>
           K == {n \in DOMAIN one : one[n] \in IdsIn(chunks)}
           known == Picked(one, K)
           at(id) == {k \in DOMAIN chunks : chunks[k].id = id}
<1>1. PICK i \in DOMAIN chunks :
        chunks[i] = p /\ \A j \in DOMAIN chunks : chunks[j].id = p.id => j <= i
  BY DEF Shows
<1>2. Len(chunks) \in Nat /\ DOMAIN chunks = 1 .. Len(chunks) BY LenProperties
<1>3. one \in Seq({p.id}) /\ DOMAIN one = {1} /\ one[1] = p.id OBVIOUS
<1>4. p.id \in IdsIn(chunks) BY <1>1 DEF IdsIn
<1>5. K = {1} BY <1>3, <1>4
<1>6. Found(one) = [n \in DOMAIN known |-> chunks[Greatest(at(known[n]))]] BY DEF Found
<1>7. known \in Seq({p.id}) /\ Len(known) = 1
  <2>1. K \in SUBSET DOMAIN one OBVIOUS
  <2>2. Cardinality(K) = 1 BY <1>5, FS_Singleton
  <2> HIDE DEF K, one
  <2>3. known \in Seq({p.id}) /\ Len(known) = Cardinality(K) BY <1>3, <2>1, PickedLists
  <2>4. QED BY <2>2, <2>3
<1> HIDE DEF known
<1>8. 1 \in DOMAIN known /\ known[1] = p.id
  <2>1. DOMAIN known = 1 .. 1 BY <1>7, LenProperties
  <2>2. 1 \in 1 .. Len(known) BY <1>7
  <2>3. known[1] \in {p.id} BY <1>7, <2>2, ElementOfSeq
  <2>4. QED BY <2>1, <2>3
<1>9. Greatest(at(p.id)) = i
  <2> DEFINE A == at(p.id)
  <2>1. A \in SUBSET (1 .. Len(chunks)) /\ i \in A /\ \A j \in A : j <= i BY <1>1, <1>2
  <2> HIDE DEF A
  <2>2. Greatest(A) \in A /\ \A j \in A : j <= Greatest(A) BY <1>2, <2>1, GreatestOf
  <2>3. Greatest(A) = i BY <1>2, <2>1, <2>2
  <2>4. QED BY <2>3 DEF A
<1>10. Found(one)[1] = chunks[Greatest(at(known[1]))] BY <1>6, <1>8
<1>11. QED BY <1>1, <1>8, <1>9, <1>10

\* Whatever the documents and however ingests, searches, edits and restarts
\* follow each other: where no two ingests overlapped, what the last one read is in
\* the index, and a search shows it unless Qdrant kept a copy across a restart.
THEOREM IngestsTake == Spec => []IngestTakes
<1>1. ASSUME StoreInv, TakenInv PROVE IngestTakes
  <2>1. IndexType BY <1>1 DEF StoreInv
  <2>2. SUFFICES ASSUME Idle, ~overlap, IsInjective(Ids(Chunks(taken))), NEW c \in Range(Chunks(taken))
                 PROVE  /\ \E k \in DOMAIN chunks : chunks[k].id = c.id /\ chunks[k].text = c.text
                        /\ backend = "memory" \/ restarts = 0 => Found(<<c.id>>)[1].text = c.text
    BY DEF IngestTakes
  <2>3. PICK i \in DOMAIN Chunks(taken) : Chunks(taken)[i] = c BY <2>2 DEF Range
  <2> DEFINE p == Points(taken, restarts)[i]
  <2>4. p \in Range(Points(taken, restarts)) /\ p.id = c.id /\ p.text = c.text
    <3>1. taken \in Documents /\ restarts \in Nat BY <2>1 DEF IndexType
    <3>2. /\ DOMAIN Points(taken, restarts) = DOMAIN Chunks(taken)
          /\ \A j \in DOMAIN Chunks(taken) :
               /\ Points(taken, restarts)[j].id = Chunks(taken)[j].id
               /\ Points(taken, restarts)[j].text = Chunks(taken)[j].text
      BY <3>1, PointsType
    <3>3. QED BY <2>3, <3>2 DEF Range
  <2> HIDE DEF p
  <2>5. Holding(backend, chunks, taken, restarts) BY <1>1, <2>2 DEF TakenInv
  <2>6. p \in Range(chunks) /\ (backend = "memory" \/ restarts = 0 => Shows(chunks, p))
    BY <2>2, <2>4, <2>5 DEF Holding
  <2>7. \E k \in DOMAIN chunks : chunks[k].id = c.id /\ chunks[k].text = c.text
    BY <2>4, <2>6 DEF Range
  <2>8. ASSUME backend = "memory" \/ restarts = 0 PROVE Found(<<c.id>>)[1].text = c.text
    <3>1. chunks \in Seq(Point) BY <2>1 DEF IndexType
    <3>2. Found(<<p.id>>)[1] = p BY <2>6, <2>8, <3>1, FoundShows
    <3>3. QED BY <2>4, <3>2
  <2>9. QED BY <2>7, <2>8
<1>2. QED BY <1>1, StoreInvariance, TakenInvariance, PTL

-----------------------------------------------------------------------------
\* How deep the rankings go at most, and what a place in one is worth: of Scale, no
\* less than an eightieth and no more than a sixty-first.
LEMMA ShareBounds ==
  /\ Depth \in Nat /\ Depth <= 20
  /\ \A r \in 1 .. Depth :
       Share(r) \in Nat /\ 80 * Share(r) >= Scale /\ 61 * Share(r) <= Scale
<1>1. TopK \in 1 .. 10 /\ Scale \in Nat /\ \A r \in 1 .. Depth : Scale % (60 + r) = 0
  BY RetrievalAssumption
<1>2. Depth \in Nat /\ Depth <= 20 BY <1>1 DEF Depth
<1>3. ASSUME NEW r \in 1 .. Depth
      PROVE  Share(r) \in Nat /\ 80 * Share(r) >= Scale /\ 61 * Share(r) <= Scale
  <2>1. Scale % (60 + r) = 0 BY <1>1
  <2>2. r \in 1 .. 20 BY <1>2
  <2>3. QED BY <1>1, <2>1, <2>2 DEF Share
<1>4. QED BY <1>2, <1>3

\* The better of two ids, by score and then by id.
Better(ids, score) ==
  {p \in ids \X ids : score[p[1]] > score[p[2]] \/ (score[p[1]] = score[p[2]] /\ p[1] < p[2])}

\* It leaves no two ids undecided.
LEMMA BetterOrders ==
  ASSUME NEW ids \in SUBSET Nat, NEW score \in [ids -> Nat]
  PROVE  Orders(Better(ids, score), ids)
<1> DEFINE R == Better(ids, score)
<1>1. \A x, y \in ids :
        <<x, y>> \in R <=> score[x] > score[y] \/ (score[x] = score[y] /\ x < y)
  BY DEF Better
<1>2. \A x \in ids : x \in Nat /\ score[x] \in Nat OBVIOUS
<1> HIDE DEF R
<1>3. \A x \in ids : <<x, x>> \notin R BY <1>1, <1>2
<1>4. \A x, y, z \in ids : <<x, y>> \in R /\ <<y, z>> \in R => <<x, z>> \in R BY <1>1, <1>2
<1>5. ASSUME NEW x \in ids, NEW y \in ids, x # y PROVE <<x, y>> \in R \/ <<y, x>> \in R
  <2>1. x \in Int /\ y \in Int /\ score[x] \in Int /\ score[y] \in Int BY <1>2
  <2>2. CASE score[x] = score[y]
    <3>1. x < y \/ y < x BY <1>5, <2>1
    <3>2. QED BY <1>1, <2>2, <3>1
  <2>3. CASE score[x] # score[y]
    <3>1. score[x] > score[y] \/ score[y] > score[x] BY <2>1, <2>3
    <3>2. QED BY <1>1, <3>1
  <2>4. QED BY <2>2, <2>3
<1>6. QED BY <1>3, <1>4, <1>5 DEF Orders, R

\* Places are finitely many.
LEMMA PlacesAreFinite ==
  ASSUME NEW d \in Rankings, NEW s \in Rankings, NEW id
  PROVE  IsFiniteSet(Places(<<d, s>>, id)) /\ Score(<<d, s>>, id) \in Nat
<1> DEFINE P == Places(<<d, s>>, id)
<1>1. P \in SUBSET ({1, 2} \X (1 .. Depth)) BY DEF Places
<1>2. IsFiniteSet({1, 2} \X (1 .. Depth))
  <2>1. IsFiniteSet(1 .. 2) BY IntervalSize
  <2>2. 1 .. 2 = {1, 2} OBVIOUS
  <2>3. IsFiniteSet(1 .. Depth) BY ShareBounds, IntervalSize
  <2>4. QED BY <2>1, <2>2, <2>3, FS_Product
<1>3. IsFiniteSet(P) BY <1>1, <1>2, FS_Subset
<1>4. [p \in P |-> Share(p[2])] \in [P -> Nat]
  <2>1. \A p \in P : Share(p[2]) \in Nat BY <1>1, ShareBounds
  <2>2. QED BY <2>1
<1>5. SumFunction([p \in P |-> Share(p[2])]) \in Nat BY <1>3, <1>4, SumType
<1>6. QED BY <1>3, <1>5 DEF Score

\* The ids of two rankings.
Both(d, s) == Range(d) \cup Range(s)
Scores(d, s) == [id \in Both(d, s) |-> Score(<<d, s>>, id)]

\* Fusion lists the best of them, as many as it may.
LEMMA FusedLeads ==
  ASSUME NEW d \in Rankings, NEW s \in Rankings,
         NEW n, n = IF Cardinality(Both(d, s)) < TopK THEN Cardinality(Both(d, s)) ELSE TopK
  PROVE  /\ IsFiniteSet(Both(d, s)) /\ Both(d, s) \in SUBSET Nat
         /\ Scores(d, s) \in [Both(d, s) -> Nat]
         /\ Leads(Fused(<<d, s>>), n, Both(d, s), Better(Both(d, s), Scores(d, s)))
<1> DEFINE ids == Both(d, s)
           score == Scores(d, s)
<1>1. \A t \in Rankings : IsFiniteSet(Range(t)) /\ Range(t) \in SUBSET Nat
  <2>1. TAKE t \in Rankings
  <2>2. t \in Seq(Nat) BY DEF Rankings
  <2>3. Len(t) \in Nat /\ t \in [1 .. Len(t) -> Nat] BY <2>2, LenProperties
  <2>4. Range(t) \in SUBSET Nat BY <2>3 DEF Range
  <2>5. t \in Surjection(1 .. Len(t), Range(t)) BY <2>3 DEF Surjection, Range
  <2>6. IsFiniteSet(Range(t)) BY <2>3, <2>5, IntervalSize, FS_Surjection
  <2>7. QED BY <2>4, <2>6
<1>2. IsFiniteSet(ids) /\ ids \in SUBSET Nat BY <1>1, FS_Union DEF Both
<1>3. score \in [ids -> Nat] BY PlacesAreFinite DEF Scores
<1>4. Orders(Better(ids, score), ids) BY <1>2, <1>3, BetterOrders
<1>5. Fused(<<d, s>>) = First(TopK, ids, Better(ids, score))
  <2>1. UNION {Range(<<d, s>>[i]) : i \in DOMAIN <<d, s>>} = ids
    <3>1. DOMAIN <<d, s>> = {1, 2} /\ <<d, s>>[1] = d /\ <<d, s>>[2] = s OBVIOUS
    <3>2. QED BY <3>1 DEF Both
  <2> DEFINE U == UNION {Range(<<d, s>>[i]) : i \in DOMAIN <<d, s>>}
             sc == [id \in U |-> Score(<<d, s>>, id)]
  <2>2. Fused(<<d, s>>) =
          First(TopK, U, {p \in U \X U : sc[p[1]] > sc[p[2]] \/ (sc[p[1]] = sc[p[2]] /\ p[1] < p[2])})
    BY DEF Fused
  <2>3. Fused(<<d, s>>) = First(TopK, U, Better(U, sc))
    <3> HIDE DEF U, sc
    <3>1. QED BY <2>2 DEF Better
  <2>4. U = ids BY <2>1
  <2>5. sc = score BY <2>4 DEF Scores
  <2>6. QED BY <2>3, <2>4, <2>5
<1>6. TopK \in Nat BY RetrievalAssumption
<1>7. Leads(First(TopK, ids, Better(ids, score)), n, ids, Better(ids, score))
  BY <1>2, <1>4, <1>6, FirstLists
<1>8. QED BY <1>2, <1>3, <1>5, <1>7

\* The better of two positions of a list, by score, id and position.
BetterAt(list, K, score) ==
  {p \in K \X K :
     \/ score[list[p[1]].text] > score[list[p[2]].text]
     \/ /\ score[list[p[1]].text] = score[list[p[2]].text]
        /\ \/ list[p[1]].id < list[p[2]].id
           \/ list[p[1]].id = list[p[2]].id /\ p[1] < p[2]}

\* Both retrievers rank no more than Depth of the ids that are listed.
LEMMA RankedType ==
  ASSUME NEW list \in Seq(Point), NEW K \in SUBSET DOMAIN list, NEW score \in [Texts -> Nat]
  PROVE  Ranked(list, K, score) \in Rankings /\ Range(Ranked(list, K, score)) \subseteq IdsIn(list)
<1> DEFINE R == BetterAt(list, K, score)
           at == First(Depth, K, R)
           c == Cardinality(K)
           n == IF c < Depth THEN c ELSE Depth
           value(i) == score[list[i].text]
<1>1. Len(list) \in Nat /\ DOMAIN list = 1 .. Len(list) BY LenProperties
<1>2. IsFiniteSet(K) /\ c \in Nat BY <1>1, PositionsAreOrdered
<1>3. \A i \in K : i \in Int /\ value(i) \in Int /\ list[i].id \in Nat
  <2>1. \A i \in K : list[i] \in Point BY <1>1, ElementOfSeq
  <2>2. QED BY <1>1, <2>1 DEF Point
<1>4. \A x, y \in K :
        <<x, y>> \in R <=> \/ value(x) > value(y)
                           \/ /\ value(x) = value(y)
                              /\ \/ list[x].id < list[y].id
                                 \/ list[x].id = list[y].id /\ x < y
  BY DEF BetterAt
<1>5. Ranked(list, K, score) = [m \in DOMAIN at |-> list[at[m]].id] BY DEF Ranked, BetterAt
<1> HIDE DEF R, value, at
<1>6. Orders(R, K)
  <2>1. \A x \in K : <<x, x>> \notin R BY <1>3, <1>4
  <2>2. ASSUME NEW x \in K, NEW y \in K, NEW z \in K, <<x, y>> \in R, <<y, z>> \in R
        PROVE  <<x, z>> \in R
    <3>1. /\ x \in Int /\ value(x) \in Int /\ list[x].id \in Int
          /\ y \in Int /\ value(y) \in Int /\ list[y].id \in Int
          /\ z \in Int /\ value(z) \in Int /\ list[z].id \in Int
      BY <1>3
    <3>2. QED BY <1>4, <2>2, <3>1
  <2>3. ASSUME NEW x \in K, NEW y \in K, x # y PROVE <<x, y>> \in R \/ <<y, x>> \in R
    <3>1. /\ x \in Int /\ value(x) \in Int /\ list[x].id \in Int
          /\ y \in Int /\ value(y) \in Int /\ list[y].id \in Int
      BY <1>3
    <3>2. QED BY <1>4, <2>3, <3>1
  <2>4. QED BY <2>1, <2>2, <2>3 DEF Orders
<1>7. Depth \in Nat BY ShareBounds
<1>8. n \in Nat /\ n <= Depth BY <1>2, <1>7
<1>9. at \in [1 .. n -> K]
  <2>1. Leads(at, n, K, R) BY <1>2, <1>6, <1>7, FirstLists DEF at
  <2>2. QED BY <2>1 DEF Leads
<1> HIDE DEF n
<1>10. Ranked(list, K, score) = [m \in 1 .. n |-> list[at[m]].id] BY <1>5, <1>9
<1>11. \A m \in 1 .. n : list[at[m]].id \in Nat /\ list[at[m]].id \in IdsIn(list)
  BY <1>3, <1>9 DEF IdsIn
<1>12. [m \in 1 .. n |-> list[at[m]].id] \in Seq(Nat) BY <1>8, <1>11
<1>13. Len([m \in 1 .. n |-> list[at[m]].id]) = n BY <1>8
<1>14. Range([m \in 1 .. n |-> list[at[m]].id]) \subseteq IdsIn(list) BY <1>11 DEF Range
<1>15. QED BY <1>8, <1>10, <1>12, <1>13, <1>14 DEF Rankings

\* BM25's ranking is of ids that the snapshot knows.
LEMMA SparseType ==
  ASSUME chunks \in Seq(Point), NEW q \in Queries
  PROVE  Sparse(q) \in Rankings /\ Range(Sparse(q)) \subseteq IdsIn(chunks)
<1> DEFINE K == {i \in DOMAIN chunks : Terms[q][chunks[i].text] > 0}
<1>1. Terms[q] \in [Texts -> Nat] BY RetrievalAssumption
<1>2. K \in SUBSET DOMAIN chunks OBVIOUS
<1>3. Sparse(q) = Ranked(chunks, K, Terms[q]) BY DEF Sparse
<1> HIDE DEF K
<1>4. QED BY <1>1, <1>2, <1>3, RankedType

\* Of the searches.
SearchInv == DenseIsStored /\ HitsAreFused

\* No ranking is a short one.
LEMMA NoRanking == <<>> \in Rankings /\ Range(<<>>) = {}
<1>1. <<>> \in Seq(Nat) /\ Len(<<>>) = 0 BY EmptySeq
<1>2. 0 <= Depth BY ShareBounds
<1>3. DOMAIN <<>> = {} OBVIOUS
<1>4. QED BY <1>1, <1>2, <1>3 DEF Rankings, Range

\* Every step keeps the search in progress within the store, which only grows
\* while the process runs, and the last answer the fusion of its rankings.
LEMMA StepSearch == ASSUME StoreInv, SearchInv, [Next]_vars PROVE SearchInv'
<1>0. IndexType /\ DenseIsStored /\ HitsAreFused BY DEF StoreInv, SearchInv
<1>1. ASSUME UNCHANGED <<query, dense, hits>>, IdsIn(store) \subseteq IdsIn(store') PROVE SearchInv'
  <2>1. DenseIsStored' BY <1>0, <1>1 DEF DenseIsStored
  <2>2. HitsAreFused' BY <1>0, <1>1 DEF HitsAreFused
  <2>3. QED BY <2>1, <2>2 DEF SearchInv
<1>2. CASE Edit BY <1>1, <1>2 DEF Edit, index, search
<1>3. ASSUME NEW i \in Ingests, Read(i) \/ Fetch(i) \/ Install(i) PROVE SearchInv'
  <2>1. UNCHANGED <<query, dense, hits, store>> BY <1>3 DEF Read, Fetch, Install, index, search
  <2>2. QED BY <1>1, <2>1
<1>4. ASSUME NEW i \in Ingests, Store(i) PROVE SearchInv'
  <2>1. /\ step[i] = "read" /\ store' \in Upsert(store, batch[i])
        /\ UNCHANGED <<query, dense, hits>>
    BY <1>4 DEF Store, search
  <2>2. PICK d \in Documents : batch[i] = Points(d, restarts) BY <2>1 DEF StoreInv, BatchIsRead
  <2>3. store \in Seq(Point) /\ restarts \in Nat /\ restarts <= restarts BY <1>0 DEF IndexType
  <2>4. store' \in Upsert(store, Points(d, restarts)) BY <2>1, <2>2
  <2>5. IdsIn(store) \subseteq IdsIn(store') BY <2>3, <2>4, UpsertStore
  <2>6. QED BY <1>1, <2>1, <2>5
<1>5. ASSUME NEW q \in Queries, Search(q) PROVE SearchInv'
  <2>1. /\ query' = q /\ dense' = Ranked(store, DOMAIN store, Near[q]) /\ hits' = NoHits
        /\ store' = store
    BY <1>5 DEF Search, index
  <2>2. dense' \in Rankings /\ Range(dense') \subseteq IdsIn(store)
    <3>1. Near[q] \in [Texts -> Nat] BY RetrievalAssumption
    <3>2. store \in Seq(Point) /\ DOMAIN store \in SUBSET DOMAIN store BY <1>0 DEF IndexType
    <3>3. QED BY <2>1, <3>1, <3>2, RankedType
  <2>3. DenseIsStored' BY <2>1, <2>2 DEF DenseIsStored
  <2>4. HitsAreFused' BY <2>1 DEF HitsAreFused, NoHits
  <2>5. QED BY <2>3, <2>4 DEF SearchInv
<1>6. CASE Fuse
  <2> DEFINE s == Sparse(query)
             ids == Fused(<<dense, s>>)
             answer == [ids |-> ids, chunks |-> Found(ids), dense |-> dense, sparse |-> s]
  <2>1. query # NoQuery /\ query' = NoQuery /\ dense' = <<>> /\ hits' = answer
    BY <1>6 DEF Fuse
  <2>2. s \in Rankings
    <3>1. query \in Queries /\ chunks \in Seq(Point) BY <1>0, <2>1 DEF DenseIsStored, IndexType
    <3>2. QED BY <3>1, SparseType
  <2>3. dense \in Rankings BY <1>0 DEF DenseIsStored
  <2> HIDE DEF s
  <2>4. answer.dense = dense /\ answer.sparse = s /\ answer.ids = Fused(<<dense, s>>) OBVIOUS
  <2> HIDE DEF answer
  <2>5. HitsAreFused' BY <2>1, <2>2, <2>3, <2>4 DEF HitsAreFused
  <2>6. DenseIsStored' BY <2>1, NoRanking DEF DenseIsStored
  <2>7. QED BY <2>5, <2>6 DEF SearchInv
<1>7. CASE Restart
  <2>1. query' = NoQuery /\ dense' = <<>> /\ hits' = NoHits BY <1>7 DEF Restart
  <2>2. DenseIsStored' BY <2>1, NoRanking DEF DenseIsStored
  <2>3. HitsAreFused' BY <2>1 DEF HitsAreFused, NoHits
  <2>4. QED BY <2>2, <2>3 DEF SearchInv
<1>8. CASE UNCHANGED vars BY <1>1, <1>8 DEF vars, index, search
<1>9. QED BY <1>2, <1>3, <1>4, <1>5, <1>6, <1>7, <1>8 DEF Next

\* So they are in every state.
LEMMA SearchInvariance == Spec => []SearchInv
<1>1. Init => SearchInv
  <2>1. ASSUME Init PROVE SearchInv
    <3>1. query = NoQuery /\ dense = <<>> /\ hits = NoHits BY <2>1 DEF Init
    <3>2. QED BY <3>1, NoRanking DEF SearchInv, DenseIsStored, HitsAreFused
  <2>2. QED BY <2>1
<1>2. StoreInv /\ SearchInv /\ [Next]_vars => SearchInv' BY StepSearch
<1>3. QED BY <1>1, <1>2, StoreInvariance, PTL DEF Spec

\* Where the snapshot knows every id it is asked for, none is lost.
LEMMA FoundAll ==
  ASSUME NEW n \in Nat, NEW ids \in [1 .. n -> IdsIn(chunks)]
  PROVE  Len(Found(ids)) = n
<1> DEFINE K == {m \in DOMAIN ids : ids[m] \in IdsIn(chunks)}
           known == Picked(ids, K)
<1>1. DOMAIN ids = 1 .. n /\ ids \in Seq(IdsIn(chunks))
  <2>1. ids = [m \in 1 .. n |-> ids[m]] OBVIOUS
  <2>2. \A m \in 1 .. n : ids[m] \in IdsIn(chunks) OBVIOUS
  <2>3. [m \in 1 .. n |-> ids[m]] \in Seq(IdsIn(chunks)) BY <2>2
  <2>4. QED BY <2>1, <2>3
<1>2. K = 1 .. n BY <1>1
<1>3. Cardinality(K) = n BY <1>2, IntervalSize
<1>4. K \in SUBSET DOMAIN ids OBVIOUS
<1>5. Found(ids) = [i \in DOMAIN known |->
                      chunks[Greatest({k \in DOMAIN chunks : chunks[k].id = known[i]})]]
  BY DEF Found
<1> HIDE DEF K
<1>6. known \in Seq(IdsIn(chunks)) /\ Len(known) = n BY <1>1, <1>3, <1>4, PickedLists
<1> HIDE DEF known
<1>7. DOMAIN known = 1 .. n BY <1>6, LenProperties
<1>8. QED BY <1>5, <1>7

\* However searches, ingests, edits and restarts interleave, a search that ends
\* with no ingest under way, none having overlapped, returns TopK chunks, or all
\* that either retriever ranked where there are fewer.
THEOREM SearchesAreWhole == Spec => SearchIsWhole
<1>1. ASSUME StoreInv, TakenInv, SearchInv, Next, query # NoQuery, query' = NoQuery,
             restarts' = restarts, Idle, ~overlap
      PROVE  LET all == Range(hits'.dense) \cup Range(hits'.sparse)
             IN  Len(hits'.chunks) = IF Cardinality(all) < TopK THEN Cardinality(all) ELSE TopK
  <2>0. IndexType /\ DenseIsStored BY <1>1 DEF StoreInv, SearchInv
  <2>1. Fuse
    <3>1. ~Edit BY <1>1 DEF Edit, search
    <3>2. \A i \in Ingests : ~Read(i) /\ ~Store(i) /\ ~Fetch(i) /\ ~Install(i)
      BY <1>1 DEF Read, Store, Fetch, Install, search
    <3>3. \A q \in Queries : ~Search(q) BY <1>1 DEF Search
    <3>4. ~Restart
      <4>1. restarts \in Nat BY <2>0 DEF IndexType
      <4>2. QED BY <1>1, <4>1 DEF Restart
    <3>5. QED BY <1>1, <3>1, <3>2, <3>3, <3>4 DEF Next
  <2> DEFINE s == Sparse(query)
             ids == Fused(<<dense, s>>)
             answer == [ids |-> ids, chunks |-> Found(ids), dense |-> dense, sparse |-> s]
             all == Both(dense, s)
             n == IF Cardinality(all) < TopK THEN Cardinality(all) ELSE TopK
  <2>2. hits' = answer BY <2>1 DEF Fuse
  <2>3. query \in Queries /\ chunks \in Seq(Point) /\ dense \in Rankings
    BY <1>1, <2>0 DEF DenseIsStored, IndexType
  <2>4. s \in Rankings /\ Range(s) \subseteq IdsIn(chunks) BY <2>3, SparseType
  <2>5. Range(dense) \subseteq IdsIn(chunks)
    <3>1. IdsIn(chunks) = IdsIn(store) BY <1>1 DEF TakenInv
    <3>2. QED BY <1>1, <2>0, <3>1 DEF DenseIsStored
  <2> HIDE DEF s
  <2>6. answer.dense = dense /\ answer.sparse = s /\ answer.chunks = Found(ids) OBVIOUS
  <2> HIDE DEF answer
  <2>7. all \subseteq IdsIn(chunks) BY <2>4, <2>5 DEF Both
  <2> HIDE DEF all
  <2>8. n \in Nat /\ ids \in [1 .. n -> all]
    <3>1. Leads(ids, n, all, Better(all, Scores(dense, s))) BY <2>3, <2>4, FusedLeads DEF all
    <3>2. QED BY <3>1 DEF Leads
  <2> HIDE DEF n, ids
  <2>9. ids \in [1 .. n -> IdsIn(chunks)] BY <2>7, <2>8
  <2>10. Len(Found(ids)) = n BY <2>8, <2>9, FoundAll
  <2>11. Range(hits'.dense) \cup Range(hits'.sparse) = all BY <2>2, <2>6 DEF all, Both
  <2>12. QED BY <2>2, <2>6, <2>10, <2>11 DEF n
<1>2. StoreInv /\ TakenInv /\ SearchInv /\ [Next]_vars =>
        [query # NoQuery /\ query' = NoQuery /\ restarts' = restarts /\ Idle /\ ~overlap =>
           LET all == Range(hits'.dense) \cup Range(hits'.sparse)
           IN  Len(hits'.chunks) = IF Cardinality(all) < TopK THEN Cardinality(all) ELSE TopK]_vars
  BY <1>1
<1>3. QED BY <1>2, StoreInvariance, TakenInvariance, SearchInvariance, PTL DEF Spec, SearchIsWhole

-----------------------------------------------------------------------------
\* An id at one place scores what that place is worth.
LEMMA ScoreAtOne ==
  ASSUME NEW rankings, NEW id, NEW p, Places(rankings, id) = {p}, Share(p[2]) \in Nat
  PROVE  Score(rankings, id) = Share(p[2])
<1> DEFINE D == Places(rankings, id)
           f == [x \in D |-> Share(x[2])]
           m == Share(p[2])
<1>1. IsFiniteSet(D) /\ Cardinality(D) = 1 BY FS_Singleton
<1>2. f \in [D -> Nat] /\ \A x \in D : f[x] = m OBVIOUS
<1>3. Score(rankings, id) = SumFunction(f) BY DEF Score
<1> HIDE DEF f, D, m
<1>4. m \in Nat BY DEF m
<1>5. SumFunction(f) = m * Cardinality(D) BY <1>1, <1>2, <1>4, SumOfEquals
<1>6. QED BY <1>1, <1>3, <1>4, <1>5 DEF m

\* And one at two places what the two are worth together.
LEMMA ScoreAtTwo ==
  ASSUME NEW rankings, NEW id, NEW p, NEW q, p # q, Places(rankings, id) = {p, q},
         Share(p[2]) \in Nat, Share(q[2]) \in Nat
  PROVE  Score(rankings, id) = Share(p[2]) + Share(q[2])
<1> DEFINE D == Places(rankings, id)
           f == [x \in D |-> Share(x[2])]
           m == Share(p[2])
           even == [x \in D |-> m]
<1>1. IsFiniteSet(D) /\ Cardinality(D) = 2
  <2>1. IsFiniteSet({p}) /\ Cardinality({p}) = 1 BY FS_Singleton
  <2>2. IsFiniteSet({p} \cup {q}) /\ Cardinality({p} \cup {q}) = 2
    <3> DEFINE one == {p}
    <3>1. IsFiniteSet(one) /\ Cardinality(one) = 1 /\ q \notin one BY <2>1
    <3> HIDE DEF one
    <3>2. /\ IsFiniteSet(one \cup {q})
          /\ Cardinality(one \cup {q}) = IF q \in one THEN Cardinality(one) ELSE Cardinality(one) + 1
      BY <3>1, FS_AddElement
    <3>3. IsFiniteSet(one \cup {q}) /\ Cardinality(one \cup {q}) = 2 BY <3>1, <3>2
    <3>4. QED BY <3>3 DEF one
  <2>3. D = {p} \cup {q} OBVIOUS
  <2>4. QED BY <2>2, <2>3
<1>2. f \in [D -> Int] /\ even \in [D -> Int] /\ even \in [D -> Nat] OBVIOUS
<1>3. q \in D /\ \A x \in D \ {q} : f[x] = even[x] OBVIOUS
<1>4. f[q] = Share(q[2]) /\ even[q] = m /\ \A x \in D : even[x] = m OBVIOUS
<1>5. Score(rankings, id) = SumFunction(f) BY DEF Score
<1>6. m \in Nat OBVIOUS
<1> HIDE DEF f, even, D, m
<1>7. SumFunction(even) = m * 2 BY <1>1, <1>2, <1>4, <1>6, SumOfEquals
<1>8. SumFunction(f) = SumFunction(even) + (f[q] - even[q]) BY <1>1, <1>2, <1>3, SumOfChange
<1>9. QED BY <1>4, <1>5, <1>6, <1>7, <1>8 DEF m

\* Where no id is listed twice, an id that both rankings list scores more than one
\* that one of them lists, at whatever places they are.
LEMMA BothBeatOne ==
  ASSUME NEW d \in Rankings, NEW s \in Rankings, IsInjective(d), IsInjective(s),
         NEW x \in Range(d) \cap Range(s), NEW y \in Both(d, s), y \notin Range(d) \cap Range(s)
  PROVE  Scores(d, s)[y] < Scores(d, s)[x]
<1> DEFINE r == <<d, s>>
<1>1. /\ DOMAIN d = 1 .. Len(d) /\ DOMAIN s = 1 .. Len(s)
      /\ DOMAIN d \subseteq 1 .. Depth /\ DOMAIN s \subseteq 1 .. Depth
  <2>1. \A t \in Rankings : DOMAIN t = 1 .. Len(t) /\ Len(t) \in Nat /\ Len(t) <= Depth
    BY LenProperties DEF Rankings
  <2>2. Depth \in Nat BY ShareBounds
  <2>3. QED BY <2>1, <2>2
<1>2. \A id, p : p \in Places(r, id) <=>
        \/ \E a \in DOMAIN d : p = <<1, a>> /\ d[a] = id
        \/ \E b \in DOMAIN s : p = <<2, b>> /\ s[b] = id
  <2>1. DOMAIN r = {1, 2} /\ r[1] = d /\ r[2] = s OBVIOUS
  <2> HIDE DEF r
  <2>2. \A id : Places(r, id) = {p \in {1, 2} \X (1 .. Depth) : p[2] \in DOMAIN r[p[1]] /\ r[p[1]][p[2]] = id}
    BY <2>1 DEF Places
  <2>3. ASSUME NEW id, NEW p \in Places(r, id)
        PROVE  \/ \E a \in DOMAIN d : p = <<1, a>> /\ d[a] = id
               \/ \E b \in DOMAIN s : p = <<2, b>> /\ s[b] = id
    <3>1. PICK k \in {1, 2}, a \in 1 .. Depth : p = <<k, a>> BY <2>2
    <3>2. a \in DOMAIN r[k] /\ r[k][a] = id BY <2>2, <3>1
    <3>3. QED BY <2>1, <3>1, <3>2
  <2>4. ASSUME NEW id, NEW a \in DOMAIN d, d[a] = id PROVE <<1, a>> \in Places(r, id)
    BY <1>1, <2>1, <2>2, <2>4
  <2>5. ASSUME NEW id, NEW b \in DOMAIN s, s[b] = id PROVE <<2, b>> \in Places(r, id)
    BY <1>1, <2>1, <2>2, <2>5
  <2>6. QED BY <2>3, <2>4, <2>5
<1>3. \A i \in 1 .. Depth : Share(i) \in Nat /\ 80 * Share(i) >= Scale /\ 61 * Share(i) <= Scale
  BY ShareBounds
<1>4. Scale \in Nat /\ Scale > 0 BY RetrievalAssumption
<1>5. \A i, j \in DOMAIN d : d[i] = d[j] => i = j BY DEF IsInjective
<1>6. \A i, j \in DOMAIN s : s[i] = s[j] => i = j BY DEF IsInjective
<1> HIDE DEF r
<1>7. Score(r, x) \in Nat /\ 80 * Score(r, x) >= 2 * Scale
  <2>1. PICK a \in DOMAIN d : d[a] = x BY DEF Range
  <2>2. PICK b \in DOMAIN s : s[b] = x BY DEF Range
  <2>3. Places(r, x) = {<<1, a>>, <<2, b>>} BY <1>2, <1>5, <1>6, <2>1, <2>2
  <2>4. /\ Share(a) \in Nat /\ 80 * Share(a) >= Scale
        /\ Share(b) \in Nat /\ 80 * Share(b) >= Scale
    BY <1>1, <1>3
  <2>5. <<1, a>> # <<2, b>> /\ <<1, a>>[2] = a /\ <<2, b>>[2] = b OBVIOUS
  <2>6. Score(r, x) = Share(a) + Share(b)
    <3> DEFINE p == <<1, a>>
               q == <<2, b>>
    <3>1. p # q /\ Places(r, x) = {p, q} /\ p[2] = a /\ q[2] = b BY <2>3, <2>5
    <3>2. Share(p[2]) \in Nat /\ Share(q[2]) \in Nat BY <2>4, <3>1
    <3> HIDE DEF p, q
    <3>3. Score(r, x) = Share(p[2]) + Share(q[2]) BY <3>1, <3>2, ScoreAtTwo
    <3>4. QED BY <3>1, <3>3
  <2>7. QED BY <1>4, <2>4, <2>6
<1>8. Score(r, y) \in Nat /\ 61 * Score(r, y) <= Scale
  <2>1. \E p, a : a \in 1 .. Depth /\ p[2] = a /\ Places(r, y) = {p}
    <3>1. CASE y \in Range(d)
      <4>1. PICK a \in DOMAIN d : d[a] = y BY <3>1 DEF Range
      <4>2. \A b \in DOMAIN s : s[b] # y BY <3>1 DEF Range
      <4>3. Places(r, y) = {<<1, a>>} BY <1>2, <1>5, <4>1, <4>2
      <4>4. <<1, a>>[2] = a OBVIOUS
      <4>5. QED BY <1>1, <4>3, <4>4
    <3>2. CASE y \notin Range(d)
      <4>1. y \in Range(s) BY <3>2 DEF Both
      <4>2. PICK b \in DOMAIN s : s[b] = y BY <4>1 DEF Range
      <4>3. \A a \in DOMAIN d : d[a] # y BY <3>2 DEF Range
      <4>4. Places(r, y) = {<<2, b>>} BY <1>2, <1>6, <4>2, <4>3
      <4>5. <<2, b>>[2] = b OBVIOUS
      <4>6. QED BY <1>1, <4>4, <4>5
    <3>3. QED BY <3>1, <3>2
  <2>2. PICK p, a : a \in 1 .. Depth /\ p[2] = a /\ Places(r, y) = {p} BY <2>1
  <2>3. Share(p[2]) \in Nat /\ 61 * Share(p[2]) <= Scale BY <1>3, <2>2
  <2>4. Score(r, y) = Share(p[2]) BY <2>2, <2>3, ScoreAtOne
  <2>5. QED BY <2>3, <2>4
<1>9. Score(r, y) < Score(r, x) BY <1>4, <1>7, <1>8
<1>10. Scores(d, s)[x] = Score(r, x) /\ Scores(d, s)[y] = Score(r, y)
  <2>1. x \in Both(d, s) BY DEF Both
  <2>2. QED BY <2>1 DEF Scores, r
<1>11. QED BY <1>9, <1>10

\* For every corpus, query and TopK: no id that one retriever ranks is put before or
\* instead of one that both rank.
THEOREM AgreementAlwaysWins == Spec => []AgreementWins
<1>1. ASSUME HitsAreFused PROVE AgreementWins
  <2>1. CASE hits = NoHits
    <3>1. hits.dense = <<>> /\ hits.sparse = <<>> /\ hits.ids = <<>> BY <2>1 DEF NoHits
    <3>2. Range(hits.ids) = {} /\ DOMAIN hits.ids = {} BY <3>1 DEF Range
    <3>3. QED BY <3>2 DEF AgreementWins
  <2>2. CASE /\ hits.dense \in Rankings /\ hits.sparse \in Rankings
             /\ hits.ids = Fused(<<hits.dense, hits.sparse>>)
    <3> DEFINE d == hits.dense
               s == hits.sparse
               both == Range(d) \cap Range(s)
               all == Both(d, s)
               score == Scores(d, s)
               n == IF Cardinality(all) < TopK THEN Cardinality(all) ELSE TopK
               f == hits.ids
    <3>1. SUFFICES ASSUME IsInjective(d), IsInjective(s)
                   PROVE  /\ \A i, j \in DOMAIN f : i < j /\ f[j] \in both => f[i] \in both
                          /\ Range(f) \subseteq both \/ both \subseteq Range(f)
      BY DEF AgreementWins
    <3>2. /\ all \in SUBSET Nat /\ score \in [all -> Nat]
          /\ Leads(f, n, all, Better(all, score))
      BY <2>2, FusedLeads
    <3>3. \A x \in both, y \in all \ both : score[y] < score[x] BY <2>2, <3>1, BothBeatOne
    <3>4. both \subseteq all BY DEF Both
    <3> HIDE DEF d, s, both, all, score, n, f
    <3>5. /\ f \in [1 .. n -> all]
          /\ \A i, j \in 1 .. n : i < j => <<f[i], f[j]>> \in Better(all, score)
          /\ \A i \in 1 .. n, x \in all :
               <<x, f[i]>> \in Better(all, score) => \E j \in 1 .. n : f[j] = x
      BY <3>2 DEF Leads
    <3>6. \A x, y \in all : <<x, y>> \in Better(all, score) => score[y] <= score[x]
      <4>1. SUFFICES ASSUME NEW x \in all, NEW y \in all, <<x, y>> \in Better(all, score)
                     PROVE  score[y] <= score[x]
        OBVIOUS
      <4>2. score[x] > score[y] \/ score[x] = score[y] BY <4>1 DEF Better
      <4>3. score[x] \in Nat /\ score[y] \in Nat BY <3>2
      <4>4. QED BY <4>2, <4>3
    <3>7. ASSUME NEW i \in DOMAIN f, NEW j \in DOMAIN f, i < j, f[j] \in both PROVE f[i] \in both
      <4>1. SUFFICES ASSUME f[i] \notin both PROVE FALSE OBVIOUS
      <4>2. f[i] \in all /\ f[j] \in all /\ score[f[j]] <= score[f[i]] BY <3>5, <3>6, <3>7
      <4>3. score[f[i]] < score[f[j]] BY <3>3, <3>7, <4>1, <4>2
      <4>4. score[f[i]] \in Nat /\ score[f[j]] \in Nat BY <3>2, <4>2
      <4>5. QED BY <4>2, <4>3, <4>4
    <3>8. ASSUME NEW x \in Range(f) \ both, NEW y \in both PROVE y \in Range(f)
      <4>1. PICK i \in 1 .. n : f[i] = x BY <3>5 DEF Range
      <4>2. x \in all \ both /\ y \in all BY <3>4, <3>5, <3>8, <4>1
      <4>3. score[x] < score[y] BY <3>3, <4>2
      <4>4. score[x] \in Nat /\ score[y] \in Nat BY <3>2, <4>2
      <4>5. <<y, x>> \in Better(all, score)
        <5>1. score[y] > score[x] BY <4>3, <4>4
        <5>2. QED BY <4>2, <5>1 DEF Better
      <4>6. \E j \in 1 .. n : f[j] = y BY <3>5, <4>1, <4>2, <4>5
      <4>7. QED BY <3>5, <4>6 DEF Range
    <3>9. QED BY <3>7, <3>8
  <2>3. QED BY <1>1, <2>1, <2>2 DEF HitsAreFused
<1>2. SearchInv => AgreementWins BY <1>1 DEF SearchInv
<1>3. QED BY <1>2, SearchInvariance, PTL

-----------------------------------------------------------------------------
\* Settlement.

\* A limit and a deductible of any size split any loss fairly.
LEMMA SettleIsFair ==
  ASSUME NEW claimed \in Nat, NEW limit \in Nat \cup {None}, NEW deductible \in Nat
  PROVE  Fair(Settle(claimed, limit, deductible))
<1>1. Less(claimed, deductible) \in Nat /\ Less(claimed, deductible) <= claimed
  BY DEF Less
<1>2. CASE limit = None
  <2> DEFINE insurer == Less(claimed, deductible)
             applied == Least(deductible, claimed)
  <2>1. Insurer(claimed, limit, deductible) = insurer BY <1>2 DEF Insurer
  <2>2. /\ insurer \in Nat /\ insurer <= claimed
        /\ applied \in Nat /\ insurer + applied = claimed
    BY DEF Less, Least
  <2>3. /\ claimed - insurer \in Nat /\ (claimed - insurer) - applied = 0
        /\ insurer + (claimed - insurer) = claimed
        /\ applied + ((claimed - insurer) - applied) = claimed - insurer
    BY <2>2
  <2> DEFINE split == Settle(claimed, limit, deductible)
  <2> HIDE DEF insurer, applied
  <2>4. /\ split.claimed = claimed /\ split.limit = limit
        /\ split.insurer_pays = insurer /\ split.policyholder_pays = claimed - insurer
        /\ split.applied_deductible = applied
        /\ split.excess = (claimed - insurer) - applied
    BY <2>1 DEF Settle, AppliedDeductible, applied
  <2>5. split.above_limit = FALSE BY <1>2 DEF Settle
  <2> HIDE DEF split
  <2>6. Fair(split) BY <1>2, <2>2, <2>3, <2>4, <2>5 DEF Fair
  <2>7. QED BY <2>6 DEF split
<1>3. CASE limit \in Nat
  <2>1. limit # None BY <1>3, SettlementAssumption
  <2> DEFINE insurer == Least(Less(claimed, deductible), limit)
             applied == Least(deductible, claimed)
  <2>2. Insurer(claimed, limit, deductible) = insurer BY <2>1 DEF Insurer
  <2>3. /\ insurer \in Nat /\ insurer <= limit /\ insurer <= claimed
        /\ applied \in Nat /\ insurer + applied <= claimed
        /\ (claimed - insurer) - applied > 0 <=> Less(claimed, deductible) > limit
    BY <1>3 DEF Less, Least
  <2>4. /\ claimed - insurer \in Nat /\ (claimed - insurer) - applied \in Nat
        /\ insurer + (claimed - insurer) = claimed
        /\ applied + ((claimed - insurer) - applied) = claimed - insurer
    BY <2>3
  <2> HIDE DEF insurer, applied
  <2>5. QED
    BY <2>1, <2>2, <2>3, <2>4 DEF Fair, Settle, AppliedDeductible, applied
<1>4. QED BY <1>2, <1>3

\* confirm shows the policyholder what a claim pays before it is filed: claiming
\* more never makes either share smaller.
THEOREM LargerLossCostsNobodyLess ==
  ASSUME NEW less \in Nat, NEW more \in Nat, less <= more,
         NEW limit \in Nat \cup {None}, NEW deductible \in Nat
  PROVE  /\ Settle(less, limit, deductible).insurer_pays
              <= Settle(more, limit, deductible).insurer_pays
         /\ Settle(less, limit, deductible).policyholder_pays
              <= Settle(more, limit, deductible).policyholder_pays
<1>1. CASE limit = None BY <1>1 DEF Settle, Insurer, Less
<1>2. CASE limit \in Nat
  <2>1. limit # None BY <1>2, SettlementAssumption
  <2>2. QED BY <1>2, <2>1 DEF Settle, Insurer, Less, Least
<1>3. QED BY <1>1, <1>2

\* Of the matches of a kind there is a first one.
LEMMA FirstMatch ==
  ASSUME NEW s \in Seq(Phrases), NEW kind, OfKind(s, kind) # {}
  PROVE  \E m \in OfKind(s, kind) : \A n \in OfKind(s, kind) : m = n \/ Before(m, n)
<1> DEFINE M == OfKind(s, kind)
           P == {m[1] : m \in M}
<1>1. M \subseteq Patterns \X DOMAIN s BY DEF OfKind, Counted, Matches
<1>2. Patterns \subseteq Nat /\ DOMAIN s \subseteq Nat
  BY LenProperties DEF Patterns, KindOf
<1>3. P \subseteq Nat /\ P # {} BY <1>1, <1>2
<1>4. PICK p \in P : \A q \in P : p <= q BY <1>3, SmallestNat
<1> DEFINE I == {m[2] : m \in {m \in M : m[1] = p}}
<1>5. I \subseteq Nat /\ I # {} BY <1>1, <1>2, <1>4
<1>6. PICK i \in I : \A j \in I : i <= j BY <1>5, SmallestNat
<1>7. PICK m \in M : m[1] = p /\ m[2] = i BY <1>6
<1>8. ASSUME NEW n \in M PROVE m = n \/ Before(m, n)
  <2>1. /\ m = <<m[1], m[2]>> /\ n = <<n[1], n[2]>>
        /\ m[1] \in Nat /\ m[2] \in Nat /\ n[1] \in Nat /\ n[2] \in Nat
    BY <1>1, <1>2
  <2>2. m[1] <= n[1] BY <1>4, <1>7
  <2>3. m[1] = n[1] => m[2] <= n[2] BY <1>6, <1>7
  <2>4. QED BY <2>1, <2>2, <2>3 DEF Before
<1>9. QED BY <1>7, <1>8

Sections1 == [names : SUBSET Types, sentences : Seq(Seq(Phrases))]

\* What a section states for a kind is an amount, if it states anything.
LEMMA RuleType ==
  ASSUME NEW section \in Sections1, NEW kind
  PROVE  Rule(section, kind) \in Nat \cup {None}
<1> DEFINE has == {k \in DOMAIN section.sentences : OfKind(section.sentences[k], kind) # {}}
<1>1. CASE has = {} BY <1>1 DEF Rule
<1>2. CASE has # {}
  <2> DEFINE k == CHOOSE k \in has : \A l \in has : k <= l
             s == section.sentences[k]
             m == CHOOSE m \in OfKind(s, kind) : \A n \in OfKind(s, kind) : m = n \/ Before(m, n)
  <2>1. section.sentences \in Seq(Seq(Phrases)) BY DEF Sections1
  <2>2. has \subseteq Nat BY <2>1, LenProperties
  <2>3. k \in has BY <1>2, <2>2, SmallestNat
  <2>4. s \in Seq(Phrases) /\ OfKind(s, kind) # {}
    <3>1. k \in 1 .. Len(section.sentences) BY <2>1, <2>3, LenProperties
    <3>2. section.sentences[k] \in Seq(Phrases) BY <2>1, <3>1, ElementOfSeq
    <3>3. OfKind(section.sentences[k], kind) # {} BY <2>3
    <3> HIDE DEF k
    <3>4. QED BY <3>2, <3>3
  <2> HIDE DEF s
  <2>5. m \in OfKind(s, kind) BY <2>4, FirstMatch
  <2>6. m[2] \in DOMAIN s
    <3>1. OfKind(s, kind) \subseteq Patterns \X DOMAIN s BY DEF OfKind, Counted, Matches
    <3> HIDE DEF m
    <3>2. QED BY <2>5, <3>1
  <2>7. s[m[2]] \in Phrases BY <2>4, <2>6, ElementOfSeq
  <2>8. s[m[2]].amount \in Nat BY <2>7, SettlementAssumption
  <2>9. Rule(section, kind) = s[m[2]].amount BY <1>2 DEF Rule, s
  <2>10. QED BY <2>8, <2>9
<1>3. QED BY <1>1, <1>2

\* The governing section is a section of the policy.
LEMMA GoverningType ==
  ASSUME NEW policy_ \in Seq(Sections1), NEW type
  PROVE  Governing(policy_, type) \in DOMAIN policy_ \cup {0}
<1> DEFINE named == {k \in DOMAIN policy_ : type \in policy_[k].names}
           capped == {k \in named : Rule(policy_[k], "limit") # None}
           best == IF capped = {} THEN named ELSE capped
<1>1. best \subseteq DOMAIN policy_ OBVIOUS
<1>2. DOMAIN policy_ \subseteq Nat BY LenProperties
<1>3. CASE best = {} BY <1>3 DEF Governing
<1>4. CASE best # {}
  <2>1. \E k \in best : \A l \in best : k <= l BY <1>1, <1>2, <1>4, SmallestNat
  <2>2. Governing(policy_, type) = CHOOSE k \in best : \A l \in best : k <= l
    BY <1>4 DEF Governing
  <2> HIDE DEF best
  <2>3. QED BY <1>1, <2>1, <2>2
<1>5. QED BY <1>3, <1>4

\* Whatever the policy says, the split computed from it is fair.
LEMMA SettlementForIsFair ==
  ASSUME NEW policy_ \in Seq(Sections1), NEW type, NEW claimed \in Nat,
         SettlementFor(type, claimed, policy_) # None
  PROVE  Fair(SettlementFor(type, claimed, policy_))
<1> DEFINE k == Governing(policy_, type)
           limit == Rule(policy_[k], "limit")
           deductible == Rule(policy_[k], "deductible")
           d == IF deductible = None THEN 0 ELSE deductible
<1>1. /\ k # 0
      /\ SettlementFor(type, claimed, policy_) = Settle(claimed, limit, d)
  BY DEF SettlementFor
<1>2. k \in DOMAIN policy_ BY <1>1, GoverningType
<1> HIDE DEF k
<1>3. policy_[k] \in Sections1 BY <1>2, ElementOfSeq
<1>4. limit \in Nat \cup {None} /\ deductible \in Nat \cup {None} BY <1>3, RuleType
<1> HIDE DEF limit, deductible
<1>5. d \in Nat BY <1>4
<1> HIDE DEF d
<1>6. QED BY <1>1, <1>4, <1>5, SettleIsFair

-----------------------------------------------------------------------------
\* The inductive invariant: only documents are cached, only amounts claimed.
SInv ==
  /\ policy \in Policies
  /\ cache \in [Workers -> Policies \cup {None}]
  /\ stage = "asked" => claim \in [type : Types, amount : Amounts]
  /\ SplitsAreFair

\* What a worker reads is a document or nothing.
LEMMA SectionsRead ==
  ASSUME SInv, NEW w \in Workers, NEW sections, Sections(w, sections)
  PROVE  /\ sections \in Seq(Sections1)
         /\ cache' \in [Workers -> Policies \cup {None}]
<1>1. Policies \subseteq Seq(Sections1) BY SettlementAssumption DEF Sections1
<1>2. <<>> \in Seq(Sections1) OBVIOUS
<1>3. QED BY <1>1, <1>2 DEF SInv, Sections

\* Every split ever shown or reported adds up.
THEOREM EverySplitAddsUp == SettlementSpec => []SplitsAreFair
<1>1. ASSUME SettlementInit PROVE SInv
  BY <1>1 DEF SettlementInit, SInv, SplitsAreFair
<1>2. ASSUME SInv, [SettlementNext]_settlementVars PROVE SInv'
  <2>1. ASSUME NEW w \in Workers, Capture(w) PROVE SInv'
    <3>1. PICK c \in [type : Types, amount : Amounts], sections \in {policy, cache[w], <<>>} :
            /\ Sections(w, sections)
            /\ claim' = c
            /\ shown' = SettlementFor(c.type, c.amount, sections)
      BY <2>1 DEF Capture
    <3>2. c.amount \in Nat BY SettlementAssumption
    <3>3. sections \in Seq(Sections1) /\ cache' \in [Workers -> Policies \cup {None}]
      BY <1>2, <3>1, SectionsRead
    <3>4. shown' # None => Fair(shown') BY <3>1, <3>2, <3>3, SettlementForIsFair
    <3>5. reported' = None /\ policy' = policy BY <2>1 DEF Capture
    <3>6. SplitsAreFair' BY <3>4, <3>5 DEF SplitsAreFair
    <3>7. QED BY <1>2, <3>1, <3>3, <3>5, <3>6 DEF SInv
  <2>2. ASSUME NEW w \in Workers, Submit(w) PROVE SInv'
    <3>1. PICK sections \in {policy, cache[w], <<>>} :
            /\ Sections(w, sections)
            /\ reported' \in {SettlementFor(claim.type, claim.amount, sections), None}
      BY <2>2 DEF Submit
    <3>2. claim.amount \in Nat BY <1>2, <2>2, SettlementAssumption DEF SInv, Submit
    <3>3. sections \in Seq(Sections1) /\ cache' \in [Workers -> Policies \cup {None}]
      BY <1>2, <3>1, SectionsRead
    <3>4. reported' # None => Fair(reported') BY <3>1, <3>2, <3>3, SettlementForIsFair
    <3>5. stage' # "asked" /\ UNCHANGED <<policy, claim, shown>> BY <2>2 DEF Submit
    <3>6. SplitsAreFair' BY <1>2, <3>4, <3>5 DEF SInv, SplitsAreFair
    <3>7. QED BY <1>2, <3>3, <3>5, <3>6 DEF SInv
  <2>3. CASE Decline BY <1>2, <2>3 DEF Decline, SInv, SplitsAreFair
  <2>4. CASE EditPolicy BY <1>2, <2>4 DEF EditPolicy, SInv, SplitsAreFair
  <2>5. ASSUME NEW w \in Workers, RestartWorker(w) PROVE SInv'
    BY <1>2, <2>5 DEF RestartWorker, SInv, SplitsAreFair
  <2>6. CASE UNCHANGED settlementVars BY <1>2, <2>6 DEF settlementVars, SInv, SplitsAreFair
  <2>7. QED BY <1>2, <2>1, <2>2, <2>3, <2>4, <2>5, <2>6 DEF SettlementNext
<1>3. SInv => SplitsAreFair BY DEF SInv
<1>4. QED BY <1>1, <1>2, <1>3, PTL DEF SettlementSpec
-----------------------------------------------------------------------------
\* The split of the claim in hand, by the policy that worker w holds.
ByCacheOf(w) == SettlementFor(claim.type, claim.amount, cache[w])

\* While every fetch has succeeded and every worker has kept running, what was
\* computed can be computed again from what some worker holds.
CachedInv ==
  /\ faults \in Nat
  /\ policy \in Policies
  /\ cache \in [Workers -> Policies \cup {None}]
  /\ faults = 0 =>
       /\ shown # None \/ stage # "idle" =>
            \E w \in Workers : cache[w] # None /\ shown = ByCacheOf(w)
       /\ stage = "filed" =>
            \E w \in Workers : cache[w] # None /\ reported = ByCacheOf(w)
  /\ stage = "unfiled" => reported = None

\* What a worker reads while nothing fails is what it holds from then on; what
\* others hold stays.
LEMMA SectionsAreKept ==
  ASSUME CachedInv, NEW w \in Workers, NEW sections, Sections(w, sections)
  PROVE  /\ faults' \in Nat /\ cache' \in [Workers -> Policies \cup {None}]
         /\ faults' = 0 =>
              /\ faults = 0
              /\ sections = cache'[w] /\ cache'[w] # None
              /\ \A v \in Workers : cache[v] # None => cache'[v] = cache[v]
<1>1. None \notin Policies BY SettlementAssumption
<1>2. CASE cache[w] # None /\ sections = cache[w] /\ UNCHANGED <<cache, faults>>
  BY <1>2 DEF CachedInv
<1>3. CASE /\ cache[w] = None /\ sections = policy
           /\ cache' = [cache EXCEPT ![w] = policy] /\ UNCHANGED faults
  <2>1. cache'[w] = policy /\ \A v \in Workers \ {w} : cache'[v] = cache[v]
    BY <1>3 DEF CachedInv
  <2>2. cache' \in [Workers -> Policies \cup {None}] BY <1>3 DEF CachedInv
  <2>3. policy # None BY <1>1 DEF CachedInv
  <2>4. QED BY <1>3, <2>1, <2>2, <2>3 DEF CachedInv
<1>4. CASE faults' = faults + 1 /\ UNCHANGED cache
  BY <1>4 DEF CachedInv
<1>5. QED BY <1>2, <1>3, <1>4 DEF Sections

\* Who captures or files while nothing has failed does so by a copy it keeps: an
\* edit of the document leaves the copies alone, and a restart is a fault.
LEMMA StepCached == ASSUME CachedInv, [SettlementNext]_settlementVars PROVE CachedInv'
<1>1. ASSUME NEW w \in Workers, Capture(w) PROVE CachedInv'
  <2>1. PICK c \in [type : Types, amount : Amounts], sections \in {policy, cache[w], <<>>} :
          /\ Sections(w, sections)
          /\ claim' = c
          /\ shown' = SettlementFor(c.type, c.amount, sections)
    BY <1>1 DEF Capture
  <2>2. stage' = "asked" /\ policy' = policy BY <1>1 DEF Capture
  <2>3. faults' = 0 => cache'[w] # None /\ shown' = ByCacheOf(w)'
    BY <2>1, SectionsAreKept DEF ByCacheOf
  <2>4. QED BY <2>1, <2>2, <2>3, SectionsAreKept DEF CachedInv
<1>2. ASSUME NEW w \in Workers, Submit(w) PROVE CachedInv'
  <2>1. PICK sections \in {policy, cache[w], <<>>} :
          /\ Sections(w, sections)
          /\ \/ /\ stage' = "filed"
                /\ reported' = SettlementFor(claim.type, claim.amount, sections)
             \/ stage' = "unfiled" /\ reported' = None
    BY <1>2 DEF Submit
  <2>2. stage = "asked" /\ UNCHANGED <<policy, claim, shown>>
    BY <1>2 DEF Submit
  <2>3. faults' = 0 /\ stage' = "filed" => cache'[w] # None /\ reported' = ByCacheOf(w)'
    BY <2>1, <2>2, SectionsAreKept DEF ByCacheOf
  <2>4. ASSUME faults' = 0
        PROVE  \E v \in Workers : cache'[v] # None /\ shown' = ByCacheOf(v)'
    <3>1. PICK v \in Workers : cache[v] # None /\ shown = ByCacheOf(v)
      BY <2>1, <2>2, <2>4, SectionsAreKept DEF CachedInv
    <3>2. cache'[v] = cache[v] BY <2>1, <2>4, <3>1, SectionsAreKept
    <3>3. QED BY <2>2, <3>1, <3>2 DEF ByCacheOf
  <2>5. QED BY <2>1, <2>2, <2>3, <2>4, SectionsAreKept DEF CachedInv
<1>3. CASE Decline BY <1>3 DEF Decline, CachedInv, ByCacheOf
<1>4. CASE EditPolicy BY <1>4 DEF EditPolicy, CachedInv, ByCacheOf
<1>5. ASSUME NEW w \in Workers, RestartWorker(w) PROVE CachedInv'
  BY <1>5 DEF RestartWorker, CachedInv
<1>6. CASE UNCHANGED settlementVars BY <1>6 DEF settlementVars, CachedInv, ByCacheOf
<1>7. QED BY <1>1, <1>2, <1>3, <1>4, <1>5, <1>6 DEF SettlementNext

\* The invariant holds of every behaviour.
LEMMA CachedInvariance == SettlementSpec => []CachedInv
<1>1. SettlementInit => CachedInv BY DEF SettlementInit, CachedInv
<1>2. CachedInv /\ [SettlementNext]_settlementVars => CachedInv' BY StepCached
<1>3. QED BY <1>1, <1>2, PTL DEF SettlementSpec

\* With a claim it has just filed submit_claim reports the split that capture showed,
\* however the policy is edited between them: both read it off cached sections.
\* When it replays an earlier confirmation, or fails, it reports none.
THEOREM ReportIsWhatWasShown == SettlementSpec => []ShownIsReported
<1>1. CachedInv => ShownIsReported
  <2> SUFFICES ASSUME CachedInv, stage = "filed", faults = 0,
                      \A v, w \in Workers :
                        None \in {cache[v], cache[w]} \/ cache[v] = cache[w]
               PROVE  reported = shown
    BY DEF ShownIsReported, CachedInv
  <2>1. PICK v \in Workers : cache[v] # None /\ shown = ByCacheOf(v) BY DEF CachedInv
  <2>2. PICK w \in Workers : cache[w] # None /\ reported = ByCacheOf(w) BY DEF CachedInv
  <2>3. cache[v] = cache[w] BY <2>1, <2>2
  <2>4. QED BY <2>1, <2>2, <2>3 DEF ByCacheOf
<1>2. QED BY <1>1, CachedInvariance, PTL

\* A policy that caps a type of claim in any section caps its split.
LEMMA CapIsFound ==
  ASSUME NEW policy_ \in Seq(Sections1), NEW type, NEW claimed,
         SettlementFor(type, claimed, policy_) # None,
         SettlementFor(type, claimed, policy_).limit = None,
         NEW k \in DOMAIN policy_, type \in policy_[k].names
  PROVE  Rule(policy_[k], "limit") = None
<1> DEFINE named == {j \in DOMAIN policy_ : type \in policy_[j].names}
           capped == {j \in named : Rule(policy_[j], "limit") # None}
           g == Governing(policy_, type)
<1> SUFFICES ASSUME capped # {} PROVE FALSE
  OBVIOUS
<1>1. capped \subseteq Nat BY LenProperties
<1>2. \E j \in capped : \A l \in capped : j <= l BY <1>1, SmallestNat
<1>3. g = CHOOSE j \in capped : \A l \in capped : j <= l BY DEF Governing
<1> HIDE DEF g
<1>4. g \in capped BY <1>2, <1>3
<1>5. Rule(policy_[g], "limit") # None BY <1>4
<1>6. SettlementFor(type, claimed, policy_).limit = Rule(policy_[g], "limit")
  BY DEF SettlementFor, Settle, g
<1>7. QED BY <1>5, <1>6

\* A split is shown without a cap only by a policy that states none for the type
\* of the claim, wherever _governing_section would look.
THEOREM CapsAreNotMissed == SettlementSpec => []CapsAreApplied
<1>1. CachedInv => CapsAreApplied
  <2> SUFFICES ASSUME CachedInv, faults = 0, shown # None, shown.limit = None
               PROVE  \E w \in Workers :
                        /\ cache[w] # None
                        /\ \A k \in DOMAIN cache[w] :
                             claim.type \in cache[w][k].names =>
                               Rule(cache[w][k], "limit") = None
    BY DEF CapsAreApplied
  <2>1. PICK w \in Workers : cache[w] # None /\ shown = ByCacheOf(w) BY DEF CachedInv
  <2>2. cache[w] \in Seq(Sections1)
    BY <2>1, SettlementAssumption DEF CachedInv, Sections1
  <2>3. QED BY <2>1, <2>2, CapIsFound DEF ByCacheOf
<1>2. QED BY <1>1, CachedInvariance, PTL
==============================================================================
