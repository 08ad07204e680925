----------------------------- MODULE OrderLemmas -----------------------------
(***************************************************************************)
(* Facts about numbers that several proof modules rest on: minima, and the *)
(* sums of functions on finite sets.                                       *)
(***************************************************************************)
EXTENDS Integers, Functions, FiniteSetTheorems, WellFoundedInduction, TLAPS

\* A nonempty set of naturals has a smallest element.
LEMMA SmallestNat ==
  ASSUME NEW A \in SUBSET Nat, A # {}
  PROVE  \E i \in A : \A j \in A : i <= j
<1>1. IsWellFoundedOn(OpToRel(<, Nat), Nat) BY NatLessThanWellFounded
<1>2. \E i \in A : \A j \in A : ~(<<j, i>> \in OpToRel(<, Nat)) BY <1>1, WFMin
<1>3. \A i, j \in Nat : <<j, i>> \in OpToRel(<, Nat) <=> j < i BY DEF OpToRel
<1> DEFINE R == OpToRel(<, Nat)
<1> HIDE DEF R
<1>4. PICK i \in A : \A j \in A : <<j, i>> \notin R BY <1>2 DEF R
<1>5. \A j \in A : ~(j < i) BY <1>3, <1>4 DEF R
<1>6. \A j \in A : i <= j BY <1>5
<1>7. QED BY <1>6

-----------------------------------------------------------------------------
\* Of the subsets of a finite set that have some property, one has it although
\* none that lacks one of its elements does.
LEMMA SmallestSubset ==
  ASSUME NEW S, IsFiniteSet(S), NEW Bad \in SUBSET (SUBSET S), Bad # {}
  PROVE  \E s \in Bad : \A x \in s : s \ {x} \notin Bad
<1> DEFINE Sizes == {n \in Nat : \E s \in Bad : Cardinality(s) = n}
<1>1. \A s \in SUBSET S : IsFiniteSet(s) /\ Cardinality(s) \in Nat
  BY FS_Subset, FS_CardinalityType
<1>2. Sizes \in SUBSET Nat /\ Sizes # {} BY <1>1
<1>3. PICK n \in Sizes : \A m \in Sizes : n <= m
  <2> HIDE DEF Sizes
  <2>1. QED BY <1>2, SmallestNat
<1>4. PICK s \in Bad : Cardinality(s) = n BY <1>3
<1>5. ASSUME NEW x \in s, s \ {x} \in Bad PROVE FALSE
  <2>1. IsFiniteSet(s) BY <1>1
  <2>2. Cardinality(s \ {x}) = n - 1 BY <1>4, <2>1, FS_RemoveElement
  <2>3. Cardinality(s \ {x}) \in Sizes BY <1>1, <1>5
  <2>4. n \in Nat BY <1>3
  <2>5. n <= Cardinality(s \ {x})
    <3> HIDE DEF Sizes
    <3>1. QED BY <1>3, <2>3
  <2>6. QED BY <2>2, <2>4, <2>5
<1>6. QED BY <1>4, <1>5

\* The partial sums of f over the subsets of D, as SumFunction takes them.
PartialSums(g, f, D) ==
  g = [s \in SUBSET D |->
         IF s = {} THEN 0 ELSE LET x == CHOOSE x \in s : TRUE IN f[x] + g[s \ {x}]]

\* Over a finite set they exist.
LEMMA PartialSumsExist ==
  ASSUME NEW D, IsFiniteSet(D), NEW f \in [D -> Int]
  PROVE  \E g \in [SUBSET D -> Int] : PartialSums(g, f, D)
<1> DEFINE Step(g) ==
             [s \in SUBSET D |->
                IF s = {} THEN 0 ELSE LET x == CHOOSE x \in s : TRUE IN f[x] + g[s \ {x}]]
           Upto(n) == \E g \in [SUBSET D -> Int] :
                        \A s \in SUBSET D : Cardinality(s) <= n => g[s] = Step(g)[s]
           Fails == {n \in Nat : ~Upto(n)}
<1>1. \A s \in SUBSET D : IsFiniteSet(s) /\ Cardinality(s) \in Nat
  BY FS_Subset, FS_CardinalityType
<1>2. ASSUME NEW s \in SUBSET D, s # {}
      PROVE  LET x == CHOOSE x \in s : TRUE
             IN  x \in s /\ s \ {x} \in SUBSET D /\ Cardinality(s \ {x}) = Cardinality(s) - 1
  BY <1>1, <1>2, FS_RemoveElement
<1>3. Upto(0)
  <2>1. [s \in SUBSET D |-> 0] \in [SUBSET D -> Int] OBVIOUS
  <2>2. ASSUME NEW s \in SUBSET D, Cardinality(s) <= 0
        PROVE  [t \in SUBSET D |-> 0][s] = Step([t \in SUBSET D |-> 0])[s]
    BY <1>1, <2>2, FS_EmptySet
  <2> HIDE DEF Step
  <2>3. QED BY <2>1, <2>2
<1>4. ASSUME NEW n \in Nat, Upto(n) PROVE Upto(n + 1)
  <2>1. PICK g \in [SUBSET D -> Int] :
          \A s \in SUBSET D : Cardinality(s) <= n => g[s] = Step(g)[s]
    BY <1>4
  <2> DEFINE h == Step(g)
  <2>2. h \in [SUBSET D -> Int] BY <1>2
  <2>3. ASSUME NEW s \in SUBSET D, Cardinality(s) <= n + 1
        PROVE  h[s] = Step(h)[s]
    <3>1. CASE s = {} BY <3>1
    <3>2. CASE s # {}
      <4> DEFINE x == CHOOSE x \in s : TRUE
      <4>1. s \ {x} \in SUBSET D /\ Cardinality(s \ {x}) <= n
        BY <1>1, <1>2, <2>3, <3>2
      <4>2. g[s \ {x}] = h[s \ {x}] BY <2>1, <4>1
      <4>3. h[s] = f[x] + g[s \ {x}] BY <3>2
      <4>4. Step(h)[s] = f[x] + h[s \ {x}] BY <3>2
      <4>5. QED BY <4>2, <4>3, <4>4
    <3>3. QED BY <3>1, <3>2
  <2> HIDE DEF h, Step
  <2>4. QED BY <2>2, <2>3
<1>5. Fails = {}
  <2> HIDE DEF Upto
  <2>1. SUFFICES ASSUME Fails # {} PROVE FALSE OBVIOUS
  <2>2. PICK n \in Fails : \A m \in Fails : n <= m
    <3>1. Fails \in SUBSET Nat OBVIOUS
    <3> HIDE DEF Fails
    <3>2. QED BY <2>1, <3>1, SmallestNat
  <2>3. n # 0 BY <1>3
  <2>4. n - 1 \in Nat /\ n - 1 \notin Fails /\ (n - 1) + 1 = n BY <2>2, <2>3
  <2>5. QED BY <1>4, <2>2, <2>4
<1>6. Upto(Cardinality(D)) BY <1>1, <1>5
<1>7. PICK g \in [SUBSET D -> Int] :
        \A s \in SUBSET D : Cardinality(s) <= Cardinality(D) => g[s] = Step(g)[s]
  BY <1>6
<1>8. \A s \in SUBSET D : Cardinality(s) <= Cardinality(D) BY FS_Subset
<1>9. \A s \in SUBSET D : g[s] = Step(g)[s] BY <1>7, <1>8
<1>10. g = Step(g) BY <1>9
<1>11. QED BY <1>10 DEF PartialSums

\* SumFunction is the last of the partial sums.
LEMMA SumIsPartialSum ==
  ASSUME NEW D, IsFiniteSet(D), NEW f \in [D -> Int]
  PROVE  \E g \in [SUBSET D -> Int] : PartialSums(g, f, D) /\ SumFunction(f) = g[D]
<1> DEFINE g == CHOOSE g : PartialSums(g, f, D)
<1>1. SumFunction(f) = g[D]
  <2>1. DOMAIN f = D OBVIOUS
  <2>2. QED
    BY <2>1 DEF SumFunction, SumFunctionOnSet, FoldFunctionOnSet, MapThenFoldSet, PartialSums
<1>2. PartialSums(g, f, D) BY PartialSumsExist
<1> HIDE DEF g
<1>3. PICK h \in [SUBSET D -> Int] : PartialSums(h, f, D) BY PartialSumsExist
<1> DEFINE Apart == {s \in SUBSET D : g[s] # h[s]}
<1>4. Apart = {}
  <2>1. SUFFICES ASSUME Apart # {} PROVE FALSE OBVIOUS
  <2>2. PICK s \in Apart : \A x \in s : s \ {x} \notin Apart
    <3>1. Apart \in SUBSET (SUBSET D) OBVIOUS
    <3> HIDE DEF Apart
    <3>2. QED BY <2>1, <3>1, SmallestSubset
  <2>3. s # {} BY <1>2, <1>3, <2>2 DEF PartialSums
  <2> DEFINE x == CHOOSE x \in s : TRUE
  <2>4. x \in s BY <2>3
  <2>5. g[s \ {x}] = h[s \ {x}] BY <2>2, <2>4
  <2>6. g[s] = f[x] + g[s \ {x}] /\ h[s] = f[x] + h[s \ {x}]
    BY <1>2, <1>3, <2>2, <2>3 DEF PartialSums
  <2>7. QED BY <2>2, <2>5, <2>6
<1>5. \A s \in SUBSET D : g[s] = h[s] BY <1>4
<1>6. DOMAIN g = SUBSET D BY <1>2 DEF PartialSums
<1>7. \A s \in SUBSET D : g[s] \in Int BY <1>5
<1>8. g \in [SUBSET D -> Int]
  <2>1. g = [s \in SUBSET D |-> g[s]] BY <1>2, <1>6 DEF PartialSums
  <2>2. QED BY <1>7, <2>1
<1>9. QED BY <1>1, <1>2, <1>8

\* The sum of naturals is one.
LEMMA SumType ==
  ASSUME NEW D, IsFiniteSet(D), NEW f \in [D -> Nat]
  PROVE  SumFunction(f) \in Nat
<1>0. f \in [D -> Int] OBVIOUS
<1>1. PICK g \in [SUBSET D -> Int] : PartialSums(g, f, D) /\ SumFunction(f) = g[D]
  BY <1>0, SumIsPartialSum
<1> DEFINE Odd == {s \in SUBSET D : g[s] \notin Nat}
<1>2. Odd = {}
  <2>1. SUFFICES ASSUME Odd # {} PROVE FALSE OBVIOUS
  <2>2. PICK s \in Odd : \A x \in s : s \ {x} \notin Odd
    <3>1. Odd \in SUBSET (SUBSET D) OBVIOUS
    <3> HIDE DEF Odd
    <3>2. QED BY <2>1, <3>1, SmallestSubset
  <2>3. s # {} BY <1>1, <2>2 DEF PartialSums
  <2> DEFINE x == CHOOSE x \in s : TRUE
  <2>4. x \in s /\ x \in D BY <2>2, <2>3
  <2>5. g[s \ {x}] \in Nat BY <2>2, <2>4
  <2>6. g[s] = f[x] + g[s \ {x}] BY <1>1, <2>2, <2>3 DEF PartialSums
  <2>7. QED BY <2>2, <2>4, <2>5, <2>6
<1>3. QED BY <1>1, <1>2

\* Where two functions differ in one place only, their sums differ by as much.
LEMMA SumOfChange ==
  ASSUME NEW D, IsFiniteSet(D), NEW f \in [D -> Int], NEW h \in [D -> Int],
         NEW c \in D, \A x \in D \ {c} : h[x] = f[x]
  PROVE  SumFunction(h) = SumFunction(f) + (h[c] - f[c])
<1>1. PICK g \in [SUBSET D -> Int] : PartialSums(g, f, D) /\ SumFunction(f) = g[D]
  BY SumIsPartialSum
<1>2. PICK k \in [SUBSET D -> Int] : PartialSums(k, h, D) /\ SumFunction(h) = k[D]
  BY SumIsPartialSum
<1> DEFINE change(s) == IF c \in s THEN h[c] - f[c] ELSE 0
           Odd == {s \in SUBSET D : k[s] # g[s] + change(s)}
<1>3. Odd = {}
  <2>1. SUFFICES ASSUME Odd # {} PROVE FALSE OBVIOUS
  <2>2. PICK s \in Odd : \A x \in s : s \ {x} \notin Odd
    <3>1. Odd \in SUBSET (SUBSET D) OBVIOUS
    <3> HIDE DEF Odd
    <3>2. QED BY <2>1, <3>1, SmallestSubset
  <2>3. s # {} BY <1>1, <1>2, <2>2 DEF PartialSums
  <2> DEFINE x == CHOOSE x \in s : TRUE
  <2>4. x \in s /\ x \in D /\ s \ {x} \in SUBSET D BY <2>2, <2>3
  <2>5. k[s \ {x}] = g[s \ {x}] + change(s \ {x}) BY <2>2, <2>4
  <2>6. g[s] = f[x] + g[s \ {x}] /\ k[s] = h[x] + k[s \ {x}]
    BY <1>1, <1>2, <2>2, <2>3 DEF PartialSums
  <2>7. /\ g[s \ {x}] \in Int /\ f[x] \in Int /\ h[x] \in Int
        /\ f[c] \in Int /\ h[c] \in Int
    BY <2>4
  <2>8. k[s] # g[s] + change(s) BY <2>2
  <2> HIDE DEF x
  <2>9. CASE x = c
    <3>1. change(s) = h[c] - f[c] /\ change(s \ {x}) = 0 BY <2>4, <2>9
    <3> HIDE DEF change
    <3>2. QED BY <2>5, <2>6, <2>7, <2>8, <2>9, <3>1
  <2>10. CASE x # c
    <3>1. change(s) = change(s \ {x}) /\ h[x] = f[x] BY <2>4, <2>10
    <3>2. change(s) \in Int BY <2>7
    <3> HIDE DEF change
    <3>3. QED BY <2>5, <2>6, <2>7, <2>8, <3>1, <3>2
  <2>11. QED BY <2>9, <2>10
<1>4. k[D] = g[D] + change(D) BY <1>3
<1>5. QED BY <1>1, <1>2, <1>4

\* A sum of terms up to m, all 0 outside of A, is at most m times A's size.
LEMMA SumBound ==
  ASSUME NEW D, IsFiniteSet(D), NEW f \in [D -> Nat], NEW A \in SUBSET D, NEW m \in Nat,
         \A x \in D : f[x] <= m, \A x \in D \ A : f[x] = 0
  PROVE  SumFunction(f) <= m * Cardinality(A)
<1>0. f \in [D -> Int] OBVIOUS
<1>1. PICK g \in [SUBSET D -> Int] : PartialSums(g, f, D) /\ SumFunction(f) = g[D]
  BY <1>0, SumIsPartialSum
<1>2. \A s \in SUBSET D : IsFiniteSet(s \cap A) /\ Cardinality(s \cap A) \in Nat
  BY FS_Subset, FS_CardinalityType
<1> DEFINE Odd == {s \in SUBSET D : ~(g[s] <= m * Cardinality(s \cap A))}
<1>3. Odd = {}
  <2>1. SUFFICES ASSUME Odd # {} PROVE FALSE OBVIOUS
  <2>2. PICK s \in Odd : \A x \in s : s \ {x} \notin Odd
    <3>1. Odd \in SUBSET (SUBSET D) OBVIOUS
    <3> HIDE DEF Odd
    <3>2. QED BY <2>1, <3>1, SmallestSubset
  <2>3. s # {}
    <3>1. SUFFICES ASSUME s = {} PROVE FALSE OBVIOUS
    <3>2. g[s] = 0 BY <1>1, <2>2, <3>1 DEF PartialSums
    <3>3. Cardinality(s \cap A) = 0 BY <3>1, FS_EmptySet
    <3>4. QED BY <2>2, <3>2, <3>3
  <2> DEFINE x == CHOOSE x \in s : TRUE
             n == Cardinality(s \cap A)
             n1 == Cardinality((s \ {x}) \cap A)
  <2>4. x \in s /\ x \in D /\ s \ {x} \in SUBSET D BY <2>2, <2>3
  <2>5. g[s \ {x}] <= m * n1 BY <2>2, <2>4
  <2>6. g[s] = f[x] + g[s \ {x}] BY <1>1, <2>2, <2>3 DEF PartialSums
  <2>7. g[s \ {x}] \in Int /\ f[x] \in Nat /\ n \in Nat /\ n1 \in Nat
    BY <1>2, <2>2, <2>4
  <2>8. ~(g[s] <= m * n) BY <2>2
  <2>9. (s \ {x}) \cap A = (s \cap A) \ {x} OBVIOUS
  <2>10. n1 = IF x \in A THEN n - 1 ELSE n
    <3> DEFINE T == s \cap A
    <3>1. IsFiniteSet(T) BY <1>2, <2>2
    <3>2. x \in T <=> x \in A BY <2>4
    <3>3. n1 = Cardinality(T \ {x}) BY <2>9
    <3> HIDE DEF T, x, n1
    <3>4. Cardinality(T \ {x}) = IF x \in T THEN Cardinality(T) - 1 ELSE Cardinality(T)
      BY <3>1, FS_RemoveElement
    <3>5. QED BY <3>2, <3>3, <3>4 DEF T
  <2>11. f[x] <= m /\ (x \notin A => f[x] = 0) BY <2>4
  <2> HIDE DEF x, n, n1
  <2>12. CASE x \in A
    <3>1. m * n = m * n1 + m BY <2>7, <2>10, <2>12
    <3>2. QED BY <2>5, <2>6, <2>7, <2>8, <2>11, <3>1
  <2>13. CASE x \notin A
    BY <2>5, <2>6, <2>7, <2>8, <2>10, <2>11, <2>13
  <2>14. QED BY <2>12, <2>13
<1>4. D \cap A = A OBVIOUS
<1>5. g[D] <= m * Cardinality(D \cap A) BY <1>3
<1>6. QED BY <1>1, <1>4, <1>5

\* A sum of equal terms.
LEMMA SumOfEquals ==
  ASSUME NEW D, IsFiniteSet(D), NEW f \in [D -> Nat], NEW m \in Nat, \A x \in D : f[x] = m
  PROVE  SumFunction(f) = m * Cardinality(D)
<1>0. f \in [D -> Int] OBVIOUS
<1>1. PICK g \in [SUBSET D -> Int] : PartialSums(g, f, D) /\ SumFunction(f) = g[D]
  BY <1>0, SumIsPartialSum
<1>2. \A s \in SUBSET D : IsFiniteSet(s) /\ Cardinality(s) \in Nat
  BY FS_Subset, FS_CardinalityType
<1> DEFINE Odd == {s \in SUBSET D : g[s] # m * Cardinality(s)}
<1>3. Odd = {}
  <2>1. SUFFICES ASSUME Odd # {} PROVE FALSE OBVIOUS
  <2>2. PICK s \in Odd : \A x \in s : s \ {x} \notin Odd
    <3>1. Odd \in SUBSET (SUBSET D) OBVIOUS
    <3> HIDE DEF Odd
    <3>2. QED BY <2>1, <3>1, SmallestSubset
  <2>3. s # {}
    <3>1. SUFFICES ASSUME s = {} PROVE FALSE OBVIOUS
    <3>2. g[s] = 0 BY <1>1, <2>2, <3>1 DEF PartialSums
    <3>3. Cardinality(s) = 0 BY <3>1, FS_EmptySet
    <3>4. QED BY <2>2, <3>2, <3>3
  <2> DEFINE x == CHOOSE x \in s : TRUE
             n == Cardinality(s)
  <2>4. x \in s /\ x \in D /\ s \ {x} \in SUBSET D BY <2>2, <2>3
  <2>5. g[s \ {x}] = m * Cardinality(s \ {x}) BY <2>2, <2>4
  <2>6. g[s] = m + g[s \ {x}] BY <1>1, <2>2, <2>3, <2>4 DEF PartialSums
  <2>7. n \in Nat /\ Cardinality(s \ {x}) = n - 1
    BY <1>2, <2>2, <2>4, FS_RemoveElement
  <2>8. g[s] # m * n BY <2>2
  <2> HIDE DEF x, n
  <2>9. m * n = m + m * (n - 1) BY <2>7
  <2>10. QED BY <2>5, <2>6, <2>7, <2>8, <2>9
<1>4. QED BY <1>1, <1>3

\* The numbers up to n are n.
LEMMA IntervalSize ==
  ASSUME NEW n \in Nat
  PROVE  IsFiniteSet(1 .. n) /\ Cardinality(1 .. n) = n
<1>1. 1 \in Int /\ n \in Int OBVIOUS
<1>2. IsFiniteSet(1 .. n) /\ Cardinality(1 .. n) = IF 1 > n THEN 0 ELSE n - 1 + 1
  BY <1>1, FS_Interval
<1>3. QED BY <1>2
==============================================================================
