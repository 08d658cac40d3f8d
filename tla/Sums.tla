-------------------------------- MODULE Sums --------------------------------
(***************************************************************************)
(* Sums over a finite domain, for the proofs about totals that the code     *)
(* keeps beside the records they add up: money on hold, committed bytes,    *)
(* open challenges, stored nodes.                                           *)
(***************************************************************************)
EXTENDS Integers, FiniteSets, Functions, FiniteSetTheorems, WellFoundedInduction, TLAPS

\* A non-empty set of natural numbers has a least element.
LEMMA LeastNat ==
    ASSUME NEW T, T \subseteq Nat, T # {}
    PROVE  \E x \in T : \A y \in T : x <= y
<1> DEFINE R == {ss \in Nat \X Nat : ss[1] < ss[2]}
<1>0. IsWellFoundedOn(R, Nat)
  <2>1. R = OpToRel(<, Nat)
    BY DEF OpToRel
  <2> QED BY <2>1, NatLessThanWellFounded
<1> HIDE DEF R
<1>1. PICK x \in T : \A y \in T : ~(<<y, x>> \in R)
  BY <1>0, WFMin
<1>2. ASSUME NEW y \in T PROVE x <= y
  <2>1. x \in Nat /\ y \in Nat
    OBVIOUS
  <2>2. ~(y < x)
    BY <1>1, <2>1 DEF R
  <2> QED BY <2>1, <2>2
<1> QED BY <1>2

\* The element SumFunction takes first out of a set.
Pick(s) == CHOOSE x \in s : TRUE

\* One step of the fold that SumFunction(x) is.
SumStep(x, it, s) == IF s = {} THEN 0 ELSE x[Pick(s)] + it[s \ {Pick(s)}]

\* it is that fold: the sum of x over every subset of S.
Summing(x, S, it) == it = [s \in SUBSET S |-> SumStep(x, it, s)]

\* Pick chooses an element.
LEMMA PickIn == ASSUME NEW s, s # {} PROVE Pick(s) \in s
BY DEF Pick

\* A subset without one of its elements is smaller.
LEMMA SmallerSubset ==
    ASSUME NEW S, IsFiniteSet(S), NEW s \in SUBSET S, s # {}
    PROVE  /\ Pick(s) \in s /\ s \ {Pick(s)} \in SUBSET S
           /\ Cardinality(s) \in Nat /\ Cardinality(s \ {Pick(s)}) = Cardinality(s) - 1
           /\ Cardinality(s \ {Pick(s)}) \in Nat
<1>1. Pick(s) \in s
  BY PickIn
<1>2. IsFiniteSet(s)
  BY FS_Subset
<1>3. Cardinality(s) \in Nat /\ Cardinality(s \ {Pick(s)}) = Cardinality(s) - 1
      /\ IsFiniteSet(s \ {Pick(s)})
  BY <1>1, <1>2, FS_CardinalityType, FS_RemoveElement
<1>4. Cardinality(s \ {Pick(s)}) \in Nat
  BY <1>3, FS_CardinalityType
<1> QED BY <1>1, <1>3, <1>4

\* The fold exists: by induction over the size of the subsets.
LEMMA SummingExists ==
    ASSUME NEW S, IsFiniteSet(S), NEW x
    PROVE  \E it : Summing(x, S, it)
<1> DEFINE D(n) == {s \in SUBSET S : Cardinality(s) <= n}
           Upto(n, it) == it = [s \in D(n) |-> SumStep(x, it, s)]
           Bad == {n \in Nat : ~\E it : Upto(n, it)}
<1>1. Bad = {}
  <2> SUFFICES ASSUME Bad # {} PROVE FALSE
    OBVIOUS
  <2>1. PICK n \in Bad : \A m \in Bad : n <= m
    <3>1. Bad \subseteq Nat
      OBVIOUS
    <3> HIDE DEF Bad
    <3> QED BY <3>1, LeastNat
  <2>2. n \in Nat /\ ~\E it : Upto(n, it)
    OBVIOUS
  <2>3. CASE n = 0
    <3>1. \A s \in D(0) : s = {}
      <4> SUFFICES ASSUME NEW s \in D(0) PROVE s = {}
        OBVIOUS
      <4>1. IsFiniteSet(s) /\ Cardinality(s) <= 0
        BY FS_Subset
      <4> QED BY <4>1, FS_CardinalityType, FS_EmptySet
    <3> DEFINE it == [s \in D(0) |-> 0]
    <3>2. it = [s \in D(0) |-> SumStep(x, it, s)]
      BY <3>1 DEF SumStep
    <3> HIDE DEF it
    <3>3. Upto(0, it)
      BY <3>2
    <3> QED BY <2>2, <2>3, <3>3
  <2>4. CASE n # 0
    <3>1. n - 1 \in Nat /\ n - 1 \notin Bad
      <4>1. n - 1 \in Nat /\ ~(n <= n - 1)
        BY <2>2, <2>4
      <4> HIDE DEF Bad
      <4> QED BY <2>1, <4>1
    <3>2. PICK h : Upto(n - 1, h)
      BY <3>1
    <3> DEFINE it == [s \in D(n) |-> SumStep(x, h, s)]
    <3>3. \A s \in D(n - 1) : s \in D(n)
      <4> SUFFICES ASSUME NEW s \in D(n - 1) PROVE Cardinality(s) <= n
        OBVIOUS
      <4>1. Cardinality(s) \in Nat /\ Cardinality(s) <= n - 1
        BY FS_Subset, FS_CardinalityType
      <4> QED BY <2>2, <4>1
    <3>4. \A s \in D(n - 1) : it[s] = h[s]
      <4> SUFFICES ASSUME NEW s \in D(n - 1) PROVE it[s] = h[s]
        OBVIOUS
      <4>1. it[s] = SumStep(x, h, s)
        BY <3>3
      <4>2. h[s] = SumStep(x, h, s)
        <5> HIDE DEF D
        <5> QED BY <3>2
      <4> QED BY <4>1, <4>2
    <3>5. \A s \in D(n) : SumStep(x, h, s) = SumStep(x, it, s)
      <4> SUFFICES ASSUME NEW s \in D(n) PROVE SumStep(x, h, s) = SumStep(x, it, s)
        OBVIOUS
      <4>1. CASE s = {}
        BY <4>1 DEF SumStep
      <4>2. CASE s # {}
        <5>1. s \ {Pick(s)} \in D(n - 1)
          BY <2>2, <4>2, SmallerSubset
        <5>2. it[s \ {Pick(s)}] = h[s \ {Pick(s)}]
          BY <3>4, <5>1
        <5> HIDE DEF it, D
        <5> QED BY <4>2, <5>2 DEF SumStep
      <4> QED BY <4>1, <4>2
    <3>6. it = [s \in D(n) |-> SumStep(x, it, s)]
      BY <3>5
    <3>7. \E f : Upto(n, f)
      <4> HIDE DEF it
      <4> QED BY <3>6
    <3> QED BY <2>2, <3>7
  <2> QED BY <2>3, <2>4
<1>2. Cardinality(S) \in Nat
  BY FS_CardinalityType
<1>3. PICK it : Upto(Cardinality(S), it)
  BY <1>1, <1>2
<1>4. D(Cardinality(S)) = SUBSET S
  <2>1. \A s \in SUBSET S : Cardinality(s) <= Cardinality(S)
    BY FS_Subset
  <2> QED BY <2>1
<1>5. it = [s \in SUBSET S |-> SumStep(x, it, s)]
  <2> HIDE DEF D
  <2> QED BY <1>3, <1>4
<1> QED BY <1>5 DEF Summing

\* SumFunction is that fold, taken at the whole domain.
LEMMA SumIsFold ==
    ASSUME NEW S, IsFiniteSet(S), NEW T, NEW x \in [S -> T]
    PROVE  \E it : Summing(x, S, it) /\ SumFunction(x) = it[S]
<1> DEFINE it == CHOOSE f : Summing(x, S, f)
<1>1. Summing(x, S, it)
  BY SummingExists
<1>2. SumFunction(x) = it[S]
  BY DEF SumFunction, SumFunctionOnSet, FoldFunctionOnSet, MapThenFoldSet, Summing, SumStep, Pick
<1> QED BY <1>1, <1>2

\* What the fold yields, subset by subset.
LEMMA FoldValues ==
    ASSUME NEW S, IsFiniteSet(S), NEW x \in [S -> Nat], NEW it, Summing(x, S, it)
    PROVE  /\ it[{}] = 0
           /\ \A s \in SUBSET S : s # {} => it[s] = x[Pick(s)] + it[s \ {Pick(s)}]
           /\ \A s \in SUBSET S : it[s] \in Nat
<1>1. it[{}] = 0
  <2>1. {} \in SUBSET S /\ SumStep(x, it, {}) = 0
    BY DEF SumStep
  <2> QED BY <2>1 DEF Summing
<1>2. ASSUME NEW s \in SUBSET S, s # {}
      PROVE  it[s] = x[Pick(s)] + it[s \ {Pick(s)}]
  <2>1. it[s] = SumStep(x, it, s)
    BY DEF Summing
  <2> QED BY <1>2, <2>1 DEF SumStep
<1> DEFINE Bad == {n \in Nat : \E s \in SUBSET S : Cardinality(s) = n /\ it[s] \notin Nat}
<1>3. Bad = {}
  <2> SUFFICES ASSUME Bad # {} PROVE FALSE
    OBVIOUS
  <2>0. Bad \subseteq Nat
    OBVIOUS
  <2>1. PICK n \in Bad : \A m \in Bad : n <= m
    <3> HIDE DEF Bad
    <3> QED BY <2>0, LeastNat
  <2>2. PICK s \in SUBSET S : Cardinality(s) = n /\ it[s] \notin Nat
    OBVIOUS
  <2>3. s # {}
    BY <1>1, <2>2
  <2>4. it[s] = x[Pick(s)] + it[s \ {Pick(s)}] /\ x[Pick(s)] \in Nat
    BY <1>2, <2>3, SmallerSubset
  <2>5. it[s \ {Pick(s)}] \notin Nat
    BY <2>2, <2>4
  <2>6. /\ n \in Nat /\ n - 1 \in Nat /\ s \ {Pick(s)} \in SUBSET S
        /\ Cardinality(s \ {Pick(s)}) = n - 1
    <3> HIDE DEF Bad
    <3> QED BY <2>0, <2>2, <2>3, SmallerSubset
  <2>7. n - 1 \in Bad
    BY <2>5, <2>6
  <2>8. ~(n <= n - 1)
    BY <2>6
  <2> HIDE DEF Bad
  <2> QED BY <2>1, <2>7, <2>8
<1>4. ASSUME NEW s \in SUBSET S PROVE it[s] \in Nat
  <2>1. Cardinality(s) \in Nat
    BY FS_Subset, FS_CardinalityType
  <2> QED BY <1>3, <2>1
<1> QED BY <1>1, <1>2, <1>4

\* Changing one summand changes the sum by the same amount, and no summand
\* exceeds the sum.
LEMMA SumUpdate ==
    ASSUME NEW S, IsFiniteSet(S), NEW x \in [S -> Nat], NEW k \in S, NEW v \in Nat
    PROVE  /\ SumFunction(x) \in Nat /\ x[k] <= SumFunction(x)
           /\ SumFunction([x EXCEPT ![k] = v]) = SumFunction(x) - x[k] + v
<1> DEFINE y == [x EXCEPT ![k] = v]
<1>0. y \in [S -> Nat] /\ y[k] = v /\ x[k] \in Nat /\ \A i \in S : i # k => y[i] = x[i]
  OBVIOUS
<1> HIDE DEF y
<1>1. PICK f : Summing(x, S, f) /\ SumFunction(x) = f[S]
  BY SumIsFold
<1>2. PICK g : Summing(y, S, g) /\ SumFunction(y) = g[S]
  BY <1>0, SumIsFold
<1>3. /\ f[{}] = 0
      /\ \A s \in SUBSET S : s # {} => f[s] = x[Pick(s)] + f[s \ {Pick(s)}]
      /\ \A s \in SUBSET S : f[s] \in Nat
  BY <1>1, FoldValues
<1>4. /\ g[{}] = 0
      /\ \A s \in SUBSET S : s # {} => g[s] = y[Pick(s)] + g[s \ {Pick(s)}]
      /\ \A s \in SUBSET S : g[s] \in Nat
  BY <1>0, <1>2, FoldValues
<1> DEFINE Good(s) == /\ k \in s => x[k] <= f[s] /\ g[s] = f[s] - x[k] + v
                      /\ k \notin s => g[s] = f[s]
           Bad == {n \in Nat : \E s \in SUBSET S : Cardinality(s) = n /\ ~Good(s)}
<1>5. Bad = {}
  <2> SUFFICES ASSUME Bad # {} PROVE FALSE
    OBVIOUS
  <2>0. Bad \subseteq Nat
    OBVIOUS
  <2>1. PICK n \in Bad : \A m \in Bad : n <= m
    <3> HIDE DEF Bad
    <3> QED BY <2>0, LeastNat
  <2>2. PICK s \in SUBSET S : Cardinality(s) = n /\ ~Good(s)
    <3> HIDE DEF Good
    <3> QED OBVIOUS
  <2>3. s # {}
    BY <1>3, <1>4, <2>2
  <2> DEFINE e == Pick(s)
             r == s \ {e}
  <2>6. /\ n \in Nat /\ n - 1 \in Nat /\ r \in SUBSET S /\ e \in s
        /\ Cardinality(r) = n - 1 /\ ~(n <= n - 1)
    BY <2>2, <2>3, SmallerSubset
  <2>7. n - 1 \notin Bad
    <3> HIDE DEF Bad
    <3> QED BY <2>1, <2>6
  <2>8. Good(r)
    <3> HIDE DEF Good, r
    <3> QED BY <2>6, <2>7
  <2>9. /\ f[s] = x[e] + f[r] /\ g[s] = y[e] + g[r]
        /\ f[r] \in Nat /\ g[r] \in Nat /\ e \in S
    BY <1>3, <1>4, <2>3, <2>6
  <2>10. x[e] \in Nat /\ y[e] \in Nat /\ (e # k => y[e] = x[e])
    BY <1>0, <2>9
  <2>11. (k \in r <=> k \in s /\ k # e)
    OBVIOUS
  <2> HIDE DEF e, r
  <2>12. CASE k = e
    <3>1. g[r] = f[r] /\ k \in s
      BY <2>6, <2>8, <2>11, <2>12
    <3>2. x[k] <= f[s] /\ g[s] = f[s] - x[k] + v
      BY <1>0, <2>9, <2>12, <3>1
    <3> QED BY <2>2, <3>1, <3>2
  <2>13. CASE k # e /\ k \in s
    <3>1. x[k] <= f[r] /\ g[r] = f[r] - x[k] + v
      BY <2>8, <2>11, <2>13
    <3>2. x[k] <= f[s] /\ g[s] = f[s] - x[k] + v
      BY <1>0, <2>9, <2>10, <2>13, <3>1
    <3> QED BY <2>2, <2>13, <3>2
  <2>14. CASE k # e /\ k \notin s
    <3>1. g[s] = f[s]
      BY <2>8, <2>9, <2>10, <2>11, <2>14
    <3> QED BY <2>2, <2>14, <3>1
  <2> QED BY <2>12, <2>13, <2>14
<1>6. Good(S)
  <2>1. Cardinality(S) \in Nat /\ S \in SUBSET S
    BY FS_CardinalityType
  <2> HIDE DEF Good
  <2> QED BY <1>5, <2>1
<1>7. f[S] \in Nat
  BY <1>3
<1> QED BY <1>1, <1>2, <1>6, <1>7 DEF y

\* The sum of twos, one for each element of a part of the domain.
LEMMA SumOverPart ==
    ASSUME NEW S, IsFiniteSet(S), NEW B \in SUBSET S, NEW x \in [S -> Nat],
           \A i \in S : x[i] = IF i \in B THEN 2 ELSE 0
    PROVE  SumFunction(x) = 2 * Cardinality(B)
<1>1. PICK f : Summing(x, S, f) /\ SumFunction(x) = f[S]
  BY SumIsFold
<1>3. /\ f[{}] = 0
      /\ \A s \in SUBSET S : s # {} => f[s] = x[Pick(s)] + f[s \ {Pick(s)}]
      /\ \A s \in SUBSET S : f[s] \in Nat
  BY <1>1, FoldValues
<1> DEFINE Bad == {n \in Nat : \E s \in SUBSET S :
                      Cardinality(s) = n /\ f[s] # 2 * Cardinality(s \cap B)}
<1>5. Bad = {}
  <2> SUFFICES ASSUME Bad # {} PROVE FALSE
    OBVIOUS
  <2>0. Bad \subseteq Nat
    OBVIOUS
  <2>1. PICK n \in Bad : \A m \in Bad : n <= m
    <3> HIDE DEF Bad
    <3> QED BY <2>0, LeastNat
  <2>2. PICK s \in SUBSET S : Cardinality(s) = n /\ f[s] # 2 * Cardinality(s \cap B)
    OBVIOUS
  <2>3. s # {}
    <3>1. Cardinality({}) = 0 /\ {} \cap B = {}
      BY FS_EmptySet
    <3>2. 2 * Cardinality({} \cap B) = 0
      BY <3>1
    <3> HIDE DEF Bad
    <3> QED BY <1>3, <2>2, <3>2
  <2> DEFINE e == Pick(s)
             r == s \ {e}
  <2>6. /\ n \in Nat /\ n - 1 \in Nat /\ r \in SUBSET S /\ e \in s
        /\ Cardinality(r) = n - 1 /\ ~(n <= n - 1)
    BY <2>2, <2>3, SmallerSubset
  <2>7. n - 1 \notin Bad
    <3> HIDE DEF Bad
    <3> QED BY <2>1, <2>6
  <2>8. f[r] = 2 * Cardinality(r \cap B)
    <3> HIDE DEF r
    <3> QED BY <2>6, <2>7
  <2>9. f[s] = x[e] + f[r] /\ f[r] \in Nat /\ e \in S
    BY <1>3, <2>3, <2>6
  <2>10. IsFiniteSet(s \cap B) /\ Cardinality(s \cap B) \in Nat
    BY FS_Subset, FS_CardinalityType
  <2>11. CASE e \in B
    <3>1. r \cap B = (s \cap B) \ {e} /\ e \in s \cap B
      BY <2>6, <2>11
    <3>2. Cardinality(r \cap B) = Cardinality(s \cap B) - 1
      <4>1. Cardinality((s \cap B) \ {e}) = Cardinality(s \cap B) - 1
        <5> HIDE DEF r, e, Bad
        <5> QED BY <2>10, <3>1, FS_RemoveElement
      <4> QED BY <3>1, <4>1
    <3>3. x[e] = 2
      BY <2>9, <2>11
    <3> HIDE DEF r, e
    <3> QED BY <2>2, <2>8, <2>9, <2>10, <3>2, <3>3
  <2>12. CASE e \notin B
    <3>1. r \cap B = s \cap B
      BY <2>12
    <3>2. x[e] = 0
      BY <2>9, <2>12
    <3>3. Cardinality(r \cap B) = Cardinality(s \cap B)
      BY <3>1
    <3> HIDE DEF r, e, Bad
    <3> QED BY <2>2, <2>8, <2>9, <2>10, <3>2, <3>3
  <2> QED BY <2>11, <2>12
<1>6. f[S] = 2 * Cardinality(S \cap B)
  <2>1. Cardinality(S) \in Nat /\ S \in SUBSET S
    BY FS_CardinalityType
  <2> QED BY <1>5, <2>1
<1>7. S \cap B = B
  OBVIOUS
<1> QED BY <1>1, <1>6, <1>7

\* The sum of zeros.
LEMMA SumOfZeros ==
    ASSUME NEW S, IsFiniteSet(S), NEW x \in [S -> Nat], \A i \in S : x[i] = 0
    PROVE  SumFunction(x) = 0
<1>1. {} \in SUBSET S /\ \A i \in S : x[i] = IF i \in {} THEN 2 ELSE 0
  OBVIOUS
<1>2. SumFunction(x) = 2 * Cardinality({}) /\ Cardinality({}) = 0
  BY <1>1, SumOverPart, FS_EmptySet
<1> QED BY <1>2

\* Any element may be taken out of a sum first.
LEMMA AnyElement ==
    ASSUME NEW S, IsFiniteSet(S), NEW x \in [S -> Nat], NEW f, Summing(x, S, f),
           NEW t \in SUBSET S, NEW j \in t
    PROVE  f[t] = x[j] + f[t \ {j}]
<1>1. /\ f[{}] = 0
      /\ \A s \in SUBSET S : s # {} => f[s] = x[Pick(s)] + f[s \ {Pick(s)}]
      /\ \A s \in SUBSET S : f[s] \in Nat
  BY FoldValues
<1> DEFINE Good(s) == \A k \in s : f[s] = x[k] + f[s \ {k}]
           Bad == {n \in Nat : \E s \in SUBSET S : Cardinality(s) = n /\ ~Good(s)}
<1>2. Bad = {}
  <2> SUFFICES ASSUME Bad # {} PROVE FALSE
    OBVIOUS
  <2>0. Bad \subseteq Nat
    OBVIOUS
  <2>1. PICK n \in Bad : \A m \in Bad : n <= m
    <3> HIDE DEF Bad
    <3> QED BY <2>0, LeastNat
  <2>2. PICK s \in SUBSET S : Cardinality(s) = n /\ ~Good(s)
    <3> HIDE DEF Good
    <3> QED OBVIOUS
  <2>3. PICK k \in s : f[s] # x[k] + f[s \ {k}]
    BY <2>2
  <2> DEFINE e == Pick(s)
  <2>4. /\ n \in Nat /\ n - 1 \in Nat /\ e \in s /\ ~(n <= n - 1)
        /\ s \ {e} \in SUBSET S /\ Cardinality(s \ {e}) = n - 1
    <3>1. /\ e \in s /\ s \ {e} \in SUBSET S /\ Cardinality(s) \in Nat
          /\ Cardinality(s \ {e}) = Cardinality(s) - 1 /\ Cardinality(s \ {e}) \in Nat
      BY <2>3, SmallerSubset
    <3> HIDE DEF e, Bad, Good
    <3> QED BY <2>2, <3>1
  <2>5. f[s] = x[e] + f[s \ {e}] /\ k # e
    BY <1>1, <2>3, <2>4
  <2>6. s \ {k} \in SUBSET S /\ Cardinality(s \ {k}) = n - 1
    <3>1. IsFiniteSet(s)
      BY FS_Subset
    <3> QED BY <2>2, <3>1, FS_RemoveElement
  <2>7. n - 1 \notin Bad
    <3> HIDE DEF Bad
    <3> QED BY <2>1, <2>4
  <2>8. Good(s \ {e}) /\ Good(s \ {k})
    <3> HIDE DEF Good, e
    <3> QED BY <2>4, <2>6, <2>7
  <2>9. f[s \ {e}] = x[k] + f[(s \ {e}) \ {k}] /\ f[s \ {k}] = x[e] + f[(s \ {k}) \ {e}]
    BY <2>4, <2>5, <2>8
  <2>10. (s \ {e}) \ {k} = (s \ {k}) \ {e}
    OBVIOUS
  <2>11. x[e] \in Nat /\ x[k] \in Nat /\ f[(s \ {k}) \ {e}] \in Nat
    BY <1>1, <2>4
  <2>12. \A p, q, r \in Nat : p + (q + r) = q + (p + r)
    OBVIOUS
  <2> DEFINE rest == f[(s \ {k}) \ {e}]
  <2>13. f[s] = x[e] + (x[k] + rest) /\ x[k] + f[s \ {k}] = x[k] + (x[e] + rest)
    BY <2>5, <2>9, <2>10
  <2>14. x[e] + (x[k] + rest) = x[k] + (x[e] + rest)
    BY <2>11, <2>12
  <2> QED BY <2>3, <2>13, <2>14
<1>3. ASSUME NEW s \in SUBSET S PROVE Good(s)
  <2>1. Cardinality(s) \in Nat
    BY FS_Subset, FS_CardinalityType
  <2> HIDE DEF Good
  <2> QED BY <1>2, <2>1
<1> QED BY <1>3

\* Functions that agree on a set have the same sum over it.
LEMMA SameFold ==
    ASSUME NEW S, IsFiniteSet(S), NEW x \in [S -> Nat], NEW f, Summing(x, S, f),
           NEW T \in SUBSET S, NEW y \in [T -> Nat], NEW g, Summing(y, T, g),
           \A i \in T : x[i] = y[i]
    PROVE  f[T] = g[T]
<1>0. IsFiniteSet(T)
  BY FS_Subset
<1>1. /\ f[{}] = 0
      /\ \A s \in SUBSET S : s # {} => f[s] = x[Pick(s)] + f[s \ {Pick(s)}]
      /\ \A s \in SUBSET S : f[s] \in Nat
  BY FoldValues
<1>2. /\ g[{}] = 0
      /\ \A s \in SUBSET T : s # {} => g[s] = y[Pick(s)] + g[s \ {Pick(s)}]
      /\ \A s \in SUBSET T : g[s] \in Nat
  BY <1>0, FoldValues
<1> DEFINE Bad == {n \in Nat : \E s \in SUBSET T : Cardinality(s) = n /\ f[s] # g[s]}
<1>3. Bad = {}
  <2> SUFFICES ASSUME Bad # {} PROVE FALSE
    OBVIOUS
  <2>0. Bad \subseteq Nat
    OBVIOUS
  <2>1. PICK n \in Bad : \A m \in Bad : n <= m
    <3> HIDE DEF Bad
    <3> QED BY <2>0, LeastNat
  <2>2. PICK s \in SUBSET T : Cardinality(s) = n /\ f[s] # g[s]
    OBVIOUS
  <2>3. s # {}
    BY <1>1, <1>2, <2>2
  <2> DEFINE e == Pick(s)
             r == s \ {e}
  <2>4. /\ n \in Nat /\ n - 1 \in Nat /\ r \in SUBSET T /\ e \in s
        /\ Cardinality(r) = n - 1 /\ ~(n <= n - 1)
    <3>1. /\ e \in s /\ r \in SUBSET T /\ Cardinality(s) \in Nat
          /\ Cardinality(r) = Cardinality(s) - 1 /\ Cardinality(r) \in Nat
      BY <1>0, <2>3, SmallerSubset
    <3> HIDE DEF e, r
    <3> QED BY <2>2, <3>1
  <2>5. n - 1 \notin Bad
    <3> HIDE DEF Bad
    <3> QED BY <2>1, <2>4
  <2>6. f[r] = g[r]
    <3> HIDE DEF r
    <3> QED BY <2>4, <2>5
  <2>7. f[s] = x[e] + f[r] /\ g[s] = y[e] + g[r] /\ x[e] = y[e]
    BY <1>1, <1>2, <2>3, <2>4
  <2> QED BY <2>2, <2>6, <2>7
<1>4. Cardinality(T) \in Nat /\ T \in SUBSET T
  BY <1>0, FS_CardinalityType
<1> QED BY <1>3, <1>4

\* A new summand.
LEMMA SumExtend ==
    ASSUME NEW T, IsFiniteSet(T), NEW k, k \notin T, NEW x \in [T \cup {k} -> Nat],
           NEW y \in [T -> Nat], \A i \in T : x[i] = y[i]
    PROVE  SumFunction(x) = SumFunction(y) + x[k]
<1> DEFINE S == T \cup {k}
<1>1. IsFiniteSet(S)
  BY FS_AddElement
<1>2. S \ {k} = T /\ T \in SUBSET S /\ k \in S /\ S \in SUBSET S /\ x \in [S -> Nat]
  OBVIOUS
<1> HIDE DEF S
<1>3. PICK f : Summing(x, S, f) /\ SumFunction(x) = f[S]
  BY <1>1, <1>2, SumIsFold
<1>4. PICK g : Summing(y, T, g) /\ SumFunction(y) = g[T]
  BY SumIsFold
<1>5. f[S] = x[k] + f[T]
  <2>1. IsFiniteSet(S) /\ x \in [S -> Nat] /\ Summing(x, S, f) /\ S \in SUBSET S /\ k \in S
    BY <1>1, <1>2, <1>3
  <2>2. f[S] = x[k] + f[S \ {k}]
    BY <2>1, AnyElement
  <2> QED BY <1>2, <2>2
<1>6. f[T] = g[T]
  BY <1>1, <1>2, <1>3, <1>4, SameFold
<1>7. g[T] \in Nat /\ x[k] \in Nat
  <2>1. \A s \in SUBSET T : g[s] \in Nat
    BY <1>4, FoldValues
  <2> QED BY <1>2, <2>1
<1> QED BY <1>3, <1>4, <1>5, <1>6, <1>7

=============================================================================
