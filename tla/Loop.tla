-------------------------------- MODULE Loop --------------------------------
(***************************************************************************)
(* A loop of the code: Body is one pass over its local variables, with the  *)
(* values it only reads as a context.  A pass leaves a loop that has ended  *)
(* alone, so any number of passes that is large enough gives its result.    *)
(***************************************************************************)
EXTENDS Integers, WellFoundedInduction

CONSTANT Body(_, _)

After(context, start, passes) ==
    LET run[n \in Nat] == IF n = 0 THEN start ELSE Body(context, run[n - 1])
    IN  run[passes]

----------------------------------------------------------------------------
(* Facts about loops                                                        *)

\* What holds of 0 and goes from n to n + 1 holds of all natural numbers.
LEMMA SetInduction ==
    ASSUME NEW S, 0 \in S, \A n \in Nat : n \in S => n + 1 \in S
    PROVE  \A n \in Nat : n \in S
<1> DEFINE R == {ss \in Nat \X Nat : ss[1] < ss[2]}
           T == Nat \ S
<1>1. IsWellFoundedOn(R, Nat)
  <2>1. R = OpToRel(<, Nat)
    BY DEF OpToRel
  <2> QED BY <2>1, NatLessThanWellFounded
<1> SUFFICES ASSUME T # {} PROVE FALSE
  OBVIOUS
<1>2. T \subseteq Nat
  OBVIOUS
<1> HIDE DEF R, T
<1>3. PICK x \in T : \A y \in T : ~(<<y, x>> \in R)
  BY <1>1, <1>2, WFMin
<1>4. x \in Nat /\ x # 0
  BY <1>2 DEF T
<1>5. x - 1 \in Nat /\ <<x - 1, x>> \in R
  BY <1>4 DEF R
<1>6. x - 1 \notin T
  BY <1>3, <1>5
<1> QED BY <1>4, <1>5, <1>6 DEF T

\* What holds of n if it holds of all smaller numbers holds of all numbers.
LEMMA StrongInduction ==
    ASSUME NEW S, \A n \in Nat : (\A m \in 0 .. (n - 1) : m \in S) => n \in S
    PROVE  \A n \in Nat : n \in S
<1> DEFINE T == {n \in Nat : \A m \in 0 .. n : m \in S}
<1>1. 0 \in T
  OBVIOUS
<1>2. ASSUME NEW n \in Nat, n \in T PROVE n + 1 \in T
  <2>1. n + 1 \in Nat /\ \A m \in 0 .. ((n + 1) - 1) : m \in S
    BY <1>2
  <2>2. n + 1 \in S
    BY <2>1
  <2> QED BY <1>2, <2>1, <2>2
<1>3. \A n \in T : n \in S
  OBVIOUS
<1> HIDE DEF T
<1>4. \A n \in Nat : n \in T
  BY <1>1, <1>2, SetInduction
<1> QED BY <1>3, <1>4

\* The states of a loop, pass by pass.
Runs(context, start, run, last) ==
    run = [n \in 0 .. last |-> IF n = 0 THEN start ELSE Body(context, run[n - 1])]

\* A loop has a run of every length,
LEMMA RunsExist ==
    ASSUME NEW context, NEW start
    PROVE  \A last \in Nat : \E run : Runs(context, start, run, last)
<1> DEFINE S == {last \in Nat : \E run : Runs(context, start, run, last)}
<1>1. 0 \in S
  <2> DEFINE one == [n \in 0 .. 0 |-> start]
  <2>1. one = [n \in 0 .. 0 |-> IF n = 0 THEN start ELSE Body(context, one[n - 1])]
    OBVIOUS
  <2> HIDE DEF one
  <2> QED BY <2>1 DEF Runs
<1>2. ASSUME NEW k \in Nat, k \in S PROVE k + 1 \in S
  <2>1. PICK run : Runs(context, start, run, k)
    BY <1>2
  <2> DEFINE longer == [n \in 0 .. (k + 1) |->
                           IF n = 0 THEN start ELSE Body(context, run[n - 1])]
  <2>2. \A n \in 0 .. k : longer[n] = run[n]
    <3> TAKE n \in 0 .. k
    <3>1. longer[n] = IF n = 0 THEN start ELSE Body(context, run[n - 1])
      OBVIOUS
    <3> QED BY <2>1, <3>1 DEF Runs
  <2>3. \A n \in 0 .. (k + 1) : n # 0 => n - 1 \in 0 .. k
    OBVIOUS
  <2>4. longer = [n \in 0 .. (k + 1) |->
                     IF n = 0 THEN start ELSE Body(context, longer[n - 1])]
    BY <2>2, <2>3
  <2> HIDE DEF longer
  <2>5. Runs(context, start, longer, k + 1)
    BY <2>4 DEF Runs
  <2> QED BY <2>5
<1> HIDE DEF S
<1>3. \A n \in Nat : n \in S
  BY <1>1, <1>2, SetInduction
<1> QED BY <1>3 DEF S

\* and only one.
LEMMA RunsUnique ==
    ASSUME NEW context, NEW start, NEW f, NEW g, NEW j \in Nat, NEW k \in Nat,
           Runs(context, start, f, j), Runs(context, start, g, k)
    PROVE  \A n \in Nat : n <= j /\ n <= k => f[n] = g[n]
<1> DEFINE S == {n \in Nat : n <= j /\ n <= k => f[n] = g[n]}
<1>0. \A n \in 0 .. j : f[n] = IF n = 0 THEN start ELSE Body(context, f[n - 1])
  BY DEF Runs
<1>0a. \A n \in 0 .. k : g[n] = IF n = 0 THEN start ELSE Body(context, g[n - 1])
  BY DEF Runs
<1>1. 0 \in S
  BY <1>0, <1>0a
<1>2. ASSUME NEW n \in Nat, n \in S PROVE n + 1 \in S
  <2>1. CASE n + 1 <= j /\ n + 1 <= k
    <3>1. f[n] = g[n]
      BY <1>2, <2>1
    <3>2. f[n + 1] = Body(context, f[n]) /\ g[n + 1] = Body(context, g[n])
      BY <1>0, <1>0a, <2>1
    <3> QED BY <3>1, <3>2
  <2> QED BY <2>1
<1> HIDE DEF S
<1>3. \A n \in Nat : n \in S
  BY <1>1, <1>2, SetInduction
<1> QED BY <1>3 DEF S

\* The recursive definition of After has a solution, which therefore is it.
LEMMA AfterDef ==
    ASSUME NEW context, NEW start
    PROVE  /\ After(context, start, 0) = start
           /\ \A n \in Nat : After(context, start, n + 1)
                             = Body(context, After(context, start, n))
<1> DEFINE at(n) == CHOOSE run : Runs(context, start, run, n)
           all == [n \in Nat |-> at(n)[n]]
<1>1. \A n \in Nat : Runs(context, start, at(n), n)
  BY RunsExist
<1>2. \A n \in Nat : all[n] = IF n = 0 THEN start ELSE Body(context, all[n - 1])
  <2> TAKE n \in Nat
  <2>1. all[n] = at(n)[n]
    OBVIOUS
  <2>2. at(n)[n] = IF n = 0 THEN start ELSE Body(context, at(n)[n - 1])
    <3> HIDE DEF at, all
    <3>1. n \in 0 .. n
      OBVIOUS
    <3> QED BY <1>1, <3>1 DEF Runs
  <2>3. CASE n = 0
    BY <2>1, <2>2, <2>3
  <2>4. CASE n # 0
    <3>1. n - 1 \in Nat /\ n - 1 <= n
      BY <2>4
    <3>2. Runs(context, start, at(n), n) /\ Runs(context, start, at(n - 1), n - 1)
      BY <1>1, <3>1
    <3>3. at(n)[n - 1] = at(n - 1)[n - 1]
      <4> HIDE DEF at, all
      <4> QED BY <3>1, <3>2, RunsUnique
    <3>4. all[n - 1] = at(n - 1)[n - 1]
      BY <3>1
    <3> QED BY <2>1, <2>2, <2>4, <3>3, <3>4
  <2> QED BY <2>3, <2>4
<1>3. all = [n \in Nat |-> IF n = 0 THEN start ELSE Body(context, all[n - 1])]
  <2>1. all = [n \in Nat |-> all[n]]
    OBVIOUS
  <2> HIDE DEF all
  <2> QED BY <1>2, <2>1
<1> HIDE DEF all
<1> DEFINE rec == CHOOSE run : run = [n \in Nat |-> IF n = 0 THEN start ELSE Body(context, run[n - 1])]
<1>4. rec = [n \in Nat |-> IF n = 0 THEN start ELSE Body(context, rec[n - 1])]
  BY <1>3
<1>5. \A n : After(context, start, n) = rec[n]
  BY DEF After
<1> HIDE DEF rec
<1>6. rec[0] = start
  BY <1>4
<1>7. \A n \in Nat : rec[n + 1] = Body(context, rec[n])
  BY <1>4
<1> QED BY <1>5, <1>6, <1>7

\* The first pass of a loop may be taken off, too.
LEMMA AfterFirst ==
    ASSUME NEW context, NEW start
    PROVE  \A n \in Nat : After(context, start, n + 1)
                          = After(context, Body(context, start), n)
<1> DEFINE S == {n \in Nat : After(context, start, n + 1)
                             = After(context, Body(context, start), n)}
<1>1. 0 \in S
  <2>1. After(context, start, 0 + 1) = Body(context, After(context, start, 0))
    BY AfterDef
  <2> QED BY <2>1, AfterDef
<1>2. ASSUME NEW n \in Nat, n \in S PROVE n + 1 \in S
  <2>1. After(context, start, (n + 1) + 1) = Body(context, After(context, start, n + 1))
    BY AfterDef
  <2>2. After(context, Body(context, start), n + 1)
        = Body(context, After(context, Body(context, start), n))
    BY AfterDef
  <2>3. n + 1 \in Nat
    OBVIOUS
  <2> QED BY <1>2, <2>1, <2>2, <2>3
<1> HIDE DEF S
<1>3. \A n \in Nat : n \in S
  BY <1>1, <1>2, SetInduction
<1> QED BY <1>3 DEF S

\* A pass that changes nothing ends the loop.
LEMMA AfterFixed ==
    ASSUME NEW context, NEW start, NEW m \in Nat,
           Body(context, After(context, start, m)) = After(context, start, m)
    PROVE  \A n \in Nat : n >= m => After(context, start, n) = After(context, start, m)
<1> DEFINE S == {n \in Nat : n >= m => After(context, start, n) = After(context, start, m)}
<1>1. 0 \in S
  OBVIOUS
<1>2. ASSUME NEW n \in Nat, n \in S PROVE n + 1 \in S
  <2>1. CASE n >= m
    <3>1. After(context, start, n) = After(context, start, m)
      BY <1>2, <2>1
    <3>2. After(context, start, n + 1) = Body(context, After(context, start, n))
      BY AfterDef
    <3> QED BY <3>1, <3>2
  <2>2. CASE n + 1 = m
    BY <2>2
  <2>3. CASE n + 1 < m
    BY <2>3
  <2> QED BY <2>1, <2>2, <2>3
<1> HIDE DEF S
<1>3. \A n \in Nat : n \in S
  BY <1>1, <1>2, SetInduction
<1> QED BY <1>3 DEF S

=============================================================================
