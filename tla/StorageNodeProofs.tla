------------------------- MODULE StorageNodeProofs -------------------------
(***************************************************************************)
(* What the provider's data path guarantees, for every set of clients,     *)
(* buckets and files and for trees and MMRs of any size.                   *)
(*                                                                         *)
(* The first part is about Merkle trees and Merkle mountain ranges: a      *)
(* proof made for a leaf verifies, and what verifies at an index is the    *)
(* leaf there.  The second part is about the node: its loops over stored   *)
(* trees find what a commit found, the invariant DataInv holds in every    *)
(* reachable state, and the node's properties follow from it.              *)
(***************************************************************************)
EXTENDS StorageNode, Sums

----------------------------------------------------------------------------
(* Sequences, over whatever elements                                        *)

\* The operators on sequences, for the steps that take nothing from their
\* theory but the lemmas below.
Size(s) == Len(s)

Nil == <<>>

One(x) == <<x>>

Cat(s, t) == s \o t

First(s) == Head(s)

Rest(s) == Tail(s)

Empty(s) == s = Nil

IsSeq(s) == Size(s) \in Nat /\ s = [i \in 1..Size(s) |-> s[i]]

Elements(s) == {s[i] : i \in 1..Size(s)}

\* A sequence in this sense is one in the sense of the standard module.
LEMMA SeqInSeq ==
    ASSUME NEW s, IsSeq(s)
    PROVE  s \in Seq(Elements(s))
BY DEF Size, IsSeq, Elements

\* And the other way round.
LEMMA InSeqIsSeq ==
    ASSUME NEW S, NEW s \in Seq(S)
    PROVE  IsSeq(s)
BY DEF Size, IsSeq

\* A function on 1..n is a sequence of length n.
LEMMA FunctionSeq ==
    ASSUME NEW n \in Nat, NEW s, s = [i \in 1..n |-> s[i]]
    PROVE  IsSeq(s) /\ Size(s) = n
BY DEF Size, IsSeq

\* A sequence has a length.
LEMMA SeqLen ==
    ASSUME NEW s, IsSeq(s)
    PROVE  Size(s) \in Nat
BY DEF IsSeq

\* Sequences of one length with the same elements are equal.
LEMMA SameSeq ==
    ASSUME NEW s, NEW t, IsSeq(s), IsSeq(t), Size(s) = Size(t),
           \A i \in 1..Size(s) : s[i] = t[i]
    PROVE  s = t
<1>1. s = [i \in 1..Size(s) |-> s[i]] /\ t = [i \in 1..Size(s) |-> t[i]]
  BY DEF IsSeq
<1>2. [i \in 1..Size(s) |-> s[i]] = [i \in 1..Size(s) |-> t[i]]
  OBVIOUS
<1> QED BY <1>1, <1>2

\* The empty sequence is the one of length 0.
LEMMA NilSeq ==
    /\ IsSeq(Nil) /\ Size(Nil) = 0 /\ Empty(Nil)
    /\ \A s : Empty(s) => s = Nil
    /\ \A s : IsSeq(s) => (Empty(s) <=> Size(s) = 0)
<1>1. IsSeq(Nil) /\ Size(Nil) = 0
  BY DEF Size, IsSeq, Nil
<1>2. ASSUME NEW s, IsSeq(s), Size(s) = 0 PROVE s = Nil
  BY <1>1, <1>2, SameSeq
<1> QED BY <1>1, <1>2 DEF Empty

\* A sequence of one element.
LEMMA OneSeq == \A x : IsSeq(One(x)) /\ Size(One(x)) = 1 /\ One(x)[1] = x
BY DEF Size, IsSeq, One

\* The length and the elements of a concatenation.
LEMMA CatSeq ==
    ASSUME NEW s, NEW t, IsSeq(s), IsSeq(t)
    PROVE  /\ IsSeq(Cat(s, t))
           /\ Size(Cat(s, t)) = Size(s) + Size(t)
           /\ \A i \in 1..Size(s) : Cat(s, t)[i] = s[i]
           /\ \A i \in 1..Size(t) : Cat(s, t)[Size(s) + i] = t[i]
<1> DEFINE S == Elements(s) \cup Elements(t)
<1>1. s \in Seq(S) /\ t \in Seq(S)
  BY DEF Size, IsSeq, Elements
<1> HIDE DEF S
<1>2. s \o t \in Seq(S)
  BY <1>1
<1>3. IsSeq(s \o t)
  BY <1>2, InSeqIsSeq
<1> QED BY <1>1, <1>3 DEF Size, Cat

\* Append is a concatenation with one element.
LEMMA AppendIsCat ==
    ASSUME NEW s, NEW x, IsSeq(s)
    PROVE  Append(s, x) = Cat(s, One(x))
BY SeqInSeq DEF Cat, One

\* The length and the elements of what follows the first element.
LEMMA RestSeq ==
    ASSUME NEW s, IsSeq(s), ~Empty(s)
    PROVE  /\ IsSeq(Rest(s))
           /\ Size(Rest(s)) = Size(s) - 1
           /\ \A i \in 1..(Size(s) - 1) : Rest(s)[i] = s[i + 1]
           /\ First(s) = s[1]
<1> DEFINE S == Elements(s)
<1>1. s \in Seq(S) /\ s # <<>>
  BY SeqInSeq DEF Empty, Nil
<1> HIDE DEF S
<1>2. Tail(s) \in Seq(S)
  BY <1>1
<1>3. IsSeq(Tail(s))
  BY <1>2, InSeqIsSeq
<1> QED BY <1>1, <1>3 DEF Size, Rest, First

\* The length and the elements of a stretch of a sequence.
LEMMA SubSeqSeq ==
    ASSUME NEW s, IsSeq(s), NEW m \in Nat, NEW n \in Nat, 1 <= m, m <= n + 1, n <= Size(s)
    PROVE  /\ IsSeq(SubSeq(s, m, n))
           /\ Size(SubSeq(s, m, n)) = n - m + 1
           /\ \A i \in 1..(n - m + 1) : SubSeq(s, m, n)[i] = s[m + i - 1]
<1>1. IsSeq(SubSeq(s, m, n))
  BY SMTT(30) DEF Size, IsSeq
<1>2. Size(SubSeq(s, m, n)) = n - m + 1
  BY DEF Size, IsSeq
<1>3. \A i \in 1..(n - m + 1) : SubSeq(s, m, n)[i] = s[m + i - 1]
  BY DEF Size, IsSeq
<1> QED BY <1>1, <1>2, <1>3

\* Elements of a concatenation, by index.
LEMMA CatAt ==
    ASSUME NEW s, NEW t, IsSeq(s), IsSeq(t), NEW i \in Nat,
           1 <= i, i <= Size(s) + Size(t)
    PROVE  Cat(s, t)[i] = IF i <= Size(s) THEN s[i] ELSE t[i - Size(s)]
<1>0. Size(s) \in Nat /\ Size(t) \in Nat
  BY SeqLen
<1>1. CASE i <= Size(s)
  <2>1. i \in 1..Size(s)
    BY <1>0, <1>1
  <2> QED BY <1>1, <2>1, CatSeq
<1>2. CASE i > Size(s)
  <2> DEFINE j == i - Size(s)
  <2>1. j \in 1..Size(t) /\ Size(s) + j = i /\ ~(i <= Size(s))
    BY <1>0, <1>2
  <2> HIDE DEF j
  <2>2. Cat(s, t)[Size(s) + j] = t[j]
    BY <2>1, CatSeq
  <2> QED BY <2>1, <2>2 DEF j
<1>3. i <= Size(s) \/ i > Size(s)
  BY <1>0
<1> QED BY <1>1, <1>2, <1>3

\* Concatenation is associative.
LEMMA CatAssoc ==
    ASSUME NEW s, NEW t, NEW u, IsSeq(s), IsSeq(t), IsSeq(u)
    PROVE  Cat(Cat(s, t), u) = Cat(s, Cat(t, u))
<1> DEFINE S == Elements(s) \cup Elements(t) \cup Elements(u)
<1>1. s \in Seq(S) /\ t \in Seq(S) /\ u \in Seq(S)
  BY SMTT(30) DEF Size, IsSeq, Elements
<1> HIDE DEF S
<1> QED BY <1>1 DEF Cat

\* The empty sequence is its unit.
LEMMA CatNil ==
    ASSUME NEW s, IsSeq(s)
    PROVE  Cat(s, Nil) = s /\ Cat(Nil, s) = s
BY SeqInSeq DEF Cat, Nil

\* An element put before a sequence is its first; the sequence is the rest.
LEMMA ConsSeq ==
    ASSUME NEW x, NEW t, IsSeq(t)
    PROVE  /\ IsSeq(Cat(One(x), t)) /\ Size(Cat(One(x), t)) = 1 + Size(t)
           /\ ~Empty(Cat(One(x), t)) /\ First(Cat(One(x), t)) = x /\ Rest(Cat(One(x), t)) = t
<1> DEFINE st == Cat(One(x), t)
<1>1. IsSeq(One(x)) /\ Size(One(x)) = 1 /\ One(x)[1] = x /\ Size(t) \in Nat
  BY OneSeq, SeqLen
<1>2. /\ IsSeq(st) /\ Size(st) = 1 + Size(t) /\ st[1] = x
      /\ \A i \in 1..Size(t) : st[1 + i] = t[i]
  <2>1. 1 \in 1..Size(One(x))
    BY <1>1
  <2>2. st[1] = One(x)[1]
    BY <1>1, <2>1, CatSeq
  <2>3. IsSeq(st) /\ Size(st) = 1 + Size(t) /\ \A i \in 1..Size(t) : st[1 + i] = t[i]
    BY <1>1, CatSeq
  <2> QED BY <1>1, <2>2, <2>3
<1> HIDE DEF st
<1>3. Size(st) # 0
  BY <1>1, <1>2
<1>4. ~Empty(st)
  BY <1>2, <1>3, NilSeq
<1>5. IsSeq(Rest(st)) /\ Size(Rest(st)) = Size(t) /\ First(st) = x
  BY <1>1, <1>2, <1>4, RestSeq
<1>6. \A i \in 1..Size(t) : Rest(st)[i] = t[i]
  <2> SUFFICES ASSUME NEW i \in 1..Size(t) PROVE Rest(st)[i] = t[i]
    OBVIOUS
  <2>1. i \in 1..(Size(st) - 1) /\ i + 1 = 1 + i
    BY <1>1, <1>2
  <2>2. Rest(st)[i] = st[i + 1]
    BY <1>2, <1>4, <2>1, RestSeq
  <2> QED BY <1>2, <2>1, <2>2
<1>7. Rest(st) = t
  BY <1>5, <1>6, SameSeq
<1>8. IsSeq(st) /\ Size(st) = 1 + Size(t) /\ ~Empty(st) /\ First(st) = x /\ Rest(st) = t
  BY <1>2, <1>4, <1>5, <1>7
<1> QED BY <1>8 DEF st

\* Any sequence but the empty one has a first element.
LEMMA ConsForm ==
    ASSUME NEW s, IsSeq(s), ~Empty(s)
    PROVE  IsSeq(Rest(s)) /\ s = Cat(One(First(s)), Rest(s)) /\ Size(s) = 1 + Size(Rest(s))
<1>1. Size(s) \in Nat /\ Size(Rest(s)) = Size(s) - 1 /\ IsSeq(Rest(s))
  BY RestSeq, SeqLen
<1>2. s = Cat(One(First(s)), Rest(s))
  BY SeqInSeq DEF Empty, Nil, Cat, One, First, Rest
<1> QED BY <1>1, <1>2

\* A sequence is its first k elements and the rest.
Take(s, k) == SubSeq(s, 1, k)

Drop(s, k) == SubSeq(s, k + 1, Len(s))

\* The first k elements.
LEMMA TakeSeq ==
    ASSUME NEW s, IsSeq(s), NEW k \in Nat, k <= Size(s)
    PROVE  IsSeq(Take(s, k)) /\ Size(Take(s, k)) = k /\ \A i \in 1..k : Take(s, k)[i] = s[i]
<1>1. \A i \in 1..k : 1 + i - 1 = i
  OBVIOUS
<1>2. Size(s) \in Nat
  BY SeqLen
<1> QED BY <1>1, <1>2, SubSeqSeq DEF Take

\* All but the first k elements.
LEMMA DropSeq ==
    ASSUME NEW s, IsSeq(s), NEW k \in Nat, k <= Size(s)
    PROVE  /\ IsSeq(Drop(s, k)) /\ Size(Drop(s, k)) = Size(s) - k
           /\ \A i \in 1..(Size(s) - k) : Drop(s, k)[i] = s[k + i]
<1>1. Size(s) \in Nat
  BY SeqLen
<1>2. \A i \in 1..(Size(s) - k) : (k + 1) + i - 1 = k + i
  BY <1>1
<1>3. Drop(s, k) = SubSeq(s, k + 1, Size(s))
  BY DEF Drop, Size
<1>4. 1 <= k + 1 /\ k + 1 <= Size(s) + 1 /\ Size(s) <= Size(s) /\ k + 1 \in Nat
      /\ Size(s) - (k + 1) + 1 = Size(s) - k
  BY <1>1
<1> QED BY <1>1, <1>2, <1>3, <1>4, SubSeqSeq

\* A sequence is its first k elements followed by the others.
LEMMA SplitSeq ==
    ASSUME NEW s, IsSeq(s), NEW k \in Nat, k <= Size(s)
    PROVE  s = Cat(Take(s, k), Drop(s, k))
<1> DEFINE a == Take(s, k)
           b == Drop(s, k)
<1>0. Size(s) \in Nat
  BY SeqLen
<1>1. IsSeq(a) /\ Size(a) = k /\ \A i \in 1..k : a[i] = s[i]
  BY TakeSeq
<1>2. IsSeq(b) /\ Size(b) = Size(s) - k /\ \A i \in 1..(Size(s) - k) : b[i] = s[k + i]
  BY DropSeq
<1> HIDE DEF a, b
<1>3. IsSeq(Cat(a, b)) /\ Size(Cat(a, b)) = Size(s)
  BY <1>0, <1>1, <1>2, CatSeq
<1>4. ASSUME NEW i \in 1..Size(s) PROVE Cat(a, b)[i] = s[i]
  <2>0. i \in Nat /\ 1 <= i /\ i <= Size(a) + Size(b)
    BY <1>0, <1>1, <1>2
  <2>1. Cat(a, b)[i] = IF i <= k THEN a[i] ELSE b[i - k]
    BY <1>1, <1>2, <2>0, CatAt
  <2>2. CASE i <= k
    BY <1>0, <1>1, <2>1, <2>2
  <2>3. CASE i > k
    <3>1. i - k \in 1..(Size(s) - k) /\ k + (i - k) = i
      BY <1>0, <2>3
    <3> QED BY <1>0, <1>2, <2>1, <2>3, <3>1
  <2>4. i <= k \/ i > k
    BY <1>0, <2>0
  <2> QED BY <2>2, <2>3, <2>4
<1>5. s = Cat(a, b)
  <2>1. \A i \in 1..Size(Cat(a, b)) : Cat(a, b)[i] = s[i]
    BY <1>3, <1>4
  <2> QED BY <1>3, <2>1, SameSeq
<1> QED BY <1>5 DEF a, b

----------------------------------------------------------------------------
(* Powers of two                                                            *)

\* Induction on the numbers, on a set of them.
LEMMA Induction ==
    ASSUME NEW S, 0 \in S, \A n \in Nat : n \in S => n + 1 \in S
    PROVE  \A n \in Nat : n \in S
BY Levels!SetInduction

\* Induction from all smaller numbers.
LEMMA CourseOfValues ==
    ASSUME NEW S, \A n \in Nat : (\A m \in 0..(n - 1) : m \in S) => n \in S
    PROVE  \A n \in Nat : n \in S
BY Levels!StrongInduction

\* 1 << k by its recurrence.
LEMMA ShiftDef ==
    /\ Shift(0) = 1
    /\ \A k \in Nat : Shift(k + 1) = 2 * Shift(k)
BY Doubling!AfterDef DEF Shift, Double

\* It is a positive number,
LEMMA ShiftType == \A k \in Nat : Shift(k) \in Nat /\ Shift(k) >= 1
<1> DEFINE S == {k \in Nat : Shift(k) \in Nat /\ Shift(k) >= 1}
<1>1. 0 \in S
  BY ShiftDef
<1>2. \A k \in Nat : k \in S => k + 1 \in S
  BY ShiftDef
<1> HIDE DEF S
<1>3. \A k \in Nat : k \in S
  BY <1>1, <1>2, Induction
<1> QED BY <1>3 DEF S

\* that grows with k.
LEMMA ShiftMonotone == \A j, k \in Nat : j <= k => Shift(j) <= Shift(k)
<1> SUFFICES ASSUME NEW j \in Nat PROVE \A k \in Nat : j <= k => Shift(j) <= Shift(k)
  OBVIOUS
<1> DEFINE S == {k \in Nat : j <= k => Shift(j) <= Shift(k)}
<1>1. 0 \in S
  BY ShiftType
<1>2. ASSUME NEW k \in Nat, k \in S PROVE k + 1 \in S
  <2>1. Shift(j) \in Nat /\ Shift(k) \in Nat /\ Shift(k + 1) = 2 * Shift(k)
    BY ShiftDef, ShiftType
  <2>2. CASE j <= k
    BY <1>2, <2>1, <2>2
  <2>3. CASE j = k + 1
    BY <2>1, <2>3
  <2>4. CASE j > k + 1
    BY <2>4
  <2> QED BY <2>2, <2>3, <2>4
<1> HIDE DEF S
<1>3. \A k \in Nat : k \in S
  BY <1>1, <1>2, Induction
<1> QED BY <1>3 DEF S

BitLoop(n, bits, passes) == Bits!After(Nothing, [n |-> n, bits |-> bits], passes)

\* The loop counts on from the bits it starts with, and n passes are enough.
LEMMA BitLoopShape ==
    \A m \in Nat : \A n \in Nat : \A b \in Nat :
        /\ BitLoop(n, b, m).bits = b + BitLoop(n, 0, m).bits
        /\ BitLoop(n, 0, m).bits \in Nat
        /\ n <= m => /\ BitLoop(n, b, m).n < 2
                     /\ DropBit(Nothing, BitLoop(n, b, m)) = BitLoop(n, b, m)
<1> DEFINE P(m, n, b) ==
        /\ BitLoop(n, b, m).bits = b + BitLoop(n, 0, m).bits
        /\ BitLoop(n, 0, m).bits \in Nat
        /\ n <= m => /\ BitLoop(n, b, m).n < 2
                     /\ DropBit(Nothing, BitLoop(n, b, m)) = BitLoop(n, b, m)
           S == {m \in Nat : \A n \in Nat : \A b \in Nat : P(m, n, b)}
<1>1. 0 \in S
  <2> SUFFICES ASSUME NEW n \in Nat, NEW b \in Nat PROVE P(0, n, b)
    OBVIOUS
  <2>1. \A x : BitLoop(n, x, 0) = [n |-> n, bits |-> x]
    BY Bits!AfterDef DEF BitLoop
  <2> QED BY <2>1 DEF DropBit
<1>2. ASSUME NEW m \in Nat, m \in S PROVE m + 1 \in S
  <2> SUFFICES ASSUME NEW n \in Nat, NEW b \in Nat PROVE P(m + 1, n, b)
    OBVIOUS
  <2>1. \A x : BitLoop(n, x, m + 1) = Bits!After(Nothing, DropBit(Nothing, [n |-> n, bits |-> x]), m)
    BY Bits!AfterFirst DEF BitLoop
  <2>2. CASE n < 2
    <3>1. \A x : BitLoop(n, x, m + 1) = BitLoop(n, x, m)
      BY <2>1, <2>2 DEF BitLoop, DropBit
    <3>2. P(m, n, b)
      BY <1>2
    <3>3. n <= m + 1 => BitLoop(n, b, m).n < 2 /\ DropBit(Nothing, BitLoop(n, b, m)) = BitLoop(n, b, m)
      <4>1. CASE n <= m
        BY <3>2, <4>1
      <4>2. CASE ~(n <= m)
        <5>1. m = 0
          BY <2>2, <4>2
        <5>2. BitLoop(n, b, 0) = [n |-> n, bits |-> b]
          BY Bits!AfterDef DEF BitLoop
        <5> QED BY <2>2, <5>1, <5>2 DEF DropBit
      <4> QED BY <4>1, <4>2
    <3> QED BY <3>1, <3>2, <3>3
  <2>3. CASE n >= 2
    <3>1. \A x : BitLoop(n, x, m + 1) = BitLoop(n \div 2, x + 1, m)
      BY <2>1, <2>3 DEF BitLoop, DropBit
    <3>2. n \div 2 \in Nat /\ b + 1 \in Nat /\ (n <= m + 1 => n \div 2 <= m)
      BY <2>3
    <3>3. P(m, n \div 2, b + 1) /\ P(m, n \div 2, 0 + 1)
      BY <1>2, <3>2
    <3> HIDE DEF S
    <3> QED BY <3>1, <3>2, <3>3
  <2> QED BY <2>2, <2>3
<1> HIDE DEF S
<1>3. \A m \in Nat : m \in S
  BY <1>1, <1>2, Induction
<1> QED BY <1>3 DEF S

\* ilog2 by its recurrence.
LEMMA ilog2Def ==
    ASSUME NEW n \in Nat
    PROVE  /\ ilog2(n) \in Nat
           /\ n < 2 => ilog2(n) = 0
           /\ n >= 2 => ilog2(n) = ilog2(n \div 2) + 1
<1>1. ilog2(n) = BitLoop(n, 0, n).bits
  BY DEF ilog2, BitLoop
<1>2. CASE n = 0
  <2>1. BitLoop(n, 0, 0) = [n |-> n, bits |-> 0]
    BY Bits!AfterDef DEF BitLoop
  <2> QED BY <1>1, <1>2, <2>1
<1>3. CASE n # 0
  <2> DEFINE k == n - 1
  <2>0. k \in Nat /\ n = k + 1
    BY <1>3
  <2> HIDE DEF k
  <2>1. BitLoop(n, 0, k + 1) = Bits!After(Nothing, DropBit(Nothing, [n |-> n, bits |-> 0]), k)
    BY <2>0, Bits!AfterFirst DEF BitLoop
  <2>2. CASE n = 1
    <3>1. k = 0
      BY <2>0, <2>2
    <3>2. Bits!After(Nothing, [n |-> n, bits |-> 0], 0) = [n |-> n, bits |-> 0]
      BY Bits!AfterDef
    <3> QED BY <1>1, <2>0, <2>1, <2>2, <3>1, <3>2 DEF DropBit
  <2>3. CASE n >= 2
    <3> DEFINE h == n \div 2
    <3>1. h \in Nat /\ h <= k
      BY <2>0, <2>3
    <3>2. BitLoop(n, 0, k + 1) = BitLoop(h, 1, k)
      BY <2>1, <2>3 DEF DropBit, BitLoop
    <3> HIDE DEF h
    <3>3. BitLoop(h, 1, k).bits = 1 + BitLoop(h, 0, k).bits
      BY <2>0, <3>1, BitLoopShape
    <3>4. BitLoop(h, 0, k) = BitLoop(h, 0, h)
      <4>1. DropBit(Nothing, BitLoop(h, 0, h)) = BitLoop(h, 0, h)
        BY <3>1, BitLoopShape
      <4> QED BY <2>0, <3>1, <4>1, Bits!AfterFixed DEF BitLoop
    <3>5. ilog2(h) = BitLoop(h, 0, h).bits /\ BitLoop(h, 0, h).bits \in Nat
      BY <3>1, BitLoopShape DEF ilog2, BitLoop
    <3>6. ilog2(n) = ilog2(h) + 1 /\ ilog2(n) \in Nat
      BY <1>1, <2>0, <3>2, <3>3, <3>4, <3>5
    <3> QED BY <2>3, <3>6 DEF h
  <2> QED BY <1>3, <2>2, <2>3
<1> QED BY <1>2, <1>3

\* The largest power of two up to n by its recurrence.
LEMMA PowerBelowDef ==
    ASSUME NEW n \in Nat
    PROVE  /\ PowerBelow(n) \in Nat
           /\ n < 2 => PowerBelow(n) = 1
           /\ n >= 2 => PowerBelow(n) = 2 * PowerBelow(n \div 2)
<1>1. n \div 2 \in Nat
  OBVIOUS
<1>2. ilog2(n) \in Nat /\ ilog2(n \div 2) \in Nat
  BY <1>1, ilog2Def
<1> QED BY <1>1, <1>2, ilog2Def, ShiftDef, ShiftType DEF PowerBelow

\* The largest power of two that is at most n.
LEMMA PowerBelowBounds ==
    \A n \in Nat : n >= 1 => PowerBelow(n) <= n /\ n < 2 * PowerBelow(n) /\ PowerBelow(n) >= 1
<1> DEFINE S == {n \in Nat : n >= 1 => /\ PowerBelow(n) <= n /\ n < 2 * PowerBelow(n)
                                       /\ PowerBelow(n) >= 1}
<1>1. ASSUME NEW n \in Nat, \A m \in 0..(n - 1) : m \in S PROVE n \in S
  <2>1. CASE n < 2
    BY <2>1, PowerBelowDef
  <2>2. CASE n >= 2
    <3> DEFINE h == n \div 2
    <3>1. h \in 0..(n - 1) /\ h >= 1 /\ (n = 2 * h \/ n = 2 * h + 1)
      BY <2>2
    <3>2. PowerBelow(n) = 2 * PowerBelow(h) /\ PowerBelow(h) \in Nat
      BY <2>2, <3>1, PowerBelowDef
    <3>3. h \in S
      BY <1>1, <3>1
    <3> HIDE DEF h
    <3> QED BY <3>1, <3>2, <3>3
  <2> QED BY <2>1, <2>2
<1> HIDE DEF S
<1>2. \A n \in Nat : n \in S
  BY <1>1, CourseOfValues
<1> QED BY <1>2 DEF S

----------------------------------------------------------------------------
(* Levels and roots                                                         *)

Above(s) == LevelAbove(Nothing, s)

\* The next level has half the width, rounded up, and pairs neighbours.
LEMMA AboveSeq ==
    ASSUME NEW s, IsSeq(s)
    PROVE  /\ IsSeq(Above(s))
           /\ Size(Above(s)) = (Size(s) + 1) \div 2
           /\ \A k \in 1..((Size(s) + 1) \div 2) :
                 Above(s)[k] = IF 2 * k <= Size(s) THEN hash_children(s[2 * k - 1], s[2 * k])
                               ELSE s[2 * k - 1]
<1> DEFINE n == (Size(s) + 1) \div 2
           F(k) == IF 2 * k <= Size(s) THEN hash_children(s[2 * k - 1], s[2 * k])
                   ELSE s[2 * k - 1]
<1>1. n \in Nat
  BY SeqLen
<1>2. Above(s) = [k \in 1..n |-> F(k)]
  BY DEF Above, LevelAbove, Size
<1> HIDE DEF n, F
<1>3. Above(s) = [k \in 1..n |-> Above(s)[k]] /\ \A k \in 1..n : Above(s)[k] = F(k)
  BY <1>2
<1>4. IsSeq(Above(s)) /\ Size(Above(s)) = n
  BY <1>1, <1>3, FunctionSeq
<1> QED BY <1>3, <1>4 DEF n, F

\* A level of one node is the last.
LEMMA AboveOne ==
    ASSUME NEW s, IsSeq(s), Size(s) = 1
    PROVE  Above(s) = s
<1>1. (Size(s) + 1) \div 2 = 1
  OBVIOUS
<1>2. IsSeq(Above(s)) /\ Size(Above(s)) = 1 /\ Above(s)[1] = s[1]
  BY <1>1, AboveSeq
<1> QED BY <1>2, SameSeq

\* Level k + 1 is the level above level k, and level k of the level above.
LEMMA LevelSteps ==
    ASSUME NEW s
    PROVE  /\ level(s, 0) = s
           /\ \A k \in Nat : level(s, k + 1) = Above(level(s, k))
           /\ \A k \in Nat : level(s, k + 1) = level(Above(s), k)
<1>1. level(s, 0) = s /\ \A k \in Nat : level(s, k + 1) = Above(level(s, k))
  BY Levels!AfterDef DEF level, Above
<1>2. \A k \in Nat : level(s, k + 1) = level(Above(s), k)
  BY Levels!AfterFirst DEF level, Above
<1> QED BY <1>1, <1>2

\* Every level is a sequence.
LEMMA LevelSeq ==
    ASSUME NEW s, IsSeq(s)
    PROVE  \A k \in Nat : IsSeq(level(s, k))
<1> DEFINE S == {k \in Nat : IsSeq(level(s, k))}
<1>1. 0 \in S
  BY LevelSteps
<1>2. ASSUME NEW k \in Nat, k \in S PROVE k + 1 \in S
  <2>1. level(s, k + 1) = Above(level(s, k)) /\ IsSeq(level(s, k))
    BY <1>2, LevelSteps
  <2> QED BY <2>1, AboveSeq
<1> HIDE DEF S
<1>3. \A k \in Nat : k \in S
  BY <1>1, <1>2, Induction
<1> QED BY <1>3 DEF S

\* There is one node left after as many passes as there were nodes.
LEMMA LevelsEnd ==
    \A n \in Nat : \A s : IsSeq(s) /\ Size(s) >= 1 /\ Size(s) <= n => Size(level(s, n)) = 1
<1> DEFINE S == {n \in Nat : \A s : IsSeq(s) /\ Size(s) >= 1 /\ Size(s) <= n
                                    => Size(level(s, n)) = 1}
<1>1. 0 \in S
  <2> SUFFICES ASSUME NEW s, IsSeq(s), Size(s) >= 1, Size(s) <= 0 PROVE FALSE
    OBVIOUS
  <2> QED BY SeqLen
<1>2. ASSUME NEW n \in Nat, n \in S PROVE n + 1 \in S
  <2> SUFFICES ASSUME NEW s, IsSeq(s), Size(s) >= 1, Size(s) <= n + 1
               PROVE  Size(level(s, n + 1)) = 1
    OBVIOUS
  <2>0. Size(s) \in Nat
    BY SeqLen
  <2>1. level(s, n + 1) = level(Above(s), n)
    BY LevelSteps
  <2>2. IsSeq(Above(s)) /\ Size(Above(s)) = (Size(s) + 1) \div 2
    BY AboveSeq
  <2>3. CASE Size(s) > 1
    <3>1. Size(Above(s)) >= 1 /\ Size(Above(s)) <= n
      BY <2>0, <2>2, <2>3
    <3> QED BY <1>2, <2>1, <2>2, <3>1
  <2>4. CASE Size(s) = 1
    <3>1. Above(s) = s
      BY <2>4, AboveOne
    <3>2. CASE n = 0
      BY <2>1, <2>4, <3>1, <3>2, LevelSteps
    <3>3. CASE n # 0
      <4>1. Size(s) <= n
        BY <2>4, <3>3
      <4> QED BY <1>2, <2>1, <3>1, <4>1
    <3> QED BY <3>2, <3>3
  <2> QED BY <2>0, <2>3, <2>4
<1> HIDE DEF S
<1>3. \A n \in Nat : n \in S
  BY <1>1, <1>2, Induction
<1> QED BY <1>3 DEF S

\* Past the root the levels no longer change.
LEMMA LevelStays ==
    ASSUME NEW s, IsSeq(s), Size(s) >= 1, NEW n \in Nat, n >= Size(s)
    PROVE  level(s, n) = level(s, Size(s))
<1>0. Size(s) \in Nat
  BY SeqLen
<1>1. Size(level(s, Size(s))) = 1 /\ IsSeq(level(s, Size(s)))
  BY <1>0, LevelsEnd, LevelSeq
<1>2. LevelAbove(Nothing, Levels!After(Nothing, s, Size(s))) = Levels!After(Nothing, s, Size(s))
  BY <1>1, AboveOne DEF Above, level
<1> QED BY <1>0, <1>2, Levels!AfterFixed DEF level

\* A tree over one leaf is that leaf, a tree over more is the tree over the
\* level above them.
LEMMA RootSteps ==
    ASSUME NEW s, IsSeq(s), Size(s) >= 1
    PROVE  /\ Size(s) = 1 => merkle_root(s) = s[1]
           /\ Size(s) > 1 => merkle_root(s) = merkle_root(Above(s))
<1>0. Size(s) \in Nat /\ s # <<>>
  BY SeqLen, NilSeq DEF Empty, Nil
<1>1. merkle_root(s) = level(s, Size(s))[1]
  BY <1>0 DEF merkle_root, Size
<1>2. CASE Size(s) = 1
  <2>1. level(s, 0 + 1) = Above(level(s, 0)) /\ level(s, 0) = s
    BY LevelSteps
  <2> QED BY <1>1, <1>2, <2>1, AboveOne
<1>3. CASE Size(s) > 1
  <2> DEFINE n == Size(s) - 1
  <2>1. n \in Nat /\ Size(s) = n + 1
    BY <1>0, <1>3
  <2>2. IsSeq(Above(s)) /\ Size(Above(s)) = (Size(s) + 1) \div 2
    BY AboveSeq
  <2>3. Size(Above(s)) >= 1 /\ n >= Size(Above(s)) /\ Size(Above(s)) \in Nat
    BY <1>0, <1>3, <2>2
  <2> HIDE DEF n
  <2>4. level(s, n + 1) = level(Above(s), n)
    BY <2>1, LevelSteps
  <2>5. level(Above(s), n) = level(Above(s), Size(Above(s)))
    BY <2>1, <2>2, <2>3, LevelStays
  <2>6. merkle_root(Above(s)) = level(Above(s), Size(Above(s)))[1]
    BY <2>2, <2>3, NilSeq DEF merkle_root, Size, Empty, Nil
  <2> QED BY <1>1, <1>3, <2>1, <2>4, <2>5, <2>6
<1> QED BY <1>0, <1>2, <1>3

----------------------------------------------------------------------------
(* Climbing from a leaf to the root                                         *)

At(current, index, width, steps) ==
    [current |-> current, index |-> index, width |-> width, steps |-> steps, state |-> "climbing"]

Stuck(current, index, width, steps) ==
    [current |-> current, index |-> index, width |-> width, steps |-> steps, state |-> "short"]

\* The hash one level up.
Joined(h, i, sibling) == IF i % 2 = 1 THEN hash_children(sibling, h) ELSE hash_children(h, sibling)

\* One pass of a climb, by its cases.
LEMMA TakeSiblingAt ==
    ASSUME NEW h, NEW i \in Nat, NEW w \in Nat, NEW st
    PROVE  /\ w <= 1 => TakeSibling(Nothing, At(h, i, w, st)) = At(h, i, w, st)
           /\ TakeSibling(Nothing, Stuck(h, i, w, st)) = Stuck(h, i, w, st)
           /\ w > 1 /\ Unpaired(i, w) =>
                 TakeSibling(Nothing, At(h, i, w, st)) = At(h, i \div 2, (w + 1) \div 2, st)
           /\ w > 1 /\ ~Unpaired(i, w) /\ Empty(st) =>
                 TakeSibling(Nothing, At(h, i, w, st)) = Stuck(h, i, w, st)
           /\ w > 1 /\ ~Unpaired(i, w) /\ ~Empty(st) =>
                 TakeSibling(Nothing, At(h, i, w, st))
                 = At(Joined(h, i, First(st)), i \div 2, (w + 1) \div 2, Rest(st))
<1>1. ASSUME w <= 1
      PROVE  TakeSibling(Nothing, At(h, i, w, st)) = At(h, i, w, st)
  BY <1>1 DEF TakeSibling, At
<1>2. ASSUME w > 1, Unpaired(i, w)
      PROVE  TakeSibling(Nothing, At(h, i, w, st)) = At(h, i \div 2, (w + 1) \div 2, st)
  BY <1>2 DEF TakeSibling, At, Up
<1>3. ASSUME w > 1, ~Unpaired(i, w), Empty(st)
      PROVE  TakeSibling(Nothing, At(h, i, w, st)) = Stuck(h, i, w, st)
  BY <1>3 DEF TakeSibling, At, Stuck, Empty, Nil
<1>4. ASSUME w > 1, ~Unpaired(i, w), ~Empty(st)
      PROVE  TakeSibling(Nothing, At(h, i, w, st))
             = At(Joined(h, i, First(st)), i \div 2, (w + 1) \div 2, Rest(st))
  BY <1>4 DEF TakeSibling, At, Up, Joined, First, Rest, Empty, Nil
<1>5. TakeSibling(Nothing, Stuck(h, i, w, st)) = Stuck(h, i, w, st)
  BY DEF TakeSibling, Stuck
<1> QED BY <1>1, <1>2, <1>3, <1>4, <1>5

Ended(n, h, i, w, st) ==
    TakeSibling(Nothing, Ascent!After(Nothing, At(h, i, w, st), n))
    = Ascent!After(Nothing, At(h, i, w, st), n)

\* A climb from a width of at most n has ended after n passes.
LEMMA ClimbEnds ==
    \A n \in Nat : \A h, st : \A i \in Nat, w \in 0..n : Ended(n, h, i, w, st)
<1> DEFINE S == {n \in Nat : \A h, st : \A i \in Nat, w \in 0..n : Ended(n, h, i, w, st)}
<1>0. ASSUME NEW n \in Nat, NEW c, TakeSibling(Nothing, c) = c
      PROVE  Ascent!After(Nothing, c, n) = c
  <2>1. Ascent!After(Nothing, c, 0) = c /\ 0 \in Nat /\ n >= 0
    BY Ascent!AfterDef
  <2> QED BY <1>0, <2>1, Ascent!AfterFixed
<1>1. 0 \in S
  <2> SUFFICES ASSUME NEW h, NEW st, NEW i \in Nat, NEW w \in 0..0
               PROVE  Ended(0, h, i, w, st)
    OBVIOUS
  <2>1. TakeSibling(Nothing, At(h, i, w, st)) = At(h, i, w, st)
    BY TakeSiblingAt
  <2> QED BY <2>1, Ascent!AfterDef DEF Ended
<1>2. ASSUME NEW n \in Nat, n \in S PROVE n + 1 \in S
  <2> SUFFICES ASSUME NEW h, NEW st, NEW i \in Nat, NEW w \in 0..(n + 1)
               PROVE  Ended(n + 1, h, i, w, st)
    OBVIOUS
  <2> DEFINE at == At(h, i, w, st)
  <2>0. w \in Nat
    OBVIOUS
  <2>1. Ascent!After(Nothing, at, n + 1) = Ascent!After(Nothing, TakeSibling(Nothing, at), n)
    BY Ascent!AfterFirst
  <2>3. CASE w <= 1
    <3>1. TakeSibling(Nothing, at) = at
      BY <2>0, <2>3, TakeSiblingAt
    <3> QED BY <1>0, <2>1, <3>1 DEF Ended
  <2>4. CASE w > 1
    <3> DEFINE v == (w + 1) \div 2
    <3>1. v \in 0..n /\ i \div 2 \in Nat
      BY <2>4
    <3>2. ASSUME NEW g, NEW j \in Nat, NEW u, TakeSibling(Nothing, at) = At(g, j, v, u)
          PROVE  Ended(n + 1, h, i, w, st)
      <4>1. Ended(n, g, j, v, u)
        BY <1>2, <3>1
      <4> HIDE DEF v
      <4> QED BY <2>1, <3>2, <4>1 DEF Ended
    <3>3. CASE Unpaired(i, w)
      BY <2>0, <2>4, <3>1, <3>2, <3>3, TakeSiblingAt
    <3>4. CASE ~Unpaired(i, w) /\ Empty(st)
      <4> DEFINE end == Stuck(h, i, w, st)
      <4>1. TakeSibling(Nothing, at) = end /\ TakeSibling(Nothing, end) = end
        BY <2>0, <2>4, <3>4, TakeSiblingAt
      <4>2. Ascent!After(Nothing, at, n + 1) = end
        <5> HIDE DEF at, end
        <5> QED BY <1>0, <2>1, <4>1
      <4> QED BY <4>1, <4>2 DEF Ended
    <3>5. CASE ~Unpaired(i, w) /\ ~Empty(st)
      BY <2>0, <2>4, <3>1, <3>2, <3>5, TakeSiblingAt
    <3> QED BY <3>3, <3>4, <3>5
  <2> QED BY <2>0, <2>3, <2>4
<1> HIDE DEF S
<1>3. \A n \in Nat : n \in S
  BY <1>1, <1>2, Induction
<1> QED BY <1>3 DEF S

\* A loop that has ended stays as it is.
LEMMA AscentEnded ==
    ASSUME NEW n \in Nat, NEW c, TakeSibling(Nothing, c) = c
    PROVE  Ascent!After(Nothing, c, n) = c
<1>1. Ascent!After(Nothing, c, 0) = c /\ 0 \in Nat /\ n >= 0
  BY Ascent!AfterDef
<1> QED BY <1>1, Ascent!AfterFixed

\* verify_merkle_path's loop, run as often as the level is wide.
LEMMA ClimbIs ==
    \A g, u : \A j, v \in Nat : Climb(g, j, v, u) = Ascent!After(Nothing, At(g, j, v, u), v)
BY DEF Climb, At

\* A climb goes on from the next level.
LEMMA ClimbUp ==
    ASSUME NEW h, NEW i \in Nat, NEW w \in Nat, NEW st, w > 1, NEW g, NEW u,
           NEW k \in Nat, NEW v, v = (w + 1) \div 2,
           TakeSibling(Nothing, At(h, i, w, st)) = At(g, k, v, u)
    PROVE  Climb(h, i, w, st) = Climb(g, k, v, u)
<1> DEFINE at == At(h, i, w, st)
           up == At(g, k, v, u)
           n == w - 1
<1>1. v \in Nat /\ v \in 0..v /\ n \in Nat /\ n >= v /\ w = n + 1
  OBVIOUS
<1>2. Ascent!After(Nothing, at, n + 1) = Ascent!After(Nothing, up, n)
  <2> HIDE DEF n
  <2> QED BY <1>1, Ascent!AfterFirst
<1>3. TakeSibling(Nothing, Ascent!After(Nothing, up, v)) = Ascent!After(Nothing, up, v)
  BY <1>1, ClimbEnds DEF Ended
<1>4. Ascent!After(Nothing, up, n) = Ascent!After(Nothing, up, v)
  <2> HIDE DEF up, n
  <2> QED BY <1>1, <1>3, Ascent!AfterFixed
<1>5. Climb(h, i, w, st) = Ascent!After(Nothing, at, w) /\ Climb(g, k, v, u) = Ascent!After(Nothing, up, v)
  BY <1>1, ClimbIs
<1> HIDE DEF at, up, n
<1> QED BY <1>1, <1>2, <1>4, <1>5

\* It stops at the root;
LEMMA ClimbOne ==
    ASSUME NEW h, NEW i \in Nat, NEW w \in Nat, NEW st, w <= 1
    PROVE  Climb(h, i, w, st) = At(h, i, w, st)
<1>1. TakeSibling(Nothing, At(h, i, w, st)) = At(h, i, w, st)
  BY TakeSiblingAt
<1> QED BY <1>1, AscentEnded, ClimbIs

\* it carries an unpaired node up as it is;
LEMMA ClimbAlone ==
    ASSUME NEW h, NEW i \in Nat, NEW w \in Nat, NEW st, w > 1, Unpaired(i, w),
           NEW k, k = i \div 2, NEW v, v = (w + 1) \div 2
    PROVE  Climb(h, i, w, st) = Climb(h, k, v, st)
<1>1. k \in Nat
  OBVIOUS
<1>2. TakeSibling(Nothing, At(h, i, w, st)) = At(h, k, v, st)
  BY TakeSiblingAt
<1> QED BY <1>1, <1>2, ClimbUp

\* it is stuck without a sibling;
LEMMA ClimbShort ==
    ASSUME NEW h, NEW i \in Nat, NEW w \in Nat, NEW st, w > 1, ~Unpaired(i, w), Empty(st)
    PROVE  Climb(h, i, w, st) = Stuck(h, i, w, st)
<1> DEFINE at == At(h, i, w, st)
           end == Stuck(h, i, w, st)
           n == w - 1
<1>1. TakeSibling(Nothing, at) = end /\ TakeSibling(Nothing, end) = end
  BY TakeSiblingAt
<1>2. n \in Nat /\ w = n + 1
  OBVIOUS
<1> HIDE DEF at, end, n
<1>3. Ascent!After(Nothing, end, n) = end
  BY <1>1, <1>2, AscentEnded
<1>4. Ascent!After(Nothing, at, n + 1) = Ascent!After(Nothing, end, n)
  BY <1>1, <1>2, Ascent!AfterFirst
<1> QED BY <1>2, <1>3, <1>4, ClimbIs DEF at, end

\* and it joins the hash with the next sibling otherwise.
LEMMA ClimbJoin ==
    ASSUME NEW h, NEW i \in Nat, NEW w \in Nat, NEW st, w > 1, ~Unpaired(i, w), ~Empty(st),
           NEW k, k = i \div 2, NEW v, v = (w + 1) \div 2
    PROVE  Climb(h, i, w, st) = Climb(Joined(h, i, First(st)), k, v, Rest(st))
<1>1. k \in Nat
  OBVIOUS
<1>2. TakeSibling(Nothing, At(h, i, w, st)) = At(Joined(h, i, First(st)), k, v, Rest(st))
  BY TakeSiblingAt
<1> QED BY <1>1, <1>2, ClimbUp

\* No collisions.
LEMMA ChildrenInjective ==
    \A a, b, c, d : hash_children(a, b) = hash_children(c, d) => a = c /\ b = d
<1> SUFFICES ASSUME NEW a, NEW b, NEW c, NEW d, hash_children(a, b) = hash_children(c, d)
             PROVE  a = c /\ b = d
  OBVIOUS
<1>1. <<"node", a, b>> = <<"node", c, d>>
  BY DEF hash_children
<1> QED BY <1>1

\* The node above a leaf, and the leaf's place under it.
LEMMA AboveAt ==
    ASSUME NEW s, IsSeq(s), NEW n \in Nat, n = Size(s), NEW i \in Nat, i < n
    PROVE  /\ i \div 2 \in Nat /\ i \div 2 < (n + 1) \div 2 /\ Size(Above(s)) = (n + 1) \div 2
           /\ Unpaired(i, n) => Above(s)[(i \div 2) + 1] = s[i + 1] /\ i + 1 = n
           /\ ~Unpaired(i, n) /\ i % 2 = 1 => Above(s)[(i \div 2) + 1] = hash_children(s[i], s[i + 1])
           /\ ~Unpaired(i, n) /\ i % 2 # 1 => /\ Above(s)[(i \div 2) + 1] = hash_children(s[i + 1], s[i + 2])
                                              /\ i + 2 <= n
<1> DEFINE k == i \div 2
           v == (n + 1) \div 2
<1>1. k \in Nat /\ k + 1 \in 1..v /\ k < v
  OBVIOUS
<1>2. Size(Above(s)) = v
  BY AboveSeq
<1>3. Above(s)[k + 1] = IF 2 * (k + 1) <= n THEN hash_children(s[2 * (k + 1) - 1], s[2 * (k + 1)])
                        ELSE s[2 * (k + 1) - 1]
  BY <1>1, AboveSeq
<1>4. CASE Unpaired(i, n)
  <2>0. i + 1 = n /\ n % 2 = 1
    BY <1>4 DEF Unpaired
  <2>1. ~(2 * (k + 1) <= n) /\ 2 * (k + 1) - 1 = i + 1
    BY <2>0
  <2>2. Above(s)[k + 1] = s[i + 1]
    BY <1>3, <2>1
  <2> QED BY <1>1, <1>2, <1>4, <2>0, <2>2
<1>5. CASE ~Unpaired(i, n) /\ i % 2 = 1
  <2>1. 2 * (k + 1) <= n /\ 2 * (k + 1) - 1 = i /\ 2 * (k + 1) = i + 1
    BY <1>5
  <2> QED BY <1>1, <1>2, <1>3, <1>5, <2>1
<1>6. CASE ~Unpaired(i, n) /\ i % 2 # 1
  <2>1. 2 * (k + 1) <= n /\ 2 * (k + 1) - 1 = i + 1 /\ 2 * (k + 1) = i + 2
    BY <1>6 DEF Unpaired
  <2>2. i + 2 <= n
    BY <2>1
  <2> QED BY <1>1, <1>2, <1>3, <1>6, <2>1, <2>2
<1> QED BY <1>4, <1>5, <1>6

\* The node above a right child,
LEMMA AboveOdd ==
    ASSUME NEW s, IsSeq(s), NEW n \in Nat, n = Size(s), NEW i \in Nat, i < n, i % 2 = 1,
           NEW k, k = i \div 2
    PROVE  Above(s)[k + 1] = hash_children(s[i], s[i + 1])
<1> DEFINE v == (n + 1) \div 2
<1>1. k + 1 \in 1..v /\ 2 * (k + 1) <= n /\ 2 * (k + 1) - 1 = i /\ 2 * (k + 1) = i + 1
  OBVIOUS
<1>2. \A j \in 1..v : Above(s)[j] = IF 2 * j <= n THEN hash_children(s[2 * j - 1], s[2 * j]) ELSE s[2 * j - 1]
  BY AboveSeq
<1>3. Above(s)[k + 1] = hash_children(s[2 * (k + 1) - 1], s[2 * (k + 1)])
  <2> HIDE DEF v
  <2> QED BY <1>1, <1>2
<1> QED BY <1>1, <1>3

\* and the one above a left child that has a sibling.
LEMMA AboveEven ==
    ASSUME NEW s, IsSeq(s), NEW n \in Nat, n = Size(s), NEW i \in Nat, i + 1 < n, i % 2 # 1,
           NEW k, k = i \div 2
    PROVE  Above(s)[k + 1] = hash_children(s[i + 1], s[i + 2])
<1> DEFINE v == (n + 1) \div 2
<1>1. k + 1 \in 1..v /\ 2 * (k + 1) <= n /\ 2 * (k + 1) - 1 = i + 1 /\ 2 * (k + 1) = i + 2
  OBVIOUS
<1>2. \A j \in 1..v : Above(s)[j] = IF 2 * j <= n THEN hash_children(s[2 * j - 1], s[2 * j]) ELSE s[2 * j - 1]
  BY AboveSeq
<1>3. Above(s)[k + 1] = hash_children(s[2 * (k + 1) - 1], s[2 * (k + 1)])
  <2> HIDE DEF v
  <2> QED BY <1>1, <1>2
<1> QED BY <1>1, <1>3

\* A tree has the root of the level above its leaves.
LEMMA RootAbove ==
    ASSUME NEW s, IsSeq(s), Size(s) >= 1
    PROVE  merkle_root(s) = merkle_root(Above(s))
<1>0. Size(s) \in Nat
  BY SeqLen
<1>1. Size(s) = 1 \/ Size(s) > 1
  BY <1>0
<1> QED BY <1>1, AboveOne, RootSteps

\* A leaf that verifies at an index is the leaf there.
LEMMA ClimbBinds ==
    \A n \in Nat : \A s, h, st : \A i \in Nat :
        /\ IsSeq(s) /\ Size(s) = n /\ i < n
        /\ Links(Climb(h, i, n, st), merkle_root(s))
        => h = s[i + 1]
<1> DEFINE S == {n \in Nat : \A s, h, st : \A i \in Nat :
                    /\ IsSeq(s) /\ Size(s) = n /\ i < n
                    /\ Links(Climb(h, i, n, st), merkle_root(s))
                    => h = s[i + 1]}
<1>1. ASSUME NEW n \in Nat, \A m \in 0..(n - 1) : m \in S PROVE n \in S
  <2> SUFFICES ASSUME NEW s, NEW h, NEW st, NEW i \in Nat, IsSeq(s), Size(s) = n, i < n,
                      Links(Climb(h, i, n, st), merkle_root(s))
               PROVE  h = s[i + 1]
    OBVIOUS
  <2> HIDE DEF S
  <2>1. CASE n = 1
    <3>1. Climb(h, i, n, st) = At(h, i, n, st) /\ merkle_root(s) = s[1]
      BY <2>1, ClimbOne, RootSteps
    <3>2. h = merkle_root(s) /\ i + 1 = 1
      BY <2>1, <3>1 DEF Links, At
    <3> QED BY <3>1, <3>2
  <2>2. CASE n > 1
    <3> DEFINE k == i \div 2
               v == (n + 1) \div 2
               u == Above(s)
    <3>1. v \in 0..(n - 1) /\ k \in Nat /\ v \in Nat
      BY <2>2
    <3>2. IsSeq(u) /\ Size(u) = v /\ k < v /\ merkle_root(s) = merkle_root(u)
      <4>1. IsSeq(u) /\ merkle_root(s) = merkle_root(u)
        BY <2>2, AboveSeq, RootSteps
      <4> QED BY <4>1, AboveAt
    <3> HIDE DEF k, v, u
    <3>3. \A g, t : Links(Climb(g, k, v, t), merkle_root(u)) => g = u[k + 1]
      BY <1>1, <3>1, <3>2 DEF S
    <3>4. CASE Unpaired(i, n)
      <4>1. Climb(h, i, n, st) = Climb(h, k, v, st)
        BY <2>2, <3>4, ClimbAlone DEF k, v
      <4>2. u[k + 1] = s[i + 1]
        BY <3>4, AboveAt DEF k, u
      <4> QED BY <3>2, <3>3, <4>1, <4>2
    <3>5. CASE ~Unpaired(i, n) /\ Empty(st)
      <4>1. Climb(h, i, n, st) = Stuck(h, i, n, st)
        BY <2>2, <3>5, ClimbShort
      <4> QED BY <4>1 DEF Links, Stuck
    <3>6. CASE ~Unpaired(i, n) /\ ~Empty(st)
      <4>1. Climb(h, i, n, st) = Climb(Joined(h, i, First(st)), k, v, Rest(st))
        BY <2>2, <3>6, ClimbJoin DEF k, v
      <4>2. Joined(h, i, First(st)) = u[k + 1]
        BY <3>2, <3>3, <4>1
      <4>3. CASE i % 2 = 1
        <5>1. u[k + 1] = hash_children(s[i], s[i + 1])
          BY <4>3, AboveOdd DEF k, u
        <5>2. Joined(h, i, First(st)) = hash_children(First(st), h)
          BY <4>3 DEF Joined
        <5> QED BY <4>2, <5>1, <5>2, ChildrenInjective
      <4>4. CASE i % 2 # 1
        <5>0. i + 1 < n
          BY <3>6, <4>4 DEF Unpaired
        <5>1. u[k + 1] = hash_children(s[i + 1], s[i + 2])
          BY <4>4, <5>0, AboveEven DEF k, u
        <5>2. Joined(h, i, First(st)) = hash_children(h, First(st))
          BY <4>4 DEF Joined
        <5> QED BY <4>2, <5>1, <5>2, ChildrenInjective
      <4> QED BY <4>3, <4>4
    <3> QED BY <3>4, <3>5, <3>6
  <2> QED BY <2>1, <2>2
<1> HIDE DEF S
<1>2. \A n \in Nat : n \in S
  BY <1>1, CourseOfValues
<1> QED BY <1>2 DEF S

----------------------------------------------------------------------------
(* The siblings of a leaf                                                   *)

Sib(hashes, index, siblings) == [nodes |-> hashes, index |-> index, siblings |-> siblings]

\* The sibling that a level adds to the proof.
Own(s, i) == IF Unpaired(i, Size(s)) THEN Nil ELSE One(SiblingAt(s, i))

\* A leaf contributes one sibling, or none when it is unpaired.
LEMMA OwnSeq == \A s, i : IsSeq(Own(s, i)) /\ Size(Own(s, i)) = IF Unpaired(i, Size(s)) THEN 0 ELSE 1
BY NilSeq, OneSeq DEF Own

\* One turn of the sibling loop.
LEMMA AddSiblingAt ==
    ASSUME NEW s, NEW acc, IsSeq(acc), NEW i \in Nat, NEW k, k = i \div 2
    PROVE  AddSibling(Nothing, Sib(s, i, acc)) = Sib(Above(s), k, Cat(acc, Own(s, i)))
<1>1. CASE Unpaired(i, Size(s))
  <2>1. Own(s, i) = Nil
    BY <1>1 DEF Own
  <2>2. Cat(acc, Own(s, i)) = acc
    BY <2>1, CatNil
  <2>3. AddSibling(Nothing, Sib(s, i, acc)) = Sib(Above(s), k, acc)
    BY <1>1 DEF AddSibling, Sib, Above, Size
  <2> QED BY <2>2, <2>3
<1>2. CASE ~Unpaired(i, Size(s))
  <2> DEFINE x == SiblingAt(s, i)
  <2>1. Own(s, i) = One(x)
    BY <1>2 DEF Own
  <2>2. AddSibling(Nothing, Sib(s, i, acc)) = Sib(Above(s), k, Append(acc, x))
    BY <1>2 DEF AddSibling, Sib, Above, Size
  <2> HIDE DEF x
  <2>3. Append(acc, x) = Cat(acc, One(x))
    BY AppendIsCat
  <2> QED BY <2>1, <2>2, <2>3
<1> QED BY <1>1, <1>2

SibLoop(s, i, acc, n) == Siblings!After(Nothing, Sib(s, i, acc), n)

\* The loop's first turn, and what is left of it.
LEMMA SibLoopFirst ==
    ASSUME NEW s, NEW acc, IsSeq(acc), NEW i \in Nat, NEW k, k = i \div 2, NEW n \in Nat,
           NEW m, m = n + 1, NEW a, a = Cat(acc, Own(s, i)), NEW u, u = Above(s)
    PROVE  SibLoop(s, i, acc, m) = SibLoop(u, k, a, n)
<1>1. AddSibling(Nothing, Sib(s, i, acc)) = Sib(Above(s), k, Cat(acc, Own(s, i)))
  BY AddSiblingAt
<1> QED BY <1>1, Siblings!AfterFirst DEF SibLoop

\* The loop adds to the siblings it starts with.
LEMMA SibLoopAdds ==
    \A n \in Nat : \A s, acc : \A i \in Nat : IsSeq(acc) =>
        /\ SibLoop(s, i, acc, n).siblings = Cat(acc, SibLoop(s, i, Nil, n).siblings)
        /\ IsSeq(SibLoop(s, i, Nil, n).siblings)
<1> DEFINE P(n, s, i, acc) ==
               /\ SibLoop(s, i, acc, n).siblings = Cat(acc, SibLoop(s, i, Nil, n).siblings)
               /\ IsSeq(SibLoop(s, i, Nil, n).siblings)
           S == {n \in Nat : \A s, acc : \A i \in Nat : IsSeq(acc) => P(n, s, i, acc)}
<1>1. 0 \in S
  <2> SUFFICES ASSUME NEW s, NEW acc, NEW i \in Nat, IsSeq(acc) PROVE P(0, s, i, acc)
    OBVIOUS
  <2>1. \A a : SibLoop(s, i, a, 0) = Sib(s, i, a)
    BY Siblings!AfterDef DEF SibLoop
  <2>2. \A a : SibLoop(s, i, a, 0).siblings = a
    BY <2>1 DEF Sib
  <2> QED BY <2>2, CatNil, NilSeq
<1>2. ASSUME NEW n \in Nat, n \in S PROVE n + 1 \in S
  <2> SUFFICES ASSUME NEW s, NEW acc, NEW i \in Nat, IsSeq(acc) PROVE P(n + 1, s, i, acc)
    OBVIOUS
  <2> DEFINE k == i \div 2
             own == Own(s, i)
             more == SibLoop(Above(s), k, Nil, n).siblings
  <2>0. k \in Nat /\ IsSeq(Nil) /\ IsSeq(own) /\ IsSeq(Cat(acc, own)) /\ IsSeq(Cat(Nil, own))
    BY NilSeq, OwnSeq, CatSeq
  <2>1. P(n, Above(s), k, Cat(acc, own)) /\ P(n, Above(s), k, Cat(Nil, own))
    BY <1>2, <2>0
  <2>2. /\ SibLoop(s, i, acc, n + 1) = SibLoop(Above(s), k, Cat(acc, own), n)
        /\ SibLoop(s, i, Nil, n + 1) = SibLoop(Above(s), k, Cat(Nil, own), n)
    <3>1. SibLoop(s, i, acc, n + 1) = SibLoop(Above(s), k, Cat(acc, own), n)
      BY <2>0, SibLoopFirst
    <3>2. SibLoop(s, i, Nil, n + 1) = SibLoop(Above(s), k, Cat(Nil, own), n)
      BY <2>0, SibLoopFirst
    <3> QED BY <3>1, <3>2
  <2> HIDE DEF own, more, k
  <2>3. /\ SibLoop(s, i, acc, n + 1).siblings = Cat(Cat(acc, own), more)
        /\ SibLoop(s, i, Nil, n + 1).siblings = Cat(Cat(Nil, own), more)
        /\ IsSeq(more)
    BY <2>1, <2>2 DEF more
  <2>4. Cat(Nil, own) = own /\ Cat(Cat(acc, own), more) = Cat(acc, Cat(own, more)) /\ IsSeq(Cat(own, more))
    BY <2>0, <2>3, CatNil, CatAssoc, CatSeq
  <2> QED BY <2>3, <2>4
<1> HIDE DEF S
<1>3. \A n \in Nat : n \in S
  BY <1>1, <1>2, Induction
<1> QED BY <1>3 DEF S

\* A loop that no longer moves has ended.
LEMMA SibLoopStays ==
    ASSUME NEW n \in Nat, NEW p, AddSibling(Nothing, p) = p
    PROVE  Siblings!After(Nothing, p, n) = p
<1>1. Siblings!After(Nothing, p, 0) = p /\ 0 \in Nat /\ n >= 0
  BY Siblings!AfterDef
<1> QED BY <1>1, Siblings!AfterFixed

\* At the root nothing is added.
LEMMA SibAtRoot ==
    ASSUME NEW s, IsSeq(s), Size(s) = 1, NEW acc, IsSeq(acc)
    PROVE  AddSibling(Nothing, Sib(s, 0, acc)) = Sib(s, 0, acc) /\ Own(s, 0) = Nil
<1>1. Unpaired(0, Size(s))
  BY DEF Unpaired
<1>2. Own(s, 0) = Nil
  BY <1>1 DEF Own
<1>3. 0 = 0 \div 2 /\ 0 \in Nat
  OBVIOUS
<1>4. AddSibling(Nothing, Sib(s, 0, acc)) = Sib(Above(s), 0, Cat(acc, Own(s, 0)))
  BY <1>3, AddSiblingAt
<1> QED BY <1>2, <1>4, AboveOne, CatNil

\* The sibling loop ends within as many turns as there are leaves.
LEMMA SibLoopEnds ==
    \A n \in Nat : \A s, acc : \A i \in Nat :
        IsSeq(s) /\ IsSeq(acc) /\ i < Size(s) /\ Size(s) <= n =>
            AddSibling(Nothing, SibLoop(s, i, acc, n)) = SibLoop(s, i, acc, n)
<1> DEFINE S == {n \in Nat : \A s, acc : \A i \in Nat :
                    IsSeq(s) /\ IsSeq(acc) /\ i < Size(s) /\ Size(s) <= n =>
                        AddSibling(Nothing, SibLoop(s, i, acc, n)) = SibLoop(s, i, acc, n)}
<1>1. 0 \in S
  <2> SUFFICES ASSUME NEW s, NEW i \in Nat, IsSeq(s), i < Size(s), Size(s) <= 0 PROVE FALSE
    OBVIOUS
  <2>1. Size(s) \in Nat
    BY SeqLen
  <2> QED BY <2>1
<1>2. ASSUME NEW n \in Nat, n \in S PROVE n + 1 \in S
  <2> SUFFICES ASSUME NEW s, NEW acc, NEW i \in Nat, IsSeq(s), IsSeq(acc), i < Size(s), Size(s) <= n + 1
               PROVE  AddSibling(Nothing, SibLoop(s, i, acc, n + 1)) = SibLoop(s, i, acc, n + 1)
    OBVIOUS
  <2> HIDE DEF S
  <2>0. Size(s) \in Nat
    BY SeqLen
  <2>1. CASE Size(s) = 1
    <3>1. i = 0
      BY <2>1
    <3>2. AddSibling(Nothing, Sib(s, 0, acc)) = Sib(s, 0, acc)
      BY <2>1, SibAtRoot
    <3>3. n + 1 \in Nat
      OBVIOUS
    <3>4. SibLoop(s, 0, acc, n + 1) = Sib(s, 0, acc)
      BY <3>2, <3>3, SibLoopStays DEF SibLoop
    <3> QED BY <3>1, <3>2, <3>4
  <2>2. CASE Size(s) > 1
    <3> DEFINE k == i \div 2
               v == (Size(s) + 1) \div 2
               own == Cat(acc, Own(s, i))
    <3>1. k \in Nat /\ k < v /\ v <= n
      BY <2>0, <2>2
    <3>2. IsSeq(Above(s)) /\ Size(Above(s)) = v /\ IsSeq(own)
      BY AboveSeq, OwnSeq, CatSeq
    <3>3. SibLoop(s, i, acc, n + 1) = SibLoop(Above(s), k, own, n)
      BY SibLoopFirst
    <3> HIDE DEF k, v, own
    <3>4. AddSibling(Nothing, SibLoop(Above(s), k, own, n)) = SibLoop(Above(s), k, own, n)
      BY <1>2, <3>1, <3>2 DEF S
    <3> QED BY <3>3, <3>4
  <2>3. Size(s) = 1 \/ Size(s) > 1
    BY <2>0
  <2> QED BY <2>1, <2>2, <2>3
<1> HIDE DEF S
<1>3. \A n \in Nat : n \in S
  BY <1>1, <1>2, Induction
<1> QED BY <1>3 DEF S

\* A leaf's proof is what that loop collected.
LEMMA ProofIs ==
    ASSUME NEW s, NEW i \in Nat
    PROVE  proof_from_levels(s, i) = SibLoop(s, i, Nil, Size(s)).siblings
BY DEF proof_from_levels, SibLoop, Sib, Size, Nil

\* The proof of a leaf: its sibling, and the proof of the node above.
LEMMA SibSteps ==
    ASSUME NEW s, IsSeq(s), NEW i \in Nat, i < Size(s), NEW k, k = i \div 2, NEW u, u = Above(s)
    PROVE  /\ IsSeq(proof_from_levels(s, i)) /\ IsSeq(proof_from_levels(u, k))
           /\ proof_from_levels(s, i) = Cat(Own(s, i), proof_from_levels(u, k))
           /\ Size(s) = 1 => proof_from_levels(s, i) = Nil
<1>0. Size(s) \in Nat /\ k \in Nat /\ IsSeq(Nil) /\ IsSeq(Own(s, i))
  BY SeqLen, NilSeq, OwnSeq
<1>1. IsSeq(u) /\ Size(u) = (Size(s) + 1) \div 2 /\ Size(u) \in Nat /\ k < Size(u)
  <2>1. IsSeq(u) /\ Size(u) = (Size(s) + 1) \div 2
    BY AboveSeq
  <2> QED BY <1>0, <2>1
<1>2. IsSeq(proof_from_levels(s, i)) /\ IsSeq(proof_from_levels(u, k))
  BY <1>0, <1>1, ProofIs, SibLoopAdds
<1>3. CASE Size(s) = 1
  <2>1. i = 0 /\ k = 0 /\ u = s
    BY <1>3, AboveOne
  <2>2. AddSibling(Nothing, Sib(s, 0, Nil)) = Sib(s, 0, Nil) /\ Own(s, 0) = Nil
    BY <1>0, <1>3, SibAtRoot
  <2>3. SibLoop(s, 0, Nil, Size(s)) = Sib(s, 0, Nil)
    BY <1>0, <2>2, SibLoopStays DEF SibLoop
  <2>4. proof_from_levels(s, 0) = Nil
    BY <2>3, ProofIs DEF Sib
  <2> QED BY <1>2, <2>1, <2>2, <2>4, CatNil
<1>4. CASE Size(s) > 1
  <2> DEFINE n == Size(s) - 1
             own == Own(s, i)
  <2>1. n \in Nat /\ Size(s) = n + 1 /\ n >= Size(u)
    BY <1>0, <1>1, <1>4
  <2> HIDE DEF n
  <2>2. SibLoop(s, i, Nil, n + 1) = SibLoop(u, k, Cat(Nil, own), n)
    BY <1>0, <2>1, SibLoopFirst
  <2>3. Cat(Nil, own) = own
    BY <1>0, CatNil
  <2>4. SibLoop(u, k, own, n).siblings = Cat(own, SibLoop(u, k, Nil, n).siblings)
    BY <1>0, <2>1, SibLoopAdds
  <2>5. AddSibling(Nothing, SibLoop(u, k, Nil, Size(u))) = SibLoop(u, k, Nil, Size(u))
    <3>1. Size(u) <= Size(u)
      BY <1>1
    <3> QED BY <1>0, <1>1, <3>1, SibLoopEnds
  <2>6. SibLoop(u, k, Nil, n) = SibLoop(u, k, Nil, Size(u))
    BY <1>1, <2>1, <2>5, Siblings!AfterFixed DEF SibLoop
  <2>7. /\ proof_from_levels(s, i) = SibLoop(s, i, Nil, Size(s)).siblings
        /\ proof_from_levels(u, k) = SibLoop(u, k, Nil, Size(u)).siblings
    BY <1>0, ProofIs
  <2>8. Size(s) # 1
    BY <1>4
  <2> QED BY <1>2, <2>1, <2>2, <2>3, <2>4, <2>6, <2>7, <2>8
<1>5. Size(s) = 1 \/ Size(s) > 1
  BY <1>0
<1> QED BY <1>3, <1>4, <1>5

\* A proof links the leaf that it was made for to the root.
LEMMA SibVerifies ==
    \A n \in Nat : \A s : \A i \in Nat :
        IsSeq(s) /\ Size(s) = n /\ i < n
        => Links(Climb(s[i + 1], i, n, proof_from_levels(s, i)), merkle_root(s))
<1> DEFINE S == {n \in Nat : \A s : \A i \in Nat :
                    IsSeq(s) /\ Size(s) = n /\ i < n
                    => Links(Climb(s[i + 1], i, n, proof_from_levels(s, i)), merkle_root(s))}
<1>1. ASSUME NEW n \in Nat, \A m \in 0..(n - 1) : m \in S PROVE n \in S
  <2> SUFFICES ASSUME NEW s, NEW i \in Nat, IsSeq(s), Size(s) = n, i < n
               PROVE  Links(Climb(s[i + 1], i, n, proof_from_levels(s, i)), merkle_root(s))
    OBVIOUS
  <2> HIDE DEF S
  <2> DEFINE k == i \div 2
             v == (n + 1) \div 2
             u == Above(s)
             st == proof_from_levels(s, i)
             up == proof_from_levels(u, k)
             h == s[i + 1]
  <2>0. IsSeq(st) /\ IsSeq(up) /\ st = Cat(Own(s, i), up) /\ (n = 1 => st = Nil)
    BY SibSteps
  <2>1. CASE n = 1
    <3>1. Climb(h, i, n, st) = At(h, i, n, st) /\ merkle_root(s) = s[1]
      BY <2>1, ClimbOne, RootSteps
    <3>2. h = s[1] /\ st = Nil
      BY <2>0, <2>1
    <3> HIDE DEF h, st
    <3>3. Links(At(h, i, n, st), h)
      BY <3>2 DEF Links, At, Nil
    <3>4. Links(Climb(h, i, n, st), merkle_root(s))
      BY <3>1, <3>2, <3>3
    <3> QED BY <3>4 DEF h, st
  <2>2. CASE n > 1
    <3>1. v \in 0..(n - 1) /\ k \in Nat /\ v \in Nat
      BY <2>2
    <3>2. IsSeq(u) /\ Size(u) = v /\ k < v /\ merkle_root(s) = merkle_root(u)
      <4>1. IsSeq(u) /\ merkle_root(s) = merkle_root(u)
        BY <2>2, AboveSeq, RootSteps
      <4> QED BY <4>1, AboveAt
    <3>3. Links(Climb(u[k + 1], k, v, up), merkle_root(u))
      <4> HIDE DEF k, v, u
      <4> QED BY <1>1, <3>1, <3>2 DEF S
    <3>4. CASE Unpaired(i, n)
      <4>1. st = up
        BY <2>0, <3>4, CatNil DEF Own
      <4>2. Climb(h, i, n, st) = Climb(h, k, v, st)
        <5> HIDE DEF st, h
        <5> QED BY <2>2, <3>4, ClimbAlone
      <4>3. u[k + 1] = h
        BY <3>4, AboveAt
      <4> HIDE DEF k, v, u, st, h, up
      <4>4. Links(Climb(h, i, n, st), merkle_root(s))
        BY <3>2, <3>3, <4>1, <4>2, <4>3
      <4> QED BY <4>4 DEF h, st
    <3>5. CASE ~Unpaired(i, n)
      <4> DEFINE x == SiblingAt(s, i)
      <4>1. st = Cat(One(x), up)
        BY <2>0, <3>5 DEF Own
      <4>2. ~Empty(st) /\ First(st) = x /\ Rest(st) = up
        <5> HIDE DEF st, up, x
        <5> QED BY <2>0, <4>1, ConsSeq
      <4>3. Climb(h, i, n, st) = Climb(Joined(h, i, First(st)), k, v, Rest(st))
        <5> HIDE DEF st, h
        <5> QED BY <2>2, <3>5, <4>2, ClimbJoin
      <4>4. Joined(h, i, x) = u[k + 1]
        <5>1. CASE i % 2 = 1
          <6>1. u[k + 1] = hash_children(s[i], s[i + 1])
            BY <5>1, AboveOdd
          <6>2. x = s[i]
            <7>1. i - 1 + 1 = i
              OBVIOUS
            <7> QED BY <5>1, <7>1 DEF SiblingAt
          <6> QED BY <5>1, <6>1, <6>2 DEF Joined
        <5>2. CASE i % 2 # 1
          <6>1. u[k + 1] = hash_children(s[i + 1], s[i + 2])
            <7>1. i + 1 < n
              BY <3>5, <5>2 DEF Unpaired
            <7> QED BY <5>2, <7>1, AboveEven
          <6>2. x = s[i + 2]
            <7>1. i + 1 + 1 = i + 2
              OBVIOUS
            <7> QED BY <5>2, <7>1 DEF SiblingAt
          <6> QED BY <5>2, <6>1, <6>2 DEF Joined
        <5> QED BY <5>1, <5>2
      <4> HIDE DEF k, v, u, st, h, up, x
      <4>5. Links(Climb(h, i, n, st), merkle_root(s))
        BY <3>2, <3>3, <4>2, <4>3, <4>4
      <4> QED BY <4>5 DEF h, st
    <3> QED BY <3>4, <3>5
  <2> QED BY <2>1, <2>2
<1> HIDE DEF S
<1>2. \A n \in Nat : n \in S
  BY <1>1, CourseOfValues
<1> QED BY <1>2 DEF S

\* The level above a perfect tree is perfect and no node is without a sibling.
LEMMA PerfectAbove ==
    ASSUME NEW h \in Nat, NEW w, w = Shift(h + 1)
    PROVE  /\ w \in Nat /\ w > 1 /\ Shift(h) \in Nat /\ Shift(h) = (w + 1) \div 2 /\ w = 2 * Shift(h)
           /\ \A i : ~Unpaired(i, w)
<1>1. w = 2 * Shift(h) /\ Shift(h) \in Nat /\ Shift(h) >= 1
  BY ShiftDef, ShiftType
<1>2. w \in Nat /\ w > 1 /\ Shift(h) = (w + 1) \div 2 /\ w % 2 # 1
  BY <1>1
<1> QED BY <1>1, <1>2 DEF Unpaired

\* A leaf of a perfect tree of height h has h siblings.
LEMMA SibLen ==
    \A h \in Nat : \A s : \A i \in Nat :
        IsSeq(s) /\ Size(s) = Shift(h) /\ i < Shift(h)
        => IsSeq(proof_from_levels(s, i)) /\ Size(proof_from_levels(s, i)) = h
<1> DEFINE S == {h \in Nat : \A s : \A i \in Nat :
                    IsSeq(s) /\ Size(s) = Shift(h) /\ i < Shift(h)
                    => IsSeq(proof_from_levels(s, i)) /\ Size(proof_from_levels(s, i)) = h}
<1>1. 0 \in S
  <2> SUFFICES ASSUME NEW s, NEW i \in Nat, IsSeq(s), Size(s) = Shift(0), i < Shift(0)
               PROVE  IsSeq(proof_from_levels(s, i)) /\ Size(proof_from_levels(s, i)) = 0
    OBVIOUS
  <2>1. Size(s) = 1 /\ i < Size(s)
    BY ShiftDef
  <2>2. proof_from_levels(s, i) = Nil
    BY <2>1, SibSteps
  <2> QED BY <2>2, NilSeq
<1>2. ASSUME NEW h \in Nat, h \in S PROVE h + 1 \in S
  <2> SUFFICES ASSUME NEW s, NEW i \in Nat, IsSeq(s), Size(s) = Shift(h + 1), i < Shift(h + 1)
               PROVE  IsSeq(proof_from_levels(s, i)) /\ Size(proof_from_levels(s, i)) = h + 1
    OBVIOUS
  <2> HIDE DEF S
  <2> DEFINE w == Shift(h + 1)
             k == i \div 2
             u == Above(s)
             up == proof_from_levels(u, k)
  <2>1. w \in Nat /\ w > 1 /\ Shift(h) \in Nat /\ Shift(h) = (w + 1) \div 2 /\ w = 2 * Shift(h) /\ ~Unpaired(i, w)
    BY PerfectAbove
  <2>2. k \in Nat /\ k < Shift(h)
    BY <2>1
  <2>3. IsSeq(u) /\ Size(u) = Shift(h)
    BY <2>1, AboveSeq
  <2>4. IsSeq(up) /\ Size(up) = h
    <3> HIDE DEF k, u
    <3> QED BY <1>2, <2>2, <2>3 DEF S
  <2>5. IsSeq(proof_from_levels(s, i)) /\ proof_from_levels(s, i) = Cat(Own(s, i), up)
    BY SibSteps
  <2>6. IsSeq(Own(s, i)) /\ Size(Own(s, i)) = 1
    BY <2>1, OwnSeq
  <2>7. Size(Cat(Own(s, i), up)) = 1 + h
    BY <2>4, <2>6, CatSeq
  <2> QED BY <2>5, <2>7
<1> HIDE DEF S
<1>3. \A h \in Nat : h \in S
  BY <1>1, <1>2, Induction
<1> QED BY <1>3 DEF S

\* In a perfect tree of height h a climb uses h siblings.
LEMMA ClimbExact ==
    \A h \in Nat : \A x, st : \A i \in Nat :
        IsSeq(st) /\ Size(st) = h
        => Links(Climb(x, i, Shift(h), st), Climb(x, i, Shift(h), st).current)
<1> DEFINE P(h, x, i, st) == Links(Climb(x, i, Shift(h), st), Climb(x, i, Shift(h), st).current)
           S == {h \in Nat : \A x, st : \A i \in Nat : IsSeq(st) /\ Size(st) = h => P(h, x, i, st)}
<1>1. 0 \in S
  <2> SUFFICES ASSUME NEW x, NEW st, NEW i \in Nat, IsSeq(st), Size(st) = 0 PROVE P(0, x, i, st)
    OBVIOUS
  <2>1. Shift(0) = 1 /\ 1 \in Nat /\ 1 <= 1
    BY ShiftDef
  <2>2. Climb(x, i, 1, st) = At(x, i, 1, st)
    BY <2>1, ClimbOne
  <2>3. st = <<>>
    BY NilSeq DEF Empty, Nil
  <2>4. Links(At(x, i, 1, st), At(x, i, 1, st).current)
    BY <2>3 DEF Links, At
  <2> QED BY <2>1, <2>2, <2>4
<1>2. ASSUME NEW h \in Nat, h \in S PROVE h + 1 \in S
  <2> SUFFICES ASSUME NEW x, NEW st, NEW i \in Nat, IsSeq(st), Size(st) = h + 1 PROVE P(h + 1, x, i, st)
    OBVIOUS
  <2> DEFINE w == Shift(h + 1)
             k == i \div 2
             y == Joined(x, i, First(st))
  <2>1. w \in Nat /\ w > 1 /\ Shift(h) = (w + 1) \div 2 /\ ~Unpaired(i, w) /\ k \in Nat
    <3>1. k \in Nat
      OBVIOUS
    <3> QED BY <3>1, PerfectAbove
  <2>2. ~Empty(st)
    BY NilSeq
  <2>3. IsSeq(Rest(st)) /\ Size(Rest(st)) = h
    <3>1. IsSeq(Rest(st)) /\ Size(Rest(st)) = Size(st) - 1
      BY <2>2, RestSeq
    <3> QED BY <3>1
  <2>4. Climb(x, i, w, st) = Climb(y, k, Shift(h), Rest(st))
    <3> HIDE DEF w
    <3> QED BY <2>1, <2>2, ClimbJoin
  <2>5. P(h, y, k, Rest(st))
    BY <1>2, <2>1, <2>3
  <2> HIDE DEF k, y
  <2> QED BY <2>4, <2>5
<1> HIDE DEF S
<1>3. \A h \in Nat : h \in S
  BY <1>1, <1>2, Induction
<1> QED BY <1>3 DEF S

----------------------------------------------------------------------------
(* The two subtrees of a tree                                               *)

\* The left subtree of a tree of n leaves has PowerBelow(n - 1) of them.
LEMMA LeftSize ==
    ASSUME NEW n \in Nat, n > 1, NEW p, p = PowerBelow(n - 1)
    PROVE  p \in Nat /\ 1 <= p /\ p < n /\ n <= 2 * p
<1>1. n - 1 \in Nat /\ n - 1 >= 1
  OBVIOUS
<1>2. p \in Nat /\ p <= n - 1 /\ n - 1 < 2 * p /\ p >= 1
  BY <1>1, PowerBelowDef, PowerBelowBounds
<1> QED BY <1>2

\* One level up it has half as many.
LEMMA LeftSizeAbove ==
    ASSUME NEW n \in Nat, n > 2, NEW m, m = (n + 1) \div 2
    PROVE  m \in Nat /\ m > 1 /\ m < n /\ PowerBelow(n - 1) = 2 * PowerBelow(m - 1)
<1>1. n - 1 \in Nat /\ n - 1 >= 2 /\ m \in Nat /\ m > 1 /\ m < n /\ m - 1 = (n - 1) \div 2
  OBVIOUS
<1> QED BY <1>1, PowerBelowDef

\* Levels of two halves, the left one of even width, are built apart.
LEMMA AboveCat ==
    ASSUME NEW a, NEW b, IsSeq(a), IsSeq(b), NEW q \in Nat, Size(a) = 2 * q
    PROVE  Above(Cat(a, b)) = Cat(Above(a), Above(b))
<1> DEFINE s == Cat(a, b)
           t == Cat(Above(a), Above(b))
           z == Size(b)
           y == (z + 1) \div 2
           n == 2 * q + z
<1>0. z \in Nat /\ y \in Nat /\ n \in Nat /\ (n + 1) \div 2 = q + y /\ (2 * q + 1) \div 2 = q
  BY SeqLen
<1>1. IsSeq(s) /\ Size(s) = n
  BY CatSeq
<1>2. /\ IsSeq(Above(a)) /\ Size(Above(a)) = q
      /\ \A k \in 1..q : Above(a)[k] = IF 2 * k <= 2 * q THEN hash_children(a[2 * k - 1], a[2 * k])
                                       ELSE a[2 * k - 1]
  BY <1>0, AboveSeq
<1>3. /\ IsSeq(Above(b)) /\ Size(Above(b)) = y
      /\ \A k \in 1..y : Above(b)[k] = IF 2 * k <= z THEN hash_children(b[2 * k - 1], b[2 * k])
                                       ELSE b[2 * k - 1]
  BY <1>0, AboveSeq
<1>4. /\ IsSeq(Above(s)) /\ Size(Above(s)) = q + y
      /\ \A k \in 1..(q + y) : Above(s)[k] = IF 2 * k <= n THEN hash_children(s[2 * k - 1], s[2 * k])
                                             ELSE s[2 * k - 1]
  <2> HIDE DEF s
  <2> QED BY <1>0, <1>1, AboveSeq
<1>5. IsSeq(t) /\ Size(t) = q + y
  BY <1>2, <1>3, CatSeq
<1>6. \A i \in Nat : 1 <= i /\ i <= n => s[i] = IF i <= 2 * q THEN a[i] ELSE b[i - 2 * q]
  BY CatAt
<1>7. \A k \in Nat : 1 <= k /\ k <= q + y => t[k] = IF k <= q THEN Above(a)[k] ELSE Above(b)[k - q]
  BY <1>2, <1>3, CatAt
<1>8. ASSUME NEW k \in 1..(q + y) PROVE Above(s)[k] = t[k]
  <2> HIDE DEF s, t
  <2>0. k \in Nat /\ 1 <= k /\ k <= q + y
    BY <1>0
  <2>1. CASE k <= q
    <3>1. /\ 2 * k <= n /\ 2 * k <= 2 * q /\ k \in 1..q
          /\ 2 * k - 1 \in Nat /\ 1 <= 2 * k - 1 /\ 2 * k - 1 <= n /\ 2 * k - 1 <= 2 * q
          /\ 2 * k \in Nat /\ 1 <= 2 * k
      BY <1>0, <2>0, <2>1
    <3>2. s[2 * k - 1] = a[2 * k - 1] /\ s[2 * k] = a[2 * k]
      BY <1>6, <3>1
    <3>3. Above(s)[k] = hash_children(s[2 * k - 1], s[2 * k])
      BY <1>4, <3>1
    <3>4. t[k] = hash_children(a[2 * k - 1], a[2 * k])
      BY <1>2, <1>7, <2>0, <2>1, <3>1
    <3> QED BY <3>2, <3>3, <3>4
  <2>2. CASE k > q
    <3> DEFINE j == k - q
    <3>1. /\ j \in 1..y /\ ~(k <= q) /\ (2 * k <= n <=> 2 * j <= z)
          /\ 2 * k - 1 \in Nat /\ 1 <= 2 * k - 1 /\ 2 * k - 1 <= n /\ ~(2 * k - 1 <= 2 * q)
          /\ (2 * k - 1) - 2 * q = 2 * j - 1
      BY <1>0, <2>0, <2>2
    <3>1a. 2 * k \in Nat /\ 1 <= 2 * k /\ ~(2 * k <= 2 * q) /\ 2 * k - 2 * q = 2 * j
      BY <1>0, <2>0, <2>2
    <3>2. s[2 * k - 1] = b[2 * j - 1]
      BY <1>6, <3>1
    <3>3. 2 * k <= n => s[2 * k] = b[2 * j]
      BY <1>6, <3>1a
    <3>4. Above(s)[k] = IF 2 * k <= n THEN hash_children(s[2 * k - 1], s[2 * k]) ELSE s[2 * k - 1]
      BY <1>4
    <3>5. t[k] = Above(b)[j]
      BY <1>7, <2>0, <3>1
    <3>6. Above(b)[j] = IF 2 * j <= z THEN hash_children(b[2 * j - 1], b[2 * j]) ELSE b[2 * j - 1]
      BY <1>3, <3>1
    <3>7. CASE 2 * k <= n
      <4>1. 2 * j <= z
        BY <3>1, <3>7
      <4> QED BY <3>2, <3>3, <3>4, <3>5, <3>6, <3>7, <4>1
    <3>8. CASE ~(2 * k <= n)
      <4>1. ~(2 * j <= z)
        BY <3>1, <3>8
      <4> QED BY <3>2, <3>4, <3>5, <3>6, <3>8, <4>1
    <3> QED BY <3>7, <3>8
  <2>3. k <= q \/ k > q
    BY <2>0
  <2> QED BY <2>1, <2>2, <2>3
<1>9. Above(s) = t
  <2> HIDE DEF s, t, y
  <2>1. \A k \in 1..Size(Above(s)) : Above(s)[k] = t[k]
    BY <1>4, <1>8
  <2> QED BY <1>4, <1>5, <2>1, SameSeq
<1> QED BY <1>9

\* A leaf of the left half has the sibling it has there,
LEMMA OwnLeft ==
    ASSUME NEW a, NEW b, IsSeq(a), IsSeq(b), Size(b) >= 1, NEW q \in Nat, Size(a) = 2 * q,
           NEW i \in Nat, i < 2 * q
    PROVE  Own(Cat(a, b), i) = Own(a, i)
<1> DEFINE s == Cat(a, b)
           j == IF i % 2 = 1 THEN i - 1 ELSE i + 1
<1>0. Size(b) \in Nat /\ IsSeq(s) /\ Size(s) = 2 * q + Size(b)
  BY SeqLen, CatSeq
<1>1. ~Unpaired(i, Size(s)) /\ ~Unpaired(i, Size(a))
  BY <1>0 DEF Unpaired
<1>2. j \in Nat /\ j + 1 \in 1..(2 * q)
  BY <1>0
<1>3. s[j + 1] = a[j + 1]
  BY <1>2, CatSeq
<1>4. SiblingAt(s, i) = SiblingAt(a, i)
  BY <1>3 DEF SiblingAt
<1> HIDE DEF s
<1>5. Own(s, i) = Own(a, i)
  BY <1>1, <1>4 DEF Own
<1> QED BY <1>5 DEF s

\* and so has a leaf of the right half.
LEMMA OwnRight ==
    ASSUME NEW a, NEW b, IsSeq(a), IsSeq(b), NEW q \in Nat, Size(a) = 2 * q,
           NEW j \in Nat, j < Size(b)
    PROVE  Own(Cat(a, b), 2 * q + j) = Own(b, j)
<1> DEFINE s == Cat(a, b)
           i == 2 * q + j
           k == IF j % 2 = 1 THEN j - 1 ELSE j + 1
<1>0. Size(b) \in Nat /\ IsSeq(s) /\ Size(s) = 2 * q + Size(b)
  BY SeqLen, CatSeq
<1>1. i % 2 = j % 2 /\ Size(s) % 2 = Size(b) % 2
  BY <1>0
<1>2. Unpaired(i, Size(s)) <=> Unpaired(j, Size(b))
  BY <1>0, <1>1 DEF Unpaired
<1>3. CASE Unpaired(j, Size(b))
  <2> HIDE DEF s, i
  <2>1. Own(s, i) = Own(b, j)
    BY <1>2, <1>3 DEF Own
  <2> QED BY <2>1 DEF s, i
<1>4. CASE ~Unpaired(j, Size(b))
  <2>1. k + 1 \in 1..Size(b) /\ (IF i % 2 = 1 THEN i - 1 ELSE i + 1) + 1 = 2 * q + (k + 1)
    BY <1>0, <1>1, <1>4 DEF Unpaired
  <2>2. s[2 * q + (k + 1)] = b[k + 1]
    <3> HIDE DEF k
    <3> QED BY <2>1, CatSeq
  <2>3. SiblingAt(s, i) = SiblingAt(b, j)
    <3>1. SiblingAt(s, i) = s[2 * q + (k + 1)]
      <4> HIDE DEF s, i, k
      <4> QED BY <2>1 DEF SiblingAt
    <3>2. SiblingAt(b, j) = b[k + 1]
      BY DEF SiblingAt
    <3> QED BY <2>2, <3>1, <3>2
  <2> HIDE DEF s, i
  <2>4. Own(s, i) = Own(b, j)
    BY <1>2, <1>4, <2>3 DEF Own
  <2> QED BY <2>4 DEF s, i
<1> QED BY <1>3, <1>4

\* The root of a tree is the hash of its subtrees' roots, and a proof goes
\* through the subtree of the leaf before it reaches the other one.
SplitAt(a, b) ==
    /\ merkle_root(Cat(a, b)) = hash_children(merkle_root(a), merkle_root(b))
    /\ \A i \in Nat : i < Size(a) =>
          proof_from_levels(Cat(a, b), i) = Cat(proof_from_levels(a, i), One(merkle_root(b)))
    /\ \A j \in Nat : j < Size(b) =>
          proof_from_levels(Cat(a, b), Size(a) + j)
          = Cat(proof_from_levels(b, j), One(merkle_root(a)))

\* Two leaves are split as the walk through the tree splits them,
LEMMA SplitTwo ==
    ASSUME NEW a, NEW b, IsSeq(a), IsSeq(b), Size(a) = 1, Size(b) = 1
    PROVE  SplitAt(a, b)
<1> DEFINE s == Cat(a, b)
           u == Above(s)
<1>1. IsSeq(s) /\ Size(s) = 2 /\ s[1] = a[1] /\ s[2] = b[1]
  <2>1. IsSeq(s) /\ Size(s) = 1 + 1
    BY CatSeq
  <2>2. 1 \in 1..Size(a) /\ 1 \in 1..Size(b) /\ Size(a) + 1 = 2
    OBVIOUS
  <2>3. Cat(a, b)[1] = a[1]
    BY <2>2, CatSeq
  <2>4. Cat(a, b)[Size(a) + 1] = b[1]
    BY <2>2, CatSeq
  <2> QED BY <2>1, <2>2, <2>3, <2>4
<1> HIDE DEF s
<1>2. IsSeq(u) /\ Size(u) = 1 /\ u[1] = hash_children(s[1], s[2])
  <2>1. IsSeq(u) /\ Size(u) = (2 + 1) \div 2
    BY <1>1, AboveSeq
  <2>2. 0 = 0 \div 2 /\ 0 \in Nat /\ 0 + 1 < 2 /\ 0 % 2 # 1 /\ 2 \in Nat
    OBVIOUS
  <2>3. Above(s)[0 + 1] = hash_children(s[0 + 1], s[0 + 2])
    BY <1>1, <2>2, AboveEven
  <2> QED BY <2>1, <2>3
<1>3. merkle_root(a) = a[1] /\ merkle_root(b) = b[1] /\ merkle_root(u) = u[1]
  BY <1>2, RootSteps
<1>4. merkle_root(s) = merkle_root(u)
  BY <1>1, RootSteps
<1>5. proof_from_levels(a, 0) = Nil /\ proof_from_levels(b, 0) = Nil /\ proof_from_levels(u, 0) = Nil
  BY <1>2, SibSteps
<1>6. ASSUME NEW i \in {0, 1}
      PROVE  proof_from_levels(s, i) = One(SiblingAt(s, i))
  <2>1. 0 = i \div 2 /\ i \in Nat /\ i < Size(s) /\ ~Unpaired(i, Size(s))
    BY <1>1 DEF Unpaired
  <2>2. proof_from_levels(s, i) = Cat(Own(s, i), proof_from_levels(u, 0))
    BY <1>1, <2>1, SibSteps
  <2>3. Own(s, i) = One(SiblingAt(s, i)) /\ IsSeq(Own(s, i))
    BY <2>1, OwnSeq DEF Own
  <2> QED BY <1>5, <2>2, <2>3, CatNil
<1>7. SiblingAt(s, 0) = b[1] /\ SiblingAt(s, 1) = a[1]
  BY <1>1 DEF SiblingAt
<1>8. \A x : Cat(Nil, One(x)) = One(x)
  BY OneSeq, CatNil
<1>9. ASSUME NEW i \in Nat, i < Size(a)
      PROVE  proof_from_levels(s, i) = Cat(proof_from_levels(a, i), One(merkle_root(b)))
  <2>1. i = 0
    BY <1>9
  <2> QED BY <1>3, <1>5, <1>6, <1>7, <1>8, <2>1
<1>10. ASSUME NEW j \in Nat, j < Size(b)
       PROVE  proof_from_levels(s, Size(a) + j) = Cat(proof_from_levels(b, j), One(merkle_root(a)))
  <2>1. j = 0 /\ Size(a) + j = 1
    BY <1>10
  <2> QED BY <1>3, <1>5, <1>6, <1>7, <1>8, <2>1
<1> QED BY <1>1, <1>2, <1>3, <1>4, <1>9, <1>10 DEF SplitAt, s

\* What holds one level up holds here.
LEMMA SplitAbove ==
    ASSUME NEW a, NEW b, IsSeq(a), IsSeq(b), Size(b) >= 1, NEW q \in Nat, q >= 1, Size(a) = 2 * q,
           SplitAt(Above(a), Above(b))
    PROVE  SplitAt(a, b)
<1> DEFINE s == Cat(a, b)
           ua == Above(a)
           ub == Above(b)
           u == Cat(ua, ub)
<1>0. /\ Size(b) \in Nat /\ IsSeq(s) /\ Size(s) = 2 * q + Size(b) /\ Size(s) > 1 /\ Size(s) >= 1
      /\ Size(a) >= 1
  <2>1. Size(b) \in Nat /\ IsSeq(s) /\ Size(s) = Size(a) + Size(b)
    BY SeqLen, CatSeq
  <2> QED BY <2>1
<1>1. u = Above(s)
  BY AboveCat
<1>2. IsSeq(ua) /\ IsSeq(ub) /\ Size(ua) = q /\ Size(ub) = (Size(b) + 1) \div 2
  <2>1. (2 * q + 1) \div 2 = q
    OBVIOUS
  <2> QED BY <2>1, AboveSeq
<1>3. merkle_root(a) = merkle_root(ua) /\ merkle_root(b) = merkle_root(ub) /\ merkle_root(s) = merkle_root(u)
  <2> HIDE DEF s, u, ua, ub
  <2>1. merkle_root(s) = merkle_root(u)
    BY <1>0, <1>1, RootAbove
  <2> QED BY <1>0, <2>1, RootAbove DEF ua, ub
<1>4. merkle_root(u) = hash_children(merkle_root(ua), merkle_root(ub))
  BY DEF SplitAt
<1>5. ASSUME NEW i \in Nat, i < Size(a)
      PROVE  proof_from_levels(s, i) = Cat(proof_from_levels(a, i), One(merkle_root(b)))
  <2> DEFINE k == i \div 2
             own == Own(a, i)
             up == proof_from_levels(ua, k)
             top == One(merkle_root(b))
  <2>1. k \in Nat /\ k < q /\ i < Size(s) /\ i < 2 * q
    BY <1>0, <1>5
  <2>2. proof_from_levels(u, k) = Cat(up, One(merkle_root(ub)))
    BY <1>2, <2>1 DEF SplitAt
  <2>3. proof_from_levels(s, i) = Cat(Own(s, i), proof_from_levels(u, k))
    <3> HIDE DEF s, u
    <3> QED BY <1>0, <1>1, <2>1, SibSteps
  <2>4. Own(s, i) = own
    BY <2>1, OwnLeft
  <2>5. IsSeq(up) /\ proof_from_levels(a, i) = Cat(own, up)
    <3> HIDE DEF ua
    <3> QED BY <1>5, SibSteps DEF ua
  <2>6. IsSeq(own) /\ IsSeq(top)
    BY OwnSeq, OneSeq
  <2> HIDE DEF s, u, own, up, top, ua, ub
  <2>7. Cat(Cat(own, up), top) = Cat(own, Cat(up, top))
    BY <2>5, <2>6, CatAssoc
  <2> QED BY <1>3, <2>2, <2>3, <2>4, <2>5, <2>7 DEF top
<1>6. ASSUME NEW j \in Nat, j < Size(b)
      PROVE  proof_from_levels(s, Size(a) + j) = Cat(proof_from_levels(b, j), One(merkle_root(a)))
  <2> DEFINE k == j \div 2
             i == 2 * q + j
             own == Own(b, j)
             up == proof_from_levels(ub, k)
             top == One(merkle_root(a))
  <2>1. k \in Nat /\ k < Size(ub) /\ i \in Nat /\ i < Size(s) /\ q + k = i \div 2
    BY <1>0, <1>2, <1>6
  <2>2. proof_from_levels(u, q + k) = Cat(up, One(merkle_root(ua)))
    BY <1>2, <2>1 DEF SplitAt
  <2>3. proof_from_levels(s, i) = Cat(Own(s, i), proof_from_levels(u, q + k))
    <3> DEFINE l == q + k
    <3>1. l = i \div 2
      BY <2>1
    <3> HIDE DEF s, u, i, k, l
    <3>2. proof_from_levels(s, i) = Cat(Own(s, i), proof_from_levels(u, l))
      BY <1>0, <1>1, <2>1, <3>1, SibSteps
    <3> QED BY <3>2 DEF l
  <2>4. Own(s, i) = own
    BY <1>6, OwnRight
  <2>5. IsSeq(up) /\ proof_from_levels(b, j) = Cat(own, up)
    <3> HIDE DEF ub
    <3> QED BY <1>6, SibSteps DEF ub
  <2>6. IsSeq(own) /\ IsSeq(top)
    BY OwnSeq, OneSeq
  <2> HIDE DEF s, u, own, up, top, ua, ub
  <2>7. Cat(Cat(own, up), top) = Cat(own, Cat(up, top))
    BY <2>5, <2>6, CatAssoc
  <2> QED BY <1>3, <2>2, <2>3, <2>4, <2>5, <2>7 DEF top
<1> HIDE DEF u, ua, ub
<1> QED BY <1>3, <1>4, <1>5, <1>6 DEF SplitAt

\* and so are any n, at the largest power of two below n.
LEMMA SplitTree ==
    \A n \in Nat : \A a, b :
        /\ IsSeq(a) /\ IsSeq(b) /\ n > 1 /\ Size(a) + Size(b) = n /\ Size(a) = PowerBelow(n - 1)
        => SplitAt(a, b)
<1> DEFINE S == {n \in Nat : \A a, b :
        /\ IsSeq(a) /\ IsSeq(b) /\ n > 1 /\ Size(a) + Size(b) = n /\ Size(a) = PowerBelow(n - 1)
        => SplitAt(a, b)}
<1>1. ASSUME NEW n \in Nat, \A m \in 0..(n - 1) : m \in S PROVE n \in S
  <2> SUFFICES ASSUME NEW a, NEW b, IsSeq(a), IsSeq(b), n > 1, Size(a) + Size(b) = n,
                      Size(a) = PowerBelow(n - 1)
               PROVE  SplitAt(a, b)
    OBVIOUS
  <2> HIDE DEF S
  <2>0. Size(a) \in Nat /\ Size(b) \in Nat /\ 1 <= Size(a) /\ Size(a) < n
    BY LeftSize, SeqLen
  <2>1. Size(b) >= 1
    BY <2>0
  <2>2. CASE n = 2
    <3>1. Size(a) = 1 /\ Size(b) = 1
      BY <2>0, <2>2
    <3> QED BY <3>1, SplitTwo
  <2>3. CASE n > 2
    <3> DEFINE m == (n + 1) \div 2
               q == PowerBelow(m - 1)
    <3>1. m \in Nat /\ m > 1 /\ m < n /\ PowerBelow(n - 1) = 2 * q
      BY <2>3, LeftSizeAbove
    <3>2. q \in Nat /\ q >= 1
      <4> HIDE DEF m
      <4> QED BY <3>1, LeftSize
    <3>3. IsSeq(Above(a)) /\ IsSeq(Above(b)) /\ Size(Above(a)) = (Size(a) + 1) \div 2
          /\ Size(Above(b)) = (Size(b) + 1) \div 2
      BY AboveSeq
    <3>4. Size(Above(a)) = q /\ Size(Above(a)) + Size(Above(b)) = m
      <4>1. Size(a) = 2 * q
        BY <3>1
      <4> HIDE DEF q
      <4> QED BY <2>0, <3>2, <3>3, <4>1
    <3>5. m \in 0..(n - 1)
      BY <3>1
    <3>6. SplitAt(Above(a), Above(b))
      <4> HIDE DEF m
      <4> QED BY <1>1, <3>1, <3>3, <3>4, <3>5 DEF S
    <3> QED BY <2>1, <3>1, <3>2, <3>6, SplitAbove
  <2> QED BY <2>2, <2>3
<1> HIDE DEF S
<1>2. \A n \in Nat : n \in S
  BY <1>1, CourseOfValues
<1> QED BY <1>2 DEF S

----------------------------------------------------------------------------
(* Bagging peaks                                                            *)

\* hash_peaks is injective.
LEMMA PeaksInjective ==
    \A a, b, c, d : hash_peaks(a, b) = hash_peaks(c, d) => a = c /\ b = d
<1> SUFFICES ASSUME NEW a, NEW b, NEW c, NEW d, hash_peaks(a, b) = hash_peaks(c, d)
             PROVE  a = c /\ b = d
  OBVIOUS
<1>1. <<"peaks", a, b>> = <<"peaks", c, d>>
  BY DEF hash_peaks
<1> QED BY <1>1

FrontOf(s) == Front(s)

LastOf(s) == Last(s)

\* All but the last element.
LEMMA FrontSeq ==
    ASSUME NEW s, IsSeq(s), ~Empty(s)
    PROVE  /\ IsSeq(FrontOf(s)) /\ Size(s) \in Nat /\ Size(s) >= 1 /\ Size(FrontOf(s)) = Size(s) - 1
           /\ \A i \in 1..(Size(s) - 1) : FrontOf(s)[i] = s[i]
           /\ LastOf(s) = s[Size(s)]
<1>1. Size(s) \in Nat /\ Size(s) >= 1
  <2>1. Size(s) \in Nat /\ Size(s) # 0
    BY SeqLen, NilSeq
  <2> QED BY <2>1
<1>2. FrontOf(s) = Take(s, Size(s) - 1) /\ LastOf(s) = s[Size(s)]
  BY DEF FrontOf, LastOf, Front, Last, Take, Size
<1>3. Size(s) - 1 \in Nat /\ Size(s) - 1 <= Size(s)
  BY <1>1
<1> QED BY <1>1, <1>2, <1>3, TakeSeq

\* The last of one element,
LEMMA FrontOne == \A x : FrontOf(One(x)) = Nil /\ LastOf(One(x)) = x
<1> TAKE x
<1>1. IsSeq(One(x)) /\ ~Empty(One(x)) /\ Size(One(x)) = 1 /\ One(x)[1] = x
  BY OneSeq, NilSeq
<1>2. IsSeq(FrontOf(One(x))) /\ Size(FrontOf(One(x))) = 0 /\ LastOf(One(x)) = x
  BY <1>1, FrontSeq
<1> QED BY <1>2, NilSeq

\* and of more.
LEMMA FrontCons ==
    ASSUME NEW x, NEW t, IsSeq(t), ~Empty(t)
    PROVE  /\ FrontOf(Cat(One(x), t)) = Cat(One(x), FrontOf(t))
           /\ LastOf(Cat(One(x), t)) = LastOf(t)
<1> DEFINE s == Cat(One(x), t)
           r == Cat(One(x), FrontOf(t))
           n == Size(t)
<1>1. /\ IsSeq(FrontOf(t)) /\ n \in Nat /\ n >= 1 /\ Size(FrontOf(t)) = n - 1
      /\ LastOf(t) = t[n] /\ \A i \in 1..(n - 1) : FrontOf(t)[i] = t[i]
  BY FrontSeq
<1>2. IsSeq(One(x)) /\ Size(One(x)) = 1
  BY OneSeq
<1>3. IsSeq(s) /\ Size(s) = 1 + n /\ ~Empty(s)
  BY ConsSeq
<1>4. IsSeq(r) /\ Size(r) = n
  <2>1. IsSeq(r) /\ Size(r) = 1 + Size(FrontOf(t))
    BY <1>1, ConsSeq
  <2> QED BY <1>1, <2>1
<1>5. \A i \in Nat : 1 <= i /\ i <= 1 + n => s[i] = IF i <= 1 THEN One(x)[i] ELSE t[i - 1]
  BY <1>2, CatAt
<1>6. \A i \in Nat : 1 <= i /\ i <= 1 + (n - 1) => r[i] = IF i <= 1 THEN One(x)[i] ELSE FrontOf(t)[i - 1]
  BY <1>1, <1>2, CatAt
<1> HIDE DEF s, r
<1>7. IsSeq(FrontOf(s)) /\ Size(FrontOf(s)) = n /\ (\A i \in 1..n : FrontOf(s)[i] = s[i]) /\ LastOf(s) = s[1 + n]
  <2>1. (1 + n) - 1 = n
    BY <1>1
  <2> QED BY <1>3, <2>1, FrontSeq
<1>8. LastOf(s) = LastOf(t)
  <2>1. ~(1 + n <= 1) /\ (1 + n) - 1 = n /\ 1 <= 1 + n /\ 1 + n <= 1 + n /\ 1 + n \in Nat
    BY <1>1
  <2> QED BY <1>1, <1>5, <1>7, <2>1
<1>9. ASSUME NEW i \in 1..n PROVE FrontOf(s)[i] = r[i]
  <2>1. i \in Nat /\ 1 <= i /\ i <= 1 + n /\ i <= 1 + (n - 1)
    BY <1>1
  <2>2. FrontOf(s)[i] = s[i]
    BY <1>7
  <2>3. CASE i <= 1
    BY <1>5, <1>6, <2>1, <2>2, <2>3
  <2>4. CASE i > 1
    <3>1. i - 1 \in 1..(n - 1) /\ ~(i <= 1)
      BY <1>1, <2>1, <2>4
    <3>2. FrontOf(t)[i - 1] = t[i - 1]
      BY <1>1, <3>1
    <3> QED BY <1>5, <1>6, <2>1, <2>2, <3>1, <3>2
  <2>5. i <= 1 \/ i > 1
    BY <2>1
  <2> QED BY <2>3, <2>4, <2>5
<1>10. FrontOf(s) = r
  <2>1. \A i \in 1..Size(FrontOf(s)) : FrontOf(s)[i] = r[i]
    BY <1>7, <1>9
  <2> QED BY <1>4, <1>7, <2>1, SameSeq
<1> QED BY <1>8, <1>10 DEF s, r

Bag(rest, bagged) == [rest |-> rest, bagged |-> bagged]

BagLoop(rest, bagged, n) == Bagging!After(Nothing, Bag(rest, bagged), n)

\* One turn of the bagging loop.
LEMMA BagPeakAt ==
    ASSUME NEW r, NEW b
    PROVE  /\ Empty(r) => BagPeak(Nothing, Bag(r, b)) = Bag(r, b)
           /\ ~Empty(r) => BagPeak(Nothing, Bag(r, b)) = Bag(FrontOf(r), hash_peaks(LastOf(r), b))
<1>1. ASSUME Empty(r) PROVE BagPeak(Nothing, Bag(r, b)) = Bag(r, b)
  BY <1>1 DEF BagPeak, Bag, Empty, Nil
<1>2. ASSUME ~Empty(r) PROVE BagPeak(Nothing, Bag(r, b)) = Bag(FrontOf(r), hash_peaks(LastOf(r), b))
  <2>1. r # <<>>
    BY <1>2 DEF Empty, Nil
  <2>2. Bag(r, b).rest = r /\ Bag(r, b).bagged = b
    BY DEF Bag
  <2> QED BY <2>1, <2>2 DEF BagPeak, Bag, FrontOf, LastOf
<1> QED BY <1>1, <1>2

\* With no peak left it changes nothing.
LEMMA BagLoopNil == \A b : \A n \in Nat : BagLoop(Nil, b, n).bagged = b
<1> SUFFICES ASSUME NEW b, NEW n \in Nat PROVE BagLoop(Nil, b, n).bagged = b
  OBVIOUS
<1>1. BagPeak(Nothing, Bag(Nil, b)) = Bag(Nil, b)
  BY BagPeakAt, NilSeq
<1>2. Bagging!After(Nothing, Bag(Nil, b), 0) = Bag(Nil, b) /\ 0 \in Nat /\ n >= 0
  BY Bagging!AfterDef
<1>3. BagLoop(Nil, b, n) = Bag(Nil, b)
  BY <1>1, <1>2, Bagging!AfterFixed DEF BagLoop
<1> QED BY <1>3 DEF Bag

\* Its first turn bags the last peak.
LEMMA BagLoopFirst ==
    ASSUME NEW r, NEW b, ~Empty(r), NEW n \in Nat, NEW m, m = n + 1
    PROVE  BagLoop(r, b, m) = BagLoop(FrontOf(r), hash_peaks(LastOf(r), b), n)
<1>1. BagPeak(Nothing, Bag(r, b)) = Bag(FrontOf(r), hash_peaks(LastOf(r), b))
  BY BagPeakAt
<1> QED BY <1>1, Bagging!AfterFirst DEF BagLoop

\* The leftmost peak is bagged last.
LEMMA BagLoopCons ==
    \A n \in Nat : \A x, r, b : IsSeq(r) /\ Size(r) <= n =>
        BagLoop(Cat(One(x), r), b, n + 1).bagged = hash_peaks(x, BagLoop(r, b, n).bagged)
<1> DEFINE P(n, x, r, b) ==
        BagLoop(Cat(One(x), r), b, n + 1).bagged = hash_peaks(x, BagLoop(r, b, n).bagged)
           S == {n \in Nat : \A x, r, b : IsSeq(r) /\ Size(r) <= n => P(n, x, r, b)}
<1>0. ASSUME NEW n \in Nat, NEW x, NEW b PROVE P(n, x, Nil, b)
  <2>1. Cat(One(x), Nil) = One(x) /\ ~Empty(One(x))
    BY OneSeq, NilSeq, CatNil
  <2>2. BagLoop(One(x), b, n + 1) = BagLoop(Nil, hash_peaks(x, b), n)
    BY <2>1, BagLoopFirst, FrontOne
  <2>3. BagLoop(Nil, hash_peaks(x, b), n).bagged = hash_peaks(x, b) /\ BagLoop(Nil, b, n).bagged = b
    BY BagLoopNil
  <2> QED BY <2>1, <2>2, <2>3
<1>1. 0 \in S
  <2> SUFFICES ASSUME NEW x, NEW r, NEW b, IsSeq(r), Size(r) <= 0 PROVE P(0, x, r, b)
    OBVIOUS
  <2>1. Size(r) \in Nat
    BY SeqLen
  <2>2. Size(r) = 0
    BY <2>1
  <2>3. r = Nil
    BY <2>2, NilSeq
  <2> QED BY <1>0, <2>3
<1>2. ASSUME NEW n \in Nat, n \in S PROVE n + 1 \in S
  <2> SUFFICES ASSUME NEW x, NEW r, NEW b, IsSeq(r), Size(r) <= n + 1 PROVE P(n + 1, x, r, b)
    OBVIOUS
  <2>1. CASE Empty(r)
    <3>1. r = Nil /\ n + 1 \in Nat
      BY <2>1, NilSeq
    <3> QED BY <1>0, <3>1
  <2>2. CASE ~Empty(r)
    <3> DEFINE f == FrontOf(r)
               c == hash_peaks(LastOf(r), b)
    <3>1. IsSeq(f) /\ Size(r) \in Nat /\ Size(f) = Size(r) - 1
      BY <2>2, FrontSeq
    <3>2. Size(f) <= n
      BY <3>1
    <3>3. P(n, x, f, c)
      BY <1>2, <3>1, <3>2
    <3>4. ~Empty(Cat(One(x), r)) /\ n + 1 \in Nat /\ FrontOf(Cat(One(x), r)) = Cat(One(x), f)
          /\ LastOf(Cat(One(x), r)) = LastOf(r)
      BY <2>2, ConsSeq, FrontCons
    <3>5. BagLoop(Cat(One(x), r), b, (n + 1) + 1) = BagLoop(Cat(One(x), f), c, n + 1)
      <4> DEFINE m == n + 1
      <4>1. m \in Nat
        OBVIOUS
      <4> HIDE DEF m
      <4>2. BagLoop(Cat(One(x), r), b, m + 1) = BagLoop(Cat(One(x), f), c, m)
        BY <3>4, <4>1, BagLoopFirst
      <4> QED BY <4>2 DEF m
    <3>6. BagLoop(r, b, n + 1) = BagLoop(f, c, n)
      BY <2>2, BagLoopFirst
    <3> HIDE DEF f, c
    <3> QED BY <3>3, <3>5, <3>6
  <2> QED BY <2>1, <2>2
<1> HIDE DEF S
<1>3. \A n \in Nat : n \in S
  BY <1>1, <1>2, Induction
<1> QED BY <1>3 DEF S

\* bag_peaks is that loop, started on the last peak.
LEMMA BagIs ==
    ASSUME NEW s, ~Empty(s)
    PROVE  bag_peaks(s) = BagLoop(FrontOf(s), LastOf(s), Size(s)).bagged
<1>1. s # <<>>
  BY DEF Empty, Nil
<1> QED BY <1>1 DEF bag_peaks, BagLoop, Bag, FrontOf, LastOf, Size

\* One peak is its own bag;
LEMMA BagOne == \A x : bag_peaks(One(x)) = x
<1> TAKE x
<1>1. ~Empty(One(x)) /\ Size(One(x)) = 1
  BY OneSeq, NilSeq
<1>2. bag_peaks(One(x)) = BagLoop(Nil, x, 1).bagged
  BY <1>1, BagIs, FrontOne
<1> QED BY <1>2, BagLoopNil

\* more are bagged from the right.
LEMMA BagCons ==
    ASSUME NEW x, NEW t, IsSeq(t), ~Empty(t)
    PROVE  bag_peaks(Cat(One(x), t)) = hash_peaks(x, bag_peaks(t))
<1> DEFINE s == Cat(One(x), t)
           f == FrontOf(t)
           l == LastOf(t)
           n == Size(t)
<1>1. n \in Nat /\ IsSeq(f) /\ Size(f) = n - 1
  BY FrontSeq
<1>2. ~Empty(s) /\ Size(s) = n + 1
  <2>1. ~Empty(s) /\ Size(s) = 1 + n
    BY ConsSeq
  <2> QED BY <1>1, <2>1
<1>3. bag_peaks(s) = BagLoop(Cat(One(x), f), l, n + 1).bagged
  <2>1. FrontOf(s) = Cat(One(x), f) /\ LastOf(s) = l
    BY FrontCons
  <2> HIDE DEF s, f, l, n
  <2> QED BY <1>2, <2>1, BagIs
<1>4. bag_peaks(t) = BagLoop(f, l, n).bagged
  BY BagIs
<1>5. Size(f) <= n
  BY <1>1
<1> HIDE DEF f, l, n
<1>6. BagLoop(Cat(One(x), f), l, n + 1).bagged = hash_peaks(x, BagLoop(f, l, n).bagged)
  BY <1>1, <1>5, BagLoopCons
<1> QED BY <1>3, <1>4, <1>6

----------------------------------------------------------------------------
(* The peaks of a range                                                     *)

Pk(left, rest, index) == [left |-> left, rest |-> rest, index |-> index]

PkLoop(left, rest, index, n) == Peaks!After(Nothing, Pk(left, rest, index), n)

\* The root of the first peak over some leaves.
FirstPeak(s) == merkle_root(Take(s, PowerBelow(Size(s))))

\* The leaves after the first peak.
AfterPeak(s) == Drop(s, PowerBelow(Size(s)))

\* One turn of the loop that passes the peaks left of a leaf.
LEMMA PassPeakAt ==
    ASSUME NEW l, NEW r, IsSeq(l), NEW i \in Nat, NEW p, p = PowerBelow(Size(r)), p \in Nat
    PROVE  /\ i < p => PassPeak(Nothing, Pk(l, r, i)) = Pk(l, r, i)
           /\ ~(i < p) => PassPeak(Nothing, Pk(l, r, i))
                          = Pk(Cat(l, One(FirstPeak(r))), AfterPeak(r), i - p)
<1>1. p = PowerBelow(Len(r))
  BY DEF Size
<1>2. Pk(l, r, i).left = l /\ Pk(l, r, i).rest = r /\ Pk(l, r, i).index = i
  BY DEF Pk
<1>3. ASSUME i < p PROVE PassPeak(Nothing, Pk(l, r, i)) = Pk(l, r, i)
  BY <1>1, <1>2, <1>3 DEF PassPeak
<1>4. ASSUME ~(i < p)
      PROVE  PassPeak(Nothing, Pk(l, r, i)) = Pk(Cat(l, One(FirstPeak(r))), AfterPeak(r), i - p)
  <2> DEFINE x == merkle_root(SubSeq(r, 1, p))
             d == SubSeq(r, p + 1, Len(r))
  <2>1. PassPeak(Nothing, Pk(l, r, i)) = [left |-> Append(l, x), rest |-> d, index |-> i - p]
    BY <1>1, <1>2, <1>4 DEF PassPeak
  <2>2. x = FirstPeak(r) /\ d = AfterPeak(r)
    BY DEF FirstPeak, AfterPeak, Take, Drop
  <2> HIDE DEF x, d
  <2>3. Append(l, x) = Cat(l, One(x))
    BY AppendIsCat
  <2> QED BY <2>1, <2>2, <2>3 DEF Pk
<1> QED BY <1>3, <1>4

\* The first peak holds at least one leaf and at most all of them.
LEMMA PeakFacts ==
    ASSUME NEW r, IsSeq(r), NEW n, n = Size(r), n >= 1, NEW p, p = PowerBelow(n)
    PROVE  /\ n \in Nat /\ p \in Nat /\ 1 <= p /\ p <= n
           /\ IsSeq(AfterPeak(r)) /\ Size(AfterPeak(r)) = n - p
           /\ IsSeq(Take(r, p)) /\ Size(Take(r, p)) = p
<1>1. n \in Nat
  BY SeqLen
<1>2. p \in Nat /\ p >= 1 /\ p <= n
  BY <1>1, PowerBelowDef, PowerBelowBounds
<1> QED BY <1>1, <1>2, TakeSeq, DropSeq DEF AfterPeak

\* The loop passes the first peak when the leaf is not below it,
LEMMA PkLoopFirst ==
    ASSUME NEW l, NEW r, IsSeq(l), NEW i \in Nat, NEW p, p = PowerBelow(Size(r)), p \in Nat, ~(i < p),
           NEW n \in Nat, NEW m, m = n + 1
    PROVE  PkLoop(l, r, i, m) = PkLoop(Cat(l, One(FirstPeak(r))), AfterPeak(r), i - p, n)
<1>1. PassPeak(Nothing, Pk(l, r, i)) = Pk(Cat(l, One(FirstPeak(r))), AfterPeak(r), i - p)
  BY PassPeakAt
<1> QED BY <1>1, Peaks!AfterFirst DEF PkLoop

\* and stops at the peak the leaf is below.
LEMMA PkLoopStays ==
    ASSUME NEW l, NEW r, IsSeq(l), NEW i \in Nat, NEW p, p = PowerBelow(Size(r)), p \in Nat, i < p,
           NEW n \in Nat
    PROVE  PkLoop(l, r, i, n) = Pk(l, r, i)
<1>1. PassPeak(Nothing, Pk(l, r, i)) = Pk(l, r, i)
  BY PassPeakAt
<1>2. Peaks!After(Nothing, Pk(l, r, i), 0) = Pk(l, r, i) /\ 0 \in Nat /\ n >= 0
  BY Peaks!AfterDef
<1> QED BY <1>1, <1>2, Peaks!AfterFixed DEF PkLoop

\* The loop adds to the peaks it starts with.
LEMMA PkLoopAdds ==
    \A n \in Nat : \A l, r : \A i \in Nat : IsSeq(l) /\ IsSeq(r) /\ i <= Size(r) =>
        /\ PkLoop(l, r, i, n).left = Cat(l, PkLoop(Nil, r, i, n).left)
        /\ PkLoop(l, r, i, n).rest = PkLoop(Nil, r, i, n).rest
        /\ PkLoop(l, r, i, n).index = PkLoop(Nil, r, i, n).index
        /\ IsSeq(PkLoop(Nil, r, i, n).left)
<1> DEFINE P(n, l, r, i) ==
        /\ PkLoop(l, r, i, n).left = Cat(l, PkLoop(Nil, r, i, n).left)
        /\ PkLoop(l, r, i, n).rest = PkLoop(Nil, r, i, n).rest
        /\ PkLoop(l, r, i, n).index = PkLoop(Nil, r, i, n).index
        /\ IsSeq(PkLoop(Nil, r, i, n).left)
           S == {n \in Nat : \A l, r : \A i \in Nat : IsSeq(l) /\ IsSeq(r) /\ i <= Size(r) => P(n, l, r, i)}
<1>0. ASSUME NEW n \in Nat, NEW l, NEW r, NEW i \in Nat, IsSeq(l), \A a : IsSeq(a) => PkLoop(a, r, i, n) = Pk(a, r, i)
      PROVE  P(n, l, r, i)
  <2>1. PkLoop(l, r, i, n) = Pk(l, r, i) /\ PkLoop(Nil, r, i, n) = Pk(Nil, r, i)
    BY <1>0, NilSeq
  <2>2. \A a : Pk(a, r, i).left = a /\ Pk(a, r, i).rest = r /\ Pk(a, r, i).index = i
    BY DEF Pk
  <2> QED BY <1>0, <2>1, <2>2, CatNil, NilSeq
<1>1. 0 \in S
  <2> SUFFICES ASSUME NEW l, NEW r, NEW i \in Nat, IsSeq(l) PROVE P(0, l, r, i)
    OBVIOUS
  <2>1. \A a : PkLoop(a, r, i, 0) = Pk(a, r, i)
    BY Peaks!AfterDef DEF PkLoop
  <2> QED BY <1>0, <2>1
<1>2. ASSUME NEW n \in Nat, n \in S PROVE n + 1 \in S
  <2> SUFFICES ASSUME NEW l, NEW r, NEW i \in Nat, IsSeq(l), IsSeq(r), i <= Size(r) PROVE P(n + 1, l, r, i)
    OBVIOUS
  <2> DEFINE p == PowerBelow(Size(r))
  <2>0. Size(r) \in Nat /\ p \in Nat /\ n + 1 \in Nat
    BY SeqLen, PowerBelowDef
  <2>1. CASE i < p
    <3>1. \A a : IsSeq(a) => PkLoop(a, r, i, n + 1) = Pk(a, r, i)
      BY <2>0, <2>1, PkLoopStays
    <3> QED BY <1>0, <2>0, <3>1
  <2>2. CASE ~(i < p)
    <3> DEFINE x == One(FirstPeak(r))
               d == AfterPeak(r)
               j == i - p
    <3>1. Size(r) >= 1
      <4>1. Size(r) < 2 => p = 1
        BY <2>0, PowerBelowDef
      <4> QED BY <2>0, <2>2, <4>1
    <3>2. p <= Size(r) /\ IsSeq(d) /\ Size(d) = Size(r) - p
      BY <3>1, PeakFacts
    <3>3. j \in Nat /\ j <= Size(d)
      BY <2>0, <2>2, <3>2
    <3>4. IsSeq(x) /\ IsSeq(Nil) /\ IsSeq(Cat(l, x)) /\ IsSeq(Cat(Nil, x))
      BY OneSeq, NilSeq, CatSeq
    <3>5. P(n, Cat(l, x), d, j) /\ P(n, Cat(Nil, x), d, j)
      BY <1>2, <3>2, <3>3, <3>4
    <3>6. PkLoop(l, r, i, n + 1) = PkLoop(Cat(l, x), d, j, n)
      BY <2>0, <2>2, PkLoopFirst
    <3>7. PkLoop(Nil, r, i, n + 1) = PkLoop(Cat(Nil, x), d, j, n)
      BY <2>0, <2>2, <3>4, PkLoopFirst
    <3> DEFINE more == PkLoop(Nil, d, j, n).left
    <3> HIDE DEF x, d, j
    <3>8. /\ PkLoop(l, r, i, n + 1).left = Cat(Cat(l, x), more)
          /\ PkLoop(Nil, r, i, n + 1).left = Cat(Cat(Nil, x), more) /\ IsSeq(more)
      BY <3>5, <3>6, <3>7
    <3>9. Cat(Nil, x) = x /\ Cat(Cat(l, x), more) = Cat(l, Cat(x, more)) /\ IsSeq(Cat(x, more))
      BY <3>4, <3>8, CatNil, CatAssoc, CatSeq
    <3> HIDE DEF more
    <3>10. /\ PkLoop(l, r, i, n + 1).left = Cat(l, PkLoop(Nil, r, i, n + 1).left)
           /\ IsSeq(PkLoop(Nil, r, i, n + 1).left)
      BY <3>8, <3>9
    <3> QED BY <3>5, <3>6, <3>7, <3>10
  <2> QED BY <2>1, <2>2
<1> HIDE DEF S
<1>3. \A n \in Nat : n \in S
  BY <1>1, <1>2, Induction
<1> QED BY <1>3 DEF S

\* It ends within as many turns as there are leaves.
LEMMA PkLoopEnds ==
    \A n \in Nat : \A r : \A i \in Nat : IsSeq(r) /\ i <= Size(r) /\ Size(r) <= n =>
        \A l : IsSeq(l) => PassPeak(Nothing, PkLoop(l, r, i, n)) = PkLoop(l, r, i, n)
<1> DEFINE S == {n \in Nat : \A r : \A i \in Nat : IsSeq(r) /\ i <= Size(r) /\ Size(r) <= n =>
        \A l : IsSeq(l) => PassPeak(Nothing, PkLoop(l, r, i, n)) = PkLoop(l, r, i, n)}
<1>0. ASSUME NEW n \in Nat, NEW l, NEW r, NEW i \in Nat, IsSeq(l), IsSeq(r), i < PowerBelow(Size(r))
      PROVE  PassPeak(Nothing, PkLoop(l, r, i, n)) = PkLoop(l, r, i, n)
  <2>1. PowerBelow(Size(r)) \in Nat
    BY <1>0, SeqLen, PowerBelowDef
  <2>2. PkLoop(l, r, i, n) = Pk(l, r, i)
    BY <1>0, <2>1, PkLoopStays
  <2> QED BY <1>0, <2>1, <2>2, PassPeakAt
<1>1. 0 \in S
  <2> SUFFICES ASSUME NEW r, NEW i \in Nat, IsSeq(r), i <= Size(r), Size(r) <= 0, NEW l, IsSeq(l)
               PROVE  PassPeak(Nothing, PkLoop(l, r, i, 0)) = PkLoop(l, r, i, 0)
    OBVIOUS
  <2>0. Size(r) \in Nat
    BY SeqLen
  <2>1. Size(r) = 0 /\ i = 0
    BY <2>0
  <2>2. PowerBelow(Size(r)) = 1
    BY <2>1, PowerBelowDef
  <2> QED BY <1>0, <2>1, <2>2
<1>2. ASSUME NEW n \in Nat, n \in S PROVE n + 1 \in S
  <2> SUFFICES ASSUME NEW r, NEW i \in Nat, IsSeq(r), i <= Size(r), Size(r) <= n + 1, NEW l, IsSeq(l)
               PROVE  PassPeak(Nothing, PkLoop(l, r, i, n + 1)) = PkLoop(l, r, i, n + 1)
    OBVIOUS
  <2> HIDE DEF S
  <2> DEFINE p == PowerBelow(Size(r))
  <2>0. Size(r) \in Nat /\ p \in Nat /\ n + 1 \in Nat
    BY SeqLen, PowerBelowDef
  <2>1. CASE i < p
    BY <1>0, <2>0, <2>1
  <2>2. CASE ~(i < p)
    <3> DEFINE x == One(FirstPeak(r))
               d == AfterPeak(r)
               j == i - p
    <3>1. Size(r) >= 1
      <4>1. Size(r) < 2 => p = 1
        BY <2>0, PowerBelowDef
      <4> QED BY <2>0, <2>2, <4>1
    <3>2. p <= Size(r) /\ 1 <= p /\ IsSeq(d) /\ Size(d) = Size(r) - p
      BY <3>1, PeakFacts
    <3>3. j \in Nat /\ j <= Size(d) /\ Size(d) <= n
      BY <2>0, <2>2, <3>2
    <3>4. IsSeq(Cat(l, x))
      BY OneSeq, CatSeq
    <3>6. PkLoop(l, r, i, n + 1) = PkLoop(Cat(l, x), d, j, n)
      BY <2>0, <2>2, PkLoopFirst
    <3> HIDE DEF x, d, j
    <3>7. PassPeak(Nothing, PkLoop(Cat(l, x), d, j, n)) = PkLoop(Cat(l, x), d, j, n)
      BY <1>2, <3>2, <3>3, <3>4 DEF S
    <3> QED BY <3>6, <3>7
  <2> QED BY <2>1, <2>2
<1> HIDE DEF S
<1>3. \A n \in Nat : n \in S
  BY <1>1, <1>2, Induction
<1> QED BY <1>3 DEF S

\* PeaksBefore is that loop.
LEMMA PeaksBeforeIs == \A hs, i : PeaksBefore(hs, i) = PkLoop(Nil, hs, i, Size(hs))
BY DEF PeaksBefore, PkLoop, Pk, Nil, Size

\* No peak precedes a leaf below the first one;
LEMMA PeaksHere ==
    ASSUME NEW hs, IsSeq(hs), NEW i \in Nat, i < PowerBelow(Size(hs))
    PROVE  PeaksBefore(hs, i) = Pk(Nil, hs, i)
<1>1. Size(hs) \in Nat /\ PowerBelow(Size(hs)) \in Nat
  BY SeqLen, PowerBelowDef
<1> QED BY <1>1, PeaksBeforeIs, PkLoopStays, NilSeq

\* for any other, the first peak precedes those of the leaves after it.
LEMMA PeaksPast ==
    ASSUME NEW hs, IsSeq(hs), NEW i \in Nat, i <= Size(hs), NEW p, p = PowerBelow(Size(hs)), ~(i < p),
           NEW d, d = AfterPeak(hs), NEW j, j = i - p
    PROVE  /\ Size(hs) >= 1 /\ j \in Nat /\ j <= Size(d)
           /\ PeaksBefore(hs, i).left = Cat(One(FirstPeak(hs)), PeaksBefore(d, j).left)
           /\ PeaksBefore(hs, i).rest = PeaksBefore(d, j).rest
           /\ PeaksBefore(hs, i).index = PeaksBefore(d, j).index
           /\ IsSeq(PeaksBefore(d, j).left)
<1> DEFINE x == One(FirstPeak(hs))
           n == Size(hs) - 1
<1>0. Size(hs) \in Nat /\ p \in Nat
  BY SeqLen, PowerBelowDef
<1>1. Size(hs) >= 1
  <2>1. Size(hs) < 2 => p = 1
    BY <1>0, PowerBelowDef
  <2> QED BY <1>0, <2>1
<1>2. p <= Size(hs) /\ 1 <= p /\ IsSeq(d) /\ Size(d) = Size(hs) - p
  BY <1>1, PeakFacts
<1>3. j \in Nat /\ j <= Size(d) /\ Size(d) <= n /\ n \in Nat /\ Size(hs) = n + 1 /\ Size(d) \in Nat
  BY <1>0, <1>1, <1>2
<1>4. IsSeq(x) /\ IsSeq(Nil) /\ Cat(Nil, x) = x
  BY OneSeq, NilSeq, CatNil
<1> HIDE DEF n
<1>5. PkLoop(Nil, hs, i, Size(hs)) = PkLoop(x, d, j, n)
  <2>1. PkLoop(Nil, hs, i, Size(hs)) = PkLoop(Cat(Nil, x), d, j, n)
    BY <1>0, <1>3, <1>4, PkLoopFirst
  <2> QED BY <1>4, <2>1
<1> HIDE DEF x
<1>6. PkLoop(Nil, d, j, n) = PkLoop(Nil, d, j, Size(d))
  <2>0. Size(d) <= Size(d)
    BY <1>3
  <2>1. PassPeak(Nothing, PkLoop(Nil, d, j, Size(d))) = PkLoop(Nil, d, j, Size(d))
    BY <1>2, <1>3, <1>4, <2>0, PkLoopEnds
  <2>2. n >= Size(d)
    BY <1>3
  <2> QED BY <1>3, <2>1, <2>2, Peaks!AfterFixed DEF PkLoop
<1>7. /\ PkLoop(x, d, j, n).left = Cat(x, PkLoop(Nil, d, j, n).left)
      /\ PkLoop(x, d, j, n).rest = PkLoop(Nil, d, j, n).rest
      /\ PkLoop(x, d, j, n).index = PkLoop(Nil, d, j, n).index
      /\ IsSeq(PkLoop(Nil, d, j, n).left)
  BY <1>2, <1>3, <1>4, PkLoopAdds
<1>8. PeaksBefore(hs, i) = PkLoop(Nil, hs, i, Size(hs)) /\ PeaksBefore(d, j) = PkLoop(Nil, d, j, Size(d))
  BY PeaksBeforeIs
<1> QED BY <1>1, <1>3, <1>5, <1>6, <1>7, <1>8 DEF x

----------------------------------------------------------------------------
(* The root of a range, and the shape of its proofs                         *)

\* All elements of a sequence.
LEMMA TakeAll ==
    ASSUME NEW s, IsSeq(s)
    PROVE  Take(s, Size(s)) = s
<1>1. Size(s) \in Nat
  BY SeqLen
<1>2. Size(s) <= Size(s)
  BY <1>1
<1> QED BY <1>1, <1>2, TakeSeq, SameSeq

\* The peaks are the first one, then those of the leaves after it.
LEMMA PeaksSteps ==
    ASSUME NEW hs, IsSeq(hs), Size(hs) >= 1
    PROVE  /\ IsSeq(peaks(AfterPeak(hs)))
           /\ peaks(hs) = Cat(One(FirstPeak(hs)), peaks(AfterPeak(hs)))
<1> DEFINE n == Size(hs)
           p == PowerBelow(n)
           d == AfterPeak(hs)
<1>1. n \in Nat /\ p \in Nat /\ p <= n /\ Size(d) = n - p
  BY PeakFacts
<1>2. ~(n < p) /\ n <= n
  BY <1>1
<1>3. /\ PeaksBefore(hs, n).left = Cat(One(FirstPeak(hs)), PeaksBefore(d, n - p).left)
      /\ IsSeq(PeaksBefore(d, n - p).left)
  <2> HIDE DEF n, d
  <2>1. n = Size(hs) /\ d = AfterPeak(hs)
    BY DEF n, d
  <2> QED BY <1>1, <1>2, <2>1, PeaksPast
<1>4. \A s : peaks(s) = PeaksBefore(s, Size(s)).left
  BY DEF peaks, Size
<1> HIDE DEF n, d
<1>5. peaks(hs) = PeaksBefore(hs, n).left /\ peaks(d) = PeaksBefore(d, n - p).left
  BY <1>1, <1>4 DEF n
<1> QED BY <1>3, <1>5 DEF d

\* No leaves, no peaks.
LEMMA PeaksNil == peaks(Nil) = Nil
<1>1. PowerBelow(Size(Nil)) = 1 /\ IsSeq(Nil) /\ Size(Nil) = 0
  BY NilSeq, PowerBelowDef
<1>2. PeaksBefore(Nil, 0) = Pk(Nil, Nil, 0)
  BY <1>1, PeaksHere
<1>3. peaks(Nil) = PeaksBefore(Nil, 0).left
  BY <1>1 DEF peaks, Size
<1> QED BY <1>2, <1>3 DEF Pk

\* The root of a range is its only peak, or its first peak and the root of
\* the rest.
LEMMA RootOverSteps ==
    ASSUME NEW hs, IsSeq(hs), NEW n, n = Size(hs), n >= 1, NEW p, p = PowerBelow(n)
    PROVE  /\ n = p => RootOver(hs) = FirstPeak(hs)
           /\ n # p => RootOver(hs) = hash_peaks(FirstPeak(hs), RootOver(AfterPeak(hs)))
<1> DEFINE d == AfterPeak(hs)
           x == FirstPeak(hs)
<1>1. n \in Nat /\ p \in Nat /\ p <= n /\ IsSeq(d) /\ Size(d) = n - p
  BY PeakFacts
<1>2. IsSeq(peaks(d)) /\ peaks(hs) = Cat(One(x), peaks(d))
  BY PeaksSteps
<1> HIDE DEF d, x
<1>3. ASSUME n = p PROVE RootOver(hs) = x
  <2>0. \A a, b \in Nat : a = b => a - b = 0
    OBVIOUS
  <2>00. Size(d) = 0
    BY <1>1, <1>3, <2>0
  <2>1. d = Nil
    BY <1>1, <2>00, NilSeq
  <2>2. peaks(hs) = One(x)
    BY <1>2, <2>1, PeaksNil, OneSeq, CatNil
  <2> QED BY <2>2, BagOne DEF RootOver
<1>4. ASSUME n # p PROVE RootOver(hs) = hash_peaks(x, RootOver(d))
  <2>1. Size(d) >= 1
    BY <1>1, <1>4
  <2>2. /\ IsSeq(peaks(AfterPeak(d)))
        /\ peaks(d) = Cat(One(FirstPeak(d)), peaks(AfterPeak(d)))
    BY <1>1, <2>1, PeaksSteps
  <2>3. ~Empty(peaks(d))
    BY <2>2, ConsSeq
  <2> QED BY <1>2, <2>3, BagCons DEF RootOver
<1> QED BY <1>3, <1>4 DEF d, x

Sh(left, count, index) == [left |-> left, count |-> count, index |-> index]

ShLoop(left, count, index, n) == Shape!After(Nothing, Sh(left, count, index), n)

\* One turn of the same loop on sizes alone, as the verifier runs it.
LEMMA PassCountAt ==
    ASSUME NEW l \in Nat, NEW c \in Nat, NEW i \in Nat, NEW p, p = PowerBelow(c)
    PROVE  /\ i < p => PassCount(Nothing, Sh(l, c, i)) = Sh(l, c, i)
           /\ ~(i < p) => PassCount(Nothing, Sh(l, c, i)) = Sh(l + 1, c - p, i - p)
<1>0. p \in Nat
  BY PowerBelowDef
<1>2. Sh(l, c, i).left = l /\ Sh(l, c, i).count = c /\ Sh(l, c, i).index = i
  BY DEF Sh
<1>3. ASSUME i < p PROVE PassCount(Nothing, Sh(l, c, i)) = Sh(l, c, i)
  BY <1>2, <1>3 DEF PassCount
<1>4. ASSUME ~(i < p) PROVE PassCount(Nothing, Sh(l, c, i)) = Sh(l + 1, c - p, i - p)
  BY <1>0, <1>4 DEF PassCount, Sh
<1> QED BY <1>3, <1>4

\* The verifier's loop is the prover's, with counts for sequences.
LEMMA ShapeMatches ==
    \A n \in Nat : \A l, r : \A i \in Nat : IsSeq(l) /\ IsSeq(r) /\ i <= Size(r) =>
        LET m == PkLoop(l, r, i, n) IN
        /\ IsSeq(m.left) /\ IsSeq(m.rest) /\ m.index \in Nat
        /\ ShLoop(Size(l), Size(r), i, n) = Sh(Size(m.left), Size(m.rest), m.index)
<1> DEFINE P(n, l, r, i) ==
               LET m == PkLoop(l, r, i, n) IN
               /\ IsSeq(m.left) /\ IsSeq(m.rest) /\ m.index \in Nat
               /\ ShLoop(Size(l), Size(r), i, n) = Sh(Size(m.left), Size(m.rest), m.index)
           S == {n \in Nat : \A l, r : \A i \in Nat : IsSeq(l) /\ IsSeq(r) /\ i <= Size(r) => P(n, l, r, i)}
<1>0. ASSUME NEW n \in Nat, NEW l, NEW r, NEW i \in Nat, IsSeq(l), IsSeq(r), PkLoop(l, r, i, n) = Pk(l, r, i),
             ShLoop(Size(l), Size(r), i, n) = Sh(Size(l), Size(r), i)
      PROVE  P(n, l, r, i)
  <2>1. Pk(l, r, i).left = l /\ Pk(l, r, i).rest = r /\ Pk(l, r, i).index = i
    BY DEF Pk
  <2> QED BY <1>0, <2>1
<1>1. 0 \in S
  <2> SUFFICES ASSUME NEW l, NEW r, NEW i \in Nat, IsSeq(l), IsSeq(r) PROVE P(0, l, r, i)
    OBVIOUS
  <2>1. PkLoop(l, r, i, 0) = Pk(l, r, i) /\ ShLoop(Size(l), Size(r), i, 0) = Sh(Size(l), Size(r), i)
    BY Peaks!AfterDef, Shape!AfterDef DEF PkLoop, ShLoop
  <2> QED BY <1>0, <2>1
<1>2. ASSUME NEW n \in Nat, n \in S PROVE n + 1 \in S
  <2> SUFFICES ASSUME NEW l, NEW r, NEW i \in Nat, IsSeq(l), IsSeq(r), i <= Size(r) PROVE P(n + 1, l, r, i)
    OBVIOUS
  <2> DEFINE p == PowerBelow(Size(r))
             sh == Sh(Size(l), Size(r), i)
  <2>0. Size(l) \in Nat /\ Size(r) \in Nat /\ p \in Nat /\ n + 1 \in Nat
    BY SeqLen, PowerBelowDef
  <2>1. CASE i < p
    <3>1. PkLoop(l, r, i, n + 1) = Pk(l, r, i)
      BY <2>0, <2>1, PkLoopStays
    <3>2. PassCount(Nothing, sh) = sh
      BY <2>0, <2>1, PassCountAt
    <3>3. Shape!After(Nothing, sh, 0) = sh /\ 0 \in Nat /\ n + 1 >= 0
      BY Shape!AfterDef
    <3> HIDE DEF sh
    <3>4. Shape!After(Nothing, sh, n + 1) = sh
      BY <2>0, <3>2, <3>3, Shape!AfterFixed
    <3>5. ShLoop(Size(l), Size(r), i, n + 1) = Sh(Size(l), Size(r), i)
      BY <3>4 DEF ShLoop, sh
    <3> QED BY <1>0, <2>0, <3>1, <3>5
  <2>2. CASE ~(i < p)
    <3> DEFINE x == One(FirstPeak(r))
               d == AfterPeak(r)
               j == i - p
    <3>1. Size(r) >= 1
      <4>1. Size(r) < 2 => p = 1
        BY <2>0, PowerBelowDef
      <4> QED BY <2>0, <2>2, <4>1
    <3>2. p <= Size(r) /\ 1 <= p /\ IsSeq(d) /\ Size(d) = Size(r) - p
      BY <3>1, PeakFacts
    <3>3. j \in Nat /\ j <= Size(d)
      BY <2>0, <2>2, <3>2
    <3>4. IsSeq(Cat(l, x)) /\ Size(Cat(l, x)) = Size(l) + 1
      BY OneSeq, CatSeq
    <3>5. PkLoop(l, r, i, n + 1) = PkLoop(Cat(l, x), d, j, n)
      BY <2>0, <2>2, PkLoopFirst
    <3>6. PassCount(Nothing, sh) = Sh(Size(l) + 1, Size(r) - p, j)
      BY <2>0, <2>2, PassCountAt
    <3>7. ShLoop(Size(l), Size(r), i, n + 1) = ShLoop(Size(Cat(l, x)), Size(d), j, n)
      <4> HIDE DEF p, j
      <4> QED BY <3>2, <3>4, <3>6, Shape!AfterFirst DEF ShLoop
    <3> HIDE DEF x, d, j
    <3>8. P(n, Cat(l, x), d, j)
      BY <1>2, <3>2, <3>3, <3>4
    <3> QED BY <3>5, <3>7, <3>8
  <2> QED BY <2>1, <2>2
<1> HIDE DEF S
<1>3. \A n \in Nat : n \in S
  BY <1>1, <1>2, Induction
<1> QED BY <1>3 DEF S

\* Where a leaf is: under the first peak of what remains.
Placed(hs, i, m) ==
    /\ IsSeq(m.left) /\ IsSeq(m.rest) /\ m.index \in Nat
    /\ Size(m.rest) >= 1
    /\ m.index < PowerBelow(Size(m.rest))
    /\ m.rest[m.index + 1] = hs[i + 1]

\* Prover and verifier agree on the peak a leaf is below.
LEMMA LeafPlaced ==
    \A n \in Nat : \A hs : \A i \in Nat : IsSeq(hs) /\ Size(hs) = n /\ i < n =>
        Placed(hs, i, PeaksBefore(hs, i))
<1> DEFINE S == {n \in Nat : \A hs : \A i \in Nat : IsSeq(hs) /\ Size(hs) = n /\ i < n =>
        Placed(hs, i, PeaksBefore(hs, i))}
<1>1. ASSUME NEW n \in Nat, \A m \in 0..(n - 1) : m \in S PROVE n \in S
  <2> SUFFICES ASSUME NEW hs, NEW i \in Nat, IsSeq(hs), Size(hs) = n, i < n
               PROVE  Placed(hs, i, PeaksBefore(hs, i))
    OBVIOUS
  <2> HIDE DEF S
  <2> DEFINE p == PowerBelow(n)
  <2>0. p \in Nat /\ 1 <= p /\ p <= n /\ n >= 1
    BY PeakFacts
  <2>1. CASE i < p
    <3>1. PeaksBefore(hs, i) = Pk(Nil, hs, i)
      BY <2>1, PeaksHere
    <3>2. Placed(hs, i, Pk(Nil, hs, i))
      BY <2>0, <2>1, NilSeq DEF Placed, Pk
    <3> QED BY <3>1, <3>2
  <2>2. CASE ~(i < p)
    <3> DEFINE d == AfterPeak(hs)
               j == i - p
               a == PeaksBefore(hs, i)
               b == PeaksBefore(d, j)
    <3>1. IsSeq(d) /\ Size(d) = n - p
      BY <2>0, PeakFacts
    <3>2. /\ a.left = Cat(One(FirstPeak(hs)), b.left) /\ a.rest = b.rest /\ a.index = b.index
          /\ IsSeq(b.left)
      <4> HIDE DEF d, j, p
      <4>1. p = PowerBelow(Size(hs)) /\ d = AfterPeak(hs) /\ j = i - p /\ i <= Size(hs)
        BY DEF p, d, j
      <4> QED BY <2>2, <4>1, PeaksPast
    <3>3. j \in Nat /\ j < n - p /\ n - p \in 0..(n - 1)
      BY <2>0, <2>2
    <3>4. d[j + 1] = hs[i + 1]
      <4>1. j + 1 \in 1..(n - p) /\ p + (j + 1) = i + 1
        BY <2>0, <3>3
      <4>2. \A k \in 1..(n - p) : d[k] = hs[p + k]
        BY <2>0, DropSeq DEF AfterPeak
      <4>3. d[j + 1] = hs[p + (j + 1)]
        <5> HIDE DEF d, j, p
        <5> QED BY <4>1, <4>2
      <4> QED BY <4>1, <4>3
    <3> HIDE DEF a, b, d, j, p
    <3>5. Placed(d, j, b)
      BY <1>1, <3>1, <3>3 DEF S, b
    <3>6. IsSeq(a.left)
      BY <3>2, ConsSeq
    <3>7. Placed(hs, i, a)
      BY <3>2, <3>4, <3>5, <3>6 DEF Placed
    <3> QED BY <3>7 DEF a
  <2> QED BY <2>1, <2>2
<1> HIDE DEF S
<1>2. \A n \in Nat : n \in S
  BY <1>1, CourseOfValues
<1> QED BY <1>2 DEF S

----------------------------------------------------------------------------
(* Proofs of leaves                                                         *)

\* The peaks that a verifier bags.
AllPeaks(left, peak, right) == Cat(Cat(left, One(peak)), right)

\* The peaks around a leaf when none is on its left,
LEMMA AllPeaksNil ==
    ASSUME NEW x, NEW t, IsSeq(t)
    PROVE  AllPeaks(Nil, x, t) = Cat(One(x), t)
BY OneSeq, CatNil DEF AllPeaks

\* and when there are some.
LEMMA AllPeaksCons ==
    ASSUME NEW f, NEW l, IsSeq(l), NEW x, NEW t, IsSeq(t)
    PROVE  /\ AllPeaks(Cat(One(f), l), x, t) = Cat(One(f), AllPeaks(l, x, t))
           /\ IsSeq(AllPeaks(l, x, t)) /\ ~Empty(AllPeaks(l, x, t))
<1>1. IsSeq(One(f)) /\ IsSeq(One(x)) /\ Size(One(x)) = 1
  BY OneSeq
<1>2. IsSeq(Cat(l, One(x))) /\ Size(Cat(l, One(x))) = Size(l) + 1 /\ Size(l) \in Nat /\ Size(t) \in Nat
  BY <1>1, CatSeq, SeqLen
<1>3. IsSeq(AllPeaks(l, x, t)) /\ Size(AllPeaks(l, x, t)) = Size(l) + 1 + Size(t)
  BY <1>2, CatSeq DEF AllPeaks
<1>4. Size(AllPeaks(l, x, t)) # 0
  BY <1>2, <1>3
<1>5. ~Empty(AllPeaks(l, x, t))
  BY <1>3, <1>4, NilSeq
<1>6. Cat(Cat(One(f), l), One(x)) = Cat(One(f), Cat(l, One(x)))
  BY <1>1, CatAssoc
<1>7. Cat(Cat(One(f), Cat(l, One(x))), t) = Cat(One(f), Cat(Cat(l, One(x)), t))
  BY <1>1, <1>2, CatAssoc
<1> QED BY <1>3, <1>5, <1>6, <1>7 DEF AllPeaks

\* The item of a proof for the peaks to the right.
RightItem(rest) == IF Size(rest) = PowerBelow(Size(rest)) THEN Nil ELSE One(RootOver(AfterPeak(rest)))

\* The peaks a range really has give its root, and no other peak at the
\* place of the leaf's own does.
Bound(hs, i) ==
    LET m == PeaksBefore(hs, i) IN
    /\ bag_peaks(AllPeaks(m.left, FirstPeak(m.rest), RightItem(m.rest))) = RootOver(hs)
    /\ \A l, x, t :
          /\ IsSeq(l) /\ Size(l) = Size(m.left)
          /\ IsSeq(t) /\ Size(t) = Size(RightItem(m.rest))
          /\ bag_peaks(AllPeaks(l, x, t)) = RootOver(hs)
          => x = FirstPeak(m.rest)

\* The peaks on the right are bagged into one item, or into none.
LEMMA RightItemSeq ==
    \A r : /\ IsSeq(RightItem(r))
           /\ Size(r) = PowerBelow(Size(r)) => Size(RightItem(r)) = 0
           /\ Size(r) # PowerBelow(Size(r)) => Size(RightItem(r)) = 1
BY NilSeq, OneSeq DEF RightItem

\* The root binds a leaf below the first peak,
LEMMA BoundHere ==
    ASSUME NEW hs, IsSeq(hs), Size(hs) >= 1, NEW i \in Nat, i < PowerBelow(Size(hs))
    PROVE  Bound(hs, i)
<1> DEFINE n == Size(hs)
           p == PowerBelow(n)
           y == FirstPeak(hs)
           z == RootOver(AfterPeak(hs))
<1>1. PeaksBefore(hs, i) = Pk(Nil, hs, i)
  BY PeaksHere
<1>2. Pk(Nil, hs, i).left = Nil /\ Pk(Nil, hs, i).rest = hs
  BY DEF Pk
<1>3. ASSUME NEW l, NEW x, NEW t, IsSeq(l), Size(l) = Size(Nil), IsSeq(t), Size(t) = Size(RightItem(hs))
      PROVE  /\ n = p => bag_peaks(AllPeaks(l, x, t)) = x
             /\ n # p => \E w : t = One(w) /\ bag_peaks(AllPeaks(l, x, t)) = hash_peaks(x, w)
  <2>1. l = Nil
    BY <1>3, NilSeq
  <2>2. AllPeaks(l, x, t) = Cat(One(x), t)
    BY <1>3, <2>1, AllPeaksNil
  <2>3. ASSUME n = p PROVE bag_peaks(AllPeaks(l, x, t)) = x
    <3>1. t = Nil
      BY <1>3, <2>3, RightItemSeq, NilSeq
    <3>2. AllPeaks(l, x, t) = One(x)
      BY <2>2, <3>1, OneSeq, CatNil
    <3> QED BY <3>2, BagOne
  <2>4. ASSUME n # p PROVE \E w : t = One(w) /\ bag_peaks(AllPeaks(l, x, t)) = hash_peaks(x, w)
    <3>1. Size(t) = 1
      BY <1>3, <2>4, RightItemSeq
    <3>2. ~Empty(t)
      BY <1>3, <3>1, NilSeq
    <3>3. IsSeq(Rest(t)) /\ Size(Rest(t)) = 0 /\ t = Cat(One(First(t)), Rest(t))
      BY <1>3, <3>1, <3>2, RestSeq, ConsForm
    <3>4. Rest(t) = Nil
      BY <3>3, NilSeq
    <3>5. t = One(First(t))
      BY <3>3, <3>4, OneSeq, CatNil
    <3>6. bag_peaks(AllPeaks(l, x, t)) = hash_peaks(x, bag_peaks(t))
      BY <1>3, <2>2, <3>2, BagCons
    <3> DEFINE w == First(t)
    <3> HIDE DEF w
    <3>7. t = One(w)
      BY <3>5 DEF w
    <3>8. bag_peaks(t) = w
      BY <3>7, BagOne
    <3> QED BY <3>6, <3>7, <3>8
  <2> QED BY <2>3, <2>4
<1>4. /\ n = p => RootOver(hs) = y
      /\ n # p => RootOver(hs) = hash_peaks(y, z)
  BY RootOverSteps
<1>5. IsSeq(Nil) /\ IsSeq(RightItem(hs))
  BY NilSeq, RightItemSeq
<1> HIDE DEF y, z
<1>6. CASE n = p
  <2>1. bag_peaks(AllPeaks(Nil, y, RightItem(hs))) = RootOver(hs)
    BY <1>3, <1>4, <1>5, <1>6
  <2>2. ASSUME NEW l, NEW x, NEW t, IsSeq(l), Size(l) = Size(Nil), IsSeq(t), Size(t) = Size(RightItem(hs)),
               bag_peaks(AllPeaks(l, x, t)) = RootOver(hs)
        PROVE  x = y
    BY <1>3, <1>4, <1>6, <2>2
  <2> QED BY <1>1, <1>2, <2>1, <2>2 DEF Bound, y
<1>7. CASE n # p
  <2>1. bag_peaks(AllPeaks(Nil, y, RightItem(hs))) = RootOver(hs)
    <3>1. RightItem(hs) = One(z)
      BY <1>7 DEF RightItem, z
    <3>2. PICK w : RightItem(hs) = One(w) /\ bag_peaks(AllPeaks(Nil, y, RightItem(hs))) = hash_peaks(y, w)
      BY <1>3, <1>5, <1>7
    <3>3. One(w)[1] = w /\ One(z)[1] = z
      BY OneSeq
    <3>4. w = z
      BY <3>1, <3>2, <3>3
    <3> QED BY <1>4, <1>7, <3>2, <3>4
  <2>2. ASSUME NEW l, NEW x, NEW t, IsSeq(l), Size(l) = Size(Nil), IsSeq(t), Size(t) = Size(RightItem(hs)),
               bag_peaks(AllPeaks(l, x, t)) = RootOver(hs)
        PROVE  x = y
    <3>1. PICK w : bag_peaks(AllPeaks(l, x, t)) = hash_peaks(x, w)
      BY <1>3, <1>7, <2>2
    <3>2. hash_peaks(x, w) = hash_peaks(y, z)
      BY <1>4, <1>7, <2>2, <3>1
    <3> QED BY <3>2, PeaksInjective
  <2> QED BY <1>1, <1>2, <2>1, <2>2 DEF Bound, y
<1> QED BY <1>6, <1>7

\* a leaf beyond it if the peaks after it bind it,
LEMMA BoundPast ==
    ASSUME NEW hs, IsSeq(hs), NEW i \in Nat, i < Size(hs), ~(i < PowerBelow(Size(hs))),
           NEW d, d = AfterPeak(hs), NEW j, j = i - PowerBelow(Size(hs)), Bound(d, j),
           NEW b, b = PeaksBefore(d, j), IsSeq(b.rest)
    PROVE  Bound(hs, i)
<1> DEFINE n == Size(hs)
           p == PowerBelow(n)
           a == PeaksBefore(hs, i)
           f == FirstPeak(hs)
<1>0. n \in Nat /\ p \in Nat
  BY SeqLen, PowerBelowDef
<1>1. /\ n >= 1 /\ a.left = Cat(One(f), b.left) /\ a.rest = b.rest /\ IsSeq(b.left)
  <2>1. i <= Size(hs)
    BY <1>0
  <2> QED BY <2>1, PeaksPast
<1>2. n # p
  BY <1>0
<1>3. RootOver(hs) = hash_peaks(f, RootOver(d))
  BY <1>1, <1>2, RootOverSteps
<1> HIDE DEF a, f
<1> DEFINE y == FirstPeak(b.rest)
           right == RightItem(b.rest)
<1>4. IsSeq(right)
  BY RightItemSeq
<1>5. /\ bag_peaks(AllPeaks(b.left, y, right)) = RootOver(d)
      /\ \A l, x, t : /\ IsSeq(l) /\ Size(l) = Size(b.left)
                      /\ IsSeq(t) /\ Size(t) = Size(right)
                      /\ bag_peaks(AllPeaks(l, x, t)) = RootOver(d)
                      => x = y
  BY DEF Bound
<1> HIDE DEF y, right
<1>6. ASSUME NEW g, NEW l, IsSeq(l), NEW x, NEW t, IsSeq(t)
      PROVE  bag_peaks(AllPeaks(Cat(One(g), l), x, t)) = hash_peaks(g, bag_peaks(AllPeaks(l, x, t)))
  BY <1>6, AllPeaksCons, BagCons
<1>7. bag_peaks(AllPeaks(a.left, y, right)) = RootOver(hs)
  BY <1>1, <1>3, <1>4, <1>5, <1>6
<1>8. ASSUME NEW l, NEW x, NEW t, IsSeq(l), Size(l) = Size(a.left), IsSeq(t), Size(t) = Size(right),
             bag_peaks(AllPeaks(l, x, t)) = RootOver(hs)
      PROVE  x = y
  <2>0. Size(a.left) = 1 + Size(b.left) /\ Size(b.left) \in Nat
    BY <1>1, ConsSeq, SeqLen
  <2>1. Size(l) # 0
    BY <1>8, <2>0
  <2>2. ~Empty(l)
    BY <1>8, <2>1, NilSeq
  <2> DEFINE g == First(l)
             k == Rest(l)
  <2>3. IsSeq(k) /\ l = Cat(One(g), k) /\ Size(l) = 1 + Size(k) /\ Size(k) \in Nat
    BY <1>8, <2>2, ConsForm, SeqLen
  <2> HIDE DEF g, k
  <2>4. Size(k) = Size(b.left)
    BY <1>8, <2>0, <2>3
  <2>5. bag_peaks(AllPeaks(l, x, t)) = hash_peaks(g, bag_peaks(AllPeaks(k, x, t)))
    BY <1>6, <1>8, <2>3
  <2>6. hash_peaks(g, bag_peaks(AllPeaks(k, x, t))) = hash_peaks(f, RootOver(d))
    BY <1>3, <1>8, <2>5
  <2>7. bag_peaks(AllPeaks(k, x, t)) = RootOver(d)
    BY <2>6, PeaksInjective
  <2> QED BY <1>5, <1>8, <2>3, <2>4, <2>7
<1> QED BY <1>1, <1>7, <1>8 DEF Bound, y, right, a

\* and so every leaf.
LEMMA RootBinds ==
    \A n \in Nat : \A hs : \A i \in Nat : IsSeq(hs) /\ Size(hs) = n /\ i < n => Bound(hs, i)
<1> DEFINE S == {n \in Nat : \A hs : \A i \in Nat : IsSeq(hs) /\ Size(hs) = n /\ i < n => Bound(hs, i)}
<1>1. ASSUME NEW n \in Nat, \A m \in 0..(n - 1) : m \in S PROVE n \in S
  <2> SUFFICES ASSUME NEW hs, NEW i \in Nat, IsSeq(hs), Size(hs) = n, i < n PROVE Bound(hs, i)
    OBVIOUS
  <2> HIDE DEF S
  <2> DEFINE p == PowerBelow(n)
  <2>0. p \in Nat /\ 1 <= p /\ p <= n /\ n >= 1
    BY PeakFacts
  <2>1. CASE i < p
    BY <2>0, <2>1, BoundHere
  <2>2. CASE ~(i < p)
    <3> DEFINE d == AfterPeak(hs)
               j == i - p
    <3>1. IsSeq(d) /\ Size(d) = n - p
      BY <2>0, PeakFacts
    <3>2. j \in Nat /\ j < n - p /\ n - p \in 0..(n - 1) /\ n - p \in Nat
      BY <2>0, <2>2
    <3>3. Bound(d, j) /\ Placed(d, j, PeaksBefore(d, j))
      <4> HIDE DEF d, j, p
      <4>1. Bound(d, j)
        BY <1>1, <3>1, <3>2 DEF S
      <4>2. Placed(d, j, PeaksBefore(d, j))
        BY <3>1, <3>2, LeafPlaced
      <4> QED BY <4>1, <4>2
    <3>4. IsSeq(PeaksBefore(d, j).rest)
      BY <3>3 DEF Placed
    <3> QED BY <2>2, <3>3, <3>4, BoundPast
  <2> QED BY <2>1, <2>2
<1> HIDE DEF S
<1>2. \A n \in Nat : n \in S
  BY <1>1, CourseOfValues
<1> QED BY <1>2 DEF S

----------------------------------------------------------------------------
(* Proofs of leaves of a range verify, and bind their position              *)

Slice(s, a, b) == SubSeq(s, a, b)

\* A stretch of h elements after the first l.
LEMMA SliceSeq ==
    ASSUME NEW s, IsSeq(s), NEW l \in Nat, NEW h \in Nat, l + h <= Size(s)
    PROVE  /\ IsSeq(Slice(s, l + 1, l + h)) /\ Size(Slice(s, l + 1, l + h)) = h
           /\ \A i \in 1..h : Slice(s, l + 1, l + h)[i] = s[l + i]
<1>1. l + 1 \in Nat /\ l + h \in Nat /\ 1 <= l + 1 /\ l + 1 <= (l + h) + 1 /\ (l + h) - (l + 1) + 1 = h
  OBVIOUS
<1>2. /\ IsSeq(SubSeq(s, l + 1, l + h))
      /\ Size(SubSeq(s, l + 1, l + h)) = (l + h) - (l + 1) + 1
      /\ \A i \in 1..((l + h) - (l + 1) + 1) : SubSeq(s, l + 1, l + h)[i] = s[(l + 1) + i - 1]
  BY <1>1, SubSeqSeq
<1>3. \A i \in 1..h : (l + 1) + i - 1 = l + i
  OBVIOUS
<1> QED BY <1>1, <1>2, <1>3 DEF Slice

\* The three parts of a proof.
LEMMA ThreeParts ==
    ASSUME NEW a, NEW b, NEW c, IsSeq(a), IsSeq(b), IsSeq(c),
           NEW l \in Nat, l = Size(a), NEW h \in Nat, h = Size(b), NEW s, s = Cat(Cat(a, b), c)
    PROVE  /\ IsSeq(s) /\ l \in Nat /\ h \in Nat /\ Size(s) = l + h + Size(c)
           /\ Take(s, l) = a /\ Slice(s, l + 1, l + h) = b /\ Drop(s, l + h) = c
<1> DEFINE z == Size(c)
           ab == Cat(a, b)
<1>1. l \in Nat /\ h \in Nat /\ z \in Nat
  BY SeqLen
<1>2. /\ IsSeq(ab) /\ Size(ab) = l + h
      /\ \A i \in 1..l : ab[i] = a[i]
      /\ \A i \in 1..h : ab[l + i] = b[i]
  BY CatSeq
<1> HIDE DEF ab
<1>3. /\ IsSeq(s) /\ Size(s) = (l + h) + z
      /\ \A i \in 1..(l + h) : s[i] = ab[i]
      /\ \A i \in 1..z : s[(l + h) + i] = c[i]
  BY <1>2, CatSeq DEF ab, z
<1> HIDE DEF z
<1>4. Take(s, l) = a
  <2>1. l <= Size(s)
    BY <1>1, <1>3
  <2>2. IsSeq(Take(s, l)) /\ Size(Take(s, l)) = l /\ \A i \in 1..l : Take(s, l)[i] = s[i]
    BY <1>1, <1>3, <2>1, TakeSeq
  <2>3. \A i \in 1..l : s[i] = a[i]
    BY <1>1, <1>2, <1>3
  <2> QED BY <2>2, <2>3, SameSeq
<1>5. Slice(s, l + 1, l + h) = b
  <2>1. l + h <= Size(s)
    BY <1>1, <1>3
  <2>2. /\ IsSeq(Slice(s, l + 1, l + h)) /\ Size(Slice(s, l + 1, l + h)) = h
        /\ \A i \in 1..h : Slice(s, l + 1, l + h)[i] = s[l + i]
    BY <1>1, <1>3, <2>1, SliceSeq
  <2>3. \A i \in 1..h : s[l + i] = b[i]
    <3> TAKE i \in 1..h
    <3>1. l + i \in 1..(l + h)
      BY <1>1
    <3> QED BY <1>2, <1>3, <3>1
  <2> QED BY <2>2, <2>3, SameSeq
<1>6. Drop(s, l + h) = c
  <2>0. \A x, y, w \in Nat : w = (x + y) + z /\ z \in Nat => x + y \in Nat /\ x + y <= w /\ w - (x + y) = z
    OBVIOUS
  <2>1. l + h \in Nat /\ l + h <= Size(s) /\ Size(s) - (l + h) = z
    BY <1>1, <1>3, <2>0, SeqLen
  <2>2. /\ IsSeq(Drop(s, l + h)) /\ Size(Drop(s, l + h)) = z
        /\ \A i \in 1..z : Drop(s, l + h)[i] = s[(l + h) + i]
    <3> DEFINE k == l + h
    <3>1. k \in Nat /\ k <= Size(s) /\ Size(s) - k = z
      BY <2>1
    <3> HIDE DEF k
    <3>2. /\ IsSeq(Drop(s, k)) /\ Size(Drop(s, k)) = z
          /\ \A i \in 1..z : Drop(s, k)[i] = s[k + i]
      BY <1>3, <3>1, DropSeq
    <3> QED BY <3>2 DEF k
  <2>3. \A i \in 1..z : Drop(s, l + h)[i] = c[i]
    BY <1>3, <2>2
  <2> QED BY <2>2, <2>3, SameSeq DEF z
<1> QED BY <1>1, <1>3, <1>4, <1>5, <1>6 DEF z

\* Where the verifier looks, and what the range has there.
InRange(hs, i, m, at, h, tree) ==
    /\ IsSeq(m.left) /\ IsSeq(m.rest) /\ m.index \in Nat
    /\ at = Sh(Size(m.left), Size(m.rest), m.index)
    /\ h \in Nat /\ h = ilog2(Size(m.rest))
    /\ PowerBelow(Size(m.rest)) = Shift(h)
    /\ IsSeq(tree) /\ Size(tree) = Shift(h) /\ m.index < Shift(h)
    /\ tree = Take(m.rest, Shift(h))
    /\ FirstPeak(m.rest) = merkle_root(tree)
    /\ tree[m.index + 1] = hs[i + 1]
    /\ mmr_proof_len(i, Size(hs)) = Size(m.left) + h + Size(RightItem(m.rest))
    /\ Size(m.rest) # 0

\* The leaf is inside its peak's perfect tree.
LEMMA LeafInRange ==
    ASSUME NEW hs, IsSeq(hs), NEW i \in Nat, i < Size(hs), NEW m, m = PeaksBefore(hs, i),
           NEW at, at = PeakAt(i, Size(hs)), NEW h, h = ilog2(Size(m.rest)),
           NEW tree, tree = Take(m.rest, Shift(h))
    PROVE  InRange(hs, i, m, at, h, tree)
<1> DEFINE n == Size(hs)
           q == Size(m.rest)
           p == PowerBelow(q)
<1>1. n \in Nat /\ Placed(hs, i, m)
  BY SeqLen, LeafPlaced
<1>2. /\ IsSeq(m.left) /\ IsSeq(m.rest) /\ m.index \in Nat /\ q >= 1 /\ m.index < p
      /\ m.rest[m.index + 1] = hs[i + 1]
  BY <1>1 DEF Placed
<1>3. q \in Nat /\ p \in Nat /\ 1 <= p /\ p <= q /\ IsSeq(Take(m.rest, p)) /\ Size(Take(m.rest, p)) = p
  BY <1>2, PeakFacts
<1>4. h \in Nat /\ p = Shift(h)
  BY <1>3, ilog2Def DEF PowerBelow
<1>5. at = Sh(Size(m.left), q, m.index)
  <2>1. m = PkLoop(Nil, hs, i, n)
    BY PeaksBeforeIs
  <2>2. IsSeq(Nil) /\ Size(Nil) = 0 /\ i <= n
    BY <1>1, NilSeq
  <2>3. ShLoop(0, n, i, n) = Sh(Size(m.left), q, m.index)
    BY <1>1, <2>1, <2>2, ShapeMatches
  <2>4. at = ShLoop(0, n, i, n)
    BY DEF PeakAt, ShLoop, Sh
  <2> QED BY <2>3, <2>4
<1>6. tree[m.index + 1] = hs[i + 1]
  <2>1. m.index + 1 \in 1..p
    BY <1>2, <1>3
  <2>2. \A j \in 1..p : Take(m.rest, p)[j] = m.rest[j]
    BY <1>2, <1>3, TakeSeq
  <2> QED BY <1>2, <1>4, <2>1, <2>2
<1>7. mmr_proof_len(i, n) = Size(m.left) + h + Size(RightItem(m.rest))
  <2>1. at.left = Size(m.left) /\ at.count = q
    BY <1>5 DEF Sh
  <2>2. mmr_proof_len(i, n) = at.left + ilog2(at.count) + (IF at.count > PowerBelow(at.count) THEN 1 ELSE 0)
    BY DEF mmr_proof_len
  <2>3. mmr_proof_len(i, n) = Size(m.left) + h + (IF q > p THEN 1 ELSE 0)
    BY <2>1, <2>2
  <2>4. (IF q > p THEN 1 ELSE 0) = Size(RightItem(m.rest))
    BY <1>3, RightItemSeq
  <2> QED BY <2>3, <2>4
<1>8. q # 0
  BY <1>2, <1>3
<1> QED BY <1>2, <1>3, <1>4, <1>5, <1>6, <1>7, <1>8 DEF InRange, FirstPeak

\* The root that a proof gives, in terms of its three parts.
LEMMA RootFromParts ==
    ASSUME NEW hs, IsSeq(hs), NEW i \in Nat, i < Size(hs), NEW m, NEW at, NEW h, NEW tree,
           InRange(hs, i, m, at, h, tree), at = PeakAt(i, Size(hs)),
           NEW pr, NEW items, items = pr.items, NEW l, l = Size(m.left), NEW c,
           c = Climb(hash_leaf(pr.leaf), m.index, Shift(h), Slice(items, l + 1, l + h))
    PROVE  RootFromProof(pr, i, Size(hs)) = bag_peaks(AllPeaks(Take(items, l), c.current, Drop(items, l + h)))
<1>1. at.left = l /\ ilog2(at.count) = h /\ at.index = m.index
  BY DEF InRange, Sh
<1> QED BY <1>1 DEF RootFromProof, AllPeaks, Take, Drop, Slice, Cat, One, Size

\* A leaf that verifies at an index of a range is the leaf there.
LEMMA RangeBinds ==
    ASSUME NEW hs, IsSeq(hs), NEW i \in Nat, i < Size(hs), NEW pr, IsSeq(pr.items),
           Size(pr.items) = mmr_proof_len(i, Size(hs)),
           RootFromProof(pr, i, Size(hs)) = RootOver(hs)
    PROVE  hash_leaf(pr.leaf) = hs[i + 1]
<1> DEFINE n == Size(hs)
           m == PeaksBefore(hs, i)
           at == PeakAt(i, n)
           h == ilog2(Size(m.rest))
           tree == Take(m.rest, Shift(h))
           items == pr.items
           l == Size(m.left)
           mid == Slice(items, l + 1, l + h)
           c == Climb(hash_leaf(pr.leaf), m.index, Shift(h), mid)
           z == Size(RightItem(m.rest))
<1>1. InRange(hs, i, m, at, h, tree)
  BY LeafInRange
<1>2. RootFromProof(pr, i, n) = bag_peaks(AllPeaks(Take(items, l), c.current, Drop(items, l + h)))
  BY <1>1, RootFromParts
<1>3. Bound(hs, i)
  BY RootBinds, SeqLen
<1>4. \A k, x, t : /\ IsSeq(k) /\ Size(k) = l
                   /\ IsSeq(t) /\ Size(t) = z
                   /\ bag_peaks(AllPeaks(k, x, t)) = RootOver(hs)
                   => x = FirstPeak(m.rest)
  BY <1>3 DEF Bound
<1>5. /\ m.index \in Nat /\ h \in Nat /\ IsSeq(tree) /\ Size(tree) = Shift(h) /\ m.index < Shift(h)
      /\ FirstPeak(m.rest) = merkle_root(tree) /\ tree[m.index + 1] = hs[i + 1]
      /\ mmr_proof_len(i, n) = l + h + z /\ IsSeq(m.left)
  BY <1>1 DEF InRange
<1>6. l \in Nat /\ z \in Nat /\ Shift(h) \in Nat
  BY <1>5, SeqLen, RightItemSeq, ShiftType
<1> HIDE DEF m, at, h, tree, l, z
<1>7. Size(items) = l + h + z
  BY <1>5
<1>8. /\ IsSeq(Take(items, l)) /\ Size(Take(items, l)) = l
      /\ IsSeq(mid) /\ Size(mid) = h
      /\ IsSeq(Drop(items, l + h)) /\ Size(Drop(items, l + h)) = z
  <2>1. l <= Size(items) /\ l + h <= Size(items) /\ l + h \in Nat /\ Size(items) - (l + h) = z
    BY <1>5, <1>6, <1>7
  <2> QED BY <1>5, <1>6, <2>1, TakeSeq, DropSeq, SliceSeq
<1> HIDE DEF items, c
<1>9. c.current = merkle_root(tree)
  BY <1>2, <1>4, <1>5, <1>8
<1>10. Links(c, c.current)
  BY <1>5, <1>8, ClimbExact DEF c
<1>11. Links(c, merkle_root(tree))
  BY <1>9, <1>10
<1>12. hash_leaf(pr.leaf) = tree[m.index + 1]
  BY <1>5, <1>6, <1>11, ClimbBinds DEF c
<1> QED BY <1>5, <1>12

LeafProof(hs, i) ==
    LET m == PeaksBefore(hs, i) IN
    Cat(Cat(m.left, proof_from_levels(Take(m.rest, PowerBelow(Size(m.rest))), m.index)), RightItem(m.rest))

\* The proof of a leaf has the right length and gives the root.
LEMMA RangeVerifies ==
    ASSUME NEW hs, IsSeq(hs), NEW i \in Nat, i < Size(hs), NEW pr, pr.items = LeafProof(hs, i),
           hash_leaf(pr.leaf) = hs[i + 1]
    PROVE  /\ IsSeq(pr.items) /\ Size(pr.items) = mmr_proof_len(i, Size(hs))
           /\ RootFromProof(pr, i, Size(hs)) = RootOver(hs)
<1> DEFINE n == Size(hs)
           m == PeaksBefore(hs, i)
           at == PeakAt(i, n)
           h == ilog2(Size(m.rest))
           tree == Take(m.rest, Shift(h))
           items == pr.items
           l == Size(m.left)
           mid == proof_from_levels(tree, m.index)
           right == RightItem(m.rest)
           c == Climb(hash_leaf(pr.leaf), m.index, Shift(h), mid)
<1>1. InRange(hs, i, m, at, h, tree)
  BY LeafInRange
<1>2. Bound(hs, i)
  BY RootBinds, SeqLen
<1>3. bag_peaks(AllPeaks(m.left, FirstPeak(m.rest), right)) = RootOver(hs)
  BY <1>2 DEF Bound
<1>4. /\ m.index \in Nat /\ h \in Nat /\ IsSeq(tree) /\ Size(tree) = Shift(h) /\ m.index < Shift(h)
      /\ FirstPeak(m.rest) = merkle_root(tree) /\ tree[m.index + 1] = hs[i + 1]
      /\ mmr_proof_len(i, n) = l + h + Size(right) /\ IsSeq(m.left)
      /\ tree = Take(m.rest, PowerBelow(Size(m.rest)))
  BY <1>1 DEF InRange
<1>5. items = Cat(Cat(m.left, mid), right)
  BY <1>4 DEF LeafProof
<1>6. l \in Nat /\ IsSeq(right) /\ Shift(h) \in Nat
  BY <1>4, SeqLen, RightItemSeq, ShiftType
<1>7. IsSeq(mid) /\ Size(mid) = h
  BY <1>4, SibLen
<1>8. /\ IsSeq(items) /\ Size(items) = l + h + Size(right)
      /\ Take(items, l) = m.left /\ Slice(items, l + 1, l + h) = mid /\ Drop(items, l + h) = right
  <2> HIDE DEF m, h, tree, mid, right, items, l
  <2>1. l = Size(m.left)
    BY DEF l
  <2> QED BY <1>4, <1>5, <1>6, <1>7, <2>1, ThreeParts
<1>9. RootFromProof(pr, i, n) = bag_peaks(AllPeaks(m.left, c.current, right))
  <2>1. \A d : d = Climb(hash_leaf(pr.leaf), m.index, Shift(h), Slice(items, l + 1, l + h))
            => RootFromProof(pr, i, n) = bag_peaks(AllPeaks(Take(items, l), d.current, Drop(items, l + h)))
    BY <1>1, RootFromParts
  <2> HIDE DEF m, h, tree, mid, right, items, l
  <2> QED BY <1>8, <2>1
<1>10. c.current = merkle_root(tree)
  <2> HIDE DEF m, h, tree, mid
  <2>1. Links(c, merkle_root(tree))
    BY <1>4, <1>6, SibVerifies DEF mid
  <2> QED BY <2>1 DEF Links
<1> HIDE DEF m, h, tree, mid, right, items, l, c
<1> QED BY <1>3, <1>4, <1>8, <1>9, <1>10 DEF items

\* hash_leaf is injective.
LEMMA LeafInjective == \A x, y : hash_leaf(x) = hash_leaf(y) => x = y
<1> SUFFICES ASSUME NEW x, NEW y, hash_leaf(x) = hash_leaf(y) PROVE x = y
  OBVIOUS
<1>1. <<"leaf", x>> = <<"leaf", y>>
  BY DEF hash_leaf
<1> QED BY <1>1

\* The hashes of the leaves, in their order.
LEMMA LeafHashesSeq ==
    ASSUME NEW leaves, IsSeq(leaves)
    PROVE  /\ IsSeq(LeafHashes(leaves)) /\ Size(LeafHashes(leaves)) = Size(leaves)
           /\ \A i \in 1..Size(leaves) : LeafHashes(leaves)[i] = hash_leaf(leaves[i])
<1> DEFINE hs == [i \in 1..Size(leaves) |-> hash_leaf(leaves[i])]
<1>1. LeafHashes(leaves) = hs
  BY DEF LeafHashes, Size
<1>2. hs = [i \in 1..Size(leaves) |-> hs[i]] /\ \A i \in 1..Size(leaves) : hs[i] = hash_leaf(leaves[i])
  OBVIOUS
<1> HIDE DEF hs
<1>3. IsSeq(hs) /\ Size(hs) = Size(leaves)
  BY <1>2, SeqLen, FunctionSeq
<1> QED BY <1>1, <1>2, <1>3

\* The proof of a leaf carries it, has the right length and gives the root.
LEMMA ProofOfLeaf ==
    ASSUME NEW leaves, IsSeq(leaves), NEW i \in Nat, i < Size(leaves), NEW pr, pr = proof(leaves, i)
    PROVE  /\ pr.leaf = leaves[i + 1] /\ IsSeq(pr.items)
           /\ Size(pr.items) = mmr_proof_len(i, Size(leaves))
           /\ RootFromProof(pr, i, Size(leaves)) = root(leaves)
<1> DEFINE hs == LeafHashes(leaves)
           n == Size(leaves)
           m == PeaksBefore(hs, i)
           q == Size(m.rest)
           p == PowerBelow(q)
<1>1. IsSeq(hs) /\ Size(hs) = n /\ n \in Nat /\ i < n
  BY LeafHashesSeq, SeqLen
<1>2. hs[i + 1] = hash_leaf(leaves[i + 1])
  <2>1. i + 1 \in 1..n
    BY <1>1
  <2> QED BY <2>1, LeafHashesSeq
<1>3. pr.leaf = leaves[i + 1]
  BY DEF proof
<1>4. pr.items = LeafProof(hs, i)
  <2>1. IsSeq(m.rest) /\ q >= 1
    BY <1>1, LeafPlaced DEF Placed
  <2>2. q \in Nat /\ p \in Nat /\ p <= q /\ IsSeq(AfterPeak(m.rest)) /\ Size(AfterPeak(m.rest)) = q - p
    BY <2>1, PeakFacts
  <2>3. Empty(AfterPeak(m.rest)) <=> q = p
    BY <2>2, NilSeq
  <2>4. pr.items = Cat(Cat(m.left, proof_from_levels(Take(m.rest, p), m.index)),
                       IF Empty(AfterPeak(m.rest)) THEN Nil ELSE One(RootOver(AfterPeak(m.rest))))
    BY DEF proof, Cat, Take, Drop, Size, AfterPeak, Empty, Nil, One
  <2>5. RightItem(m.rest) = IF Empty(AfterPeak(m.rest)) THEN Nil ELSE One(RootOver(AfterPeak(m.rest)))
    BY <2>3 DEF RightItem
  <2> QED BY <2>4, <2>5 DEF LeafProof
<1>5. IsSeq(pr.items) /\ Size(pr.items) = mmr_proof_len(i, n) /\ RootFromProof(pr, i, n) = RootOver(hs)
  <2> HIDE DEF hs, n
  <2> QED BY <1>1, <1>2, <1>3, <1>4, RangeVerifies
<1> QED BY <1>3, <1>5 DEF root

\* The proof that mmr.rs makes for a leaf is accepted at that leaf's index
\* under the root of the leaves, for every number of leaves.
THEOREM MmrProofVerifies ==
    ASSUME NEW leaves, IsSeq(leaves), NEW i \in Nat, i < Len(leaves), NEW start_seq
    PROVE  verify_mmr_proof(proof(leaves, i), i, Commitment(root(leaves), start_seq, Len(leaves)))
<1> DEFINE n == Size(leaves)
           pr == proof(leaves, i)
           c == Commitment(root(leaves), start_seq, n)
<1>1. i < n
  BY DEF Size
<1>2. Size(pr.items) = mmr_proof_len(i, n) /\ RootFromProof(pr, i, n) = root(leaves)
  BY <1>1, ProofOfLeaf
<1>3. c.leaf_count = n /\ c.mmr_root = root(leaves)
  BY DEF Commitment
<1>4. verify_mmr_proof(pr, i, c)
  BY <1>1, <1>2, <1>3 DEF verify_mmr_proof, Size
<1> QED BY <1>4 DEF Size

\* A proof that is accepted at an index under the root of some leaves, however
\* it was made, carries the leaf at that index.
THEOREM MmrProofBinds ==
    ASSUME NEW leaves, IsSeq(leaves), NEW i \in Nat, NEW mmr_proof, IsSeq(mmr_proof.items),
           NEW start_seq,
           verify_mmr_proof(mmr_proof, i, Commitment(root(leaves), start_seq, Len(leaves)))
    PROVE  i < Len(leaves) /\ mmr_proof.leaf = leaves[i + 1]
<1> DEFINE hs == LeafHashes(leaves)
           n == Size(leaves)
           c == Commitment(root(leaves), start_seq, n)
<1>1. c.leaf_count = n /\ c.mmr_root = RootOver(hs)
  BY DEF Commitment, root
<1>2. /\ i < n /\ Size(mmr_proof.items) = mmr_proof_len(i, n)
      /\ RootFromProof(mmr_proof, i, n) = RootOver(hs)
  <2>1. verify_mmr_proof(mmr_proof, i, c)
    BY DEF Size
  <2> HIDE DEF c, hs, n
  <2> QED BY <1>1, <2>1 DEF verify_mmr_proof, Size
<1>3. IsSeq(hs) /\ Size(hs) = n /\ n \in Nat
  BY LeafHashesSeq, SeqLen
<1>4. hash_leaf(mmr_proof.leaf) = hs[i + 1]
  <2> HIDE DEF hs, n
  <2> QED BY <1>2, <1>3, RangeBinds
<1>5. hs[i + 1] = hash_leaf(leaves[i + 1])
  <2>1. i + 1 \in 1..n
    BY <1>2, <1>3
  <2> QED BY <2>1, LeafHashesSeq
<1>6. mmr_proof.leaf = leaves[i + 1]
  BY <1>4, <1>5, LeafInjective
<1> QED BY <1>2, <1>6 DEF Size

\* The siblings that merkle.rs lists for a chunk are accepted at that chunk's
\* index under the root of the chunks, for every number of chunks.
THEOREM ChunkProofVerifies ==
    ASSUME NEW chunks, IsSeq(chunks), NEW i \in Nat, i < Len(chunks)
    PROVE  verify_merkle_proof(chunks[i + 1], i, Len(chunks), proof_from_levels(chunks, i),
                               merkle_root(chunks))
<1>1. Size(chunks) \in Nat /\ Size(chunks) = Len(chunks)
  BY SeqLen DEF Size
<1> QED BY <1>1, SibVerifies DEF verify_merkle_proof

\* Whatever siblings come with it, a hash that is accepted at an index under
\* the root of some chunks is the hash of the chunk at that index.
THEOREM ChunkProofBinds ==
    ASSUME NEW chunks, IsSeq(chunks), NEW i \in Nat, NEW hash, NEW siblings,
           verify_merkle_proof(hash, i, Len(chunks), siblings, merkle_root(chunks))
    PROVE  i < Len(chunks) /\ hash = chunks[i + 1]
<1>1. Size(chunks) \in Nat /\ Size(chunks) = Len(chunks)
  BY SeqLen DEF Size
<1> QED BY <1>1, ClimbBinds DEF verify_merkle_proof

----------------------------------------------------------------------------
(* The node                                                                *)

----------------------------------------------------------------------------
(* Results                                                                  *)

\* The results of a loop are told apart.
LEMMA Results ==
    /\ \A v : Ok(v).ok /\ Ok(v).value = v
    /\ \A e : ~Err(e).ok
    /\ ~Running.ok
    /\ \A v : Ok(v) # Running
    /\ Err("NodeNotFound") # Running /\ Err("TreeTooLarge") # Running /\ Err("NonCanonicalTree") # Running
<1>1. \A v : Ok(v).ok /\ Ok(v).value = v
  BY DEF Ok
<1>2. \A e : ~Err(e).ok /\ Err(e).error = e
  BY DEF Err
<1>3. ~Running.ok
  BY <1>2 DEF Running
<1>4. \A v : Ok(v) # Running
  BY <1>1, <1>3
<1>5. Err("NodeNotFound") # Running /\ Err("TreeTooLarge") # Running /\ Err("NonCanonicalTree") # Running
  BY <1>2 DEF Running
<1> QED BY <1>1, <1>2, <1>3, <1>4, <1>5

----------------------------------------------------------------------------
(* Walking a tree                                                           *)

W(stack, visited, found, result) ==
    [stack |-> stack, visited |-> visited, found |-> found, result |-> result]

Pair(x, y) == <<x, y>>

\* One turn of collect_leaves, by case.
LEMMA VisitAt ==
    ASSUME NEW N, NEW s, NEW v, NEW f, NEW r, NEW h, h = First(s), IsSeq(f)
    PROVE  /\ r # Running => Visit(N, W(s, v, f, r)) = W(s, v, f, r)
           /\ r = Running /\ Empty(s) => Visit(N, W(s, v, f, r)) = W(s, v, f, Ok(f))
           /\ r = Running /\ ~Empty(s) /\ v = MaxTreeWalkVisits =>
                 Visit(N, W(s, v, f, r)) = W(s, v, f, Err("TreeTooLarge"))
           /\ r = Running /\ ~Empty(s) /\ v # MaxTreeWalkVisits /\ h \notin N =>
                 Visit(N, W(s, v, f, r)) = W(s, v, f, Err("NodeNotFound"))
           /\ r = Running /\ ~Empty(s) /\ v # MaxTreeWalkVisits /\ h \in N /\ IsChunk(h) =>
                 Visit(N, W(s, v, f, r)) = W(Rest(s), v + 1, Cat(f, One(h)), r)
           /\ r = Running /\ ~Empty(s) /\ v # MaxTreeWalkVisits /\ h \in N /\ ~IsChunk(h) =>
                 Visit(N, W(s, v, f, r)) = W(Cat(Pair(h[2], h[3]), Rest(s)), v + 1, f, r)
<1> DEFINE w == W(s, v, f, r)
<1>1. w.stack = s /\ w.visited = v /\ w.found = f /\ w.result = r
  BY DEF W
<1>2. \A x : [w EXCEPT !.result = x] = W(s, v, f, x)
  BY DEF W
<1>5. Append(f, h) = Cat(f, One(h))
  BY AppendIsCat
<1>6. Visit(N, w) =
    IF r # Running THEN w
    ELSE IF Empty(s) THEN [w EXCEPT !.result = Ok(f)]
    ELSE IF v = MaxTreeWalkVisits THEN [w EXCEPT !.result = Err("TreeTooLarge")]
    ELSE IF h \notin N THEN [w EXCEPT !.result = Err("NodeNotFound")]
    ELSE IF IsChunk(h) THEN W(Rest(s), v + 1, Append(f, h), Running)
    ELSE W(Cat(Pair(h[2], h[3]), Rest(s)), v + 1, f, Running)
  <2> HIDE DEF w
  <2> QED BY <1>1 DEF Visit, Empty, Nil, First, Rest, Cat, Pair, W
<1>7. Visit(N, w) =
    IF r # Running THEN w
    ELSE IF Empty(s) THEN W(s, v, f, Ok(f))
    ELSE IF v = MaxTreeWalkVisits THEN W(s, v, f, Err("TreeTooLarge"))
    ELSE IF h \notin N THEN W(s, v, f, Err("NodeNotFound"))
    ELSE IF IsChunk(h) THEN W(Rest(s), v + 1, Cat(f, One(h)), Running)
    ELSE W(Cat(Pair(h[2], h[3]), Rest(s)), v + 1, f, Running)
  <2> HIDE DEF w
  <2> QED BY <1>2, <1>5, <1>6
<1> HIDE DEF w
<1> QED BY <1>7 DEF w

\* A pair is a sequence of two.
LEMMA PairSeq ==
    \A x, y : IsSeq(Pair(x, y)) /\ Size(Pair(x, y)) = 2
BY DEF Pair, IsSeq, Size

\* Chunks that the store has, in some order.
Stored(N, chunks) == \A i \in 1..Size(chunks) : chunks[i] \in N /\ IsChunk(chunks[i])

\* What a walk keeps true: a visit takes one hash off the stack and adds
\* either a chunk or two hashes.
Walking(N, w) ==
    /\ w = W(w.stack, w.visited, w.found, w.result)
    /\ IsSeq(w.stack) /\ IsSeq(w.found) /\ w.visited \in Nat
    /\ w.visited <= MaxTreeWalkVisits
    /\ Size(w.stack) + 2 * Size(w.found) = w.visited + 1
    /\ Stored(N, w.found)
    /\ w.result = Running \/ ~w.result.ok \/ (w.result = Ok(w.found) /\ Size(w.stack) = 0)

\* The walk's invariant, on the parts of its state.
LEMMA WalkingIs ==
    ASSUME NEW N, NEW s, NEW v, NEW f, NEW r
    PROVE  Walking(N, W(s, v, f, r)) <=>
               /\ IsSeq(s) /\ IsSeq(f) /\ v \in Nat
               /\ v <= MaxTreeWalkVisits
               /\ Size(s) + 2 * Size(f) = v + 1
               /\ Stored(N, f)
               /\ r = Running \/ ~r.ok \/ (r = Ok(f) /\ Size(s) = 0)
<1> DEFINE w == W(s, v, f, r)
<1>1. w.stack = s /\ w.visited = v /\ w.found = f /\ w.result = r
  BY DEF W
<1>2. w = W(w.stack, w.visited, w.found, w.result)
  BY <1>1
<1> HIDE DEF w
<1> QED BY <1>1, <1>2 DEF Walking, w

\* One more stored chunk.
LEMMA StoredMore ==
    ASSUME NEW N, NEW f, NEW h, IsSeq(f), Stored(N, f), h \in N, IsChunk(h)
    PROVE  IsSeq(Cat(f, One(h))) /\ Size(Cat(f, One(h))) = Size(f) + 1 /\ Stored(N, Cat(f, One(h)))
<1> DEFINE g == Cat(f, One(h))
           n == Size(f)
<1>1. IsSeq(One(h)) /\ Size(One(h)) = 1 /\ One(h)[1] = h /\ n \in Nat
  BY OneSeq, SeqLen
<1>2. /\ IsSeq(g) /\ Size(g) = n + 1
      /\ \A i \in 1..n : g[i] = f[i]
      /\ g[n + 1] = h
  <2>1. 1 \in 1..Size(One(h))
    BY <1>1
  <2> QED BY <1>1, <2>1, CatSeq
<1> HIDE DEF g, n
<1>3. ASSUME NEW i \in 1..(n + 1) PROVE g[i] \in N /\ IsChunk(g[i])
  <2>1. i \in 1..n \/ i = n + 1
    BY <1>1
  <2>2. CASE i \in 1..n
    BY <1>2, <2>2 DEF Stored, n
  <2>3. CASE i = n + 1
    BY <1>2, <2>3
  <2> QED BY <2>1, <2>2, <2>3
<1> QED BY <1>2, <1>3 DEF Stored, g, n

\* A turn of the walk keeps its invariant,
LEMMA WalkingVisit ==
    ASSUME NEW N, NEW w, Walking(N, w)
    PROVE  Walking(N, Visit(N, w))
<1>0. MaxTreeWalkVisits \in Nat
  BY BackendAssumption
<1> DEFINE s == w.stack
           v == w.visited
           f == w.found
           r == w.result
           h == First(s)
<1>1. /\ w = W(s, v, f, r) /\ IsSeq(s) /\ IsSeq(f) /\ v \in Nat /\ v <= MaxTreeWalkVisits
      /\ Size(s) + 2 * Size(f) = v + 1 /\ Stored(N, f)
      /\ Size(s) \in Nat /\ Size(f) \in Nat
  BY SeqLen DEF Walking
<1> HIDE DEF s, v, f, r
<1>2. CASE r # Running
  BY <1>1, <1>2, VisitAt
<1>3. CASE r = Running /\ Empty(s)
  <2>1. Visit(N, w) = W(s, v, f, Ok(f))
    BY <1>1, <1>3, VisitAt
  <2>2. Size(s) = 0
    BY <1>1, <1>3, NilSeq
  <2> QED BY <1>1, <2>1, <2>2, WalkingIs
<1>4. CASE r = Running /\ ~Empty(s) /\ v = MaxTreeWalkVisits
  <2>1. Visit(N, w) = W(s, v, f, Err("TreeTooLarge"))
    BY <1>1, <1>4, VisitAt
  <2> QED BY <1>1, <2>1, WalkingIs, Results
<1>5. CASE r = Running /\ ~Empty(s) /\ v # MaxTreeWalkVisits /\ h \notin N
  <2>1. Visit(N, w) = W(s, v, f, Err("NodeNotFound"))
    BY <1>1, <1>5, VisitAt
  <2> QED BY <1>1, <2>1, WalkingIs, Results
<1>6. CASE r = Running /\ ~Empty(s) /\ v # MaxTreeWalkVisits /\ h \in N /\ IsChunk(h)
  <2>1. Visit(N, w) = W(Rest(s), v + 1, Cat(f, One(h)), Running)
    BY <1>1, <1>6, VisitAt
  <2>2. IsSeq(Rest(s)) /\ Size(s) = 1 + Size(Rest(s)) /\ Size(Rest(s)) \in Nat
    BY <1>1, <1>6, ConsForm, SeqLen
  <2>3. IsSeq(Cat(f, One(h))) /\ Size(Cat(f, One(h))) = Size(f) + 1 /\ Stored(N, Cat(f, One(h)))
    BY <1>1, <1>6, StoredMore
  <2>4. v + 1 \in Nat /\ v + 1 <= MaxTreeWalkVisits
    BY <1>0, <1>1, <1>6
  <2> HIDE DEF h
  <2>50. \A a, b, c, d \in Nat : a + 2 * b = c + 1 /\ a = 1 + d => d + 2 * (b + 1) = (c + 1) + 1
    OBVIOUS
  <2>51. Size(Rest(s)) + 2 * (Size(f) + 1) = (v + 1) + 1
    BY <1>1, <2>2, <2>50
  <2>5. Size(Rest(s)) + 2 * Size(Cat(f, One(h))) = (v + 1) + 1
    BY <2>3, <2>51
  <2> QED BY <2>1, <2>2, <2>3, <2>4, <2>5, WalkingIs
<1>7. CASE r = Running /\ ~Empty(s) /\ v # MaxTreeWalkVisits /\ h \in N /\ ~IsChunk(h)
  <2> DEFINE t == Cat(Pair(h[2], h[3]), Rest(s))
  <2>1. Visit(N, w) = W(t, v + 1, f, Running)
    BY <1>1, <1>7, VisitAt
  <2>2. IsSeq(Rest(s)) /\ Size(s) = 1 + Size(Rest(s)) /\ Size(Rest(s)) \in Nat
    BY <1>1, <1>7, ConsForm, SeqLen
  <2>3. IsSeq(t) /\ Size(t) = 2 + Size(Rest(s))
    BY <2>2, PairSeq, CatSeq
  <2> HIDE DEF t
  <2>4. v + 1 \in Nat /\ v + 1 <= MaxTreeWalkVisits
    BY <1>0, <1>1, <1>7
  <2>5. Size(t) + 2 * Size(f) = (v + 1) + 1
    BY <1>1, <2>2, <2>3
  <2> QED BY <1>1, <2>1, <2>3, <2>4, <2>5, WalkingIs
<1> QED BY <1>2, <1>3, <1>4, <1>5, <1>6, <1>7

Start(hash) == W(One(hash), 0, Nil, Running)

\* so it holds after every number of turns.
LEMMA WalkingOn ==
    ASSUME NEW N, NEW hash
    PROVE  \A n \in Nat : Walking(N, Walk!After(N, Start(hash), n))
<1> DEFINE S == {n \in Nat : Walking(N, Walk!After(N, Start(hash), n))}
<1>1. 0 \in S
  <2>1. Walk!After(N, Start(hash), 0) = Start(hash)
    BY Walk!AfterDef
  <2>2. /\ IsSeq(One(hash)) /\ Size(One(hash)) = 1 /\ IsSeq(Nil) /\ Size(Nil) = 0
    BY OneSeq, NilSeq
  <2>3. Stored(N, Nil)
    BY <2>2 DEF Stored
  <2>4. 0 \in Nat /\ 0 <= MaxTreeWalkVisits /\ Size(One(hash)) + 2 * Size(Nil) = 0 + 1
    BY <2>2, BackendAssumption
  <2>5. Walking(N, Start(hash))
    BY <2>2, <2>3, <2>4, WalkingIs DEF Start
  <2> QED BY <2>1, <2>5
<1>2. ASSUME NEW n \in Nat, n \in S PROVE n + 1 \in S
  <2>1. Walk!After(N, Start(hash), n + 1) = Visit(N, Walk!After(N, Start(hash), n))
    BY Walk!AfterDef
  <2> QED BY <1>2, <2>1, WalkingVisit
<1> HIDE DEF S
<1>3. \A n \in Nat : n \in S
  BY <1>1, <1>2, Induction
<1> QED BY <1>3 DEF S

\* A store with more nodes gives a walk that ended well the same result.
LEMMA WalkGrows ==
    ASSUME NEW N, NEW M, N \subseteq M, NEW hash
    PROVE  \A n \in Nat : LET w == Walk!After(N, Start(hash), n) IN
               w.result = Running \/ w.result.ok => Walk!After(M, Start(hash), n) = w
<1> DEFINE w(n) == Walk!After(N, Start(hash), n)
           S == {n \in Nat : w(n).result = Running \/ w(n).result.ok => Walk!After(M, Start(hash), n) = w(n)}
<1>1. 0 \in S
  BY Walk!AfterDef
<1>2. ASSUME NEW n \in Nat, n \in S PROVE n + 1 \in S
  <2> SUFFICES ASSUME w(n + 1).result = Running \/ w(n + 1).result.ok
               PROVE  Walk!After(M, Start(hash), n + 1) = w(n + 1)
    OBVIOUS
  <2> DEFINE x == w(n)
             s == x.stack
             v == x.visited
             f == x.found
             r == x.result
             h == First(s)
  <2>1. w(n + 1) = Visit(N, x) /\ Walk!After(M, Start(hash), n + 1) = Visit(M, Walk!After(M, Start(hash), n))
    BY Walk!AfterDef
  <2>2. x = W(s, v, f, r) /\ IsSeq(f)
    BY WalkingOn DEF Walking
  <2>3. x.result = Running \/ x.result.ok => Walk!After(M, Start(hash), n) = x
    BY <1>2
  <2> HIDE DEF w, S
  <2>4. CASE r # Running
    <3> HIDE DEF x, s, v, f, h, r
    <3>1. Visit(N, x) = x /\ Visit(M, x) = x
      BY <2>2, <2>4, VisitAt
    <3>2. x.result.ok
      BY <2>1, <2>4, <3>1 DEF r
    <3> QED BY <2>1, <2>3, <3>1, <3>2
  <2>5. CASE r = Running
    <3>0. Walk!After(M, Start(hash), n) = x
      BY <2>3, <2>5
    <3> HIDE DEF x, s, v, f, h, r
    <3>1. CASE Empty(s) \/ v = MaxTreeWalkVisits \/ h \in N
      <4>1. h \in N => h \in M
        OBVIOUS
      <4>2. Visit(N, x) = Visit(M, x)
        <5>1. CASE Empty(s)
          BY <2>2, <2>5, <5>1, VisitAt
        <5>2. CASE ~Empty(s) /\ v = MaxTreeWalkVisits
          BY <2>2, <2>5, <5>2, VisitAt
        <5>3. CASE ~Empty(s) /\ v # MaxTreeWalkVisits /\ h \in N /\ IsChunk(h)
          BY <2>2, <2>5, <4>1, <5>3, VisitAt DEF h
        <5>4. CASE ~Empty(s) /\ v # MaxTreeWalkVisits /\ h \in N /\ ~IsChunk(h)
          BY <2>2, <2>5, <4>1, <5>4, VisitAt DEF h
        <5> QED BY <3>1, <5>1, <5>2, <5>3, <5>4
      <4> QED BY <2>1, <3>0, <4>2
    <3>2. CASE ~Empty(s) /\ v # MaxTreeWalkVisits /\ h \notin N
      <4>1. Visit(N, x) = W(s, v, f, Err("NodeNotFound"))
        BY <2>2, <2>5, <3>2, VisitAt DEF h
      <4>2. w(n + 1).result = Err("NodeNotFound")
        BY <2>1, <4>1 DEF W
      <4> QED BY <4>2, Results
    <3> QED BY <3>1, <3>2
  <2> QED BY <2>4, <2>5
<1> HIDE DEF S
<1>3. \A n \in Nat : n \in S
  BY <1>1, <1>2, Induction
<1> QED BY <1>3 DEF S

\* The chunks under a hash in a given store.
leaves_in(N, hash) == Walk!After(N, Start(hash), MaxTreeWalkVisits + 1).result

\* collect_leaves is the walk over the nodes that are stored.
LEMMA LeavesIn == \A hash : collect_leaves(hash) = leaves_in(nodes, hash)
BY DEF collect_leaves, leaves_in, Start, W, One, Nil

\* Few enough chunks for the depth limit.
Small(n) == n \in Nat /\ 1 <= n /\ n <= Shift(MaxTreeDepth)

\* A walk that succeeds found stored chunks, and few enough; with more nodes stored
\* it finds the same.
LEMMA LeavesFound ==
    ASSUME NEW N, NEW hash, leaves_in(N, hash).ok, NEW chunks, chunks = leaves_in(N, hash).value
    PROVE  /\ IsSeq(chunks) /\ Stored(N, chunks) /\ Small(Size(chunks))
           /\ \A M : N \subseteq M => leaves_in(M, hash) = Ok(chunks)
<1> DEFINE last == MaxTreeWalkVisits + 1
           w == Walk!After(N, Start(hash), last)
<1>1. last \in Nat /\ MaxTreeWalkVisits \in Nat /\ MaxTreeDepth \in Nat
      /\ MaxTreeWalkVisits < Shift(MaxTreeDepth + 1)
  BY BackendAssumption
<1>2. Walking(N, w)
  BY <1>1, WalkingOn
<1>3. w.result.ok /\ w.result # Running /\ chunks = w.result.value
  BY Results DEF leaves_in
<1>4. \A M : N \subseteq M => leaves_in(M, hash) = w.result
  <2> TAKE M
  <2> HAVE N \subseteq M
  <2>1. Walk!After(M, Start(hash), last) = w
    BY <1>1, <1>3, WalkGrows
  <2> QED BY <2>1 DEF leaves_in
<1> HIDE DEF w, last
<1>5. w.result = Ok(w.found) /\ Size(w.stack) = 0
  BY <1>2, <1>3 DEF Walking
<1>6. chunks = w.found
  BY <1>3, <1>5, Results
<1>7. IsSeq(chunks) /\ Stored(N, chunks) /\ Size(chunks) \in Nat
  BY <1>2, <1>6, SeqLen DEF Walking
<1>8. Small(Size(chunks))
  <2> DEFINE n == Size(chunks)
             v == w.visited
             d == Shift(MaxTreeDepth)
  <2>1. v \in Nat /\ v <= MaxTreeWalkVisits /\ 0 + 2 * n = v + 1
    BY <1>2, <1>5, <1>6 DEF Walking
  <2>2. Shift(MaxTreeDepth + 1) = 2 * d /\ d \in Nat
    BY <1>1, ShiftDef, ShiftType
  <2>3. n \in Nat
    BY <1>7
  <2> HIDE DEF n, v, d
  <2>4. 1 <= n /\ n <= d
    BY <1>1, <2>1, <2>2, <2>3
  <2> QED BY <2>3, <2>4 DEF Small, n, d
<1> QED BY <1>4, <1>5, <1>6, <1>7, <1>8

----------------------------------------------------------------------------
(* Trees in the store                                                       *)

\* Leaf and inner nodes and their parts.
LEMMA NodeFacts ==
    /\ \A x : IsChunk(hash_leaf(x)) /\ hash_leaf(x)[2] = x
    /\ \A x, y : ~IsChunk(hash_children(x, y)) /\ hash_children(x, y)[2] = x /\ hash_children(x, y)[3] = y
BY DEF IsChunk, hash_leaf, hash_children

\* No node is stored without its children.
Closed(N) == \A h \in N : ~IsChunk(h) => h[2] \in N /\ h[3] \in N

\* The canonical tree over some chunks is stored.
Tree(N, s) ==
    /\ IsSeq(s) /\ Size(s) >= 1 /\ \A i \in 1..Size(s) : IsChunk(s[i])
    /\ merkle_root(s) \in N

\* The two subtrees of a tree.
Left(s) == Take(s, PowerBelow(Size(s) - 1))

Right(s) == Drop(s, PowerBelow(Size(s) - 1))

\* A tree of one chunk is that chunk.
LEMMA TreeOfOne ==
    ASSUME NEW N, NEW s, Tree(N, s), Size(s) = 1
    PROVE  merkle_root(s) = s[1] /\ IsChunk(s[1]) /\ s[1] \in N
<1>1. 1 \in 1..Size(s) /\ IsSeq(s) /\ Size(s) >= 1
  BY DEF Tree
<1>2. merkle_root(s) = s[1]
  BY <1>1, RootSteps
<1> QED BY <1>1, <1>2 DEF Tree

\* A larger tree's root has the roots of its two halves as children.
LEMMA TreeSteps ==
    ASSUME NEW N, Closed(N), NEW s, Tree(N, s), NEW n \in Nat, n = Size(s), n > 1,
           NEW p, p = PowerBelow(n - 1), NEW a, a = Left(s), NEW b, b = Right(s),
           NEW r, r = merkle_root(s)
    PROVE  /\ p \in Nat /\ 1 <= p /\ p < n /\ n <= 2 * p
           /\ r \in N /\ ~IsChunk(r) /\ r[2] = merkle_root(a) /\ r[3] = merkle_root(b)
           /\ Tree(N, a) /\ Tree(N, b) /\ Size(a) = p /\ Size(b) = n - p
           /\ \A i \in 1..p : a[i] = s[i]
           /\ \A i \in 1..(n - p) : b[i] = s[p + i]
           /\ s = Cat(a, b) /\ SplitAt(a, b)
<1>1. p \in Nat /\ 1 <= p /\ p < n /\ n <= 2 * p /\ p <= n
  BY LeftSize
<1>2. IsSeq(s) /\ (\A i \in 1..n : IsChunk(s[i])) /\ r \in N
  BY DEF Tree
<1>3. a = Take(s, p) /\ b = Drop(s, p)
  BY DEF Left, Right
<1>4. IsSeq(a) /\ Size(a) = p /\ \A i \in 1..p : a[i] = s[i]
  BY <1>1, <1>2, <1>3, TakeSeq
<1>5. IsSeq(b) /\ Size(b) = n - p /\ \A i \in 1..(n - p) : b[i] = s[p + i]
  BY <1>1, <1>2, <1>3, DropSeq
<1>6. s = Cat(a, b)
  BY <1>1, <1>2, <1>3, SplitSeq
<1>7. Size(a) + Size(b) = n
  BY <1>1, <1>4, <1>5
<1>8. SplitAt(a, b)
  BY <1>4, <1>5, <1>7, SplitTree
<1>9. r = hash_children(merkle_root(a), merkle_root(b))
  BY <1>6, <1>8 DEF SplitAt
<1>10. ~IsChunk(r) /\ r[2] = merkle_root(a) /\ r[3] = merkle_root(b)
  BY <1>9, NodeFacts
<1>11. merkle_root(a) \in N /\ merkle_root(b) \in N
  BY <1>2, <1>10 DEF Closed
<1>12. \A i \in 1..p : IsChunk(a[i])
  <2> TAKE i \in 1..p
  <2>1. i \in 1..n
    BY <1>1
  <2> QED BY <1>2, <1>4, <2>1
<1>13. \A i \in 1..(n - p) : IsChunk(b[i])
  <2> TAKE i \in 1..(n - p)
  <2>1. p + i \in 1..n
    BY <1>1
  <2> QED BY <1>2, <1>5, <2>1
<1>14. Tree(N, a)
  BY <1>1, <1>4, <1>11, <1>12 DEF Tree
<1>15. Tree(N, b)
  <2>1. n - p >= 1
    BY <1>1
  <2> QED BY <1>5, <1>11, <1>13, <2>1 DEF Tree
<1> QED BY <1>1, <1>2, <1>4, <1>5, <1>6, <1>8, <1>10, <1>14, <1>15

----------------------------------------------------------------------------
(* From the root down to a chunk                                            *)

Dn(hash, count, index, siblings, result) ==
    [hash |-> hash, count |-> count, index |-> index, siblings |-> siblings, result |-> result]

Found(chunk, siblings) == Ok([chunk |-> chunk, proof |-> siblings])

\* One turn of the descent to a chunk, by case.
LEMMA GoDownAt ==
    ASSUME NEW N, NEW h, NEW c \in Nat, NEW i \in Nat, NEW sib, NEW r, NEW p, p = PowerBelow(c - 1), p \in Nat
    PROVE  /\ r # Running => GoDown(N, Dn(h, c, i, sib, r)) = Dn(h, c, i, sib, r)
           /\ r = Running /\ h \in N /\ IsChunk(h) /\ c = 1 =>
                 GoDown(N, Dn(h, c, i, sib, r)) = Dn(h, c, i, sib, Found(h[2], sib))
           /\ r = Running /\ h \in N /\ ~IsChunk(h) /\ c > 1 /\ i < p =>
                 GoDown(N, Dn(h, c, i, sib, r)) = Dn(h[2], p, i, Cat(One(h[3]), sib), Running)
           /\ r = Running /\ h \in N /\ ~IsChunk(h) /\ c > 1 /\ ~(i < p) =>
                 GoDown(N, Dn(h, c, i, sib, r)) = Dn(h[3], c - p, i - p, Cat(One(h[2]), sib), Running)
<1> DEFINE d == Dn(h, c, i, sib, r)
<1>1. d.hash = h /\ d.count = c /\ d.index = i /\ d.siblings = sib /\ d.result = r
  BY DEF Dn
<1>2. \A x : [d EXCEPT !.result = x] = Dn(h, c, i, sib, x)
  BY DEF Dn
<1> HIDE DEF d
<1>3. CASE r # Running
  <2>1. GoDown(N, d) = d
    BY <1>1, <1>3 DEF GoDown
  <2> QED BY <1>3, <2>1 DEF d
<1>4. ASSUME r = Running, h \in N, IsChunk(h), c = 1
      PROVE  GoDown(N, d) = Dn(h, c, i, sib, Found(h[2], sib))
  <2>1. GoDown(N, d) = [d EXCEPT !.result = Found(h[2], sib)]
    BY <1>1, <1>4 DEF GoDown, Found
  <2> QED BY <1>2, <2>1
<1>5. ASSUME r = Running, h \in N, ~IsChunk(h), c > 1, i < p
      PROVE  GoDown(N, d) = Dn(h[2], p, i, Cat(One(h[3]), sib), Running)
  BY <1>1, <1>5 DEF GoDown, Dn, Cat, One
<1>6. ASSUME r = Running, h \in N, ~IsChunk(h), c > 1, ~(i < p)
      PROVE  GoDown(N, d) = Dn(h[3], c - p, i - p, Cat(One(h[2]), sib), Running)
  BY <1>1, <1>6 DEF GoDown, Dn, Cat, One
<1> QED BY <1>3, <1>4, <1>5, <1>6 DEF d

\* A result stays.
LEMMA DescentStays ==
    ASSUME NEW N, NEW d, GoDown(N, d) = d
    PROVE  \A m \in Nat : Descent!After(N, d, m) = d
<1>1. Descent!After(N, d, 0) = d
  BY Descent!AfterDef
<1>2. GoDown(N, Descent!After(N, d, 0)) = Descent!After(N, d, 0)
  BY <1>1
<1>3. \A m \in Nat : m >= 0 => Descent!After(N, d, m) = Descent!After(N, d, 0)
  BY <1>2, Descent!AfterFixed
<1> QED BY <1>1, <1>3

\* A descent with a result has ended.
LEMMA GoDownEnd ==
    \A N, h, c, i, sib, r : r # Running => GoDown(N, Dn(h, c, i, sib, r)) = Dn(h, c, i, sib, r)
<1> SUFFICES ASSUME NEW N, NEW h, NEW c, NEW i, NEW sib, NEW r, r # Running
             PROVE  GoDown(N, Dn(h, c, i, sib, r)) = Dn(h, c, i, sib, r)
  OBVIOUS
<1> DEFINE d == Dn(h, c, i, sib, r)
<1>1. d.result = r
  BY DEF Dn
<1> HIDE DEF d
<1>2. GoDown(N, d) = d
  BY <1>1 DEF GoDown
<1> QED BY <1>2 DEF d

\* The descent finds the chunk and the siblings that proof_from_levels lists.
DescentGives(N, s, i, sib, m) ==
    Descent!After(N, Dn(merkle_root(s), Size(s), i, sib, Running), m).result
    = Found(s[i + 1][2], Cat(proof_from_levels(s, i), sib))

\* In a tree of one chunk the descent ends at once;
LEMMA DescentOne ==
    ASSUME NEW N, NEW s, Tree(N, s), Size(s) = 1, NEW sib, IsSeq(sib), NEW m \in Nat, m >= 1
    PROVE  DescentGives(N, s, 0, sib, m)
<1> DEFINE h == merkle_root(s)
           d == Dn(h, 1, 0, sib, Running)
           e == Dn(h, 1, 0, sib, Found(h[2], sib))
           k == m - 1
<1>1. h = s[1] /\ IsChunk(h) /\ h \in N
  BY TreeOfOne
<1>2. IsSeq(s)
  BY DEF Tree
<1>3. proof_from_levels(s, 0) = Nil
  <2>1. 0 < Size(s) /\ 0 = 0 \div 2
    OBVIOUS
  <2> QED BY <1>2, <2>1, SibSteps
<1>4. GoDown(N, d) = e
  <2>1. PowerBelow(1 - 1) \in Nat
    BY PowerBelowDef
  <2> HIDE DEF h
  <2> QED BY <1>1, <2>1, GoDownAt
<1>5. GoDown(N, e) = e
  <2>2. Found(h[2], sib) # Running
    BY Results DEF Found
  <2> QED BY <2>2, GoDownEnd
<1> HIDE DEF d, e
<1>6. k \in Nat /\ m = k + 1
  OBVIOUS
<1>7. Descent!After(N, d, m) = Descent!After(N, GoDown(N, d), k)
  BY <1>6, Descent!AfterFirst
<1>8. Descent!After(N, d, m) = e
  BY <1>4, <1>5, <1>6, <1>7, DescentStays
<1>9. e.result = Found(h[2], sib)
  BY DEF e, Dn
<1>10. Cat(proof_from_levels(s, 0), sib) = sib
  BY <1>3, CatNil
<1>11. s[0 + 1][2] = h[2]
  BY <1>1
<1> HIDE DEF h
<1> QED BY <1>8, <1>9, <1>10, <1>11 DEF DescentGives, d, h

\* in a larger one it goes on in the half that holds the index;
LEMMA DescentSteps ==
    ASSUME NEW N, Closed(N), NEW s, Tree(N, s), NEW n \in Nat, n = Size(s), n > 1,
           NEW i \in Nat, i < n, NEW sib, IsSeq(sib), NEW m \in Nat, m >= 1, NEW k, k = m - 1,
           NEW p, p = PowerBelow(n - 1), NEW a, a = Left(s), NEW b, b = Right(s),
           i < p => DescentGives(N, a, i, Cat(One(merkle_root(b)), sib), k),
           ~(i < p) => DescentGives(N, b, i - p, Cat(One(merkle_root(a)), sib), k)
    PROVE  DescentGives(N, s, i, sib, m)
<1> DEFINE r == merkle_root(s)
           d == Dn(r, n, i, sib, Running)
<1>1. /\ p \in Nat /\ 1 <= p /\ p < n /\ n <= 2 * p
      /\ r \in N /\ ~IsChunk(r) /\ r[2] = merkle_root(a) /\ r[3] = merkle_root(b)
      /\ Tree(N, a) /\ Tree(N, b) /\ Size(a) = p /\ Size(b) = n - p
      /\ \A j \in 1..p : a[j] = s[j]
      /\ \A j \in 1..(n - p) : b[j] = s[p + j]
      /\ s = Cat(a, b) /\ SplitAt(a, b)
  BY TreeSteps
<1>2. IsSeq(a) /\ IsSeq(b) /\ IsSeq(s)
  BY <1>1 DEF Tree
<1>3. k \in Nat /\ m = k + 1
  OBVIOUS
<1> HIDE DEF r
<1>4. Descent!After(N, d, m) = Descent!After(N, GoDown(N, d), k)
  BY <1>3, Descent!AfterFirst
<1>5. ASSUME NEW x, NEW y, IsSeq(x), NEW z
      PROVE  Cat(x, Cat(One(y), sib)) = Cat(Cat(x, One(y)), sib)
  BY <1>5, OneSeq, CatAssoc
<1>6. CASE i < p
  <2>1. GoDown(N, d) = Dn(merkle_root(a), p, i, Cat(One(merkle_root(b)), sib), Running)
    BY <1>1, <1>6, GoDownAt
  <2>2. Descent!After(N, d, m).result
        = Found(a[i + 1][2], Cat(proof_from_levels(a, i), Cat(One(merkle_root(b)), sib)))
    <3> HIDE DEF d
    <3> QED BY <1>1, <1>4, <1>6, <2>1 DEF DescentGives
  <2>3. i + 1 \in 1..p
    BY <1>1, <1>6
  <2>4. a[i + 1] = s[i + 1]
    BY <1>1, <2>3
  <2>5. proof_from_levels(s, i) = Cat(proof_from_levels(a, i), One(merkle_root(b)))
    BY <1>1, <1>6 DEF SplitAt
  <2>6. IsSeq(proof_from_levels(a, i))
    BY <1>1, <1>2, <1>6, SibSteps
  <2>7. Cat(proof_from_levels(a, i), Cat(One(merkle_root(b)), sib)) = Cat(proof_from_levels(s, i), sib)
    BY <1>5, <2>5, <2>6
  <2> HIDE DEF d
  <2> QED BY <2>2, <2>4, <2>7 DEF DescentGives, d, r
<1>7. CASE ~(i < p)
  <2> DEFINE j == i - p
  <2>0. j \in Nat /\ j < n - p /\ i = p + j
    BY <1>1, <1>7
  <2>1. GoDown(N, d) = Dn(merkle_root(b), n - p, j, Cat(One(merkle_root(a)), sib), Running)
    BY <1>1, <1>7, GoDownAt
  <2>2. Descent!After(N, d, m).result
        = Found(b[j + 1][2], Cat(proof_from_levels(b, j), Cat(One(merkle_root(a)), sib)))
    <3> HIDE DEF d
    <3> QED BY <1>1, <1>4, <1>7, <2>1 DEF DescentGives
  <2> HIDE DEF j
  <2>30. \A x, y \in Nat : y < n - x => y + 1 \in 1..(n - x) /\ x + (y + 1) = (x + y) + 1
    OBVIOUS
  <2>3. j + 1 \in 1..(n - p) /\ p + (j + 1) = i + 1
    BY <1>1, <2>0, <2>30
  <2>4. b[j + 1] = s[i + 1]
    BY <1>1, <2>3
  <2>5. proof_from_levels(s, i) = Cat(proof_from_levels(b, j), One(merkle_root(a)))
    <3>1. proof_from_levels(Cat(a, b), p + j) = Cat(proof_from_levels(b, j), One(merkle_root(a)))
      BY <1>1, <2>0 DEF SplitAt
    <3> QED BY <1>1, <2>0, <3>1
  <2>6. IsSeq(proof_from_levels(b, j))
    BY <1>1, <1>2, <2>0, SibSteps
  <2>7. Cat(proof_from_levels(b, j), Cat(One(merkle_root(a)), sib)) = Cat(proof_from_levels(s, i), sib)
    BY <1>5, <2>5, <2>6
  <2> HIDE DEF d
  <2> QED BY <2>2, <2>4, <2>7 DEF DescentGives, d, r
<1> QED BY <1>6, <1>7

\* so it reaches the chunk with that chunk's siblings.
LEMMA DescentIs ==
    ASSUME NEW N, Closed(N)
    PROVE  \A n \in Nat : \A s, sib : \A i \in Nat, m \in Nat :
               Tree(N, s) /\ Size(s) = n /\ i < n /\ IsSeq(sib) /\ m >= n => DescentGives(N, s, i, sib, m)
<1> DEFINE S == {n \in Nat : \A s, sib : \A i \in Nat, m \in Nat :
               Tree(N, s) /\ Size(s) = n /\ i < n /\ IsSeq(sib) /\ m >= n => DescentGives(N, s, i, sib, m)}
<1>1. ASSUME NEW n \in Nat, \A m \in 0..(n - 1) : m \in S PROVE n \in S
  <2> SUFFICES ASSUME NEW s, NEW sib, NEW i \in Nat, NEW m \in Nat,
                      Tree(N, s), Size(s) = n, i < n, IsSeq(sib), m >= n
               PROVE  DescentGives(N, s, i, sib, m)
    OBVIOUS
  <2> HIDE DEF S
  <2>1. CASE n = 1
    <3>1. i = 0 /\ m >= 1
      BY <2>1
    <3> QED BY <2>1, <3>1, DescentOne
  <2>2. CASE n > 1
    <3> DEFINE p == PowerBelow(n - 1)
               a == Left(s)
               b == Right(s)
               k == m - 1
    <3>1. /\ p \in Nat /\ 1 <= p /\ p < n
          /\ Tree(N, a) /\ Tree(N, b) /\ Size(a) = p /\ Size(b) = n - p
      BY <2>2, TreeSteps
    <3> HIDE DEF p, a, b
    <3>2. k \in Nat /\ k >= p /\ k >= n - p /\ p \in 0..(n - 1) /\ n - p \in 0..(n - 1) /\ n - p \in Nat
      BY <2>2, <3>1
    <3>3. \A x : IsSeq(Cat(One(x), sib))
      BY OneSeq, CatSeq
    <3>4. i < p => DescentGives(N, a, i, Cat(One(merkle_root(b)), sib), k)
      <4>1. p \in S
        BY <1>1, <3>2
      <4> HIDE DEF k
      <4> QED BY <3>1, <3>2, <3>3, <4>1 DEF S
    <3>5. ~(i < p) => DescentGives(N, b, i - p, Cat(One(merkle_root(a)), sib), k)
      <4> SUFFICES ASSUME ~(i < p) PROVE DescentGives(N, b, i - p, Cat(One(merkle_root(a)), sib), k)
        OBVIOUS
      <4>1. n - p \in S
        BY <1>1, <3>2
      <4>2. i - p \in Nat /\ i - p < n - p
        BY <3>1
      <4> HIDE DEF k
      <4> QED BY <3>1, <3>2, <3>3, <4>1, <4>2 DEF S
    <3> QED BY <2>2, <3>4, <3>5, DescentSteps DEF p, a, b
  <2> QED BY <2>1, <2>2
<1> HIDE DEF S
<1>2. \A n \in Nat : n \in S
  BY <1>1, CourseOfValues
<1> QED BY <1>2 DEF S

----------------------------------------------------------------------------
(* Counting the chunks of a tree along its edges                            *)

\* Powers of two are ordered as their exponents.
LEMMA ShiftOrder == \A j, k \in Nat : Shift(j) < Shift(k) => j + 1 <= k
<1> SUFFICES ASSUME NEW j \in Nat, NEW k \in Nat, Shift(j) < Shift(k), ~(j + 1 <= k) PROVE FALSE
  OBVIOUS
<1>1. k <= j
  OBVIOUS
<1>2. Shift(k) <= Shift(j) /\ Shift(k) \in Nat /\ Shift(j) \in Nat
  BY <1>1, ShiftMonotone, ShiftType
<1> QED BY <1>2

\* A tree of at most Shift(e + 1) chunks has at most Shift(e) under its left child.
LEMMA LeftPower ==
    ASSUME NEW n \in Nat, n > 1, NEW p, p = PowerBelow(n - 1), NEW e \in Nat, n <= Shift(e + 1)
    PROVE  /\ p \in Nat /\ p <= Shift(e) /\ n <= 2 * p /\ p < n
           /\ \E j \in Nat : p = Shift(j) /\ j <= e
           /\ n = Shift(e + 1) => p = Shift(e)
<1>0. p \in Nat /\ 1 <= p /\ p < n /\ n <= 2 * p
  BY LeftSize
<1> DEFINE j == ilog2(n - 1)
<1>1. j \in Nat /\ p = Shift(j)
  BY ilog2Def DEF PowerBelow
<1> HIDE DEF j
<1>2. Shift(e + 1) \in Nat /\ e + 1 \in Nat
  BY ShiftType
<1>3. Shift(j) < Shift(e + 1)
  BY <1>0, <1>1, <1>2
<1>4. j <= e
  BY <1>1, <1>2, <1>3, ShiftOrder
<1>5. p <= Shift(e)
  BY <1>1, <1>4, ShiftMonotone
<1>6. ASSUME n = Shift(e + 1) PROVE p = Shift(e)
  <2>1. Shift(e + 1) = 2 * Shift(e) /\ Shift(e) \in Nat
    BY ShiftDef, ShiftType
  <2>2. 2 * Shift(e) <= 2 * p
    BY <1>0, <1>6, <2>1
  <2> QED BY <1>0, <1>5, <2>1, <2>2
<1> QED BY <1>0, <1>1, <1>4, <1>5, <1>6

Lf(hash, height, result) == [hash |-> hash, height |-> height, result |-> result]

\* One turn down the left edge, by case.
LEMMA GoLeftAt ==
    ASSUME NEW N, NEW h, NEW g, NEW r
    PROVE  /\ r # Running => GoLeft(N, Lf(h, g, r)) = Lf(h, g, r)
           /\ r = Running /\ h \in N /\ IsChunk(h) => GoLeft(N, Lf(h, g, r)) = Lf(h, g, Ok(Shift(g)))
           /\ r = Running /\ h \in N /\ ~IsChunk(h) => GoLeft(N, Lf(h, g, r)) = Lf(h[2], g + 1, Running)
<1> DEFINE d == Lf(h, g, r)
<1>1. d.hash = h /\ d.height = g /\ d.result = r
  BY DEF Lf
<1>2. \A x : [d EXCEPT !.result = x] = Lf(h, g, x)
  BY DEF Lf
<1> HIDE DEF d
<1>3. ASSUME r # Running PROVE GoLeft(N, d) = d
  BY <1>1, <1>3 DEF GoLeft
<1>4. ASSUME r = Running, h \in N, IsChunk(h) PROVE GoLeft(N, d) = Lf(h, g, Ok(Shift(g)))
  <2>1. GoLeft(N, d) = [d EXCEPT !.result = Ok(Shift(g))]
    BY <1>1, <1>4 DEF GoLeft
  <2> QED BY <1>2, <2>1
<1>5. ASSUME r = Running, h \in N, ~IsChunk(h) PROVE GoLeft(N, d) = Lf(h[2], g + 1, Running)
  BY <1>1, <1>5 DEF GoLeft, Lf
<1> QED BY <1>3, <1>4, <1>5 DEF d

\* A walk with a result has ended.
LEMMA LeftStays ==
    ASSUME NEW N, NEW h, NEW g, NEW r, r # Running
    PROVE  \A m \in Nat : LeftEdge!After(N, Lf(h, g, r), m).result = r
<1> DEFINE d == Lf(h, g, r)
<1>00. d.result = r
  BY DEF Lf
<1>0. GoLeft(N, d) = d /\ d.result = r
  BY <1>00, GoLeftAt
<1> HIDE DEF d
<1>1. LeftEdge!After(N, d, 0) = d
  BY LeftEdge!AfterDef
<1>2. GoLeft(N, LeftEdge!After(N, d, 0)) = LeftEdge!After(N, d, 0)
  BY <1>0, <1>1
<1>3. \A m \in Nat : m >= 0 => LeftEdge!After(N, d, m) = LeftEdge!After(N, d, 0)
  BY <1>2, LeftEdge!AfterFixed
<1>4. \A m \in Nat : LeftEdge!After(N, d, m) = d
  BY <1>1, <1>3
<1> QED BY <1>0, <1>4 DEF d

\* A perfect tree of height h has Shift(h) chunks.
LeftGives(N, s, g, h, m) ==
    LeftEdge!After(N, Lf(merkle_root(s), g, Running), m).result = Ok(Shift(g + h))

\* The depth of the left edge of a perfect tree gives its chunks.
LEMMA LeftEdgeIs ==
    ASSUME NEW N, Closed(N)
    PROVE  \A h \in Nat : \A s : \A g \in Nat, m \in Nat :
               Tree(N, s) /\ Size(s) = Shift(h) /\ m >= h + 1 => LeftGives(N, s, g, h, m)
<1> DEFINE S == {h \in Nat : \A s : \A g \in Nat, m \in Nat :
               Tree(N, s) /\ Size(s) = Shift(h) /\ m >= h + 1 => LeftGives(N, s, g, h, m)}
<1>1. 0 \in S
  <2> SUFFICES ASSUME NEW s, NEW g \in Nat, NEW m \in Nat, Tree(N, s), Size(s) = Shift(0), m >= 0 + 1
               PROVE  LeftGives(N, s, g, 0, m)
    OBVIOUS
  <2> DEFINE r == merkle_root(s)
             k == m - 1
  <2>1. Size(s) = 1
    BY ShiftDef
  <2>2. IsChunk(r) /\ r \in N
    BY <2>1, TreeOfOne
  <2>3. k \in Nat /\ m = k + 1 /\ g + 0 = g
    OBVIOUS
  <2> HIDE DEF r, k
  <2>4. LeftEdge!After(N, Lf(r, g, Running), m) = LeftEdge!After(N, GoLeft(N, Lf(r, g, Running)), k)
    BY <2>3, LeftEdge!AfterFirst
  <2>5. GoLeft(N, Lf(r, g, Running)) = Lf(r, g, Ok(Shift(g)))
    BY <2>2, GoLeftAt
  <2>6. LeftEdge!After(N, Lf(r, g, Ok(Shift(g))), k).result = Ok(Shift(g))
    BY <2>3, LeftStays, Results
  <2> QED BY <2>3, <2>4, <2>5, <2>6 DEF LeftGives, r
<1>2. ASSUME NEW h \in Nat, h \in S PROVE h + 1 \in S
  <2> SUFFICES ASSUME NEW s, NEW g \in Nat, NEW m \in Nat, Tree(N, s), Size(s) = Shift(h + 1), m >= (h + 1) + 1
               PROVE  LeftGives(N, s, g, h + 1, m)
    OBVIOUS
  <2> HIDE DEF S
  <2> DEFINE n == Size(s)
             p == PowerBelow(n - 1)
             a == Left(s)
             b == Right(s)
             r == merkle_root(s)
             k == m - 1
  <2>0. Shift(h + 1) \in Nat /\ Shift(h + 1) > 1
    BY PerfectAbove
  <2>1. n \in Nat /\ n > 1 /\ n <= Shift(h + 1)
    BY <2>0
  <2>2. p = Shift(h)
    BY <2>1, LeftPower
  <2>3. /\ r \in N /\ ~IsChunk(r) /\ r[2] = merkle_root(a)
        /\ Tree(N, a) /\ Size(a) = p
    BY <2>1, TreeSteps
  <2> HIDE DEF n, p, a, b
  <2>4. k \in Nat /\ m = k + 1 /\ k >= h + 1 /\ g + 1 \in Nat /\ (g + 1) + h = g + (h + 1)
    OBVIOUS
  <2> HIDE DEF r, k
  <2>5. LeftEdge!After(N, Lf(r, g, Running), m) = LeftEdge!After(N, GoLeft(N, Lf(r, g, Running)), k)
    BY <2>4, LeftEdge!AfterFirst
  <2>6. GoLeft(N, Lf(r, g, Running)) = Lf(merkle_root(a), g + 1, Running)
    BY <2>3, GoLeftAt
  <2>7. LeftGives(N, a, g + 1, h, k)
    BY <1>2, <2>2, <2>3, <2>4 DEF S
  <2> QED BY <2>4, <2>5, <2>6, <2>7 DEF LeftGives, r
<1> HIDE DEF S
<1>3. \A n \in Nat : n \in S
  BY <1>1, <1>2, Induction
<1> QED BY <1>3 DEF S

\* left_child_chunks counts the chunks of a perfect tree.
LEMMA LeftChunks ==
    ASSUME NEW N, Closed(N), NEW s, Tree(N, s), NEW h \in Nat, Size(s) = Shift(h), h <= MaxTreeDepth
    PROVE  left_child_chunks(N, merkle_root(s)) = Ok(Shift(h))
<1> DEFINE e == LeftEdge!After(N, Lf(merkle_root(s), 0, Running), MaxTreeDepth + 1)
<1>1. MaxTreeDepth + 1 \in Nat /\ MaxTreeDepth + 1 >= h + 1 /\ 0 + h = h
  BY BackendAssumption
<1>2. e.result = Ok(Shift(h))
  BY <1>1, LeftEdgeIs DEF LeftGives
<1>3. left_child_chunks(N, merkle_root(s)) = Returned(e)
  BY DEF left_child_chunks, Lf
<1> HIDE DEF e
<1> QED BY <1>2, <1>3, Results DEF Returned

Rt(hash, count, result) == [hash |-> hash, count |-> count, result |-> result]

\* One turn down the right edge, by case.
LEMMA GoRightAt ==
    ASSUME NEW N, NEW h, NEW c, NEW r
    PROVE  /\ r # Running => GoRight(N, Rt(h, c, r)) = Rt(h, c, r)
           /\ r = Running /\ h \in N /\ IsChunk(h) => GoRight(N, Rt(h, c, r)) = Rt(h, c, Ok(c + 1))
           /\ \A p : r = Running /\ h \in N /\ ~IsChunk(h) /\ left_child_chunks(N, h[2]) = Ok(p)
                     => GoRight(N, Rt(h, c, r)) = Rt(h[3], c + p, Running)
<1> DEFINE d == Rt(h, c, r)
<1>1. d.hash = h /\ d.count = c /\ d.result = r
  BY DEF Rt
<1>2. \A x : [d EXCEPT !.result = x] = Rt(h, c, x)
  BY DEF Rt
<1> HIDE DEF d
<1>3. ASSUME r # Running PROVE GoRight(N, d) = d
  BY <1>1, <1>3 DEF GoRight
<1>4. ASSUME r = Running, h \in N, IsChunk(h) PROVE GoRight(N, d) = Rt(h, c, Ok(c + 1))
  <2>1. GoRight(N, d) = [d EXCEPT !.result = Ok(c + 1)]
    BY <1>1, <1>4 DEF GoRight
  <2> QED BY <1>2, <2>1
<1>5. ASSUME NEW p, r = Running, h \in N, ~IsChunk(h), left_child_chunks(N, h[2]) = Ok(p)
      PROVE  GoRight(N, d) = Rt(h[3], c + p, Running)
  <2>1. left_child_chunks(N, h[2]).ok /\ left_child_chunks(N, h[2]).value = p
    BY <1>5, Results
  <2> QED BY <1>1, <1>5, <2>1 DEF GoRight, Rt
<1> QED BY <1>3, <1>4, <1>5 DEF d

\* A walk with a result has ended.
LEMMA RightStays ==
    ASSUME NEW N, NEW h, NEW c, NEW r, r # Running
    PROVE  \A m \in Nat : RightEdge!After(N, Rt(h, c, r), m).result = r
<1> DEFINE d == Rt(h, c, r)
<1>00. d.result = r
  BY DEF Rt
<1>0. GoRight(N, d) = d /\ d.result = r
  BY <1>00, GoRightAt
<1> HIDE DEF d
<1>1. RightEdge!After(N, d, 0) = d
  BY RightEdge!AfterDef
<1>2. GoRight(N, RightEdge!After(N, d, 0)) = RightEdge!After(N, d, 0)
  BY <1>0, <1>1
<1>3. \A m \in Nat : m >= 0 => RightEdge!After(N, d, m) = RightEdge!After(N, d, 0)
  BY <1>2, RightEdge!AfterFixed
<1>4. \A m \in Nat : RightEdge!After(N, d, m) = d
  BY <1>1, <1>3
<1> QED BY <1>0, <1>4 DEF d

\* The right edge adds up to the number of chunks.
RightGives(N, s, c, m) ==
    RightEdge!After(N, Rt(merkle_root(s), c, Running), m).result = Ok(c + Size(s))

\* The right edge of one chunk,
LEMMA RightOne ==
    ASSUME NEW N, NEW s, Tree(N, s), Size(s) = 1, NEW c \in Nat, NEW m \in Nat, m >= 1
    PROVE  RightGives(N, s, c, m)
<1> DEFINE r == merkle_root(s)
           k == m - 1
<1>2. IsChunk(r) /\ r \in N
  BY TreeOfOne
<1>3. k \in Nat /\ m = k + 1
  OBVIOUS
<1> HIDE DEF r, k
<1>4. RightEdge!After(N, Rt(r, c, Running), m) = RightEdge!After(N, GoRight(N, Rt(r, c, Running)), k)
  BY <1>3, RightEdge!AfterFirst
<1>5. GoRight(N, Rt(r, c, Running)) = Rt(r, c, Ok(c + 1))
  BY <1>2, GoRightAt
<1>6. RightEdge!After(N, Rt(r, c, Ok(c + 1)), k).result = Ok(c + 1)
  BY <1>3, RightStays, Results
<1> QED BY <1>4, <1>5, <1>6 DEF RightGives, r

\* and of any canonical tree, counts its chunks.
LEMMA RightEdgeIs ==
    ASSUME NEW N, Closed(N)
    PROVE  \A e \in Nat : \A s : \A c \in Nat, m \in Nat :
               Tree(N, s) /\ Size(s) <= Shift(e) /\ e <= MaxTreeDepth /\ m >= e + 1 => RightGives(N, s, c, m)
<1> DEFINE S == {e \in Nat : \A s : \A c \in Nat, m \in Nat :
               Tree(N, s) /\ Size(s) <= Shift(e) /\ e <= MaxTreeDepth /\ m >= e + 1 => RightGives(N, s, c, m)}
<1>0. \A s : Tree(N, s) => Size(s) \in Nat /\ Size(s) >= 1
  BY SeqLen DEF Tree
<1>1. 0 \in S
  <2> SUFFICES ASSUME NEW s, NEW c \in Nat, NEW m \in Nat, Tree(N, s), Size(s) <= Shift(0), m >= 0 + 1
               PROVE  RightGives(N, s, c, m)
    OBVIOUS
  <2>1. Size(s) = 1
    BY <1>0, ShiftDef
  <2> QED BY <2>1, RightOne
<1>2. ASSUME NEW e \in Nat, e \in S PROVE e + 1 \in S
  <2> SUFFICES ASSUME NEW s, NEW c \in Nat, NEW m \in Nat, Tree(N, s), Size(s) <= Shift(e + 1),
                      e + 1 <= MaxTreeDepth, m >= (e + 1) + 1
               PROVE  RightGives(N, s, c, m)
    OBVIOUS
  <2> HIDE DEF S
  <2> DEFINE n == Size(s)
             p == PowerBelow(n - 1)
             a == Left(s)
             b == Right(s)
             r == merkle_root(s)
             k == m - 1
  <2>0. n \in Nat /\ n >= 1 /\ MaxTreeDepth \in Nat
    BY <1>0, BackendAssumption
  <2>1. CASE n = 1
    BY <2>1, RightOne
  <2>2. CASE n > 1
    <3>1. /\ p \in Nat /\ p <= Shift(e) /\ n <= 2 * p /\ p < n
          /\ \E j \in Nat : p = Shift(j) /\ j <= e
      BY <2>0, <2>2, LeftPower
    <3>2. /\ r \in N /\ ~IsChunk(r) /\ r[2] = merkle_root(a) /\ r[3] = merkle_root(b)
          /\ Tree(N, a) /\ Size(a) = p /\ Tree(N, b) /\ Size(b) = n - p
      BY <2>0, <2>2, TreeSteps
    <3> HIDE DEF n, p, a, b
    <3>3. left_child_chunks(N, merkle_root(a)) = Ok(p)
      <4>1. PICK j \in Nat : p = Shift(j) /\ j <= e
        BY <3>1
      <4>2. j <= MaxTreeDepth
        BY <2>0, <4>1
      <4> QED BY <3>2, <4>1, <4>2, LeftChunks
    <3>4. k \in Nat /\ m = k + 1 /\ k >= e + 1 /\ e <= MaxTreeDepth
      BY <2>0
    <3> HIDE DEF r, k
    <3>5. RightEdge!After(N, Rt(r, c, Running), m) = RightEdge!After(N, GoRight(N, Rt(r, c, Running)), k)
      BY <3>4, RightEdge!AfterFirst
    <3>6. GoRight(N, Rt(r, c, Running)) = Rt(merkle_root(b), c + p, Running)
      BY <3>2, <3>3, GoRightAt
    <3>7. c + p \in Nat /\ n - p <= Shift(e) /\ (c + p) + (n - p) = c + n
      <4>1. Shift(e) \in Nat
        BY ShiftType
      <4> QED BY <2>0, <3>1, <4>1
    <3>8. RightGives(N, b, c + p, k)
      BY <1>2, <3>2, <3>4, <3>7 DEF S
    <3> QED BY <3>2, <3>5, <3>6, <3>7, <3>8 DEF RightGives, r, n
  <2> QED BY <2>0, <2>1, <2>2
<1> HIDE DEF S
<1>3. \A n \in Nat : n \in S
  BY <1>1, <1>2, Induction
<1> QED BY <1>3 DEF S

\* Any chunk of a tree the store has can be read, with its proof.
LEMMA ChunkRead ==
    ASSUME Closed(nodes), NEW s, Tree(nodes, s), NEW n, n = Size(s), Small(n),
           NEW r, r = merkle_root(s)
    PROVE  /\ tree_chunk_count(r) = Ok(n)
           /\ \A i \in Nat : i < n => chunk_with_proof(r, n, i) = Found(s[i + 1][2], proof_from_levels(s, i))
<1> DEFINE e == RightEdge!After(nodes, Rt(r, 0, Running), MaxTreeDepth + 1)
<1>1. n \in Nat /\ MaxTreeDepth \in Nat /\ MaxTreeDepth + 1 \in Nat
  BY BackendAssumption DEF Small
<1>2. e.result = Ok(n)
  <2>1. Size(s) <= Shift(MaxTreeDepth) /\ MaxTreeDepth <= MaxTreeDepth
        /\ MaxTreeDepth + 1 >= MaxTreeDepth + 1
    BY <1>1 DEF Small
  <2>2. RightGives(nodes, s, 0, MaxTreeDepth + 1)
    BY <1>1, <2>1, RightEdgeIs
  <2>3. 0 + n = n
    BY <1>1
  <2> QED BY <2>2, <2>3 DEF RightGives
<1>3. tree_chunk_count(r) = Returned(e)
  BY DEF tree_chunk_count, Rt
<1> HIDE DEF e
<1>4. tree_chunk_count(r) = Ok(n)
  BY <1>2, <1>3, Results DEF Returned
<1>5. ASSUME NEW i \in Nat, i < n
      PROVE  chunk_with_proof(r, n, i) = Found(s[i + 1][2], proof_from_levels(s, i))
  <2>1. IsSeq(Nil) /\ n >= n
    BY <1>1, NilSeq
  <2>2. DescentGives(nodes, s, i, Nil, n)
    BY <1>1, <1>5, <2>1, DescentIs
  <2>3. IsSeq(s)
    BY DEF Tree
  <2>4. IsSeq(proof_from_levels(s, i))
    BY <1>5, <2>3, SibSteps
  <2>5. Cat(proof_from_levels(s, i), Nil) = proof_from_levels(s, i)
    BY <2>4, CatNil
  <2>6. chunk_with_proof(r, n, i) = Descent!After(nodes, Dn(r, n, i, Nil, Running), n).result
    BY DEF chunk_with_proof, Dn, Nil
  <2> QED BY <2>2, <2>5, <2>6 DEF DescentGives
<1> QED BY <1>4, <1>5

----------------------------------------------------------------------------
(* Sizes                                                                    *)

\* The chunks of a file of which the last is r bytes, in the code's rounding.
LEMMA Quotient ==
    ASSUME NEW k \in Nat, NEW c \in Nat \ {0}, NEW r \in 1..c
    PROVE  (k * c + r + c - 1) \div c = k + 1
<1> DEFINE x == k * c + r + c - 1
           q == x \div c
<1>1. x \in Nat
  OBVIOUS
<1>2. q \in Nat /\ c * q <= x /\ x < c * (q + 1)
  BY <1>1
<1>3. x >= c * (k + 1) /\ x < c * (k + 2)
  OBVIOUS
<1> HIDE DEF x, q
<1>4. q < k + 2
  <2> SUFFICES ASSUME q >= k + 2 PROVE FALSE
    BY <1>2
  <2>1. c * q >= c * (k + 2)
    BY <1>2
  <2> QED BY <1>1, <1>2, <1>3, <2>1
<1>5. k + 1 < q + 1
  <2> SUFFICES ASSUME k + 1 >= q + 1 PROVE FALSE
    BY <1>2
  <2>1. c * (k + 1) >= c * (q + 1)
    BY <1>2
  <2> QED BY <1>1, <1>2, <1>3, <2>1
<1>6. q = k + 1
  BY <1>2, <1>4, <1>5
<1> QED BY <1>6 DEF q, x

Tz(n, sum) == [n |-> n, sum |-> sum]

SizeAt(chunks, i) == chunks[i][2].size

\* One turn of the size loop.
LEMMA AddSizeAt ==
    ASSUME NEW chunks, NEW k \in Nat, NEW sum \in Nat
    PROVE  AddSize(chunks, Tz(k, sum)) = Tz(k + 1, sum + SizeAt(chunks, k + 1))
BY DEF AddSize, Tz, SizeAt

\* Full chunks before the last add up to a multiple of the chunk size.
LEMMA SizesSum ==
    ASSUME NEW chunks, NEW n \in Nat, \A i \in 1..n : SizeAt(chunks, i) = ChunkSize
    PROVE  \A k \in Nat : k <= n => Sizes!After(chunks, Tz(0, 0), k) = Tz(k, k * ChunkSize)
<1>0. ChunkSize \in Nat
  BY BackendAssumption
<1> DEFINE S == {k \in Nat : k <= n => Sizes!After(chunks, Tz(0, 0), k) = Tz(k, k * ChunkSize)}
<1>1. 0 \in S
  <2>1. 0 * ChunkSize = 0
    BY <1>0
  <2> QED BY <2>1, Sizes!AfterDef
<1>2. ASSUME NEW k \in Nat, k \in S PROVE k + 1 \in S
  <2> SUFFICES ASSUME k + 1 <= n PROVE Sizes!After(chunks, Tz(0, 0), k + 1) = Tz(k + 1, (k + 1) * ChunkSize)
    OBVIOUS
  <2>1. k <= n /\ k + 1 \in 1..n
    OBVIOUS
  <2>2. Sizes!After(chunks, Tz(0, 0), k) = Tz(k, k * ChunkSize)
    BY <1>2, <2>1
  <2> HIDE DEF S
  <2>3. Sizes!After(chunks, Tz(0, 0), k + 1) = AddSize(chunks, Sizes!After(chunks, Tz(0, 0), k))
    BY Sizes!AfterDef
  <2>4. k * ChunkSize \in Nat /\ k * ChunkSize + ChunkSize = (k + 1) * ChunkSize
    BY <1>0
  <2>5. SizeAt(chunks, k + 1) = ChunkSize
    BY <2>1
  <2>6. AddSize(chunks, Tz(k, k * ChunkSize)) = Tz(k + 1, k * ChunkSize + ChunkSize)
    BY <2>4, <2>5, AddSizeAt
  <2> QED BY <2>2, <2>3, <2>4, <2>6
<1> HIDE DEF S
<1>3. \A k \in Nat : k \in S
  BY <1>1, <1>2, Induction
<1> QED BY <1>3 DEF S

\* chunk_count undoes SizeOf.
LEMMA CountOfSize ==
    ASSUME NEW chunks, IsSeq(chunks), Size(chunks) >= 1, FixedSizes(chunks),
           NEW leaf, leaf.data_size = SizeOf(chunks)
    PROVE  chunk_count(leaf) = Size(chunks) /\ SizeOf(chunks) \in Nat
<1> DEFINE n == Size(chunks)
           k == n - 1
           z == SizeAt(chunks, n)
<1>0. ChunkSize \in Nat \ {0}
  BY BackendAssumption
<1>1. n \in Nat /\ k \in Nat /\ n = k + 1 /\ k <= k
  BY SeqLen
<1>2. ~Empty(chunks)
  BY <1>1, NilSeq
<1>3. z \in 1..ChunkSize /\ \A i \in 1..k : SizeAt(chunks, i) = ChunkSize
  <2>1. LastOf(chunks) = chunks[n]
    BY <1>2, FrontSeq
  <2> QED BY <2>1 DEF FixedSizes, LastOf, SizeAt, Size
<1> HIDE DEF z
<1>4. Sizes!After(chunks, Tz(0, 0), k) = Tz(k, k * ChunkSize)
  BY <1>1, <1>3, SizesSum
<1>5. Sizes!After(chunks, Tz(0, 0), n) = AddSize(chunks, Tz(k, k * ChunkSize))
  <2> HIDE DEF n, k
  <2>1. Sizes!After(chunks, Tz(0, 0), k + 1) = AddSize(chunks, Sizes!After(chunks, Tz(0, 0), k))
    BY <1>1, Sizes!AfterDef
  <2> QED BY <1>1, <1>4, <2>1
<1>6. k * ChunkSize \in Nat
  BY <1>0, <1>1
<1>7. Sizes!After(chunks, Tz(0, 0), n) = Tz(n, k * ChunkSize + z)
  BY <1>1, <1>5, <1>6, AddSizeAt DEF z
<1>8. SizeOf(chunks) = Sizes!After(chunks, Tz(0, 0), n).sum
  BY DEF SizeOf, Tz, Size
<1>9. SizeOf(chunks) = k * ChunkSize + z
  BY <1>7, <1>8 DEF Tz
<1>10. (k * ChunkSize + z + ChunkSize - 1) \div ChunkSize = k + 1
  BY <1>0, <1>1, <1>3, Quotient
<1>11. k * ChunkSize + z \in Nat
  BY <1>0, <1>3, <1>6
<1> HIDE DEF n, k
<1>12. chunk_count(leaf) = (k * ChunkSize + z + ChunkSize - 1) \div ChunkSize
  BY <1>9 DEF chunk_count
<1> QED BY <1>1, <1>9, <1>10, <1>11, <1>12 DEF n

----------------------------------------------------------------------------
(* Committed trees                                                          *)

\* A root whose tree over chunks was found canonical.
Canonical(N, hash, chunks) ==
    /\ leaves_in(N, hash) = Ok(chunks)
    /\ IsSeq(chunks) /\ Stored(N, chunks) /\ Small(Size(chunks))
    /\ FixedSizes(chunks) /\ merkle_root(chunks) = hash /\ hash \in N

\* A committed root with its size.
Committed(N, hash, size) == \E chunks : Canonical(N, hash, chunks) /\ size = SizeOf(chunks)

\* What a commit accepts is canonical.
LEMMA CanonicalAccepted ==
    ASSUME NEW hash, hash \in nodes, canonical_data_size(hash).ok
    PROVE  Committed(nodes, hash, canonical_data_size(hash).value)
<1> DEFINE found == collect_leaves(hash)
           chunks == found.value
<1>1. found = leaves_in(nodes, hash)
  BY LeavesIn
<1>2. found.ok
  BY DEF canonical_data_size
<1>3. FixedSizes(chunks) /\ merkle_root(chunks) = hash /\ canonical_data_size(hash) = Ok(SizeOf(chunks))
  BY <1>2, Results DEF canonical_data_size
<1>4. IsSeq(chunks) /\ Stored(nodes, chunks) /\ Small(Size(chunks)) /\ leaves_in(nodes, hash) = Ok(chunks)
  BY <1>1, <1>2, LeavesFound
<1>5. canonical_data_size(hash).value = SizeOf(chunks)
  BY <1>3, Results
<1> HIDE DEF chunks
<1>6. Canonical(nodes, hash, chunks)
  BY <1>3, <1>4 DEF Canonical
<1> QED BY <1>5, <1>6 DEF Committed

\* It stays so when nodes are added.
LEMMA CommittedGrows ==
    ASSUME NEW N, NEW M, N \subseteq M, NEW hash, NEW size, Committed(N, hash, size)
    PROVE  Committed(M, hash, size)
<1>1. PICK chunks : Canonical(N, hash, chunks) /\ size = SizeOf(chunks)
  BY DEF Committed
<1>2. leaves_in(N, hash).ok /\ leaves_in(N, hash).value = chunks
  BY <1>1, Results DEF Canonical
<1>3. leaves_in(M, hash) = Ok(chunks)
  BY <1>2, LeavesFound
<1>4. Stored(M, chunks)
  BY <1>1 DEF Canonical, Stored
<1>5. Canonical(M, hash, chunks)
  BY <1>1, <1>3, <1>4 DEF Canonical
<1> QED BY <1>1, <1>5 DEF Committed

\* A canonical tree is stored whole, as the walks need it.
LEMMA CanonicalTree ==
    ASSUME NEW N, NEW hash, NEW chunks, Canonical(N, hash, chunks)
    PROVE  Tree(N, chunks)
<1>1. IsSeq(chunks) /\ Size(chunks) >= 1 /\ merkle_root(chunks) \in N
  BY DEF Canonical, Small
<1>2. \A i \in 1..Size(chunks) : IsChunk(chunks[i])
  BY DEF Canonical, Stored
<1> QED BY <1>1, <1>2 DEF Tree

\* A node is a chunk or an internal node, and hashes what it shows.
Real(hash) ==
    \/ hash = hash_leaf(hash[2]) /\ hash[2].size \in 1..ChunkSize
    \/ hash = hash_children(hash[2], hash[3])

\* A node that carries data is the hash of a chunk of admissible size.
LEMMA RealChunk ==
    ASSUME NEW hash, Real(hash), IsChunk(hash)
    PROVE  hash = hash_leaf(hash[2]) /\ hash[2].size \in 1..ChunkSize
BY NodeFacts DEF Real

\* What can be read of a committed leaf.
LEMMA LeafRead ==
    ASSUME Closed(nodes), \A hash \in nodes : Real(hash), NEW leaf,
           Committed(nodes, leaf.data_root, leaf.data_size)
    PROVE  \E chunks :
               /\ IsSeq(chunks) /\ collect_leaves(leaf.data_root).value = chunks
               /\ merkle_root(chunks) = leaf.data_root /\ SizeOf(chunks) = leaf.data_size
               /\ chunk_count(leaf) = Size(chunks) /\ Size(chunks) \in Nat
               /\ tree_chunk_count(leaf.data_root) = Ok(Size(chunks))
               /\ \A i \in Nat : i < Size(chunks) =>
                     \E data : /\ hash_leaf(data) = chunks[i + 1]
                               /\ chunk_with_proof(leaf.data_root, Size(chunks), i)
                                  = Found(data, proof_from_levels(chunks, i))
<1>1. PICK chunks : Canonical(nodes, leaf.data_root, chunks) /\ leaf.data_size = SizeOf(chunks)
  BY DEF Committed
<1> DEFINE r == leaf.data_root
           n == Size(chunks)
<1>2. /\ IsSeq(chunks) /\ Stored(nodes, chunks) /\ Small(n) /\ FixedSizes(chunks) /\ merkle_root(chunks) = r
      /\ collect_leaves(r) = Ok(chunks)
  BY <1>1, LeavesIn DEF Canonical
<1>3. n \in Nat /\ n >= 1
  BY <1>2 DEF Small
<1>4. chunk_count(leaf) = n
  BY <1>1, <1>2, <1>3, CountOfSize
<1>5. Tree(nodes, chunks)
  BY <1>1, CanonicalTree
<1>6. /\ tree_chunk_count(r) = Ok(n)
      /\ \A i \in Nat : i < n => chunk_with_proof(r, n, i) = Found(chunks[i + 1][2], proof_from_levels(chunks, i))
  BY <1>2, <1>5, ChunkRead
<1>7. ASSUME NEW i \in Nat, i < n
      PROVE  hash_leaf(chunks[i + 1][2]) = chunks[i + 1]
  <2>1. i + 1 \in 1..n
    BY <1>3, <1>7
  <2>2. chunks[i + 1] \in nodes /\ IsChunk(chunks[i + 1])
    BY <1>2, <2>1 DEF Stored
  <2> QED BY <2>2, RealChunk
<1>8. collect_leaves(r).value = chunks
  BY <1>2, Results
<1> QED BY <1>1, <1>2, <1>3, <1>4, <1>6, <1>7, <1>8

----------------------------------------------------------------------------
(* Uploads                                                                  *)

AllReal(s) == IsSeq(s) /\ \A i \in 1..Size(s) : Real(s[i])

\* An inner node is real,
LEMMA RealNode == \A x, y : Real(hash_children(x, y))
BY NodeFacts DEF Real

\* real nodes put together are real,
LEMMA AllRealCat ==
    ASSUME NEW s, NEW t, AllReal(s), AllReal(t)
    PROVE  AllReal(Cat(s, t))
<1> DEFINE c == Cat(s, t)
           n == Size(s)
           m == Size(t)
<1>1. n \in Nat /\ m \in Nat
  BY SeqLen DEF AllReal
<1>2. /\ IsSeq(c) /\ Size(c) = n + m
      /\ \A i \in 1..n : c[i] = s[i]
      /\ \A i \in 1..m : c[n + i] = t[i]
  BY CatSeq DEF AllReal
<1> HIDE DEF c, n, m
<1>3. ASSUME NEW i \in 1..(n + m) PROVE Real(c[i])
  <2>1. i \in 1..n \/ i - n \in 1..m
    BY <1>1
  <2>2. CASE i \in 1..n
    BY <1>2, <2>2 DEF AllReal, n
  <2>3. CASE i - n \in 1..m
    <3>1. n + (i - n) = i
      BY <1>1
    <3>2. c[n + (i - n)] = t[i - n]
      BY <1>2, <2>3
    <3> QED BY <2>3, <3>1, <3>2 DEF AllReal, m
  <2> QED BY <2>1, <2>2, <2>3
<1> QED BY <1>2, <1>3 DEF AllReal, c

\* and so are the pairs of a level.
LEMMA PairsReal ==
    ASSUME NEW v, IsSeq(v), NEW k, k = Size(v) \div 2
    PROVE  AllReal(Take(Above(v), k))
<1> DEFINE u == Above(v)
           n == Size(v)
<1>0. n \in Nat
  BY SeqLen
<1>1. /\ IsSeq(u) /\ Size(u) = (n + 1) \div 2
      /\ \A i \in 1..((n + 1) \div 2) :
            u[i] = IF 2 * i <= n THEN hash_children(v[2 * i - 1], v[2 * i]) ELSE v[2 * i - 1]
  BY AboveSeq
<1> HIDE DEF u, n
<1>2. k \in Nat /\ k <= (n + 1) \div 2 /\ \A i \in 1..k : 2 * i <= n /\ i \in 1..((n + 1) \div 2)
  BY <1>0 DEF n
<1>3. IsSeq(Take(u, k)) /\ Size(Take(u, k)) = k /\ \A i \in 1..k : Take(u, k)[i] = u[i]
  BY <1>1, <1>2, TakeSeq
<1>4. \A i \in 1..k : Real(Take(u, k)[i])
  BY <1>1, <1>2, <1>3, RealNode
<1> QED BY <1>3, <1>4 DEF AllReal, u

Np(height, ns) == [height |-> height, nodes |-> ns]

\* One turn of the loop that lists a tree's inner nodes.
LEMMA PairsOfAt ==
    ASSUME NEW hs, IsSeq(hs), NEW h \in Nat, NEW ns
    PROVE  PairsOf(hs, Np(h, ns)) = Np(h + 1, Cat(ns, Take(Above(level(hs, h)), Size(level(hs, h)) \div 2)))
<1>1. level(hs, h + 1) = Above(level(hs, h))
  BY LevelSteps
<1>2. Np(h, ns).height = h /\ Np(h, ns).nodes = ns
  BY DEF Np
<1> QED BY <1>1, <1>2 DEF PairsOf, Np, Cat, Take, Size

\* An upload's inner nodes are real.
LEMMA TreeNodesReal ==
    ASSUME NEW hs, IsSeq(hs)
    PROVE  AllReal(merkle_tree(hs))
<1> DEFINE x(n) == Nodes!After(hs, Np(0, Nil), n)
           S == {n \in Nat : \E ns : x(n) = Np(n, ns) /\ AllReal(ns)}
<1>1. 0 \in S
  <2>1. x(0) = Np(0, Nil)
    BY Nodes!AfterDef
  <2>2. IsSeq(Nil) /\ Size(Nil) = 0
    BY NilSeq
  <2>3. AllReal(Nil)
    BY <2>2 DEF AllReal
  <2> QED BY <2>1, <2>3
<1>2. ASSUME NEW n \in Nat, n \in S PROVE n + 1 \in S
  <2>1. PICK ns : x(n) = Np(n, ns) /\ AllReal(ns)
    BY <1>2
  <2> DEFINE v == level(hs, n)
             more == Take(Above(v), Size(v) \div 2)
  <2>2. x(n + 1) = PairsOf(hs, x(n))
    BY Nodes!AfterDef
  <2>3. IsSeq(v)
    BY LevelSeq
  <2>4. AllReal(more)
    BY <2>3, PairsReal
  <2>5. x(n + 1) = Np(n + 1, Cat(ns, more))
    BY <2>1, <2>2, PairsOfAt
  <2> HIDE DEF x, more
  <2>6. AllReal(Cat(ns, more))
    BY <2>1, <2>4, AllRealCat
  <2> QED BY <2>5, <2>6
<1> HIDE DEF S
<1>3. \A n \in Nat : n \in S
  BY <1>1, <1>2, Induction
<1>4. Size(hs) \in Nat
  BY SeqLen
<1>5. PICK ns : x(Size(hs)) = Np(Size(hs), ns) /\ AllReal(ns)
  BY <1>3, <1>4 DEF S
<1>6. merkle_tree(hs) = x(Size(hs)).nodes
  BY DEF merkle_tree, Np, Nil, Size
<1> HIDE DEF x
<1> QED BY <1>5, <1>6 DEF Np

\* An upload stores chunks of legal size and internal nodes.
LEMMA UploadReal ==
    ASSUME NEW file \in Files
    PROVE  AllReal(UploadOrder(file)) /\ ~Empty(UploadOrder(file))
<1>1. IsSeq(file) /\ ~Empty(file) /\ \A i \in 1..Size(file) : file[i].size \in 1..ChunkSize
  <2>1. /\ file \in Seq(ToSet(file)) /\ file # <<>>
        /\ \A i \in DOMAIN file : file[i].size \in 1..ChunkSize
    BY NodeAssumption
  <2>2. IsSeq(file)
    BY <2>1, InSeqIsSeq
  <2>3. DOMAIN file = 1..Size(file)
    BY <2>1 DEF Size
  <2> QED BY <2>1, <2>2, <2>3 DEF Empty, Nil
<1> DEFINE hs == [i \in 1..Size(file) |-> hash_leaf(file[i])]
           n == Size(file)
<1>2. ChunkHashes(file) = hs
  BY DEF ChunkHashes, Size
<1>3. n \in Nat /\ n # 0
  BY <1>1, SeqLen, NilSeq
<1>4. hs = [i \in 1..n |-> hs[i]] /\ \A i \in 1..n : hs[i] = hash_leaf(file[i])
  OBVIOUS
<1> HIDE DEF hs
<1>5. IsSeq(hs) /\ Size(hs) = n
  BY <1>3, <1>4, FunctionSeq
<1>6. \A i \in 1..n : Real(hs[i])
  BY <1>1, <1>4, NodeFacts DEF Real
<1>7. AllReal(hs)
  BY <1>5, <1>6 DEF AllReal
<1>8. UploadOrder(file) = Cat(hs, merkle_tree(hs))
  BY <1>2 DEF UploadOrder, Cat
<1>9. AllReal(UploadOrder(file))
  BY <1>5, <1>7, <1>8, TreeNodesReal, AllRealCat
<1>10. Size(UploadOrder(file)) = n + Size(merkle_tree(hs)) /\ Size(merkle_tree(hs)) \in Nat
  <2>1. IsSeq(merkle_tree(hs))
    BY <1>5, TreeNodesReal DEF AllReal
  <2> QED BY <1>5, <1>8, <2>1, CatSeq, SeqLen
<1>11. Size(UploadOrder(file)) # 0
  BY <1>3, <1>10
<1>12. ~Empty(UploadOrder(file))
  BY <1>9, <1>11, NilSeq DEF AllReal
<1> QED BY <1>9, <1>12

----------------------------------------------------------------------------
(* The invariant                                                            *)

\* The rows, with the fields they have.
IsRow(row) ==
    DOMAIN row = {"mmr_root", "start_seq", "leaves", "used_bytes", "node_count", "max_bytes"}

RowOK(row) ==
    /\ IsRow(row)
    /\ row.start_seq \in Nat /\ IsSeq(row.leaves) /\ row.mmr_root = root(row.leaves)
    /\ row.used_bytes \in 0..MaxBytes /\ row.node_count \in Nat /\ row.max_bytes = MaxBytes

LeavesOK(N, leaves) ==
    \A i \in 1..Size(leaves) : Committed(N, leaves[i].data_root, leaves[i].data_size)

\* An outcome that a row bears out: as long as the row was not pruned past
\* its start, it holds the leaves the commitment is the root of, and the
\* committed roots are where the receipt says.
Covered(row, c) == Slice(row.leaves, c.start_seq - row.start_seq + 1, c.start_seq - row.start_seq + c.leaf_count)

Honest(row, o) ==
    /\ o.commitment.start_seq \in Nat /\ o.commitment.leaf_count \in Nat
    /\ o.commitment.start_seq >= row.start_seq =>
          /\ o.commitment.start_seq - row.start_seq + o.commitment.leaf_count <= Size(row.leaves)
          /\ root(Covered(row, o.commitment)) = o.commitment.mmr_root
          /\ \A n \in DOMAIN o.data_roots :
                /\ o.leaf_indices[n] \in Nat /\ o.leaf_indices[n] < o.commitment.leaf_count
                /\ Covered(row, o.commitment)[o.leaf_indices[n] + 1].data_root = o.data_roots[n]

\* A bucket's row is told from a missing one.
LEMMA RowIsNotNone == \A row : IsRow(row) => row # None
<1>1. DOMAIN None = {"option"}
  BY DEF None
<1>2. "start_seq" # "option"
  OBVIOUS
<1> QED BY <1>1, <1>2 DEF IsRow

\* Storing a node changes nothing an outcome is about.
LEMMA HonestSame ==
    ASSUME NEW row, NEW new, new.start_seq = row.start_seq, new.leaves = row.leaves, NEW o, Honest(row, o)
    PROVE  Honest(new, o)
<1>1. Covered(new, o.commitment) = Covered(row, o.commitment)
  BY DEF Covered
<1> QED BY <1>1 DEF Honest

\* A commit adds leaves at the end ...
LEMMA HonestAppend ==
    ASSUME NEW row, RowOK(row), NEW more, IsSeq(more), NEW new, new.start_seq = row.start_seq,
           new.leaves = Cat(row.leaves, more), NEW o, Honest(row, o)
    PROVE  Honest(new, o)
<1> DEFINE c == o.commitment
           l == c.start_seq - row.start_seq
           h == c.leaf_count
           s == row.leaves
           t == Cat(s, more)
<1>1. IsSeq(s) /\ Size(s) \in Nat /\ row.start_seq \in Nat /\ Size(more) \in Nat
  BY SeqLen DEF RowOK
<1>2. c.start_seq \in Nat /\ h \in Nat
  BY DEF Honest
<1>3. CASE c.start_seq >= row.start_seq
  <2>1. l \in Nat /\ l + h <= Size(s)
    BY <1>1, <1>2, <1>3 DEF Honest
  <2>2. IsSeq(t) /\ Size(t) = Size(s) + Size(more) /\ \A i \in 1..Size(s) : t[i] = s[i]
    BY <1>1, CatSeq
  <2> HIDE DEF l, h, s, t
  <2>3. l + h <= Size(t)
    BY <1>1, <1>2, <2>1, <2>2
  <2>4. Slice(t, l + 1, l + h) = Slice(s, l + 1, l + h)
    <3>1. /\ IsSeq(Slice(s, l + 1, l + h)) /\ Size(Slice(s, l + 1, l + h)) = h
          /\ \A i \in 1..h : Slice(s, l + 1, l + h)[i] = s[l + i]
      BY <1>1, <1>2, <2>1, SliceSeq
    <3>2. /\ IsSeq(Slice(t, l + 1, l + h)) /\ Size(Slice(t, l + 1, l + h)) = h
          /\ \A i \in 1..h : Slice(t, l + 1, l + h)[i] = t[l + i]
      BY <1>2, <2>1, <2>2, <2>3, SliceSeq
    <3>3. \A i \in 1..h : l + i \in 1..Size(s)
      BY <1>1, <1>2, <2>1
    <3>4. \A i \in 1..h : t[l + i] = s[l + i]
      BY <2>2, <3>3
    <3> QED BY <3>1, <3>2, <3>4, SameSeq
  <2>5. Covered(new, c) = Covered(row, c)
    BY <2>4 DEF Covered, l, h, s, t
  <2>6. c.start_seq - new.start_seq + c.leaf_count <= Size(new.leaves)
    BY <2>3 DEF l, h, t, s
  <2> QED BY <1>2, <1>3, <2>5, <2>6 DEF Honest
<1>4. CASE ~(c.start_seq >= row.start_seq)
  BY <1>2, <1>4 DEF Honest
<1> QED BY <1>3, <1>4

\* ... and a prune takes leaves off the front and moves the start past them.
LEMMA HonestPruned ==
    ASSUME NEW row, RowOK(row), NEW k \in Nat, k <= Size(row.leaves), NEW new,
           new.start_seq = row.start_seq + k,
           new.leaves = Drop(row.leaves, k), NEW o, Honest(row, o)
    PROVE  Honest(new, o)
<1> DEFINE c == o.commitment
           x == c.start_seq
           b == row.start_seq
           h == c.leaf_count
           s == row.leaves
           t == Drop(s, k)
<1>1. IsSeq(s) /\ Size(s) \in Nat /\ b \in Nat
  BY SeqLen DEF RowOK
<1>2. x \in Nat /\ h \in Nat
  BY DEF Honest
<1>3. CASE x >= b + k
  <2> DEFINE l == x - b
             m == x - (b + k)
  <2>1. l \in Nat /\ m \in Nat /\ l = k + m /\ x >= b
    BY <1>1, <1>2, <1>3
  <2>2. l + h <= Size(s)
    BY <2>1 DEF Honest
  <2>3. IsSeq(t) /\ Size(t) = Size(s) - k /\ \A i \in 1..(Size(s) - k) : t[i] = s[k + i]
    BY <1>1, DropSeq
  <2> HIDE DEF l, h, s, t, m, x, b
  <2>4. m + h <= Size(t)
    BY <1>1, <1>2, <2>1, <2>2, <2>3
  <2>5. Slice(t, m + 1, m + h) = Slice(s, l + 1, l + h)
    <3>1. /\ IsSeq(Slice(s, l + 1, l + h)) /\ Size(Slice(s, l + 1, l + h)) = h
          /\ \A i \in 1..h : Slice(s, l + 1, l + h)[i] = s[l + i]
      BY <1>1, <1>2, <2>1, <2>2, SliceSeq
    <3>2. /\ IsSeq(Slice(t, m + 1, m + h)) /\ Size(Slice(t, m + 1, m + h)) = h
          /\ \A i \in 1..h : Slice(t, m + 1, m + h)[i] = t[m + i]
      <4>1. m \in Nat /\ h \in Nat /\ IsSeq(t) /\ m + h <= Size(t)
        BY <1>2, <2>1, <2>3, <2>4
      <4> QED BY <4>1, SliceSeq
    <3>3. \A i \in 1..h : m + i \in 1..(Size(s) - k) /\ k + (m + i) = l + i
      BY <1>1, <1>2, <2>1, <2>2
    <3>4. \A i \in 1..h : t[m + i] = s[l + i]
      BY <2>3, <3>3
    <3> QED BY <3>1, <3>2, <3>4, SameSeq
  <2>6. Covered(new, c) = Covered(row, c)
    BY <2>5 DEF Covered, l, h, s, t, m, x, b
  <2>7. c.start_seq - new.start_seq + c.leaf_count <= Size(new.leaves)
    BY <2>4 DEF m, h, t, s, x, b
  <2>8. c.start_seq >= row.start_seq
    BY <2>1 DEF x, b
  <2> QED BY <1>2, <2>6, <2>7, <2>8 DEF Honest
<1>4. CASE ~(x >= b + k)
  BY <1>2, <1>4 DEF Honest
<1> QED BY <1>3, <1>4

\* What a row's commitment covers is all of its leaves.
LEMMA HonestState ==
    ASSUME NEW row, RowOK(row)
    PROVE  Honest(row, SignedState(row)) /\ Covered(row, commitment_of(row)) = row.leaves
<1> DEFINE o == SignedState(row)
           c == commitment_of(row)
           s == row.leaves
<1>1. /\ c.start_seq = row.start_seq /\ c.leaf_count = Size(s) /\ c.mmr_root = row.mmr_root
      /\ o.commitment = c /\ o.data_roots = Nil
  BY DEF SignedState, commitment_of, Commitment, Size, Nil
<1> HIDE DEF o, c
<1>2. IsSeq(s) /\ Size(s) \in Nat /\ row.start_seq \in Nat /\ row.mmr_root = root(s)
  BY SeqLen DEF RowOK
<1>3. c.start_seq - row.start_seq = 0
  BY <1>1, <1>2
<1>4. Covered(row, c) = s
  <2>1. Covered(row, c) = Slice(s, 0 + 1, 0 + Size(s))
    BY <1>1, <1>3 DEF Covered
  <2>2. 0 + 1 = 1 /\ 0 + Size(s) = Size(s)
    BY <1>2
  <2>3. Slice(s, 1, Size(s)) = Take(s, Size(s))
    BY DEF Slice, Take
  <2> QED BY <1>2, <2>1, <2>2, <2>3, TakeAll
<1>5. DOMAIN o.data_roots = {}
  BY <1>1 DEF Nil
<1>6. c.start_seq - row.start_seq + c.leaf_count <= Size(s)
  BY <1>1, <1>2, <1>3
<1> QED BY <1>1, <1>2, <1>4, <1>5, <1>6 DEF Honest, o, c

NewLeaves(leaves, roots, sizes) ==
    [i \in 1..Size(roots) |->
        [leaf_version |-> LEAF_VERSION, data_root |-> roots[i], data_size |-> sizes[i],
         total_size |-> TotalAfter(leaves, sizes, i)]]

\* commit appends one leaf for each root.
LEMMA WithLeavesIs ==
    ASSUME NEW leaves, NEW roots, IsSeq(roots), NEW sizes, NEW new, new = NewLeaves(leaves, roots, sizes)
    PROVE  /\ WithLeaves(leaves, roots, sizes) = Cat(leaves, new)
           /\ IsSeq(new) /\ Size(new) = Size(roots)
           /\ \A i \in 1..Size(roots) : new[i].data_root = roots[i] /\ new[i].data_size = sizes[i]
<1>1. WithLeaves(leaves, roots, sizes) = Cat(leaves, new)
  BY DEF WithLeaves, Cat, NewLeaves, Size
<1> DEFINE F(i) == [leaf_version |-> LEAF_VERSION, data_root |-> roots[i], data_size |-> sizes[i],
         total_size |-> TotalAfter(leaves, sizes, i)]
<1>2. new = [i \in 1..Size(roots) |-> F(i)]
  BY DEF NewLeaves
<1>3. \A i : F(i).data_root = roots[i] /\ F(i).data_size = sizes[i]
  OBVIOUS
<1> HIDE DEF F
<1>4. new = [i \in 1..Size(roots) |-> new[i]] /\ \A i \in 1..Size(roots) : new[i] = F(i)
  BY <1>2
<1>5. IsSeq(new) /\ Size(new) = Size(roots)
  BY <1>4, SeqLen, FunctionSeq
<1> QED BY <1>1, <1>3, <1>4, <1>5

\* A commit's receipt names the leaves the commit made.
LEMMA HonestCommit ==
    ASSUME NEW row, RowOK(row), NEW leaves, IsSeq(leaves), NEW roots, IsSeq(roots), NEW more, IsSeq(more),
           Size(more) = Size(roots), \A i \in 1..Size(roots) : more[i].data_root = roots[i],
           row.leaves = Cat(leaves, more)
    PROVE  Honest(row, CommitOutcome(row, roots))
<1> DEFINE o == CommitOutcome(row, roots)
           c == commitment_of(row)
           s == row.leaves
           n == Size(s)
           k == Size(roots)
<1>1. /\ c.start_seq = row.start_seq /\ c.leaf_count = n /\ c.mmr_root = row.mmr_root
      /\ o.commitment = c /\ o.data_roots = roots
      /\ o.leaf_indices = [i \in 1..k |-> n - k + i - 1]
  BY DEF CommitOutcome, commitment_of, Commitment, Size
<1> HIDE DEF o, c
<1>2. IsSeq(s) /\ n \in Nat /\ k \in Nat /\ row.start_seq \in Nat /\ row.mmr_root = root(s) /\ Size(leaves) \in Nat
  BY SeqLen DEF RowOK
<1>3. n = Size(leaves) + k /\ \A i \in 1..k : s[Size(leaves) + i] = more[i]
  BY CatSeq
<1>4. Covered(row, c) = s
  BY HonestState DEF c
<1>5. DOMAIN o.data_roots = 1..k
  BY <1>1 DEF IsSeq
<1>6. c.start_seq - row.start_seq + c.leaf_count <= Size(s)
  BY <1>1, <1>2
<1> HIDE DEF n, k, s
<1>7. ASSUME NEW i \in 1..k
      PROVE  /\ o.leaf_indices[i] \in Nat /\ o.leaf_indices[i] < c.leaf_count
             /\ s[o.leaf_indices[i] + 1].data_root = o.data_roots[i]
  <2>1. o.leaf_indices[i] = n - k + i - 1
    BY <1>1
  <2>2. n - k + i - 1 \in Nat /\ n - k + i - 1 < n /\ (n - k + i - 1) + 1 = Size(leaves) + i
    BY <1>2, <1>3
  <2>3. s[Size(leaves) + i] = more[i] /\ more[i].data_root = roots[i]
    BY <1>3 DEF k
  <2> QED BY <1>1, <2>1, <2>2, <2>3
<1> QED BY <1>1, <1>2, <1>4, <1>5, <1>6, <1>7 DEF Honest, o, s

\* Committed leaves stay committed.
LEMMA LeavesGrow ==
    ASSUME NEW N, NEW M, N \subseteq M, NEW leaves, LeavesOK(N, leaves)
    PROVE  LeavesOK(M, leaves)
BY CommittedGrows DEF LeavesOK

\* Well-committed leaves put together are well committed,
LEMMA LeavesAppend ==
    ASSUME NEW N, NEW s, NEW t, IsSeq(s), IsSeq(t), LeavesOK(N, s), LeavesOK(N, t)
    PROVE  LeavesOK(N, Cat(s, t))
<1> DEFINE c == Cat(s, t)
           n == Size(s)
           m == Size(t)
<1>1. n \in Nat /\ m \in Nat
  BY SeqLen
<1>2. /\ IsSeq(c) /\ Size(c) = n + m
      /\ \A i \in 1..n : c[i] = s[i]
      /\ \A i \in 1..m : c[n + i] = t[i]
  BY CatSeq
<1> HIDE DEF c, n, m
<1>3. ASSUME NEW i \in 1..(n + m) PROVE Committed(N, c[i].data_root, c[i].data_size)
  <2>1. i \in 1..n \/ i - n \in 1..m
    BY <1>1
  <2>2. CASE i \in 1..n
    BY <1>2, <2>2 DEF LeavesOK, n
  <2>3. CASE i - n \in 1..m
    <3>1. n + (i - n) = i
      BY <1>1
    <3>2. c[n + (i - n)] = t[i - n]
      BY <1>2, <2>3
    <3> QED BY <2>3, <3>1, <3>2 DEF LeavesOK, m
  <2> QED BY <2>1, <2>2, <2>3
<1> QED BY <1>2, <1>3 DEF LeavesOK, c

\* and so are those a prune leaves.
LEMMA LeavesDrop ==
    ASSUME NEW N, NEW s, IsSeq(s), LeavesOK(N, s), NEW k \in Nat, k <= Size(s)
    PROVE  IsSeq(Drop(s, k)) /\ LeavesOK(N, Drop(s, k))
<1> DEFINE t == Drop(s, k)
<1>1. /\ IsSeq(t) /\ Size(t) = Size(s) - k /\ Size(s) \in Nat
      /\ \A i \in 1..(Size(s) - k) : t[i] = s[k + i]
  BY DropSeq, SeqLen
<1> HIDE DEF t
<1>2. \A i \in 1..(Size(s) - k) : k + i \in 1..Size(s)
  BY <1>1
<1>3. \A i \in 1..Size(t) : Committed(N, t[i].data_root, t[i].data_size)
  BY <1>1, <1>2 DEF LeavesOK
<1> QED BY <1>1, <1>3 DEF LeavesOK, t

IsMap(f, S) == f = [x \in S |-> f[x]]

Updated(f, a, v) == [f EXCEPT ![a] = v]

\* An updated map.
LEMMA MapUpdate ==
    ASSUME NEW f, NEW S, IsMap(f, S), NEW a \in S, NEW v, NEW g, g = Updated(f, a, v)
    PROVE  IsMap(g, S) /\ g[a] = v /\ \A x \in S : x # a => g[x] = f[x]
BY DEF IsMap, Updated

\* Charging a node changes two counters of the row.
LEMMA ChargedIs ==
    ASSUME NEW row, IsRow(row), NEW hash, NEW new, new = Charged(row, hash)
    PROVE  /\ IsRow(new) /\ new.start_seq = row.start_seq /\ new.leaves = row.leaves
           /\ new.mmr_root = row.mmr_root /\ new.max_bytes = row.max_bytes
           /\ new.used_bytes = row.used_bytes + node_size(hash)
           /\ new.node_count = row.node_count + 1
BY DEF Charged, IsRow

\* A commit or a prune changes the leaves and the root of the row.
LEMMA WithMmrIs ==
    ASSUME NEW row, IsRow(row), NEW start_seq, NEW leaves, NEW new, new = WithMmr(row, start_seq, leaves)
    PROVE  /\ IsRow(new) /\ new.start_seq = start_seq /\ new.leaves = leaves
           /\ new.mmr_root = root(leaves) /\ new.max_bytes = row.max_bytes
           /\ new.used_bytes = row.used_bytes /\ new.node_count = row.node_count
BY DEF WithMmr, IsRow

\* A real node has a size.
LEMMA NodeSizeType ==
    ASSUME NEW hash, Real(hash)
    PROVE  node_size(hash) \in Nat
<1>0. ChunkSize \in Nat
  BY BackendAssumption
<1>1. CASE IsChunk(hash)
  <2>1. hash[2].size \in 1..ChunkSize
    BY <1>1, RealChunk
  <2> QED BY <1>0, <1>1, <2>1 DEF node_size
<1>2. CASE ~IsChunk(hash)
  BY <1>2 DEF node_size
<1> QED BY <1>1, <1>2

\* A row that stored a node within its quota.
LEMMA ChargedRow ==
    ASSUME NEW row, RowOK(row), NEW hash, Real(hash), WithinQuota(row, hash)
    PROVE  RowOK(Charged(row, hash))
<1> DEFINE new == Charged(row, hash)
<1>1. /\ IsRow(new) /\ new.start_seq = row.start_seq /\ new.leaves = row.leaves
      /\ new.mmr_root = row.mmr_root /\ new.max_bytes = row.max_bytes
      /\ new.used_bytes = row.used_bytes + node_size(hash)
      /\ new.node_count = row.node_count + 1
  BY ChargedIs DEF RowOK
<1>2. node_size(hash) \in Nat
  BY NodeSizeType
<1>3. row.used_bytes \in 0..MaxBytes /\ row.max_bytes = MaxBytes /\ row.node_count \in Nat
      /\ row.used_bytes + node_size(hash) <= row.max_bytes
  BY DEF RowOK, WithinQuota
<1> HIDE DEF new
<1>4. MaxBytes \in Nat
  BY BackendAssumption
<1>5. new.used_bytes \in 0..MaxBytes /\ new.node_count \in Nat
  BY <1>1, <1>2, <1>3, <1>4
<1>6. new.max_bytes = MaxBytes
  BY <1>1, <1>3
<1>7. RowOK(new)
  BY <1>1, <1>5, <1>6 DEF RowOK
<1> QED BY <1>7 DEF new

\* Nodes and rows.
StoreOK(N, B) ==
    /\ Closed(N) /\ \A hash \in N : Real(hash)
    /\ IsMap(B, Buckets)
    /\ \A b \in Buckets : B[b] # None => RowOK(B[b]) /\ LeavesOK(N, B[b].leaves)

\* What a step of the store keeps: nodes, rows, and what rows bear out.
Kept(N, B, M, D) ==
    /\ N \subseteq M
    /\ \A b \in Buckets : B[b] # None =>
          D[b] # None /\ \A o : Honest(B[b], o) => Honest(D[b], o)

\* Only the row of one bucket changes.
LEMMA RowChanged ==
    ASSUME NEW N, NEW B, NEW M, StoreOK(N, B), N \subseteq M, Closed(M), \A hash \in M : Real(hash),
           NEW b \in Buckets, NEW row, NEW D, D = Updated(B, b, row),
           RowOK(row), LeavesOK(M, row.leaves),
           B[b] # None => \A o : Honest(B[b], o) => Honest(row, o)
    PROVE  StoreOK(M, D) /\ Kept(N, B, M, D) /\ D[b] = row /\ D[b] # None
<1>1. IsMap(D, Buckets) /\ D[b] = row /\ \A x \in Buckets : x # b => D[x] = B[x]
  <2>1. IsMap(B, Buckets)
    BY DEF StoreOK
  <2> QED BY <2>1, MapUpdate
<1>2. row # None
  BY RowIsNotNone DEF RowOK
<1>3. ASSUME NEW x \in Buckets, D[x] # None PROVE RowOK(D[x]) /\ LeavesOK(M, D[x].leaves)
  <2>1. CASE x = b
    BY <1>1, <2>1
  <2>2. CASE x # b
    <3>1. RowOK(B[x]) /\ LeavesOK(N, B[x].leaves)
      BY <1>1, <1>3, <2>2 DEF StoreOK
    <3> QED BY <1>1, <2>2, <3>1, LeavesGrow
  <2> QED BY <2>1, <2>2
<1>4. ASSUME NEW x \in Buckets, B[x] # None
      PROVE  D[x] # None /\ \A o : Honest(B[x], o) => Honest(D[x], o)
  BY <1>1, <1>2, <1>4
<1>5. StoreOK(M, D)
  BY <1>1, <1>3 DEF StoreOK
<1>6. Kept(N, B, M, D)
  BY <1>4 DEF Kept
<1> QED BY <1>1, <1>2, <1>5, <1>6

\* init_bucket keeps the store well formed,
LEMMA InitBucketKeeps ==
    ASSUME StoreOK(nodes, buckets), NEW b \in Buckets, init_bucket(b)
    PROVE  StoreOK(nodes', buckets') /\ Kept(nodes, buckets, nodes', buckets')
<1> DEFINE row == NewBucketState
<1>1. /\ row.start_seq = 0 /\ row.leaves = Nil /\ row.mmr_root = Zero /\ row.used_bytes = 0
      /\ row.node_count = 0 /\ row.max_bytes = MaxBytes /\ IsRow(row)
  BY DEF NewBucketState, IsRow, Nil
<1>2. buckets[b] = None /\ buckets' = Updated(buckets, b, row) /\ nodes' = nodes
  BY DEF init_bucket, Updated
<1> HIDE DEF row
<1>3. root(Nil) = Zero
  <2>1. LeafHashes(Nil) = Nil
    <3>1. IsSeq(LeafHashes(Nil)) /\ Size(LeafHashes(Nil)) = 0
      BY NilSeq, LeafHashesSeq
    <3> QED BY <3>1, NilSeq
  <2>2. bag_peaks(Nil) = Zero
    BY DEF bag_peaks, Nil
  <2> QED BY <2>1, <2>2, PeaksNil DEF root, RootOver
<1>4. IsSeq(Nil) /\ Size(Nil) = 0 /\ MaxBytes \in Nat
  BY NilSeq, BackendAssumption
<1>5. 0 \in Nat /\ 0 \in 0..MaxBytes
  BY <1>4
<1>6. RowOK(row)
  BY <1>1, <1>3, <1>4, <1>5 DEF RowOK
<1>7. LeavesOK(nodes, row.leaves)
  BY <1>1, <1>4 DEF LeavesOK
<1> QED BY <1>2, <1>6, <1>7, RowChanged DEF StoreOK

\* so does store_node, whether it commits or refuses,
LEMMA StoreNodeKeeps ==
    ASSUME StoreOK(nodes, buckets), NEW b \in Buckets, NEW hash, Real(hash), store_node(b, hash)
    PROVE  StoreOK(nodes', buckets') /\ Kept(nodes, buckets, nodes', buckets')
<1> DEFINE row == buckets[b]
           new == ChargedForNew(row, hash)
<1>1. /\ ChildrenStored(hash) /\ row # None /\ WithinQuota(row, hash) /\ nodes' = nodes \cup {hash}
      /\ buckets' = Updated(buckets, b, new)
  BY DEF store_node, Updated
<1>2. RowOK(row) /\ LeavesOK(nodes, row.leaves)
  BY <1>1 DEF StoreOK
<1>3. RowOK(new) /\ new.start_seq = row.start_seq /\ new.leaves = row.leaves
  <2>1. CASE hash \in nodes
    BY <1>2, <2>1 DEF ChargedForNew
  <2>2. CASE hash \notin nodes
    <3>1. new = Charged(row, hash)
      BY <2>2 DEF ChargedForNew
    <3>2. RowOK(Charged(row, hash))
      BY <1>1, <1>2, ChargedRow
    <3>3. IsRow(row)
      BY <1>2 DEF RowOK
    <3> HIDE DEF row, new
    <3> QED BY <3>1, <3>2, <3>3, ChargedIs
  <2> QED BY <2>1, <2>2
<1> HIDE DEF new
<1>4. Closed(nodes')
  BY <1>1 DEF StoreOK, Closed, ChildrenStored
<1>5. (\A h \in nodes' : Real(h)) /\ nodes \subseteq nodes'
  BY <1>1 DEF StoreOK
<1>6. LeavesOK(nodes', new.leaves)
  BY <1>2, <1>3, <1>5, LeavesGrow
<1>7. \A o : Honest(row, o) => Honest(new, o)
  BY <1>3, HonestSame
<1> QED BY <1>1, <1>3, <1>4, <1>5, <1>6, <1>7, RowChanged

\* so does the transaction of a commit, whose answer is honest,
LEMMA CommitTxnKeeps ==
    ASSUME StoreOK(nodes, buckets), NEW b \in Buckets, NEW roots, IsSeq(roots), NEW sizes,
           \A i \in 1..Size(roots) : Committed(nodes, roots[i], sizes[i]), commit_txn(b, roots, sizes)
    PROVE  /\ StoreOK(nodes', buckets') /\ Kept(nodes, buckets, nodes', buckets')
           /\ buckets'[b] # None /\ Honest(buckets'[b], CommitOutcome(buckets'[b], roots))
<1> DEFINE row == buckets[b]
           s == row.leaves
           more == NewLeaves(s, roots, sizes)
           all == WithLeaves(s, roots, sizes)
           new == WithMmr(row, row.start_seq, all)
<1>1. row # None /\ nodes' = nodes /\ buckets' = Updated(buckets, b, new)
  BY DEF commit_txn, Updated
<1>2. RowOK(row) /\ LeavesOK(nodes, s)
  BY <1>1 DEF StoreOK
<1>3. /\ all = Cat(s, more) /\ IsSeq(more) /\ Size(more) = Size(roots)
      /\ \A i \in 1..Size(roots) : more[i].data_root = roots[i] /\ more[i].data_size = sizes[i]
  BY WithLeavesIs
<1> HIDE DEF more, all
<1>4. /\ IsRow(new) /\ new.start_seq = row.start_seq /\ new.leaves = all
      /\ new.mmr_root = root(all) /\ new.max_bytes = row.max_bytes
      /\ new.used_bytes = row.used_bytes /\ new.node_count = row.node_count
  <2>1. IsRow(row)
    BY <1>2 DEF RowOK
  <2> HIDE DEF row
  <2> QED BY <2>1, WithMmrIs
<1> HIDE DEF new
<1>5. IsSeq(s)
  BY <1>2 DEF RowOK
<1>6. IsSeq(all)
  BY <1>3, <1>5, CatSeq
<1>7. RowOK(new)
  <2>1. /\ row.start_seq \in Nat /\ row.used_bytes \in 0..MaxBytes /\ row.node_count \in Nat
        /\ row.max_bytes = MaxBytes
    BY <1>2 DEF RowOK
  <2> HIDE DEF row
  <2> QED BY <1>4, <1>6, <2>1 DEF RowOK
<1>8. LeavesOK(nodes, more)
  BY <1>3 DEF LeavesOK
<1>9. LeavesOK(nodes', new.leaves)
  <2>1. LeavesOK(nodes, Cat(s, more))
    BY <1>2, <1>3, <1>5, <1>8, LeavesAppend
  <2> QED BY <1>1, <1>3, <1>4, <2>1
<1>10. \A o : Honest(row, o) => Honest(new, o)
  <2> HIDE DEF row
  <2> QED BY <1>2, <1>3, <1>4, HonestAppend DEF s
<1>11. Honest(new, CommitOutcome(new, roots))
  <2> HIDE DEF s
  <2> QED BY <1>3, <1>4, <1>5, <1>7, HonestCommit
<1>12. Closed(nodes') /\ (\A h \in nodes' : Real(h)) /\ nodes \subseteq nodes'
  BY <1>1 DEF StoreOK
<1>13. StoreOK(nodes', buckets') /\ Kept(nodes, buckets, nodes', buckets') /\ buckets'[b] = new /\ buckets'[b] # None
  BY <1>1, <1>7, <1>9, <1>10, <1>12, RowChanged
<1> QED BY <1>11, <1>13

\* and so does a prune.
LEMMA DeleteKeeps ==
    ASSUME StoreOK(nodes, buckets), NEW b \in Buckets, NEW new_start, delete_before(b, new_start)
    PROVE  /\ StoreOK(nodes', buckets') /\ Kept(nodes, buckets, nodes', buckets')
           /\ buckets'[b] # None /\ RowOK(buckets'[b])
<1> DEFINE row == buckets[b]
           s == row.leaves
           k == new_start - row.start_seq
           new == IF new_start = row.start_seq THEN row ELSE WithMmr(row, new_start, Drop(s, k))
<1>1. /\ row # None /\ nodes' = nodes /\ buckets' = Updated(buckets, b, new)
      /\ new_start \in row.start_seq..(row.start_seq + Size(s))
  BY DEF delete_before, Updated, Drop, Size
<1>2. RowOK(row) /\ LeavesOK(nodes, s)
  BY <1>1 DEF StoreOK
<1>3. row.start_seq \in Nat /\ IsSeq(s) /\ Size(s) \in Nat
  BY <1>2, SeqLen DEF RowOK
<1>4. k \in Nat /\ k <= Size(s) /\ new_start = row.start_seq + k /\ new_start \in Nat
  <2>1. \A x, y \in Nat : \A z \in x..(x + y) : z - x \in Nat /\ z - x <= y /\ z = x + (z - x) /\ z \in Nat
    OBVIOUS
  <2> QED BY <1>1, <1>3, <2>1
<1> HIDE DEF k
<1>5. RowOK(new) /\ LeavesOK(nodes, new.leaves) /\ \A o : Honest(row, o) => Honest(new, o)
  <2>1. CASE new_start = row.start_seq
    BY <1>2, <2>1
  <2>2. CASE new_start # row.start_seq
    <3> DEFINE t == Drop(s, k)
    <3>1. new = WithMmr(row, new_start, t)
      BY <2>2
    <3>2. IsSeq(t) /\ LeavesOK(nodes, t)
      BY <1>2, <1>3, <1>4, LeavesDrop
    <3>3. IsRow(row)
      BY <1>2 DEF RowOK
    <3> HIDE DEF row, new, t
    <3>4. /\ IsRow(new) /\ new.start_seq = new_start /\ new.leaves = t
          /\ new.mmr_root = root(t) /\ new.max_bytes = row.max_bytes
          /\ new.used_bytes = row.used_bytes /\ new.node_count = row.node_count
      BY <3>1, <3>3, WithMmrIs
    <3>5. RowOK(new)
      BY <1>2, <1>4, <3>2, <3>4 DEF RowOK
    <3>6. LeavesOK(nodes, new.leaves)
      BY <3>2, <3>4
    <3>7. ASSUME NEW o, Honest(row, o) PROVE Honest(new, o)
      BY <1>2, <1>4, <3>4, <3>7, HonestPruned DEF t
    <3> QED BY <3>5, <3>6, <3>7
  <2> QED BY <2>1, <2>2
<1> HIDE DEF new
<1>6. Closed(nodes') /\ (\A h \in nodes' : Real(h)) /\ nodes \subseteq nodes'
  BY <1>1 DEF StoreOK
<1>7. StoreOK(nodes', buckets') /\ Kept(nodes, buckets, nodes', buckets') /\ buckets'[b] = new /\ buckets'[b] # None
  BY <1>1, <1>5, <1>6, RowChanged
<1> QED BY <1>5, <1>7

\* A bucket whose row bears an outcome out.
Vouched(B, b, o) == b \in Buckets /\ B[b] # None /\ Honest(B[b], o)

IsRequest(r) == DOMAIN r = {"pc", "bucket", "todo", "sizes", "outcome"}

\* A request in flight: nodes still to store, roots found canonical, or the
\* outcome of a transaction that is not signed yet.
RequestOK(N, B, r) ==
    /\ IsRequest(r) /\ r.pc \in {"idle", "upload", "commit", "sign"}
    /\ r.pc # "idle" => r.bucket \in Buckets /\ IsSeq(r.todo) /\ ~Empty(r.todo)
    /\ r.pc = "upload" => AllReal(r.todo)
    /\ r.pc = "commit" => \A i \in 1..Size(r.todo) : Committed(N, r.todo[i], r.sizes[i])
    /\ r.pc = "sign" => Vouched(B, r.bucket, r.outcome)

SignedOK(B, s) == s # None => Vouched(B, s.bucket, s.outcome)

\* What the store vouches for it vouches for later,
LEMMA VouchedKept ==
    ASSUME NEW N, NEW B, NEW M, NEW D, Kept(N, B, M, D), NEW b, NEW o, Vouched(B, b, o)
    PROVE  Vouched(D, b, o)
BY DEF Vouched, Kept

\* so requests under way stay well formed,
LEMMA RequestKept ==
    ASSUME NEW N, NEW B, NEW M, NEW D, Kept(N, B, M, D), NEW r, RequestOK(N, B, r)
    PROVE  RequestOK(M, D, r)
<1>1. N \subseteq M
  BY DEF Kept
<1>2. ASSUME r.pc = "commit" PROVE \A i \in 1..Size(r.todo) : Committed(M, r.todo[i], r.sizes[i])
  BY <1>1, <1>2, CommittedGrows DEF RequestOK
<1>3. ASSUME r.pc = "sign" PROVE Vouched(D, r.bucket, r.outcome)
  BY <1>3, VouchedKept DEF RequestOK
<1> QED BY <1>2, <1>3 DEF RequestOK

\* and so does a signature.
LEMMA SignedKept ==
    ASSUME NEW N, NEW B, NEW M, NEW D, Kept(N, B, M, D), NEW s, SignedOK(B, s)
    PROVE  SignedOK(D, s)
BY VouchedKept DEF SignedOK

\* A client without a request is well formed.
LEMMA IdleOK == \A N, B : RequestOK(N, B, Idle) /\ IsRequest(Idle) /\ Idle.pc = "idle"
<1>1. IsRequest(Idle) /\ Idle.pc = "idle"
  BY DEF Idle, IsRequest
<1> QED BY <1>1 DEF RequestOK

\* The inductive invariant of the data path.
DataInv ==
    /\ StoreOK(nodes, buckets)
    /\ IsMap(client, Clients) /\ \A c \in Clients : RequestOK(nodes, buckets, client[c])
    /\ uploads \in 0..MaxUploads
    /\ SignedOK(buckets, signed)

\* The invariant holds of an empty store
LEMMA DataInit == Init => DataInv
<1> SUFFICES ASSUME Init PROVE DataInv
  OBVIOUS
<1>1. StoreOK(nodes, buckets)
  <2>1. Closed(nodes) /\ \A hash \in nodes : Real(hash)
    BY DEF Init, Closed
  <2>2. IsMap(buckets, Buckets) /\ \A b \in Buckets : buckets[b] = None
    BY DEF Init, IsMap
  <2> QED BY <2>1, <2>2 DEF StoreOK
<1>2. IsMap(client, Clients) /\ \A c \in Clients : client[c] = Idle
  BY DEF Init, IsMap
<1>3. uploads \in 0..MaxUploads
  BY NodeAssumption DEF Init
<1>4. SignedOK(buckets, signed)
  BY DEF Init, SignedOK
<1> QED BY <1>1, <1>2, <1>3, <1>4, IdleOK DEF DataInv

\* A step of the store, with the requests and the sample it leaves alone.
LEMMA StoreStep ==
    ASSUME DataInv, StoreOK(nodes', buckets'), Kept(nodes, buckets, nodes', buckets')
    PROVE  /\ \A c \in Clients : RequestOK(nodes', buckets', client[c])
           /\ SignedOK(buckets', signed)
BY RequestKept, SignedKept DEF DataInv

\* One request changes.
LEMMA RequestStep ==
    ASSUME IsMap(client, Clients), \A c \in Clients : RequestOK(nodes', buckets', client[c]),
           NEW c \in Clients, NEW r, RequestOK(nodes', buckets', r), client' = Updated(client, c, r)
    PROVE  IsMap(client', Clients) /\ \A d \in Clients : RequestOK(nodes', buckets', client'[d])
<1>1. IsMap(client', Clients) /\ client'[c] = r /\ \A x \in Clients : x # c => client'[x] = client[x]
  BY MapUpdate
<1> QED BY <1>1

\* The sample is what it was or a new signature.
LEMMA SignStep ==
    ASSUME SignedOK(buckets', signed), NEW b, NEW o, Vouched(buckets', b, o), Sign(b, o)
    PROVE  SignedOK(buckets', signed')
<1>1. signed' = signed \/ (signed'.bucket = b /\ signed'.outcome = o)
  BY DEF Sign
<1> QED BY <1>1 DEF SignedOK

\* and is kept by a client that starts an upload,
LEMMA UploadStep ==
    ASSUME DataInv, NEW c \in Clients, NEW b \in Written, NEW file \in Files, upload(c, b, file)
    PROVE  DataInv'
<1> DEFINE r == [Idle EXCEPT !.pc = "upload", !.bucket = b, !.todo = UploadOrder(file)]
<1>1. r.pc = "upload" /\ r.bucket = b /\ r.todo = UploadOrder(file) /\ IsRequest(r)
  BY DEF Idle, IsRequest
<1>2. AllReal(UploadOrder(file)) /\ ~Empty(UploadOrder(file)) /\ b \in Buckets
  BY UploadReal, NodeAssumption
<1>3. /\ client' = Updated(client, c, r) /\ nodes' = nodes /\ buckets' = buckets /\ signed' = signed
      /\ uploads' = uploads + 1 /\ uploads < MaxUploads
  BY DEF upload, Updated, storeVars
<1> HIDE DEF r
<1>4. RequestOK(nodes', buckets', r)
  BY <1>1, <1>2 DEF RequestOK, AllReal
<1>5. IsMap(client', Clients) /\ \A d \in Clients : RequestOK(nodes', buckets', client'[d])
  BY <1>3, <1>4, RequestStep DEF DataInv
<1>6. uploads' \in 0..MaxUploads
  BY <1>3, NodeAssumption DEF DataInv
<1> QED BY <1>3, <1>5, <1>6 DEF DataInv

\* by one that starts a commit,
LEMMA CommitStep ==
    ASSUME DataInv, NEW c \in Clients, NEW b \in Written, NEW roots \in Commits, commit(c, b, roots)
    PROVE  DataInv'
<1> DEFINE sizes == [i \in DOMAIN roots |-> canonical_data_size(roots[i]).value]
           r == [Idle EXCEPT !.pc = "commit", !.bucket = b, !.todo = roots, !.sizes = sizes]
<1>1. IsSeq(roots) /\ ~Empty(roots) /\ DOMAIN roots = 1..Size(roots) /\ b \in Buckets
  <2>1. roots \in Seq(ToSet(roots)) /\ roots # <<>> /\ b \in Buckets
    BY NodeAssumption
  <2>2. IsSeq(roots)
    BY <2>1, InSeqIsSeq
  <2>3. DOMAIN roots = 1..Size(roots)
    BY <2>1 DEF Size
  <2> QED BY <2>1, <2>2, <2>3 DEF Empty, Nil
<1>2. \A i \in 1..Size(roots) : Committed(nodes, roots[i], sizes[i])
  <2>1. \A i \in DOMAIN roots : roots[i] \in nodes /\ canonical_data_size(roots[i]).ok
    BY DEF commit
  <2>2. \A i \in DOMAIN roots : sizes[i] = canonical_data_size(roots[i]).value
    OBVIOUS
  <2> HIDE DEF sizes
  <2> QED BY <1>1, <2>1, <2>2, CanonicalAccepted
<1>3. /\ client' = Updated(client, c, r) /\ nodes' = nodes /\ buckets' = buckets /\ signed' = signed
      /\ uploads' = uploads
  BY DEF commit, Updated, storeVars
<1> HIDE DEF sizes
<1>4. r.pc = "commit" /\ r.bucket = b /\ r.todo = roots /\ r.sizes = sizes /\ IsRequest(r)
  BY DEF Idle, IsRequest
<1> HIDE DEF r
<1>5. RequestOK(nodes', buckets', r)
  BY <1>1, <1>2, <1>3, <1>4 DEF RequestOK
<1>6. IsMap(client', Clients) /\ \A d \in Clients : RequestOK(nodes', buckets', client'[d])
  BY <1>3, <1>5, RequestStep DEF DataInv
<1> QED BY <1>3, <1>6 DEF DataInv

\* by the next node of an upload,
LEMMA UploadNodeStep ==
    ASSUME DataInv, NEW c \in Clients, upload_node(c)
    PROVE  DataInv'
<1> DEFINE q == client[c]
           h == Head(q.todo)
           r == IF Len(q.todo) = 1 THEN Idle ELSE [q EXCEPT !.todo = Tail(q.todo)]
<1>1. /\ q.pc = "upload" /\ store_node(q.bucket, h) /\ client' = Updated(client, c, r)
      /\ uploads' = uploads /\ signed' = signed
  BY DEF upload_node, Updated
<1>2. IsRequest(q) /\ q.bucket \in Buckets /\ AllReal(q.todo) /\ ~Empty(q.todo) /\ IsSeq(q.todo)
  BY <1>1 DEF DataInv, RequestOK
<1>3. Size(q.todo) \in Nat /\ Size(q.todo) >= 1
  BY <1>2, SeqLen, NilSeq
<1>4. Real(h)
  <2>1. 1 \in 1..Size(q.todo)
    BY <1>3
  <2>2. h = q.todo[1]
    BY <1>2, RestSeq DEF First
  <2> QED BY <1>2, <2>1, <2>2 DEF AllReal
<1>5. StoreOK(nodes', buckets') /\ Kept(nodes, buckets, nodes', buckets')
  <2> HIDE DEF q, h
  <2> QED BY <1>1, <1>2, <1>4, StoreNodeKeeps DEF DataInv
<1>6. RequestOK(nodes', buckets', r)
  <2>1. CASE Size(q.todo) = 1
    BY <2>1, IdleOK DEF Size
  <2>2. CASE Size(q.todo) # 1
    <3> DEFINE t == Rest(q.todo)
    <3>1. r = [q EXCEPT !.todo = t]
      BY <2>2 DEF Size, Rest
    <3>2. /\ IsSeq(t) /\ Size(t) = Size(q.todo) - 1
          /\ \A i \in 1..(Size(q.todo) - 1) : t[i] = q.todo[i + 1]
      BY <1>2, RestSeq
    <3>3. ~Empty(t)
      <4>1. Size(t) # 0
        BY <1>3, <2>2, <3>2
      <4> QED BY <3>2, <4>1, NilSeq
    <3>4. AllReal(t)
      <4>1. \A i \in 1..(Size(q.todo) - 1) : i + 1 \in 1..Size(q.todo)
        BY <1>3
      <4> QED BY <1>2, <3>2, <4>1 DEF AllReal
    <3> HIDE DEF t, q, r
    <3>5. r.pc = q.pc /\ r.bucket = q.bucket /\ r.todo = t /\ IsRequest(r)
      BY <1>2, <3>1 DEF IsRequest
    <3> QED BY <1>1, <1>2, <3>2, <3>3, <3>4, <3>5 DEF RequestOK
  <2> QED BY <2>1, <2>2
<1> HIDE DEF r, q
<1>7. IsMap(client', Clients) /\ \A d \in Clients : RequestOK(nodes', buckets', client'[d])
  BY <1>1, <1>5, <1>6, StoreStep, RequestStep DEF DataInv
<1>8. SignedOK(buckets', signed)
  BY <1>5, StoreStep
<1> QED BY <1>1, <1>5, <1>7, <1>8 DEF DataInv

\* by the transaction of a commit,
LEMMA CommitTxnStep ==
    ASSUME DataInv, NEW c \in Clients, CommitTxn(c)
    PROVE  DataInv'
<1> DEFINE q == client[c]
           o == CommitOutcome(buckets'[q.bucket], q.todo)
           r == [q EXCEPT !.pc = "sign", !.outcome = o]
<1>1. /\ q.pc = "commit" /\ commit_txn(q.bucket, q.todo, q.sizes) /\ client' = Updated(client, c, r)
      /\ uploads' = uploads /\ signed' = signed
  BY DEF CommitTxn, Updated
<1>2. /\ IsRequest(q) /\ q.bucket \in Buckets /\ ~Empty(q.todo) /\ IsSeq(q.todo)
      /\ \A i \in 1..Size(q.todo) : Committed(nodes, q.todo[i], q.sizes[i])
  BY <1>1 DEF DataInv, RequestOK
<1> HIDE DEF q
<1>3. /\ StoreOK(nodes', buckets') /\ Kept(nodes, buckets, nodes', buckets')
      /\ buckets'[q.bucket] # None /\ Honest(buckets'[q.bucket], o)
  BY <1>1, <1>2, CommitTxnKeeps DEF DataInv
<1> HIDE DEF o
<1>4. r.pc = "sign" /\ r.bucket = q.bucket /\ r.todo = q.todo /\ r.outcome = o /\ IsRequest(r)
  BY <1>2 DEF IsRequest
<1> HIDE DEF r
<1>5. RequestOK(nodes', buckets', r)
  BY <1>2, <1>3, <1>4 DEF RequestOK, Vouched
<1>6. IsMap(client', Clients) /\ \A d \in Clients : RequestOK(nodes', buckets', client'[d])
  BY <1>1, <1>3, <1>5, StoreStep, RequestStep DEF DataInv
<1>7. SignedOK(buckets', signed)
  BY <1>3, StoreStep
<1> QED BY <1>1, <1>3, <1>6, <1>7 DEF DataInv

\* by the signature after it,
LEMMA SignCommitStep ==
    ASSUME DataInv, NEW c \in Clients, SignCommit(c)
    PROVE  DataInv'
<1>1. /\ client[c].pc = "sign" /\ Sign(client[c].bucket, client[c].outcome)
      /\ client' = Updated(client, c, Idle)
      /\ nodes' = nodes /\ buckets' = buckets /\ uploads' = uploads
  BY DEF SignCommit, Updated, storeVars
<1>2. Vouched(buckets', client[c].bucket, client[c].outcome)
  BY <1>1 DEF DataInv, RequestOK
<1>3. SignedOK(buckets', signed')
  BY <1>1, <1>2, SignStep DEF DataInv
<1>4. IsMap(client', Clients) /\ \A d \in Clients : RequestOK(nodes', buckets', client'[d])
  BY <1>1, IdleOK, RequestStep DEF DataInv
<1> QED BY <1>1, <1>3, <1>4 DEF DataInv

\* by a bucket's first row,
LEMMA InitBucketStep ==
    ASSUME DataInv, NEW b \in Buckets, InitBucket(b)
    PROVE  DataInv'
<1>1. init_bucket(b) /\ client' = client /\ uploads' = uploads /\ signed' = signed
  BY DEF InitBucket
<1>2. StoreOK(nodes', buckets') /\ Kept(nodes, buckets, nodes', buckets')
  BY <1>1, InitBucketKeeps DEF DataInv
<1> QED BY <1>1, <1>2, StoreStep DEF DataInv

\* by a signed answer to a query,
LEMMA GetCommitmentStep ==
    ASSUME DataInv, NEW b \in Buckets, get_commitment(b)
    PROVE  DataInv'
<1>1. /\ buckets[b] # None /\ Sign(b, SignedState(buckets[b]))
      /\ nodes' = nodes /\ buckets' = buckets /\ client' = client /\ uploads' = uploads
  BY DEF get_commitment, storeVars
<1>2. RowOK(buckets[b])
  BY <1>1 DEF DataInv, StoreOK
<1>3. Vouched(buckets', b, SignedState(buckets[b]))
  BY <1>1, <1>2, HonestState DEF Vouched
<1>4. SignedOK(buckets', signed')
  BY <1>1, <1>3, SignStep DEF DataInv
<1> QED BY <1>1, <1>4 DEF DataInv

\* by a single stored node,
LEMMA PutNodeStep ==
    ASSUME DataInv, NEW b \in Buckets, NEW hash \in Strays, PutNode(b, hash)
    PROVE  DataInv'
<1>1. store_node(b, hash) /\ client' = client /\ uploads' = uploads /\ signed' = signed
  BY DEF PutNode
<1>2. Real(hash)
  BY NodeAssumption DEF Real
<1>3. StoreOK(nodes', buckets') /\ Kept(nodes, buckets, nodes', buckets')
  BY <1>1, <1>2, StoreNodeKeeps DEF DataInv
<1> QED BY <1>1, <1>3, StoreStep DEF DataInv

\* by a prune
LEMMA DeleteStep ==
    ASSUME DataInv, NEW b \in Buckets, NEW new_start, delete_data(b, new_start)
    PROVE  DataInv'
<1>1. /\ delete_before(b, new_start) /\ Sign(b, SignedState(buckets'[b]))
      /\ client' = client /\ uploads' = uploads
  BY DEF delete_data
<1>2. /\ StoreOK(nodes', buckets') /\ Kept(nodes, buckets, nodes', buckets')
      /\ buckets'[b] # None /\ RowOK(buckets'[b])
  BY <1>1, DeleteKeeps DEF DataInv
<1>3. Vouched(buckets', b, SignedState(buckets'[b]))
  BY <1>2, HonestState DEF Vouched
<1>4. SignedOK(buckets', signed')
  BY <1>1, <1>2, <1>3, StoreStep, SignStep
<1> QED BY <1>1, <1>2, <1>4, StoreStep DEF DataInv

\* and by a restart;
LEMMA RestartStep ==
    ASSUME DataInv, Restart
    PROVE  DataInv'
<1>1. /\ client' = [c \in Clients |-> Idle] /\ nodes' = nodes /\ buckets' = buckets
      /\ uploads' = uploads /\ signed' = signed
  BY DEF Restart, storeVars
<1>2. IsMap(client', Clients) /\ \A c \in Clients : client'[c] = Idle
  BY <1>1 DEF IsMap
<1> QED BY <1>1, <1>2, IdleOK DEF DataInv

\* so by every step.
LEMMA DataStep == DataInv /\ [Next]_vars => DataInv'
<1> SUFFICES ASSUME DataInv, [Next]_vars PROVE DataInv'
  OBVIOUS
<1>1. CASE UNCHANGED vars
  <2>1. /\ nodes' = nodes /\ buckets' = buckets /\ client' = client /\ uploads' = uploads
        /\ signed' = signed
    BY <1>1 DEF vars, storeVars
  <2> QED BY <2>1 DEF DataInv
<1>2. CASE Next
  BY <1>2, UploadStep, CommitStep, UploadNodeStep, CommitTxnStep, SignCommitStep, InitBucketStep,
     GetCommitmentStep, PutNodeStep, DeleteStep, RestartStep DEF Next
<1> QED BY <1>1, <1>2

\* The store, the requests under way and the signature are well formed in every
\* reachable state of the node (StoreOK, RequestOK, SignedOK).
THEOREM DataInvariant == Spec => []DataInv
BY DataInit, DataStep, PTL DEF Spec

----------------------------------------------------------------------------
(* What follows from the invariant                                          *)

\* The rows of the store and the requests are well typed.
LEMMA DataTypes == DataInv => TypeOK
<1> SUFFICES ASSUME DataInv PROVE TypeOK
  OBVIOUS
<1>1. ASSUME NEW hash \in nodes PROVE hash[1] \in {"leaf", "node"} /\ ChildrenStored(hash)
  <2>1. ChildrenStored(hash)
    BY DEF DataInv, StoreOK, Closed, ChildrenStored
  <2>2. Real(hash)
    BY DEF DataInv, StoreOK
  <2>3. (\A x : hash_leaf(x)[1] = "leaf") /\ \A x, y : hash_children(x, y)[1] = "node"
    BY DEF hash_leaf, hash_children
  <2>4. hash[1] = "leaf" \/ hash[1] = "node"
    BY <2>2, <2>3 DEF Real
  <2> QED BY <2>1, <2>4
<1>2. ASSUME NEW b \in Buckets, buckets[b] # None
      PROVE  /\ buckets[b].start_seq \in Nat /\ buckets[b].used_bytes \in 0..MaxBytes
             /\ buckets[b].mmr_root = root(buckets[b].leaves)
  <2>1. RowOK(buckets[b])
    BY <1>2 DEF DataInv, StoreOK
  <2> QED BY <2>1 DEF RowOK
<1>3. ASSUME NEW c \in Clients
      PROVE  /\ client[c].pc \in {"idle", "upload", "commit", "sign"}
             /\ client[c].pc # "idle" => client[c].bucket \in Buckets /\ client[c].todo # <<>>
  <2>1. RequestOK(nodes, buckets, client[c])
    BY DEF DataInv
  <2> QED BY <2>1 DEF RequestOK, Empty, Nil
<1>4. uploads \in 0..MaxUploads
  BY DEF DataInv
<1> QED BY <1>1, <1>2, <1>3, <1>4 DEF TypeOK

\* The row that a held commitment was signed for, and what it covers.
Sampled(row, c, leaves) ==
    /\ signed # None /\ signed.bucket \in Buckets /\ row = buckets[signed.bucket] /\ row # None
    /\ c = signed.outcome.commitment /\ RowOK(row) /\ LeavesOK(nodes, row.leaves)
    /\ Honest(row, signed.outcome) /\ c.start_seq >= row.start_seq
    /\ c.start_seq \in Nat /\ c.leaf_count \in Nat /\ row.start_seq \in Nat
    /\ leaves = Covered(row, c) /\ leaves = TrueLeaves
    /\ IsSeq(leaves) /\ Size(leaves) = c.leaf_count /\ root(leaves) = c.mmr_root
    /\ c.start_seq - row.start_seq + c.leaf_count <= Size(row.leaves)
    /\ LeavesOK(nodes, leaves)

\* A signature that still holds is over the leaves the responder reads.
LEMMA HeldIsSampled ==
    ASSUME DataInv, Held, NEW row, row = buckets[signed.bucket], NEW c, c = signed.outcome.commitment
    PROVE  Sampled(row, c, TrueLeaves)
<1> DEFINE s == row.leaves
           l == c.start_seq - row.start_seq
           h == c.leaf_count
<1>1. signed # None /\ c.start_seq >= row.start_seq
  BY DEF Held
<1>2. signed.bucket \in Buckets /\ row # None /\ Honest(row, signed.outcome)
  BY <1>1 DEF DataInv, SignedOK, Vouched
<1>3. RowOK(row) /\ LeavesOK(nodes, s)
  BY <1>2 DEF DataInv, StoreOK
<1>4. row.start_seq \in Nat /\ c.start_seq \in Nat /\ h \in Nat /\ IsSeq(s) /\ Size(s) \in Nat
  BY <1>2, <1>3, SeqLen DEF RowOK, Honest
<1>5. l + h <= Size(s) /\ root(Covered(row, c)) = c.mmr_root
  BY <1>1, <1>2 DEF Honest
<1>6. TrueLeaves = Covered(row, c)
  BY DEF TrueLeaves, Covered, Slice
<1>7. l \in Nat
  BY <1>1, <1>4
<1>8. Covered(row, c) = Slice(s, l + 1, l + h)
  BY DEF Covered
<1> HIDE DEF s, l, h
<1>9. /\ IsSeq(Slice(s, l + 1, l + h)) /\ Size(Slice(s, l + 1, l + h)) = h
      /\ \A i \in 1..h : Slice(s, l + 1, l + h)[i] = s[l + i]
  <2>1. l \in Nat /\ h \in Nat /\ IsSeq(s) /\ l + h <= Size(s)
    BY <1>4, <1>5, <1>7
  <2> QED BY <2>1, SliceSeq
<1>10. LeavesOK(nodes, Slice(s, l + 1, l + h))
  <2>1. \A i \in 1..h : l + i \in 1..Size(s)
    BY <1>4, <1>5, <1>7
  <2> QED BY <1>3, <1>9, <2>1 DEF LeavesOK
<1> QED BY <1>1, <1>2, <1>3, <1>4, <1>5, <1>6, <1>8, <1>9, <1>10 DEF Sampled, s, l, h

\* The receipt of a commit is honest.
LEMMA ReceiptHonest == DataInv => ReceiptNamesItsLeaves
<1> SUFFICES ASSUME DataInv, Held, NEW n \in DOMAIN signed.outcome.data_roots,
                    NEW i, i = signed.outcome.leaf_indices[n]
             PROVE  i \in LeafIndices /\ TrueLeaves[i + 1].data_root = signed.outcome.data_roots[n]
  BY DEF ReceiptNamesItsLeaves
<1> DEFINE c == signed.outcome.commitment
           row == buckets[signed.bucket]
<1>1. Sampled(row, c, TrueLeaves)
  BY HeldIsSampled
<1>2. /\ Honest(row, signed.outcome) /\ c.start_seq >= row.start_seq /\ TrueLeaves = Covered(row, c)
      /\ c.leaf_count \in Nat
  BY <1>1 DEF Sampled
<1>3. i \in Nat /\ i < c.leaf_count /\ Covered(row, c)[i + 1].data_root = signed.outcome.data_roots[n]
  BY <1>2 DEF Honest
<1>4. i \in 0..(c.leaf_count - 1)
  BY <1>2, <1>3
<1> QED BY <1>2, <1>3, <1>4 DEF LeafIndices

\* The pallet looks at the root and the count of a commitment.
LEMMA SameVerdict ==
    ASSUME NEW c, NEW d, c.leaf_count = d.leaf_count, c.mmr_root = d.mmr_root, NEW pr, NEW i
    PROVE  verify_mmr_proof(pr, i, c) <=> verify_mmr_proof(pr, i, d)
BY DEF verify_mmr_proof

\* The proof of a leaf is accepted against the commitment,
LEMMA LeafAccepted ==
    ASSUME NEW leaves, IsSeq(leaves), NEW c, c.leaf_count = Size(leaves), c.mmr_root = root(leaves),
           NEW i \in Nat, i < Size(leaves)
    PROVE  verify_mmr_proof(proof(leaves, i), i, c)
<1> DEFINE d == Commitment(root(leaves), 0, Len(leaves))
<1>1. d.leaf_count = Size(leaves) /\ d.mmr_root = root(leaves)
  BY DEF Commitment, Size
<1>2. i < Len(leaves)
  BY DEF Size
<1>3. verify_mmr_proof(proof(leaves, i), i, d)
  BY <1>2, MmrProofVerifies
<1> HIDE DEF d
<1> QED BY <1>1, <1>3, SameVerdict

\* and what is accepted at an index is the leaf there.
LEMMA LeafBound ==
    ASSUME NEW leaves, IsSeq(leaves), NEW c, c.leaf_count = Size(leaves), c.mmr_root = root(leaves),
           NEW i \in Nat, NEW pr, IsSeq(pr.items), verify_mmr_proof(pr, i, c)
    PROVE  i < Size(leaves) /\ pr.leaf = leaves[i + 1]
<1> DEFINE d == Commitment(root(leaves), 0, Len(leaves))
<1>1. d.leaf_count = Size(leaves) /\ d.mmr_root = root(leaves)
  BY DEF Commitment, Size
<1>2. verify_mmr_proof(pr, i, d)
  <2> HIDE DEF d
  <2> QED BY <1>1, SameVerdict
<1> QED BY <1>2, MmrProofBinds DEF Size

\* A committed leaf and the chunks that can be read of it.
Readable(leaf, chunks) ==
    /\ IsSeq(chunks) /\ collect_leaves(leaf.data_root).value = chunks
    /\ merkle_root(chunks) = leaf.data_root /\ SizeOf(chunks) = leaf.data_size
    /\ chunk_count(leaf) = Size(chunks) /\ Size(chunks) \in Nat
    /\ tree_chunk_count(leaf.data_root) = Ok(Size(chunks))
    /\ \A i \in Nat : i < Size(chunks) =>
          \E data : /\ hash_leaf(data) = chunks[i + 1]
                    /\ chunk_with_proof(leaf.data_root, Size(chunks), i)
                       = Found(data, proof_from_levels(chunks, i))

\* The chunks of a committed leaf are all stored.
LEMMA CommittedIsReadable ==
    ASSUME DataInv, NEW leaves, LeavesOK(nodes, leaves), NEW i \in 1..Size(leaves), NEW leaf, leaf = leaves[i]
    PROVE  \E chunks : Readable(leaf, chunks)
<1>1. Committed(nodes, leaf.data_root, leaf.data_size)
  BY DEF LeavesOK
<1>2. Closed(nodes) /\ \A hash \in nodes : Real(hash)
  BY DEF DataInv, StoreOK
<1> QED BY <1>1, <1>2, LeafRead DEF Readable

\* A chunk of a readable leaf is found with a proof that verifies.
LEMMA ChunkAccepted ==
    ASSUME NEW leaf, NEW chunks, Readable(leaf, chunks), NEW k \in Nat, k < Size(chunks),
           NEW found, found = chunk_with_proof(leaf.data_root, Size(chunks), k)
    PROVE  /\ found.ok /\ hash_leaf(found.value.chunk) = chunks[k + 1]
           /\ verify_merkle_proof(hash_leaf(found.value.chunk), k, chunk_count(leaf),
                                  found.value.proof, leaf.data_root)
<1>1. PICK data : hash_leaf(data) = chunks[k + 1] /\ found = Found(data, proof_from_levels(chunks, k))
  BY DEF Readable
<1>2. found.ok /\ found.value.chunk = data /\ found.value.proof = proof_from_levels(chunks, k)
  BY <1>1 DEF Found, Ok
<1>3. IsSeq(chunks) /\ merkle_root(chunks) = leaf.data_root /\ chunk_count(leaf) = Len(chunks) /\ k < Len(chunks)
  BY DEF Readable, Size
<1>4. verify_merkle_proof(chunks[k + 1], k, Len(chunks), proof_from_levels(chunks, k), merkle_root(chunks))
  BY <1>3, ChunkProofVerifies
<1> QED BY <1>1, <1>2, <1>3, <1>4

\* What get_mmr_proof_for_commitment returns when it succeeds, and when it does.
LEMMA ProofForCommitment ==
    ASSUME NEW b, NEW row, row = buckets[b], row # None, RowOK(row), NEW c, c.start_seq \in Nat,
           c.leaf_count \in Nat, NEW i \in Nat, NEW r, r = get_mmr_proof_for_commitment(b, c, i)
    PROVE  /\ r.ok => /\ i < c.leaf_count /\ IsSeq(Covered(row, c)) /\ Size(Covered(row, c)) = c.leaf_count
                      /\ r.value = proof(Covered(row, c), i)
           /\ (/\ c.start_seq >= row.start_seq
               /\ c.start_seq - row.start_seq + c.leaf_count <= Size(row.leaves)
               /\ root(Covered(row, c)) = c.mmr_root /\ i < c.leaf_count)
              => r = Ok(proof(Covered(row, c), i))
<1> DEFINE s == row.leaves
           l == c.start_seq - row.start_seq
           h == c.leaf_count
           held == Covered(row, c)
<1>1. r = IF i >= h THEN Err("CommitmentNotReproducible")
          ELSE IF l < 0 \/ l + h > Size(s) THEN Err("LeavesNotHeld")
          ELSE IF root(held) # c.mmr_root THEN Err("CommitmentNotReproducible")
          ELSE Ok(proof(held, i))
  BY DEF get_mmr_proof_for_commitment, Size, Covered, Slice
<1>2. held = Slice(s, l + 1, l + h)
  BY DEF Covered
<1>3. row.start_seq \in Nat /\ IsSeq(s) /\ Size(s) \in Nat /\ h \in Nat /\ c.start_seq \in Nat /\ l \in Int
  BY SeqLen DEF RowOK
<1>4. c.start_seq >= row.start_seq => l >= 0
  BY <1>3
<1> HIDE DEF s, l, h, held
<1>5. ASSUME r.ok
      PROVE  i < h /\ IsSeq(held) /\ Size(held) = h /\ r.value = proof(held, i)
  <2>1. ~(i >= h) /\ ~(l < 0) /\ ~(l + h > Size(s)) /\ r = Ok(proof(held, i))
    BY <1>1, <1>5, Results
  <2>2. i < h /\ l \in Nat /\ h \in Nat /\ l + h <= Size(s) /\ IsSeq(s)
    BY <1>3, <2>1
  <2>3. IsSeq(held) /\ Size(held) = h
    BY <1>2, <2>2, SliceSeq
  <2> QED BY <2>1, <2>2, <2>3, Results
<1>6. ASSUME l >= 0, l + h <= Size(s), root(held) = c.mmr_root, i < h
      PROVE  r = Ok(proof(held, i))
  <2>1. ~(i >= h) /\ ~(l < 0) /\ ~(l + h > Size(s))
    BY <1>3, <1>6
  <2> QED BY <1>1, <1>6, <2>1
<1> QED BY <1>4, <1>5, <1>6 DEF s, l, h, held

\* Whatever the provider signed, it can answer for.
LEMMA Answerable == DataInv => SignedIsAnswerable
<1> SUFFICES ASSUME DataInv, Held, NEW i \in LeafIndices, NEW k \in ChunkIndices(TrueLeaves[i + 1]),
                    NEW response, response = respond(signed.bucket, signed.outcome.commitment, i, k)
             PROVE  response.ok /\ Accepted(signed.outcome.commitment, i, k, response.value)
  BY DEF SignedIsAnswerable
<1> DEFINE c == signed.outcome.commitment
           b == signed.bucket
           row == buckets[b]
           leaves == TrueLeaves
           leaf == leaves[i + 1]
           pr == proof(leaves, i)
<1>1. Sampled(row, c, leaves)
  BY HeldIsSampled
<1>2. /\ row # None /\ RowOK(row) /\ c.start_seq \in Nat /\ c.leaf_count \in Nat
      /\ c.start_seq >= row.start_seq
      /\ c.start_seq - row.start_seq + c.leaf_count <= Size(row.leaves)
      /\ leaves = Covered(row, c) /\ root(leaves) = c.mmr_root
      /\ IsSeq(leaves) /\ Size(leaves) = c.leaf_count /\ LeavesOK(nodes, leaves)
  BY <1>1 DEF Sampled
<1>3. i \in 0..(c.leaf_count - 1) /\ k \in 0..chunk_count(leaf)
  BY DEF LeafIndices, ChunkIndices
<1> HIDE DEF leaves, c
<1>4. i \in Nat /\ i < c.leaf_count /\ i + 1 \in 1..Size(leaves)
  BY <1>2, <1>3
<1>5. get_mmr_proof_for_commitment(b, c, i) = Ok(pr)
  BY <1>2, <1>4, ProofForCommitment
<1>6. pr.leaf = leaf
  BY DEF proof
<1>7. PICK chunks : Readable(leaf, chunks)
  BY <1>2, <1>4, CommittedIsReadable
<1>8. chunk_count(leaf) = Size(chunks) /\ Size(chunks) \in Nat /\ tree_chunk_count(leaf.data_root) = Ok(Size(chunks))
  BY <1>7 DEF Readable
<1>9. k \in Nat
  BY <1>3, <1>8
<1>10. verify_mmr_proof(pr, i, c)
  BY <1>2, <1>4, LeafAccepted
<1> DEFINE chunk == get_chunk_at_index(leaf.data_root, k)
<1>11. response = IF k >= chunk_count(leaf) THEN Ok([kind |-> "ChunkOutOfRange", mmr_proof |-> pr])
                  ELSE IF ~chunk.ok THEN chunk
                  ELSE Ok([kind |-> "Proof", mmr_proof |-> pr,
                           chunk_data |-> chunk.value.chunk, chunk_proof |-> chunk.value.proof])
  <2>1. response = respond(b, c, i, k)
    BY DEF c
  <2> HIDE DEF leaf, pr
  <2> QED BY <1>5, <1>6, <2>1, Results, SMTT(30) DEF respond
<1> HIDE DEF leaf, pr, b
<1>12. CASE k >= chunk_count(leaf)
  <2> DEFINE v == [kind |-> "ChunkOutOfRange", mmr_proof |-> pr]
  <2>1. response = Ok(v) /\ v.kind = "ChunkOutOfRange" /\ v.mmr_proof = pr
    BY <1>11, <1>12
  <2> HIDE DEF v
  <2>2. Accepted(c, i, k, v)
    BY <1>6, <1>10, <1>12, <2>1 DEF Accepted, verify_challenged_leaf
  <2> QED BY <2>1, <2>2, Results DEF c
<1>13. CASE ~(k >= chunk_count(leaf))
  <2>1. k < Size(chunks)
    BY <1>8, <1>9, <1>13
  <2>2. chunk = chunk_with_proof(leaf.data_root, Size(chunks), k)
    BY <1>8, <1>9, <1>13, Results DEF get_chunk_at_index
  <2> HIDE DEF chunk
  <2>3. chunk.ok /\ verify_merkle_proof(hash_leaf(chunk.value.chunk), k, chunk_count(leaf),
                                        chunk.value.proof, leaf.data_root)
    BY <1>7, <1>9, <2>1, <2>2, ChunkAccepted
  <2> DEFINE v == [kind |-> "Proof", mmr_proof |-> pr,
                   chunk_data |-> chunk.value.chunk, chunk_proof |-> chunk.value.proof]
  <2>4. /\ response = Ok(v) /\ v.kind = "Proof" /\ v.mmr_proof = pr
        /\ v.chunk_data = chunk.value.chunk /\ v.chunk_proof = chunk.value.proof
    BY <1>11, <1>13, <2>3
  <2> HIDE DEF v
  <2>5. v.kind # "ChunkOutOfRange"
    BY <2>4
  <2>6. Accepted(c, i, k, v)
    BY <1>6, <1>10, <2>3, <2>4, <2>5 DEF Accepted, verify_challenged_leaf
  <2> QED BY <2>4, <2>6, Results DEF c
<1> QED BY <1>12, <1>13

\* What a response holds, whichever commitment it was made for.
LEMMA ResponseIs ==
    ASSUME NEW b, NEW row, row = buckets[b], row # None, RowOK(row), NEW c, c.start_seq \in Nat,
           c.leaf_count \in Nat, NEW j \in Nat, NEW m, NEW response, response = respond(b, c, j, m),
           response.ok
    PROVE  IsSeq(response.value.mmr_proof.items) /\ response.value.kind \in {"Proof", "ChunkOutOfRange"}
<1> DEFINE r == get_mmr_proof_for_commitment(b, c, j)
           chunk == get_chunk_at_index(r.value.leaf.data_root, m)
<1>1. response = IF ~r.ok THEN r
                 ELSE IF m >= chunk_count(r.value.leaf)
                      THEN Ok([kind |-> "ChunkOutOfRange", mmr_proof |-> r.value])
                 ELSE IF ~chunk.ok THEN chunk
                 ELSE Ok([kind |-> "Proof", mmr_proof |-> r.value,
                          chunk_data |-> chunk.value.chunk, chunk_proof |-> chunk.value.proof])
  BY DEF respond
<1> HIDE DEF r, chunk
<1>2. r.ok
  BY <1>1
<1>3. \A v : Ok(v).value = v
  BY Results
<1>4. response.value.mmr_proof = r.value /\ response.value.kind \in {"Proof", "ChunkOutOfRange"}
  <2>1. CASE m >= chunk_count(r.value.leaf)
    BY <1>1, <1>2, <1>3, <2>1
  <2>2. CASE ~(m >= chunk_count(r.value.leaf))
    <3>1. chunk.ok
      BY <1>1, <1>2, <2>2
    <3> QED BY <1>1, <1>2, <1>3, <2>2, <3>1
  <2> QED BY <2>1, <2>2
<1>5. /\ j < c.leaf_count /\ IsSeq(Covered(row, c)) /\ Size(Covered(row, c)) = c.leaf_count
      /\ r.value = proof(Covered(row, c), j)
  BY <1>2, ProofForCommitment DEF r
<1>6. IsSeq(r.value.items)
  <2> DEFINE held == Covered(row, c)
  <2>1. IsSeq(held) /\ j < Size(held) /\ r.value = proof(held, j)
    BY <1>5
  <2> HIDE DEF held
  <2> QED BY <2>1, ProofOfLeaf
<1> QED BY <1>4, <1>6

\* A response for one position proves nothing for another.
LEMMA PositionBound == DataInv => AnswersBindPosition
<1> SUFFICES ASSUME DataInv, Held,
                    NEW c \in {signed.outcome.commitment, commitment_of(buckets[signed.bucket])},
                    NEW j \in LeafIndices, NEW m \in ChunkPositions,
                    NEW response, response = respond(signed.bucket, c, j, m), response.ok,
                    NEW i \in LeafIndices,
                    verify_challenged_leaf(signed.outcome.commitment, i, response.value),
                    NEW leaf, leaf = TrueLeaves[i + 1],
                    NEW chunks, chunks = collect_leaves(leaf.data_root).value
             PROVE  /\ response.value.mmr_proof.leaf = leaf
                    /\ \A k \in ChunkPositions :
                          Accepted(signed.outcome.commitment, i, k, response.value) =>
                              IF response.value.kind = "Proof"
                              THEN /\ k < Len(chunks)
                                   /\ hash_leaf(response.value.chunk_data) = chunks[k + 1]
                              ELSE k >= Len(chunks)
  BY DEF AnswersBindPosition
<1> DEFINE d == signed.outcome.commitment
           b == signed.bucket
           row == buckets[b]
           leaves == TrueLeaves
           v == response.value
<1>1. Sampled(row, d, leaves)
  BY HeldIsSampled
<1>2. /\ row # None /\ RowOK(row) /\ d.start_seq \in Nat /\ d.leaf_count \in Nat
      /\ root(leaves) = d.mmr_root /\ IsSeq(leaves) /\ Size(leaves) = d.leaf_count
      /\ LeavesOK(nodes, leaves)
  BY <1>1 DEF Sampled
<1>3. i \in 0..(d.leaf_count - 1) /\ j \in 0..(d.leaf_count - 1) /\ leaf = leaves[i + 1]
      /\ verify_challenged_leaf(d, i, v) /\ (c = d \/ c = commitment_of(row)) /\ response = respond(b, c, j, m)
  BY DEF LeafIndices
<1>4. c.start_seq \in Nat /\ c.leaf_count \in Nat
  <2>1. commitment_of(row).start_seq = row.start_seq /\ commitment_of(row).leaf_count = Size(row.leaves)
    BY DEF commitment_of, Commitment, Size
  <2>2. row.start_seq \in Nat /\ Size(row.leaves) \in Nat
    BY <1>2, SeqLen DEF RowOK
  <2> QED BY <1>2, <1>3, <2>1, <2>2
<1> HIDE DEF leaves, d, b, row
<1>5. i \in Nat /\ j \in Nat /\ m \in Nat /\ i + 1 \in 1..Size(leaves)
  BY <1>2, <1>3, NodeAssumption
<1>6. IsSeq(v.mmr_proof.items) /\ v.kind \in {"Proof", "ChunkOutOfRange"}
  BY <1>2, <1>3, <1>4, <1>5, ResponseIs DEF row
<1>7. v.mmr_proof.leaf = leaf
  <2>1. verify_mmr_proof(v.mmr_proof, i, d)
    BY <1>3 DEF verify_challenged_leaf
  <2> QED BY <1>2, <1>3, <1>5, <1>6, <2>1, LeafBound
<1>8. PICK read : Readable(leaf, read)
  BY <1>2, <1>3, <1>5, CommittedIsReadable
<1>9. /\ read = chunks /\ IsSeq(chunks) /\ merkle_root(chunks) = leaf.data_root
      /\ chunk_count(leaf) = Len(chunks) /\ Len(chunks) \in Nat
  BY <1>8 DEF Readable, Size
<1> HIDE DEF v
<1>10. ASSUME NEW k \in ChunkPositions, Accepted(d, i, k, v)
       PROVE  IF v.kind = "Proof" THEN k < Len(chunks) /\ hash_leaf(v.chunk_data) = chunks[k + 1]
              ELSE k >= Len(chunks)
  <2>1. CASE v.kind = "Proof"
    <3>1. v.kind # "ChunkOutOfRange"
      BY <2>1
    <3>2. verify_merkle_proof(hash_leaf(v.chunk_data), k, Len(chunks), v.chunk_proof, merkle_root(chunks))
      BY <1>7, <1>9, <1>10, <3>1 DEF Accepted
    <3>3. k \in Nat
      BY NodeAssumption
    <3>4. k < Len(chunks) /\ hash_leaf(v.chunk_data) = chunks[k + 1]
      BY <1>9, <3>2, <3>3, ChunkProofBinds
    <3> QED BY <2>1, <3>4
  <2>2. CASE v.kind # "Proof"
    <3>1. v.kind = "ChunkOutOfRange"
      BY <1>6, <2>2
    <3>2. k >= Len(chunks)
      BY <1>7, <1>9, <1>10, <3>1 DEF Accepted
    <3> QED BY <2>2, <3>2
  <2> QED BY <2>1, <2>2
<1> QED BY <1>7, <1>10 DEF v, d

\* The smaller of n + 1 and n.
LEMMA MinOfSuccessor == \A n \in Nat : Min({n + 1, n}) = n
<1> SUFFICES ASSUME NEW n \in Nat PROVE Min({n + 1, n}) = n
  OBVIOUS
<1> DEFINE P(x) == x \in {n + 1, n} /\ \A y \in {n + 1, n} : x =< y
<1>1. P(n)
  OBVIOUS
<1>2. \A x : P(x) => x = n
  OBVIOUS
<1>3. Min({n + 1, n}) = CHOOSE x : P(x)
  BY DEF Min
<1> HIDE DEF P
<1>4. P(CHOOSE x : P(x))
  BY <1>1
<1> QED BY <1>2, <1>3, <1>4

\* The chunks that were read of a leaf.
ReadsBack(leaf, count, read) ==
    /\ read.ok /\ Len(read.value) = count
    /\ SizeOf([k \in 1..count |-> hash_leaf(read.value[k].chunk)]) = leaf.data_size
    /\ \A k \in 1..count :
          verify_merkle_proof(hash_leaf(read.value[k].chunk), k - 1, count,
                              read.value[k].proof, leaf.data_root)

\* A ranged read of a committed leaf returns its chunks.
LEMMA ReadBack ==
    ASSUME NEW leaf, NEW chunks, Readable(leaf, chunks), NEW count, count = chunk_count(leaf),
           NEW read, read = get_chunks_in_range(leaf.data_root, 0, count + 1)
    PROVE  ReadsBack(leaf, count, read)
<1> DEFINE n == Size(chunks)
           ChunkAt(k) == chunk_with_proof(leaf.data_root, n, k).value
           values == [i \in 1..n |-> ChunkAt(0 + i - 1)]
<1>1. /\ IsSeq(chunks) /\ count = n /\ n \in Nat /\ tree_chunk_count(leaf.data_root) = Ok(n)
      /\ SizeOf(chunks) = leaf.data_size
  BY DEF Readable
<1>2. read = Ok(values)
  <2>1. Min({n + 1, n}) = n /\ n - 0 = n
    BY <1>1, MinOfSuccessor
  <2>2. read = Ok([i \in 1..(Min({n + 1, n}) - 0) |-> ChunkAt(0 + i - 1)])
    <3>1. Ok(n).ok /\ Ok(n).value = n
      BY Results
    <3> HIDE DEF n
    <3> QED BY <1>1, <3>1 DEF get_chunks_in_range
  <2> HIDE DEF ChunkAt
  <2> QED BY <2>1, <2>2
<1>3. IsSeq(values) /\ Size(values) = n /\ \A i \in 1..n : values[i] = ChunkAt(i - 1)
  <2> HIDE DEF ChunkAt, n
  <2>1. \A i \in 1..n : 0 + i - 1 = i - 1
    BY <1>1
  <2>2. values = [i \in 1..n |-> values[i]] /\ \A i \in 1..n : values[i] = ChunkAt(i - 1)
    BY <2>1
  <2> HIDE DEF values
  <2> QED BY <1>1, <2>2, FunctionSeq
<1>4. ASSUME NEW k \in 1..n
      PROVE  /\ hash_leaf(values[k].chunk) = chunks[k]
             /\ verify_merkle_proof(hash_leaf(values[k].chunk), k - 1, count, values[k].proof, leaf.data_root)
  <2>1. k - 1 \in Nat /\ k - 1 < n /\ (k - 1) + 1 = k
    BY <1>1
  <2>2. values[k] = ChunkAt(k - 1)
    BY <1>3
  <2> HIDE DEF values, n
  <2> DEFINE found == chunk_with_proof(leaf.data_root, Size(chunks), k - 1)
  <2>3. values[k] = found.value
    BY <2>2 DEF n
  <2>4. /\ hash_leaf(found.value.chunk) = chunks[(k - 1) + 1]
        /\ verify_merkle_proof(hash_leaf(found.value.chunk), k - 1, chunk_count(leaf),
                               found.value.proof, leaf.data_root)
    BY <2>1, ChunkAccepted DEF n
  <2> HIDE DEF found
  <2> QED BY <2>1, <2>3, <2>4
<1> HIDE DEF values, n, ChunkAt
<1>5. [k \in 1..n |-> hash_leaf(values[k].chunk)] = chunks
  <2>1. chunks = [k \in 1..n |-> chunks[k]]
    BY <1>1 DEF IsSeq, n
  <2> QED BY <1>4, <2>1
<1>6. read.ok /\ read.value = values
  BY <1>2, Results
<1> QED BY <1>1, <1>3, <1>4, <1>5, <1>6 DEF ReadsBack, Size

\* What was committed can be read back.
LEMMA DataReadable == DataInv => CommittedDataReadable
<1> SUFFICES ASSUME DataInv, NEW b \in Buckets, buckets[b] # None, NEW n \in DOMAIN buckets[b].leaves,
                    NEW leaf, leaf = buckets[b].leaves[n], NEW count, count = chunk_count(leaf),
                    NEW read, read = get_chunks_in_range(leaf.data_root, 0, count + 1)
             PROVE  ReadsBack(leaf, count, read)
  BY DEF CommittedDataReadable, ReadsBack
<1>1. RowOK(buckets[b]) /\ LeavesOK(nodes, buckets[b].leaves)
  BY DEF DataInv, StoreOK
<1>2. n \in 1..Size(buckets[b].leaves)
  BY <1>1 DEF RowOK, IsSeq
<1>3. PICK chunks : Readable(leaf, chunks)
  BY <1>1, <1>2, CommittedIsReadable
<1> QED BY <1>3, ReadBack

\* The rows of the store and the requests in flight stay well typed, for any
\* number of clients, buckets, files and commits.
THEOREM TypeCorrect == Spec => []TypeOK
BY DataInvariant, DataTypes, PTL

\* Every commitment that the provider signed, in a commit, a checkpoint or a
\* prune, stays answerable until its leaves are pruned: the responder's answer is
\* one that the pallet accepts, whatever was uploaded and committed meanwhile.
THEOREM SignedStaysAnswerable == Spec => []SignedIsAnswerable
BY DataInvariant, Answerable, PTL

\* An answer made for one position is not accepted for another unless it
\* holds the same leaf and the same chunk.
THEOREM AnswersBind == Spec => []AnswersBindPosition
BY DataInvariant, PositionBound, PTL

\* The leaf indices in a commit's receipt are those of its data roots.
THEOREM ReceiptsAreHonest == Spec => []ReceiptNamesItsLeaves
BY DataInvariant, ReceiptHonest, PTL

\* Every leaf that was committed and not pruned can be read back in full.
THEOREM CommittedStaysReadable == Spec => []CommittedDataReadable
BY DataInvariant, DataReadable, PTL

----------------------------------------------------------------------------
(* The totals                                                               *)

RowOf(B, b) == IF B[b] = None THEN NewBucketState ELSE B[b]

Counts(B) == [b \in Buckets |-> RowOf(B, b).node_count]

Used(B) == [b \in Buckets |-> RowOf(B, b).used_bytes]

Weights(N) == [hash \in N |-> node_size(hash)]

\* The rows' totals are those of the nodes.
Exact(N, B) ==
    /\ IsFiniteSet(N)
    /\ SumFunction(Counts(B)) = Cardinality(N)
    /\ SumFunction(Used(B)) = SumFunction(Weights(N))

\* The counters of the rows add up to what is stored.
LEMMA ExactIsStats == ASSUME Exact(nodes, buckets) PROVE StatsExact
BY DEF Exact, StatsExact, Counts, Used, Weights, RowOf

\* A step that changes no row's totals.
LEMMA SameStats ==
    ASSUME NEW N, NEW B, Exact(N, B), NEW D,
           \A b \in Buckets : /\ RowOf(D, b).node_count = RowOf(B, b).node_count
                              /\ RowOf(D, b).used_bytes = RowOf(B, b).used_bytes
    PROVE  Exact(N, D)
<1>1. Counts(D) = Counts(B) /\ Used(D) = Used(B)
  BY DEF Counts, Used
<1> QED BY <1>1 DEF Exact

\* A step that changes one row and not its totals.
LEMMA SameTotals ==
    ASSUME NEW N, NEW B, Exact(N, B), IsMap(B, Buckets), NEW b \in Buckets, NEW row,
           NEW D, D = Updated(B, b, row), row # None,
           row.node_count = RowOf(B, b).node_count, row.used_bytes = RowOf(B, b).used_bytes
    PROVE  Exact(N, D)
<1>1. D[b] = row /\ \A x \in Buckets : x # b => D[x] = B[x]
  BY MapUpdate
<1>2. RowOf(D, b) = row /\ \A x \in Buckets : x # b => RowOf(D, x) = RowOf(B, x)
  BY <1>1 DEF RowOf
<1> QED BY <1>2, SameStats

\* A new bucket's counters are zero.
LEMMA NewRow == NewBucketState.node_count = 0 /\ NewBucketState.used_bytes = 0 /\ IsRow(NewBucketState)
BY DEF NewBucketState, IsRow

\* Counters are numbers.
LEMMA RowTypes ==
    ASSUME NEW N, NEW B, StoreOK(N, B), NEW b \in Buckets
    PROVE  RowOf(B, b).node_count \in Nat /\ RowOf(B, b).used_bytes \in Nat
<1>1. CASE B[b] = None
  <2>1. RowOf(B, b) = NewBucketState
    BY <1>1 DEF RowOf
  <2> QED BY <2>1, NewRow
<1>2. CASE B[b] # None
  <2>1. RowOf(B, b) = B[b] /\ RowOK(B[b])
    BY <1>2 DEF RowOf, StoreOK
  <2>2. \A u \in 0..MaxBytes : u \in Nat
    BY BackendAssumption
  <2> QED BY <2>1, <2>2 DEF RowOK
<1> QED BY <1>1, <1>2

\* A new node, charged to one row.
LEMMA NewNodeStats ==
    ASSUME NEW N, NEW B, Exact(N, B), StoreOK(N, B), NEW b \in Buckets, NEW hash, hash \notin N,
           Real(hash), NEW D, D = Updated(B, b, Charged(B[b], hash)), B[b] # None
    PROVE  Exact(N \cup {hash}, D)
<1> DEFINE row == Charged(B[b], hash)
           u == Counts(B)[b]
           v == Used(B)[b]
           w == node_size(hash)
<1>1. IsMap(B, Buckets) /\ RowOK(B[b]) /\ IsRow(B[b])
  BY DEF StoreOK, RowOK
<1>2. row.node_count = B[b].node_count + 1 /\ row.used_bytes = B[b].used_bytes + w /\ row # None
  BY <1>1, ChargedIs, RowIsNotNone
<1> HIDE DEF row
<1>3. D[b] = row /\ \A x \in Buckets : x # b => D[x] = B[x]
  BY <1>1, MapUpdate DEF row
<1>4. RowOf(D, b) = row /\ RowOf(B, b) = B[b] /\ \A x \in Buckets : x # b => RowOf(D, x) = RowOf(B, x)
  BY <1>2, <1>3 DEF RowOf
<1>5. Counts(B) \in [Buckets -> Nat] /\ Used(B) \in [Buckets -> Nat] /\ w \in Nat /\ IsFiniteSet(Buckets)
  BY RowTypes, NodeSizeType, BackendAssumption DEF Counts, Used
<1>6. u = B[b].node_count /\ v = B[b].used_bytes
  BY <1>4 DEF Counts, Used
<1>7. Counts(D) = [Counts(B) EXCEPT ![b] = u + 1]
  <2>1. \A x \in Buckets : RowOf(D, x).node_count = IF x = b THEN u + 1 ELSE RowOf(B, x).node_count
    BY <1>2, <1>4, <1>6
  <2> HIDE DEF u
  <2> QED BY <2>1 DEF Counts
<1>8. Used(D) = [Used(B) EXCEPT ![b] = v + w]
  <2>1. \A x \in Buckets : RowOf(D, x).used_bytes = IF x = b THEN v + w ELSE RowOf(B, x).used_bytes
    BY <1>2, <1>4, <1>6
  <2> HIDE DEF v, w
  <2> QED BY <2>1 DEF Used
<1>9. u \in Nat /\ v \in Nat
  BY <1>5
<1>10. IsFiniteSet(N) /\ SumFunction(Counts(B)) = Cardinality(N) /\ SumFunction(Used(B)) = SumFunction(Weights(N))
  BY DEF Exact
<1>11. /\ IsFiniteSet(N \cup {hash}) /\ Cardinality(N \cup {hash}) = Cardinality(N) + 1
       /\ Cardinality(N) \in Nat
  BY <1>10, FS_AddElement, FS_CardinalityType
<1> HIDE DEF u, v, w
<1>12. SumFunction(Counts(D)) = Cardinality(N \cup {hash})
  <2> DEFINE x == Counts(B)
             k == u + 1
  <2>1. k \in Nat /\ x \in [Buckets -> Nat] /\ x[b] = u /\ Counts(D) = [x EXCEPT ![b] = k]
    BY <1>5, <1>7, <1>9 DEF u
  <2> HIDE DEF x, k
  <2>2. SumFunction(x) \in Nat /\ SumFunction([x EXCEPT ![b] = k]) = SumFunction(x) - x[b] + k
    <3>1. IsFiniteSet(Buckets) /\ x \in [Buckets -> Nat] /\ b \in Buckets /\ k \in Nat
      BY <1>5, <2>1
    <3> QED BY <3>1, SumUpdate
  <2>3. SumFunction(x) - u + k = SumFunction(x) + 1
    BY <1>9, <2>2 DEF k
  <2>4. SumFunction(x) = Cardinality(N)
    BY <1>10 DEF x
  <2> QED BY <1>11, <2>1, <2>2, <2>3, <2>4
<1>13. SumFunction(Used(D)) = SumFunction(Used(B)) + w
  <2> DEFINE x == Used(B)
             k == v + w
  <2>1. k \in Nat /\ x \in [Buckets -> Nat] /\ x[b] = v /\ Used(D) = [x EXCEPT ![b] = k]
    BY <1>5, <1>8, <1>9 DEF v
  <2> HIDE DEF x, k
  <2>2. SumFunction(x) \in Nat /\ SumFunction([x EXCEPT ![b] = k]) = SumFunction(x) - x[b] + k
    <3>1. IsFiniteSet(Buckets) /\ x \in [Buckets -> Nat] /\ b \in Buckets /\ k \in Nat
      BY <1>5, <2>1
    <3> QED BY <3>1, SumUpdate
  <2>3. SumFunction(x) - v + k = SumFunction(x) + w
    BY <1>5, <1>9, <2>2 DEF k
  <2>4. SumFunction(Used(D)) = SumFunction(x) + w
    BY <2>1, <2>2, <2>3
  <2> QED BY <2>4 DEF x
<1>14. SumFunction(Weights(N \cup {hash})) = SumFunction(Weights(N)) + w
  <2> DEFINE x == Weights(N \cup {hash})
             y == Weights(N)
  <2>1. \A h \in N \cup {hash} : node_size(h) \in Nat
    BY NodeSizeType DEF StoreOK
  <2>2. x \in [N \cup {hash} -> Nat] /\ y \in [N -> Nat] /\ (\A i \in N : x[i] = y[i]) /\ x[hash] = w
    BY <2>1 DEF Weights, w
  <2> HIDE DEF x, y
  <2>3. SumFunction(x) = SumFunction(y) + x[hash]
    BY <1>10, <2>2, SumExtend
  <2> QED BY <2>2, <2>3 DEF x, y
<1> QED BY <1>10, <1>11, <1>12, <1>13, <1>14 DEF Exact

\* A stored node is charged to one bucket, once;
LEMMA StoreNodeStats ==
    ASSUME DataInv, Exact(nodes, buckets), NEW b \in Buckets, NEW hash, Real(hash), store_node(b, hash)
    PROVE  Exact(nodes', buckets')
<1>1. /\ buckets[b] # None /\ nodes' = nodes \cup {hash} /\ StoreOK(nodes, buckets)
      /\ buckets' = Updated(buckets, b, ChargedForNew(buckets[b], hash))
  BY DEF store_node, Updated, DataInv
<1>2. CASE hash \in nodes
  <2>1. nodes' = nodes /\ buckets' = Updated(buckets, b, buckets[b]) /\ IsMap(buckets, Buckets)
    BY <1>1, <1>2 DEF ChargedForNew, StoreOK
  <2>2. RowOf(buckets, b) = buckets[b]
    BY <1>1 DEF RowOf
  <2> DEFINE row == buckets[b]
  <2>3. /\ row # None /\ buckets' = Updated(buckets, b, row)
        /\ row.node_count = RowOf(buckets, b).node_count /\ row.used_bytes = RowOf(buckets, b).used_bytes
    BY <1>1, <2>1, <2>2
  <2> HIDE DEF row
  <2> QED BY <2>1, <2>3, SameTotals
<1>3. CASE hash \notin nodes
  <2>1. buckets' = Updated(buckets, b, Charged(buckets[b], hash))
    BY <1>1, <1>3 DEF ChargedForNew
  <2> QED BY <1>1, <1>3, <2>1, NewNodeStats
<1> QED BY <1>2, <1>3

\* A commit or a prune changes the leaves of a row only.
LEMMA MmrStats ==
    ASSUME DataInv, Exact(nodes, buckets), NEW b \in Buckets, buckets[b] # None, NEW row,
           \/ row = buckets[b]
           \/ \E start_seq, leaves : row = WithMmr(buckets[b], start_seq, leaves),
           buckets' = Updated(buckets, b, row), nodes' = nodes
    PROVE  Exact(nodes', buckets')
<1>1. IsMap(buckets, Buckets) /\ RowOf(buckets, b) = buckets[b] /\ IsRow(buckets[b])
  BY DEF DataInv, StoreOK, RowOK, RowOf
<1>2. row # None /\ row.node_count = buckets[b].node_count /\ row.used_bytes = buckets[b].used_bytes
  BY <1>1, WithMmrIs, RowIsNotNone
<1> QED BY <1>1, <1>2, SameTotals

\* a new bucket charges nothing;
LEMMA InitBucketStats ==
    ASSUME DataInv, Exact(nodes, buckets), NEW b \in Buckets, init_bucket(b)
    PROVE  Exact(nodes', buckets')
<1> DEFINE row == NewBucketState
<1>1. nodes' = nodes /\ buckets' = Updated(buckets, b, row) /\ IsMap(buckets, Buckets)
  BY DEF init_bucket, Updated, DataInv, StoreOK
<1>2. RowOf(buckets, b) = row
  BY DEF init_bucket, RowOf
<1>3. row # None
  BY NewRow, RowIsNotNone
<1> HIDE DEF row
<1> QED BY <1>1, <1>2, <1>3, SameTotals

\* so every step keeps the sums exact,
LEMMA StatsStep ==
    ASSUME DataInv, Exact(nodes, buckets), [Next]_vars
    PROVE  Exact(nodes', buckets')
<1>1. ASSUME NEW c \in Clients, upload_node(c) PROVE Exact(nodes', buckets')
  <2> DEFINE q == client[c]
             h == Head(q.todo)
  <2>1. q.pc = "upload" /\ store_node(q.bucket, h)
    BY <1>1 DEF upload_node
  <2>2. q.bucket \in Buckets
    BY <2>1 DEF DataInv, RequestOK
  <2>3. Real(h)
    <3>1. DataInv'
      BY <1>1, UploadNodeStep
    <3>2. h \in nodes'
      BY <2>1 DEF store_node
    <3> QED BY <3>1, <3>2 DEF DataInv, StoreOK
  <2> HIDE DEF q, h
  <2> QED BY <2>1, <2>2, <2>3, StoreNodeStats
<1>2. ASSUME NEW b \in Buckets, NEW hash \in Strays, PutNode(b, hash) PROVE Exact(nodes', buckets')
  <2>1. store_node(b, hash) /\ Real(hash)
    BY <1>2, NodeAssumption DEF PutNode, Real
  <2> QED BY <2>1, StoreNodeStats
<1>3. ASSUME NEW c \in Clients, CommitTxn(c) PROVE Exact(nodes', buckets')
  <2> DEFINE q == client[c]
             row == buckets[q.bucket]
             all == WithLeaves(row.leaves, q.todo, q.sizes)
  <2>1. q.pc = "commit" /\ commit_txn(q.bucket, q.todo, q.sizes)
    BY <1>3 DEF CommitTxn
  <2>2. q.bucket \in Buckets
    BY <2>1 DEF DataInv, RequestOK
  <2>3. /\ row # None /\ nodes' = nodes
        /\ buckets' = Updated(buckets, q.bucket, WithMmr(row, row.start_seq, all))
    BY <2>1 DEF commit_txn, Updated
  <2> HIDE DEF q, all
  <2> QED BY <2>2, <2>3, MmrStats
<1>4. ASSUME NEW b \in Buckets, NEW new_start, delete_data(b, new_start) PROVE Exact(nodes', buckets')
  <2> DEFINE row == buckets[b]
             left == SubSeq(row.leaves, new_start - row.start_seq + 1, Len(row.leaves))
             new == IF new_start = row.start_seq THEN row ELSE WithMmr(row, new_start, left)
  <2>1. row # None /\ nodes' = nodes /\ buckets' = Updated(buckets, b, new)
    BY <1>4 DEF delete_data, delete_before, Updated
  <2> HIDE DEF left
  <2>2. new = row \/ new = WithMmr(row, new_start, left)
    OBVIOUS
  <2> HIDE DEF new
  <2> QED BY <2>1, <2>2, MmrStats
<1>5. ASSUME NEW b \in Buckets, InitBucket(b) PROVE Exact(nodes', buckets')
  BY <1>5, InitBucketStats DEF InitBucket
<1>6. CASE UNCHANGED storeVars
  BY <1>6 DEF storeVars
<1>7. ASSUME NEW c \in Clients, NEW b \in Written, NEW file, upload(c, b, file) PROVE UNCHANGED storeVars
  BY <1>7 DEF upload, storeVars
<1>8. ASSUME NEW c \in Clients, NEW b \in Written, NEW roots, commit(c, b, roots) PROVE UNCHANGED storeVars
  BY <1>8 DEF commit, storeVars
<1>9. ASSUME NEW c \in Clients, SignCommit(c) PROVE UNCHANGED storeVars
  BY <1>9 DEF SignCommit, storeVars
<1>10. ASSUME NEW b \in Buckets, get_commitment(b) PROVE UNCHANGED storeVars
  BY <1>10 DEF get_commitment, storeVars
<1>11. Restart \/ UNCHANGED vars => UNCHANGED storeVars
  BY DEF Restart, vars, storeVars
<1> QED BY <1>1, <1>2, <1>3, <1>4, <1>5, <1>6, <1>7, <1>8, <1>9, <1>10, <1>11 DEF Next

\* which they are at the start.
LEMMA StatsInit == Init => Exact(nodes, buckets)
<1> SUFFICES ASSUME Init PROVE Exact(nodes, buckets)
  OBVIOUS
<1>1. nodes = {} /\ \A b \in Buckets : RowOf(buckets, b) = NewBucketState
  BY DEF Init, RowOf
<1>2. IsFiniteSet(Buckets)
  BY BackendAssumption
<1>3. SumFunction(Counts(buckets)) = 0 /\ SumFunction(Used(buckets)) = 0
  <2>1. /\ Counts(buckets) \in [Buckets -> Nat] /\ Used(buckets) \in [Buckets -> Nat]
        /\ \A b \in Buckets : Counts(buckets)[b] = 0 /\ Used(buckets)[b] = 0
    BY <1>1, NewRow DEF Counts, Used
  <2> QED BY <1>2, <2>1, SumOfZeros
<1>4. SumFunction(Weights(nodes)) = 0
  <2>1. Weights(nodes) \in [{} -> Nat] /\ \A i \in {} : Weights(nodes)[i] = 0
    BY <1>1 DEF Weights
  <2> QED BY <2>1, FS_EmptySet, SumOfZeros
<1>5. IsFiniteSet({}) /\ Cardinality({}) = 0
  BY FS_EmptySet
<1> QED BY <1>1, <1>3, <1>4, <1>5 DEF Exact

\* StorageStats counts every stored node once, in the bucket that stored it
\* first, whatever uploads run at the same time.
THEOREM StatsStayExact == Spec => []StatsExact
<1> DEFINE Ex == Exact(nodes, buckets)
<1>1. Init => Ex
  BY StatsInit
<1>2. DataInv /\ Ex /\ [Next]_vars => Ex'
  BY StatsStep
<1>3. Ex => StatsExact
  BY ExactIsStats
<1> HIDE DEF Ex
<1> QED BY <1>1, <1>2, <1>3, DataInvariant, PTL DEF Spec

============================================================================
