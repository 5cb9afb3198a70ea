----------------------------- MODULE DataLemmas -----------------------------
(***************************************************************************)
(* Facts about numbers, sequences and sums that the proofs of several      *)
(* components rest on.  Induction is done with sets: the numbers a claim   *)
(* holds for are a set that has 0 and every successor.                     *)
(***************************************************************************)
EXTENDS Integers, Sequences, SequencesExt, FiniteSets, TLAPS,
        WellFoundedInduction, FiniteSetTheorems, SequenceTheorems

\* A set of numbers that is not empty has a least one.
LEMMA LeastNat ==
  ASSUME NEW T, T \subseteq Nat, T # {}
  PROVE  \E x \in T : \A y \in T : x <= y
<1>1. PICK x \in T : \A y \in T : ~ (<<y, x>> \in OpToRel(<, Nat))
  BY NatLessThanWellFounded, WFMin
<1>2. \A y \in T : ~ (y < x)
  BY <1>1 DEF OpToRel
<1> QED BY <1>2

\* Induction: a set that has 0 and the successor of each of its numbers has
\* them all.
LEMMA NatInSet ==
  ASSUME NEW S, 0 \in S, \A n \in Nat : n \in S => n + 1 \in S
  PROVE  Nat \subseteq S
<1> SUFFICES ASSUME Nat \ S # {} PROVE FALSE
  OBVIOUS
<1>1. PICK x \in Nat \ S : \A y \in Nat \ S : x <= y
  BY LeastNat
<1>2. x # 0 /\ x \in Nat
  BY <1>1
<1>3. x - 1 \in Nat /\ x - 1 \in S
  BY <1>1, <1>2
<1> QED BY <1>1, <1>2, <1>3

\* Places that are closed downwards are the first ones, as many as there are.
LEMMA FirstPlaces ==
  ASSUME NEW n \in Nat, NEW E, E \subseteq 1 .. n,
         \A i \in E : \A j \in 1 .. i : j \in E
  PROVE  \E k \in 0 .. n : E = 1 .. k /\ Cardinality(E) = k
<1> DEFINE Out == {i \in Nat : i \in 1 .. n + 1 /\ i \notin E}
<1>1. n + 1 \in Out
  OBVIOUS
<1>2. PICK k \in Out : \A y \in Out : k <= y
  <2> Out \subseteq Nat /\ Out # {}
    BY <1>1
  <2> HIDE DEF Out
  <2> QED BY LeastNat
<1>3. k \in 1 .. n + 1 /\ k \notin E /\ k - 1 \in 0 .. n
  BY <1>2
<1>4. ASSUME NEW i \in 1 .. k - 1 PROVE i \in E
  <2>1. i \in 1 .. n + 1 /\ i < k
    BY <1>3
  <2> QED BY <2>1, <1>2, <1>3
<1>5. ASSUME NEW i \in E PROVE i \in 1 .. k - 1
  <2>1. i \in 1 .. n /\ ~ (k \in 1 .. i)
    BY <1>3
  <2> QED BY <2>1, <1>3
<1>6. E = 1 .. (k - 1)
  BY <1>4, <1>5
<1>7. Cardinality(1 .. (k - 1)) = k - 1
  BY <1>3, FS_Interval
<1> QED BY <1>3, <1>6, <1>7

\* The last of a sequence, put in the place of another.
LEMMA LastOfAppend ==
  ASSUME NEW S, NEW q \in Seq(S), NEW x \in S, NEW y \in S
  PROVE  [Append(q, x) EXCEPT ![Len(q) + 1] = y] = Append(q, y)
<1> DEFINE c == Append(q, x)
           d == Append(q, y)
           a == [c EXCEPT ![Len(q) + 1] = y]
<1>0. Len(q) \in Nat
  OBVIOUS
<1>1. c \in Seq(S) /\ Len(c) = Len(q) + 1 /\ \A i \in 1 .. Len(q) : c[i] = q[i]
  BY AppendProperties
<1>2. d \in Seq(S) /\ Len(d) = Len(q) + 1 /\ d[Len(q) + 1] = y /\ \A i \in 1 .. Len(q) : d[i] = q[i]
  BY AppendProperties
<1> HIDE DEF c, d
<1>3. c \in [1 .. Len(q) + 1 -> S] /\ d \in [1 .. Len(q) + 1 -> S]
  BY <1>0, <1>1, <1>2
<1>4. a \in [1 .. Len(q) + 1 -> S] /\ \A i \in 1 .. Len(q) + 1 : a[i] = IF i = Len(q) + 1 THEN y ELSE c[i]
  BY <1>0, <1>3
<1> HIDE DEF a
<1>5. \A i \in 1 .. Len(q) + 1 : a[i] = d[i]
  BY <1>0, <1>1, <1>2, <1>4
<1>6. a = d
  BY <1>3, <1>4, <1>5
<1> QED BY <1>6 DEF a, c, d

\* The join of no sequence, of one and of two.
LEMMA FlattenFew ==
  /\ FlattenSeq(<<>>) = <<>>
  /\ \A a : FlattenSeq(<<a>>) = a
  /\ \A a, b : FlattenSeq(<<a, b>>) = a \o b
<1>1. FlattenSeq(<<>>) = <<>>
  BY DEF FlattenSeq
<1>2. ASSUME NEW a PROVE FlattenSeq(<<a>>) = a
  <2> DEFINE q == <<a>>
             F(f) == f = [i \in 1 .. 1 |-> IF i = 1 THEN q[i] ELSE f[i - 1] \o q[i]]
             g == [i \in 1 .. 1 |-> a]
             h == CHOOSE f : F(f)
  <2>1. Len(q) = 1 /\ q[1] = a
    OBVIOUS
  <2>2. FlattenSeq(q) = h[1]
    BY <2>1 DEF FlattenSeq
  <2>3. F(g)
    <3>1. \A i \in 1 .. 1 : i = 1
      OBVIOUS
    <3> QED BY <2>1, <3>1
  <2>4. F(h)
    <3> HIDE DEF F, g
    <3> QED BY <2>3
  <2>5. h[1] = q[1]
    <3> HIDE DEF h, q
    <3> QED BY <2>4
  <2> QED BY <2>1, <2>2, <2>5
<1>3. ASSUME NEW a, NEW b PROVE FlattenSeq(<<a, b>>) = a \o b
  <2> DEFINE q == <<a, b>>
             F(f) == f = [i \in 1 .. 2 |-> IF i = 1 THEN q[i] ELSE f[i - 1] \o q[i]]
             g == [i \in 1 .. 2 |-> IF i = 1 THEN a ELSE a \o b]
             h == CHOOSE f : F(f)
  <2>1. Len(q) = 2 /\ q[1] = a /\ q[2] = b
    OBVIOUS
  <2>2. FlattenSeq(q) = h[2]
    BY <2>1 DEF FlattenSeq
  <2>3. F(g)
    <3>1. \A i \in 1 .. 2 : i = 1 \/ i = 2
      OBVIOUS
    <3>2. g[1] = a /\ g[2] = a \o b
      OBVIOUS
    <3> HIDE DEF q
    <3>3. \A i \in 1 .. 2 : g[i] = IF i = 1 THEN q[i] ELSE g[i - 1] \o q[i]
      <4> TAKE i \in 1 .. 2
      <4>1. CASE i = 1
        BY <4>1, <3>2, <2>1
      <4>2. CASE i = 2
        <5>1. i - 1 = 1
          BY <4>2
        <5> HIDE DEF g
        <5> QED BY <4>2, <5>1, <3>2, <2>1
      <4> QED BY <3>1, <4>1, <4>2
    <3>4. g = [i \in 1 .. 2 |-> g[i]]
      OBVIOUS
    <3> HIDE DEF g
    <3> QED BY <3>3, <3>4
  <2>4. F(h)
    <3> HIDE DEF F, g
    <3> QED BY <2>3
  <2>5. h[1] = a /\ h[2] = h[1] \o b
    <3> HIDE DEF h, q
    <3>1. 2 - 1 = 1
      OBVIOUS
    <3>2. \A i \in 1 .. 2 : h[i] = IF i = 1 THEN q[i] ELSE h[i - 1] \o q[i]
      BY <2>4
    <3>3. h[1] = q[1]
      BY <3>2
    <3>4. h[2] = h[2 - 1] \o q[2]
      <4>1. 2 \in 1 .. 2 /\ 2 # 1
        OBVIOUS
      <4>2. ASSUME NEW i \in 1 .. 2, i # 1 PROVE h[i] = h[i - 1] \o q[i]
        BY <3>2, <4>2
      <4> HIDE DEF F
      <4> QED BY <4>1, <4>2
    <3> HIDE DEF F
    <3> QED BY <2>1, <3>1, <3>3, <3>4
  <2> QED BY <2>2, <2>5
<1> QED BY <1>1, <1>2, <1>3
=============================================================================
