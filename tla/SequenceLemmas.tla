---- MODULE SequenceLemmas ----
(***************************************************************************)
(* Facts about natural numbers and sequences on which the proofs about the *)
(* components rest: induction stated with a set in the place of a          *)
(* predicate, and what the community modules' operators on sequences       *)
(* return.                                                                 *)
(***************************************************************************)
EXTENDS Integers, SequencesExt, FiniteSetTheorems, WellFoundedInduction, TLAPS

\* A set that has 0 and the successor of each of its members has every natural
\* number: the least number outside of it would have a predecessor inside.
THEOREM NatSetInduction ==
  ASSUME NEW T, 0 \in T, \A n \in Nat : n \in T => n + 1 \in T
  PROVE  \A n \in Nat : n \in T
<1> SUFFICES ASSUME NEW m \in Nat, m \notin T PROVE FALSE
  OBVIOUS
<1> DEFINE U == Nat \ T
<1>1. PICK x \in U : \A y \in U : ~ (<<y, x>> \in OpToRel(<, Nat))
  <2>1. IsWellFoundedOn(OpToRel(<, Nat), Nat)
    BY NatLessThanWellFounded
  <2>2. U # {} /\ U \subseteq Nat
    OBVIOUS
  <2> HIDE DEF U
  <2> QED BY <2>1, <2>2, WFMin, Zenon
<1>2. x # 0 /\ x - 1 \in Nat /\ x - 1 < x
  OBVIOUS
<1>3. x - 1 \notin U
  BY <1>1, <1>2 DEF OpToRel
<1> QED BY <1>2, <1>3

\* The least member of a non-empty set of natural numbers.
LEMMA MinNat ==
  ASSUME NEW S \in SUBSET Nat, S # {}
  PROVE  Min(S) \in S
<1>1. PICK x \in S : \A y \in S : ~ (<<y, x>> \in OpToRel(<, Nat))
  <2>1. IsWellFoundedOn(OpToRel(<, Nat), Nat)
    BY NatLessThanWellFounded
  <2> QED BY <2>1, WFMin, Zenon
<1>2. ASSUME NEW y \in S PROVE x <= y
  <2>1. x \in Nat /\ y \in Nat
    OBVIOUS
  <2>2. ~ (y < x)
    BY <1>1, <2>1 DEF OpToRel
  <2> QED BY <2>1, <2>2
<1> QED BY <1>2 DEF Min

\* Quotient and remainder of the index of an entry in a table of rows of n entries.
LEMMA RowOfIndex ==
  ASSUME NEW n \in Nat \ {0}, NEW a \in Nat, NEW r \in 0 .. n - 1
  PROVE  (a * n + r) \div n = a /\ (a * n + r) % n = r
  OBVIOUS

\* SetToSeq lists every element of a finite set.
LEMMA SetToSeqLists ==
  ASSUME NEW S, IsFiniteSet(S)
  PROVE  /\ SetToSeq(S) \in Seq(S)
         /\ \A x \in S : \E i \in DOMAIN SetToSeq(S) : SetToSeq(S)[i] = x
<1> DEFINE D == 1 .. Cardinality(S)
           f == SetToSeq(S)
<1>1. Cardinality(S) \in Nat /\ ExistsBijection(D, S)
  BY FS_CardinalityType
<1>2. PICK g : g \in Bijection(D, S)
  BY <1>1 DEF ExistsBijection
<1>3. g \in [D -> S] /\ IsInjective(g)
  BY <1>2 DEF Bijection, Injection
<1>4. f \in [D -> S] /\ IsInjective(f)
  BY <1>3 DEF SetToSeq
<1>5. IsFiniteSet(D) /\ Cardinality(D) = Cardinality(S)
  BY <1>1, FS_Interval
<1>6. f \in Injection(D, S)
  BY <1>4 DEF Injection
<1> HIDE DEF f
<1>7. f \in Surjection(D, S)
  BY <1>5, <1>6, FS_Injection
<1>8. \A x \in S : \E i \in D : f[i] = x
  BY <1>7 DEF Surjection
<1>9. f \in Seq(S) /\ DOMAIN f = D
  BY <1>1, <1>4
<1> QED BY <1>8, <1>9 DEF f

\* The elements of a concatenation.
LEMMA ConcatElements ==
  ASSUME NEW S, NEW s \in Seq(S), NEW t \in Seq(S)
  PROVE  /\ s \o t \in Seq(S) /\ Len(s \o t) = Len(s) + Len(t)
         /\ \A i \in 1 .. Len(s) : (s \o t)[i] = s[i]
         /\ \A i \in 1 .. Len(t) : (s \o t)[Len(s) + i] = t[i]
  OBVIOUS

\* The elements of a sequence and one more.
LEMMA AppendElements ==
  ASSUME NEW S, NEW s \in Seq(S), NEW x \in S
  PROVE  /\ Append(s, x) \in Seq(S) /\ Len(Append(s, x)) = Len(s) + 1
         /\ \A i \in 1 .. Len(s) : Append(s, x)[i] = s[i]
         /\ Append(s, x)[Len(s) + 1] = x
  OBVIOUS

\* A sequence of values, each computed from the one before.
Recurses(V, b, F, N) ==
  \E v \in [0 .. N -> V] : v[0] = b /\ \A n \in 1 .. N : v[n] = F[n][v[n - 1]]

THEOREM NatRecursion ==
  ASSUME NEW V, NEW b \in V, NEW F \in [Nat -> [V -> V]], NEW N \in Nat
  PROVE  Recurses(V, b, F, N)
<1> DEFINE Has(n) == \E v \in [0 .. n -> V] : v[0] = b /\ \A i \in 1 .. n : v[i] = F[i][v[i - 1]]
           T == {n \in Nat : Has(n)}
<1>1. 0 \in T
  <2> DEFINE v == [n \in 0 .. 0 |-> b]
  <2>1. v \in [0 .. 0 -> V] /\ v[0] = b
    OBVIOUS
  <2> HIDE DEF v
  <2> QED BY <2>1
<1>2. ASSUME NEW n \in Nat, n \in T PROVE n + 1 \in T
  <2>1. PICK v \in [0 .. n -> V] : v[0] = b /\ \A i \in 1 .. n : v[i] = F[i][v[i - 1]]
    BY <1>2
  <2> DEFINE last == F[n + 1][v[n]]
             u == [i \in 0 .. n + 1 |-> IF i = n + 1 THEN last ELSE v[i]]
  <2>2. last \in V
    BY <2>1
  <2> HIDE DEF last
  <2>3. u \in [0 .. n + 1 -> V] /\ u[0] = b /\ u[n] = v[n] /\ u[n + 1] = last
    BY <2>1, <2>2
  <2>4. ASSUME NEW i \in 1 .. n + 1 PROVE u[i] = F[i][u[i - 1]]
    <3>1. CASE i = n + 1
      <4>1. i - 1 = n
        BY <3>1
      <4> HIDE DEF u
      <4> QED BY <2>3, <3>1, <4>1 DEF last
    <3>2. CASE i # n + 1
      <4>1. i \in 1 .. n /\ i \in 0 .. n + 1 /\ i - 1 \in 0 .. n + 1 /\ i - 1 # n + 1
        BY <3>2
      <4>2. u[i] = v[i] /\ u[i - 1] = v[i - 1]
        BY <3>2, <4>1
      <4> HIDE DEF u
      <4> QED BY <2>1, <4>1, <4>2
    <3> QED BY <3>1, <3>2
  <2> HIDE DEF u
  <2> QED BY <2>3, <2>4
<1> HIDE DEF T
<1>3. N \in T
  BY <1>1, <1>2, NatSetInduction
<1> QED BY <1>3 DEF T, Recurses
====
