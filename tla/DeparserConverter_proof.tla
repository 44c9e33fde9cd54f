---- MODULE DeparserConverter_proof ----
(***************************************************************************)
(* The table that DeparserConverter generates, for any deparser, any start *)
(* offsets and any operation records: its two vectors stay aligned, it has *)
(* an entry for every packet the parser can accept, a package whose control *)
(* performs no validity operations restores curr_offset, and the action a  *)
(* packet hits does to the stack what the emit statements say, within the  *)
(* limits that WithinLimits names, without writing behind its end.         *)
(***************************************************************************)
EXTENDS DeparserConverter, SequenceLemmas

----------------------------------------------------------------------------
(* Selections. *)

IsSelections(s, I, N, v) ==
  v = [n \in 0 .. N |-> IF n = 0 THEN <<>>
                        ELSE IF n \in I THEN Append(v[n - 1], s[n]) ELSE v[n - 1]]

LEMMA SelectionsExist ==
  ASSUME NEW s, NEW I, NEW N \in Nat
  PROVE  \E v : IsSelections(s, I, N, v)
<1> DEFINE T == {n \in Nat : \E v : IsSelections(s, I, n, v)}
           Rest(u, n) == IF n \in I THEN Append(u[n - 1], s[n]) ELSE u[n - 1]
<1>1. 0 \in T
  <2> DEFINE v == [n \in 0 .. 0 |-> <<>>]
  <2>1. IsSelections(s, I, 0, v)
    BY DEF IsSelections
  <2> QED BY <2>1
<1>2. ASSUME NEW n \in Nat, n \in T PROVE n + 1 \in T
  <2>1. PICK v : IsSelections(s, I, n, v)
    BY <1>2
  <2> DEFINE last == IF n + 1 \in I THEN Append(v[n], s[n + 1]) ELSE v[n]
             u == [i \in 0 .. n + 1 |-> IF i = n + 1 THEN last ELSE v[i]]
  <2>2. ASSUME NEW i \in 0 .. n + 1
        PROVE  u[i] = IF i = 0 THEN <<>> ELSE Rest(u, i)
    <3>1. CASE i = n + 1
      <4>1. u[i] = last /\ i # 0 /\ u[i - 1] = v[n]
        <5> HIDE DEF last
        <5> QED BY <3>1
      <4> HIDE DEF u
      <4> QED BY <3>1, <4>1
    <3>2. CASE i # n + 1
      <4>1. i \in 0 .. n /\ (i # 0 => i - 1 \in 0 .. n)
        BY <3>2
      <4>2. v[i] = IF i = 0 THEN <<>> ELSE Rest(v, i)
        BY <2>1, <4>1 DEF IsSelections
      <4>3. u[i] = v[i] /\ (i # 0 => u[i - 1] = v[i - 1])
        BY <4>1
      <4> HIDE DEF u
      <4> QED BY <4>2, <4>3
    <3> QED BY <3>1, <3>2
  <2>3. IsSelections(s, I, n + 1, u)
    <3>1. u = [i \in 0 .. n + 1 |-> u[i]]
      OBVIOUS
    <3> HIDE DEF u
    <3> QED BY <2>2, <3>1 DEF IsSelections
  <2> QED BY <2>3
<1> HIDE DEF T
<1>3. N \in T
  BY <1>1, <1>2, NatSetInduction
<1> QED BY <1>3 DEF T

LEMMA SelectionsDef ==
  ASSUME NEW X, NEW s \in Seq(X), NEW I
  PROVE  /\ Selections(s, I)[0] = <<>>
         /\ \A n \in 1 .. Len(s) :
              Selections(s, I)[n] = IF n \in I THEN Append(Selections(s, I)[n - 1], s[n])
                                    ELSE Selections(s, I)[n - 1]
<1> DEFINE N == Len(s)
           v == Selections(s, I)
<1>1. N \in Nat
  OBVIOUS
<1>2. \E g : IsSelections(s, I, N, g)
  BY <1>1, SelectionsExist
<1>3. IsSelections(s, I, N, v)
  BY <1>2 DEF IsSelections, Selections
<1> HIDE DEF N, v
<1>4. v[0] = <<>>
  BY <1>1, <1>3 DEF IsSelections
<1>5. ASSUME NEW n \in 1 .. N
      PROVE  v[n] = IF n \in I THEN Append(v[n - 1], s[n]) ELSE v[n - 1]
  <2>1. n \in 0 .. N /\ n # 0
    BY <1>1
  <2> QED BY <1>3, <2>1 DEF IsSelections
<1> QED BY <1>4, <1>5 DEF N, v

\* v has elements of s at indices in I only, and all of them, up to N.
Gathers(v, s, I, N) ==
  /\ v \in Seq({s[i] : i \in I \cap (1 .. N)})
  /\ \A i \in I \cap (1 .. N) : \E m \in DOMAIN v : v[m] = s[i]

LEMMA SelectionsElements ==
  ASSUME NEW X, NEW s \in Seq(X), NEW I, NEW N \in 0 .. Len(s)
  PROVE  Gathers(Selections(s, I)[N], s, I, N)
<1> DEFINE v == Selections(s, I)
           Elems(n) == {s[i] : i \in I \cap (1 .. n)}
           Good(n) == /\ v[n] \in Seq(Elems(n))
                      /\ \A i \in I \cap (1 .. n) : \E m \in DOMAIN v[n] : v[n][m] = s[i]
           T == {n \in Nat : n <= Len(s) => Good(n)}
<1>1. /\ v[0] = <<>>
      /\ \A n \in 1 .. Len(s) : v[n] = IF n \in I THEN Append(v[n - 1], s[n]) ELSE v[n - 1]
  BY SelectionsDef
<1>2. Len(s) \in Nat
  OBVIOUS
<1> HIDE DEF v
<1>3. 0 \in T
  <2>1. I \cap (1 .. 0) = {} /\ \A E : <<>> \in Seq(E)
    OBVIOUS
  <2> QED BY <1>1, <2>1
<1>4. ASSUME NEW n \in Nat, n \in T PROVE n + 1 \in T
  <2> SUFFICES ASSUME n + 1 <= Len(s) PROVE Good(n + 1)
    OBVIOUS
  <2>1. n <= Len(s) /\ n + 1 \in 1 .. Len(s) /\ (n + 1) - 1 = n
    BY <1>2
  <2>2. v[n] \in Seq(Elems(n)) /\ \A i \in I \cap (1 .. n) : \E m \in DOMAIN v[n] : v[n][m] = s[i]
    BY <1>4, <2>1
  <2>3. v[n + 1] = IF n + 1 \in I THEN Append(v[n], s[n + 1]) ELSE v[n]
    BY <1>1, <2>1
  <2>4. I \cap (1 .. n + 1) = (I \cap (1 .. n)) \cup (IF n + 1 \in I THEN {n + 1} ELSE {})
    OBVIOUS
  <2>5. Elems(n) \subseteq Elems(n + 1)
    BY <2>4
  <2>6. n + 1 \in I => s[n + 1] \in Elems(n + 1)
    BY <2>1
  <2> HIDE DEF Elems
  <2>7. v[n] \in Seq(Elems(n + 1))
    BY <2>2, <2>5
  <2>8. v[n + 1] \in Seq(Elems(n + 1))
    <3> DEFINE E == Elems(n + 1)
    <3>1. n + 1 \in I => Append(v[n], s[n + 1]) \in Seq(E)
      BY <2>6, <2>7
    <3> HIDE DEF E
    <3> QED BY <2>3, <2>7, <3>1 DEF E
  <2>9. \A m \in DOMAIN v[n] : m \in DOMAIN v[n + 1] /\ v[n + 1][m] = v[n][m]
    BY <2>3, <2>7
  <2>10. n + 1 \in I => \E m \in DOMAIN v[n + 1] : v[n + 1][m] = s[n + 1]
    <3> SUFFICES ASSUME n + 1 \in I PROVE \E m \in DOMAIN v[n + 1] : v[n + 1][m] = s[n + 1]
      OBVIOUS
    <3>1. v[n + 1] = Append(v[n], s[n + 1]) /\ Len(v[n]) \in Nat
      BY <2>3, <2>7
    <3>2. Len(v[n]) + 1 \in DOMAIN v[n + 1] /\ v[n + 1][Len(v[n]) + 1] = s[n + 1]
      BY <2>7, <3>1
    <3> QED BY <3>2
  <2>11. ASSUME NEW i \in I \cap (1 .. n + 1) PROVE \E m \in DOMAIN v[n + 1] : v[n + 1][m] = s[i]
    <3>1. CASE i \in 1 .. n
      BY <2>2, <2>9, <3>1
    <3>2. CASE i = n + 1
      BY <2>10, <3>2
    <3> QED BY <3>1, <3>2
  <2> QED BY <2>8, <2>11
<1> HIDE DEF T, Good
<1>5. \A n \in Nat : n \in T
  BY <1>3, <1>4, NatSetInduction
<1>6. Good(N)
  BY <1>2, <1>5 DEF T
<1> QED BY <1>6 DEF Good, v, Gathers

Halves(n, I, J) == \A i \in 1 .. n : i \in J /\ (n + i \in J <=> i \in I)

\* A sequence of 2 n elements from which all of the first n are selected, and the
\* (n + i)-th one where i is in I.
LEMMA SelectedHalves ==
  ASSUME NEW X, NEW s \in Seq(X), NEW n \in Nat, Len(s) = 2 * n, NEW I, NEW J,
         Halves(n, I, J), NEW ids \in Seq(1 .. n), Len(ids) = n, \A i \in 1 .. n : ids[i] = i
  PROVE  /\ Selected(ids, I) \in Seq(1 .. n)
         /\ Selected(s, J) \in Seq(X)
         /\ Len(Selected(s, J)) = n + Len(Selected(ids, I))
         /\ \A i \in 1 .. n : Selected(s, J)[i] = s[i]
         /\ \A m \in 1 .. Len(Selected(ids, I)) : Selected(s, J)[n + m] = s[n + Selected(ids, I)[m]]
<1> DEFINE v == Selections(s, J)
           u == Selections(ids, I)
           First(i) == /\ v[i] \in Seq(X) /\ Len(v[i]) = i
                       /\ \A k \in 1 .. i : v[i][k] = s[k]
           T == {i \in Nat : i <= n => First(i)}
           Second(i) == /\ u[i] \in Seq(1 .. n) /\ v[n + i] \in Seq(X)
                        /\ Len(v[n + i]) = n + Len(u[i])
                        /\ \A k \in 1 .. n : v[n + i][k] = s[k]
                        /\ \A m \in 1 .. Len(u[i]) : v[n + i][n + m] = s[n + u[i][m]]
           U == {i \in Nat : i <= n => Second(i)}
<1>1. ids \in Seq(1 .. n) /\ Len(ids) = n /\ \A i \in 1 .. n : ids[i] = i
  OBVIOUS
<1>2. /\ v[0] = <<>>
      /\ \A k \in 1 .. Len(s) : v[k] = IF k \in J THEN Append(v[k - 1], s[k]) ELSE v[k - 1]
  BY ONLY s \in Seq(X), SelectionsDef
<1>3. /\ u[0] = <<>>
      /\ \A k \in 1 .. Len(ids) : u[k] = IF k \in I THEN Append(u[k - 1], ids[k]) ELSE u[k - 1]
  <2> QED BY ONLY ids \in Seq(1 .. n), SelectionsDef
<1>4. Selected(s, J) = v[n + n] /\ Selected(ids, I) = u[n]
  <2>1. Len(s) = n + n
    OBVIOUS
  <2> QED BY <1>1, <2>1 DEF Selected
<1> HIDE DEF u, v
<1>5. /\ \A k \in 1 .. 2 * n : s[k] \in X
      /\ \A i \in 1 .. n : i \in J /\ (n + i \in J <=> i \in I)
  BY DEF Halves
<1>6. 0 \in T
  <2>1. <<>> \in Seq(X) /\ Len(<<>>) = 0 /\ 1 .. 0 = {}
    OBVIOUS
  <2> QED BY <1>2, <2>1
<1>7. ASSUME NEW i \in Nat, i \in T PROVE i + 1 \in T
  <2> SUFFICES ASSUME i + 1 <= n PROVE First(i + 1)
    OBVIOUS
  <2>1. i <= n /\ i + 1 \in 1 .. n /\ i + 1 \in 1 .. Len(s) /\ (i + 1) - 1 = i
    OBVIOUS
  <2>2. v[i + 1] = Append(v[i], s[i + 1]) /\ s[i + 1] \in X
    BY <1>2, <1>5, <2>1
  <2>3. v[i] \in Seq(X) /\ Len(v[i]) = i /\ \A k \in 1 .. i : v[i][k] = s[k]
    BY <1>7, <2>1
  <2>4. v[i + 1] \in Seq(X) /\ Len(v[i + 1]) = i + 1
    BY <2>2, <2>3
  <2>5. ASSUME NEW k \in 1 .. i + 1 PROVE v[i + 1][k] = s[k]
    <3>1. CASE k = i + 1
      BY <2>2, <2>3, <3>1
    <3>2. CASE k \in 1 .. i
      BY <2>2, <2>3, <3>2
    <3> QED BY <3>1, <3>2
  <2> QED BY <2>4, <2>5
<1> HIDE DEF T, First
<1>8. \A i \in Nat : i \in T
  BY <1>6, <1>7, NatSetInduction
<1>9. 0 \in U
  <2>1. First(n)
    BY <1>8 DEF T
  <2>2. /\ v[n + 0] = v[n] /\ Len(<<>>) = 0 /\ 1 .. 0 = {} /\ n + 0 = n
        /\ <<>> \in Seq(1 .. n)
    OBVIOUS
  <2> QED BY <1>3, <2>1, <2>2 DEF First
<1>10. ASSUME NEW i \in Nat, i \in U PROVE i + 1 \in U
  <2> SUFFICES ASSUME i + 1 <= n PROVE Second(i + 1)
    <3> HIDE DEF Second
    <3> QED OBVIOUS
  <2>1. /\ i <= n /\ i + 1 \in 1 .. n /\ n + (i + 1) \in 1 .. Len(s) /\ (i + 1) - 1 = i
        /\ (n + (i + 1)) - 1 = n + i /\ n + (i + 1) \in 1 .. 2 * n
    OBVIOUS
  <2>2. Second(i)
    BY <1>10, <2>1
  <2>3. n + (i + 1) \in J <=> i + 1 \in I
    BY <1>5, <2>1
  <2>4. CASE i + 1 \in I
    <3>1. u[i + 1] = Append(u[i], i + 1)
      BY <1>1, <1>3, <2>1, <2>4
    <3>2. v[n + (i + 1)] = Append(v[n + i], s[n + (i + 1)]) /\ s[n + (i + 1)] \in X
      BY <1>2, <1>5, <2>1, <2>3, <2>4
    <3>3. Len(u[i]) \in Nat /\ Len(v[n + i]) = n + Len(u[i])
      BY <2>2
    <3>4. u[i + 1] \in Seq(1 .. n) /\ Len(u[i + 1]) = Len(u[i]) + 1
          /\ (\A m \in 1 .. Len(u[i]) : u[i + 1][m] = u[i][m])
          /\ u[i + 1][Len(u[i]) + 1] = i + 1
      BY <2>1, <2>2, <3>1, AppendElements
    <3>5. v[n + (i + 1)] \in Seq(X) /\ Len(v[n + (i + 1)]) = Len(v[n + i]) + 1
          /\ (\A m \in 1 .. Len(v[n + i]) : v[n + (i + 1)][m] = v[n + i][m])
          /\ v[n + (i + 1)][Len(v[n + i]) + 1] = s[n + (i + 1)]
      <4> DEFINE a == v[n + i]
                 x == s[n + (i + 1)]
      <4>1. a \in Seq(X) /\ x \in X /\ v[n + (i + 1)] = Append(a, x)
        BY <2>2, <3>2
      <4> HIDE DEF a, x
      <4>2. /\ Append(a, x) \in Seq(X) /\ Len(Append(a, x)) = Len(a) + 1
            /\ \A m \in 1 .. Len(a) : Append(a, x)[m] = a[m]
            /\ Append(a, x)[Len(a) + 1] = x
        BY <4>1, AppendElements
      <4> QED BY <4>1, <4>2 DEF a, x
    <3>6. Len(v[n + (i + 1)]) = n + Len(u[i + 1])
      BY <2>2, <3>3, <3>4, <3>5
    <3>7. ASSUME NEW k \in 1 .. n PROVE v[n + (i + 1)][k] = s[k]
      <4>1. k \in 1 .. Len(v[n + i])
        BY <2>2, <3>3
      <4> QED BY <2>2, <3>5, <4>1
    <3>8. ASSUME NEW m \in 1 .. Len(u[i + 1]) PROVE v[n + (i + 1)][n + m] = s[n + u[i + 1][m]]
      <4>1. CASE m = Len(u[i]) + 1
        <5>1. n + m = Len(v[n + i]) + 1
          BY <2>2, <3>3, <4>1
        <5> QED BY <3>4, <3>5, <4>1, <5>1
      <4>2. CASE m # Len(u[i]) + 1
        <5>1. m \in 1 .. Len(u[i]) /\ n + m \in 1 .. Len(v[n + i])
          <6> DEFINE b == Len(u[i])
          <6>1. b \in Nat /\ m \in 1 .. b + 1 /\ m # b + 1 /\ Len(v[n + i]) = n + b
            BY <3>3, <3>4, <4>2
          <6> HIDE DEF b
          <6>2. m \in 1 .. b /\ n + m \in 1 .. n + b
            BY <6>1
          <6> QED BY <6>1, <6>2 DEF b
        <5> QED BY <2>2, <3>4, <3>5, <5>1
      <4> QED BY <4>1, <4>2
    <3> QED BY <3>4, <3>5, <3>6, <3>7, <3>8
  <2>5. CASE i + 1 \notin I
    <3>1. u[i + 1] = u[i] /\ v[n + (i + 1)] = v[n + i]
      BY <1>1, <1>2, <1>3, <2>1, <2>3, <2>5
    <3> QED BY <2>2, <3>1
  <2> QED BY <2>4, <2>5
<1> HIDE DEF U, Second
<1>11. \A i \in Nat : i \in U
  BY <1>9, <1>10, NatSetInduction
<1>12. Second(n)
  BY <1>11 DEF U
<1> QED BY <1>4, <1>12 DEF Second

\* A selection of indices has none twice.
LEMMA SelectedOnce ==
  ASSUME NEW n \in Nat, NEW I, NEW ids \in Seq(1 .. n), Len(ids) = n, \A i \in 1 .. n : ids[i] = i
  PROVE  \A m, l \in 1 .. Len(Selected(ids, I)) : Selected(ids, I)[m] = Selected(ids, I)[l] => m = l
<1> DEFINE u == Selections(ids, I)
           Once(i) == /\ u[i] \in Seq(Nat)
                      /\ \A m \in 1 .. Len(u[i]) : u[i][m] <= i
                      /\ \A m, l \in 1 .. Len(u[i]) : u[i][m] = u[i][l] => m = l
           T == {i \in Nat : i <= n => Once(i)}
<1>1. /\ u[0] = <<>>
      /\ \A k \in 1 .. n : u[k] = IF k \in I THEN Append(u[k - 1], k) ELSE u[k - 1]
  <2>1. /\ u[0] = <<>>
        /\ \A k \in 1 .. Len(ids) : u[k] = IF k \in I THEN Append(u[k - 1], ids[k]) ELSE u[k - 1]
    BY ONLY ids \in Seq(1 .. n), SelectionsDef
  <2> QED BY <2>1
<1>2. Selected(ids, I) = u[n]
  BY DEF Selected
<1> HIDE DEF u
<1>3. 0 \in T
  <2>1. <<>> \in Seq(Nat) /\ Len(<<>>) = 0 /\ 1 .. 0 = {}
    OBVIOUS
  <2> QED BY <1>1, <2>1
<1>4. ASSUME NEW i \in Nat, i \in T PROVE i + 1 \in T
  <2> SUFFICES ASSUME i + 1 <= n PROVE Once(i + 1)
    <3> HIDE DEF Once
    <3> QED OBVIOUS
  <2> DEFINE a == u[i]
             r == Append(a, i + 1)
             p == Len(a)
  <2>1. i + 1 \in 1 .. n /\ (i + 1) - 1 = i /\ Once(i)
    BY <1>4
  <2>2. u[i + 1] = IF i + 1 \in I THEN r ELSE a
    BY <1>1, <2>1
  <2>3. /\ a \in Seq(Nat) /\ p \in Nat
        /\ \A m \in 1 .. p : a[m] <= i /\ a[m] \in Nat
        /\ \A m, l \in 1 .. p : a[m] = a[l] => m = l
    BY <2>1
  <2>4. /\ r \in Seq(Nat) /\ Len(r) = p + 1 /\ r[p + 1] = i + 1
        /\ \A m \in 1 .. p : r[m] = a[m]
    <3>1. a \in Seq(Nat) /\ i + 1 \in Nat
      BY <2>3
    <3> HIDE DEF a
    <3> QED BY <3>1, AppendElements
  <2> HIDE DEF a, r, p
  <2>5. ASSUME NEW m \in 1 .. p + 1 PROVE r[m] <= i + 1 /\ (m = p + 1 \/ (m \in 1 .. p /\ r[m] <= i))
    <3>1. m = p + 1 \/ m \in 1 .. p
      BY <2>3
    <3>2. m \in 1 .. p => r[m] <= i /\ r[m] \in Nat
      BY <2>3, <2>4
    <3>3. m \in 1 .. p => r[m] <= i + 1
      BY <3>2
    <3> QED BY <2>4, <3>1, <3>2, <3>3
  <2>6. ASSUME NEW m \in 1 .. p + 1, NEW l \in 1 .. p + 1, r[m] = r[l] PROVE m = l
    <3>1. ~(i + 1 <= i)
      OBVIOUS
    <3> QED BY <2>3, <2>4, <2>5, <2>6, <3>1
  <2>7. \A m \in 1 .. p : a[m] <= i + 1
    BY <2>3
  <2>8. Len(r) = p + 1 /\ Len(a) = p
    BY <2>4 DEF p
  <2>9. CASE i + 1 \in I
    <3>1. u[i + 1] = r
      BY <2>2, <2>9
    <3> QED BY <2>4, <2>5, <2>6, <2>8, <3>1
  <2>10. CASE i + 1 \notin I
    <3>1. u[i + 1] = a
      BY <2>2, <2>10
    <3> QED BY <2>3, <2>7, <2>8, <3>1
  <2> QED BY <2>9, <2>10
<1> HIDE DEF T, Once
<1>5. \A i \in Nat : i \in T
  BY <1>3, <1>4, NatSetInduction
<1>6. Once(n)
  BY <1>5 DEF T
<1> QED BY <1>2, <1>6 DEF Once

----------------------------------------------------------------------------
(* The entries and their keys. *)

KeyValue == {OffsetKey, "t", "f"}
Assignment == [dst : Nat, hdr : Headers, src : Nat]
Entry == [vals : Seq(BOOLEAN), curr : Nat, init : Nat, act : Seq(Assignment)]

\* The key values of an entry.
Keys(vals) == (IF HasOffsetKey THEN <<OffsetKey>> ELSE <<>>)
                \o [k \in DOMAIN vals |-> IF vals[k] THEN "t" ELSE "f"]

LEMMA WriteHeaderType ==
  ASSUME NEW h \in Headers, NEW offset \in Nat
  PROVE  WriteHeader(h, offset) \in Seq(Assignment) /\ Len(WriteHeader(h, offset)) > 0
<1> DEFINE w == Width[h]
           s == WriteHeader(h, offset)
<1>1. w \in Nat \ {0}
  BY DeparserAssumption
<1> HIDE DEF w
<1>2. ASSUME NEW i \in 1 .. w PROVE WriteByte(offset + i - 1, h, i - 1) \in Assignment
  <2>1. offset + i - 1 \in Nat /\ i - 1 \in Nat
    BY <1>1
  <2> QED BY <2>1 DEF WriteByte, Assignment
<1>3. s = [i \in 1 .. w |-> WriteByte(offset + i - 1, h, i - 1)]
  BY DEF WriteHeader, w
<1> HIDE DEF s
<1>4. s \in [1 .. w -> Assignment]
  BY <1>2, <1>3
<1>5. s \in Seq(Assignment) /\ Len(s) = w
  BY <1>1, <1>4
<1> QED BY <1>1, <1>5 DEF s

LEMMA KeysType ==
  ASSUME NEW vals \in Seq(BOOLEAN)
  PROVE  LET p == IF HasOffsetKey THEN 1 ELSE 0
         IN /\ Keys(vals) \in Seq(KeyValue) /\ Len(Keys(vals)) = p + Len(vals)
            /\ p = 1 => Keys(vals)[1] = OffsetKey
            /\ \A k \in 1 .. Len(vals) : Keys(vals)[p + k] = IF vals[k] THEN "t" ELSE "f"
<1> DEFINE p == IF HasOffsetKey THEN 1 ELSE 0
           pre == IF HasOffsetKey THEN <<OffsetKey>> ELSE <<>>
           n == Len(vals)
           body == [k \in DOMAIN vals |-> IF vals[k] THEN "t" ELSE "f"]
<1>1. /\ pre \in Seq(KeyValue) /\ Len(pre) = p
      /\ p = 1 => pre[1] = OffsetKey
  <2>1. CASE HasOffsetKey
    BY <2>1 DEF KeyValue
  <2>2. CASE ~HasOffsetKey
    BY <2>2
  <2> QED BY <2>1, <2>2
<1>2. n \in Nat /\ DOMAIN vals = 1 .. n
  OBVIOUS
<1>3. body \in [1 .. n -> KeyValue]
  BY <1>2 DEF KeyValue
<1>4. \A k \in 1 .. n : body[k] = IF vals[k] THEN "t" ELSE "f"
  BY <1>2
<1>5. Keys(vals) = pre \o body
  BY DEF Keys
<1> HIDE DEF pre, p, n, body
<1>6. body \in Seq(KeyValue) /\ Len(body) = n
  BY <1>2, <1>3
<1>7. /\ pre \o body \in Seq(KeyValue) /\ Len(pre \o body) = Len(pre) + Len(body)
      /\ \A i \in 1 .. Len(pre) : (pre \o body)[i] = pre[i]
      /\ \A i \in 1 .. Len(body) : (pre \o body)[Len(pre) + i] = body[i]
  <2>1. pre \in Seq(KeyValue) /\ body \in Seq(KeyValue)
    BY <1>1, <1>6
  <2> QED BY ONLY <2>1, ConcatElements
<1>8. p = 1 => (pre \o body)[1] = OffsetKey
  BY <1>1, <1>7
<1> QED BY <1>1, <1>4, <1>5, <1>6, <1>7, <1>8 DEF n, p

\* One more key value.
LEMMA KeysAppend ==
  ASSUME NEW vals \in Seq(BOOLEAN), NEW b \in BOOLEAN
  PROVE  Keys(Append(vals, b)) = Append(Keys(vals), IF b THEN "t" ELSE "f")
<1> DEFINE p == IF HasOffsetKey THEN 1 ELSE 0
           n == Len(vals)
           v == Append(vals, b)
           x == IF b THEN "t" ELSE "f"
           s == Keys(vals)
           t == Keys(v)
<1>1. /\ n \in Nat /\ v \in Seq(BOOLEAN) /\ Len(v) = n + 1 /\ v[n + 1] = b
      /\ \A k \in 1 .. n : v[k] = vals[k]
  OBVIOUS
<1>2. p \in {0, 1} /\ x \in KeyValue
  BY DEF KeyValue
<1> HIDE DEF v
<1>3. /\ s \in Seq(KeyValue) /\ Len(s) = p + n
      /\ p = 1 => s[1] = OffsetKey
      /\ \A k \in 1 .. n : s[p + k] = IF vals[k] THEN "t" ELSE "f"
  BY KeysType
<1>4. /\ t \in Seq(KeyValue) /\ Len(t) = p + Len(v)
      /\ p = 1 => t[1] = OffsetKey
      /\ \A k \in 1 .. Len(v) : t[p + k] = IF v[k] THEN "t" ELSE "f"
  BY <1>1, KeysType
<1> HIDE DEF s, t, n, p, x
<1>5. /\ Append(s, x) \in Seq(KeyValue) /\ Len(Append(s, x)) = Len(s) + 1
      /\ \A i \in 1 .. Len(s) : Append(s, x)[i] = s[i]
      /\ Append(s, x)[Len(s) + 1] = x
  BY <1>2, <1>3, AppendElements
<1>6. Len(t) = Len(Append(s, x))
  BY <1>1, <1>2, <1>3, <1>4, <1>5
<1>7. ASSUME NEW i \in 1 .. p + (n + 1) PROVE t[i] = Append(s, x)[i]
  <2>1. CASE i <= p
    <3>1. p = 1 /\ i = 1 /\ 1 \in 1 .. p + n
      BY <1>1, <1>2, <2>1
    <3> QED BY <1>3, <1>4, <1>5, <3>1
  <2>2. CASE p < i /\ i <= p + n
    <3> DEFINE k == i - p
    <3>1. k \in 1 .. n /\ i = p + k /\ k \in 1 .. n + 1 /\ i \in 1 .. p + n
      BY <1>1, <1>2, <2>2
    <3> HIDE DEF k
    <3>2. t[i] = IF v[k] THEN "t" ELSE "f"
      BY <1>1, <1>4, <3>1
    <3>3. Append(s, x)[i] = IF vals[k] THEN "t" ELSE "f"
      BY <1>3, <1>5, <3>1
    <3> QED BY <1>1, <3>1, <3>2, <3>3
  <2>3. CASE i = p + (n + 1)
    <3>1. n + 1 \in 1 .. n + 1 /\ Len(s) + 1 = i
      BY <1>1, <1>2, <1>3, <2>3
    <3>2. t[i] = IF v[n + 1] THEN "t" ELSE "f"
      BY <1>1, <1>4, <2>3, <3>1
    <3> QED BY <1>1, <1>5, <3>1, <3>2 DEF x
  <2>4. i <= p \/ (p < i /\ i <= p + n) \/ i = p + (n + 1)
    <3>1. n \in Nat /\ p \in Nat
      BY <1>1, <1>2
    <3> QED BY ONLY <3>1, i \in 1 .. p + (n + 1)
  <2> QED BY <2>1, <2>2, <2>3, <2>4
<1>8. t = Append(s, x)
  <2> DEFINE r == Append(s, x)
             l == p + (n + 1)
  <2>1. t \in Seq(KeyValue) /\ r \in Seq(KeyValue) /\ Len(t) = l /\ Len(r) = l
    BY <1>1, <1>4, <1>5, <1>6
  <2> HIDE DEF r, l
  <2>2. t = [i \in 1 .. l |-> t[i]] /\ r = [i \in 1 .. l |-> r[i]]
    BY <2>1
  <2> QED BY <1>7, <2>2 DEF l, r
<1> QED BY <1>8 DEF s, t, v, x

\* The types of the vectors, one value a visited emit statement, and an action for every
\* entry with a valid header.
EntriesInv ==
  /\ initialOffsets \in Seq(Nat)
  /\ xoredValidityOps \in Seq([first : SUBSET Headers, second : SUBSET Headers])
  /\ emitted \in 0 .. Len(Emits)
  /\ keyValueEmitOffsets \in Seq(Entry)
  /\ headerKeyValues \in Seq(Seq(KeyValue))
  /\ \A k \in 1 .. Len(keyValueEmitOffsets) :
       /\ Len(keyValueEmitOffsets[k].vals) = emitted
       /\ \A m \in 1 .. emitted :
            keyValueEmitOffsets[k].vals[m] => keyValueEmitOffsets[k].act # <<>>

\* Entry k is the one for a package that starts at initialOffsets[i] and accepts with P,
\* as far as the emit statements are visited.
EntryFor(k, i, P) ==
  /\ HasOffsetKey => keyValueEmitOffsets[k].init = initialOffsets[i]
  /\ \A m \in 1 .. emitted : keyValueEmitOffsets[k].vals[m] <=> Emits[m] \in P

\* There is one for each of them.
Covered ==
  emitted > 0 \/ HasOffsetKey =>
    \A i \in DOMAIN initialOffsets, P \in Accepts :
      \E k \in 1 .. Len(keyValueEmitOffsets) : EntryFor(k, i, P)

PassInv == EntriesInv /\ Aligned /\ Covered

LEMMA AlignedKeys ==
  ASSUME EntriesInv
  PROVE  Aligned <=> /\ Len(headerKeyValues) = Len(keyValueEmitOffsets)
                     /\ \A i \in 1 .. Len(keyValueEmitOffsets) :
                          headerKeyValues[i] = Keys(keyValueEmitOffsets[i].vals)
<1>1. DOMAIN keyValueEmitOffsets = 1 .. Len(keyValueEmitOffsets)
  BY DEF EntriesInv
<1> QED BY <1>1 DEF Aligned, Keys

LEMMA EntryType ==
  ASSUME NEW v \in Seq(BOOLEAN), NEW c \in Nat, NEW i \in Nat, NEW a \in Seq(Assignment)
  PROVE  [vals |-> v, curr |-> c, init |-> i, act |-> a] \in Entry
  BY DEF Entry

\* The entries extendEmitTable makes.
LEMMA WithoutType ==
  ASSUME EntriesInv, NEW i \in 1 .. Len(keyValueEmitOffsets)
  PROVE  LET e == keyValueEmitOffsets[i]
         IN /\ e \in Entry
            /\ Without(i) \in Entry
            /\ Without(i).vals = Append(e.vals, FALSE)
            /\ Without(i).init = e.init /\ Without(i).act = e.act
<1> DEFINE e == keyValueEmitOffsets[i]
           v == Append(e.vals, FALSE)
<1>1. e \in Entry
  BY DEF EntriesInv
<1>2. Without(i) = [e EXCEPT !.vals = v]
  BY DEF Without
<1> HIDE DEF e
<1>3. v \in Seq(BOOLEAN)
  BY <1>1 DEF Entry
<1> HIDE DEF v
<1>4. Without(i) = [vals |-> v, curr |-> e.curr, init |-> e.init, act |-> e.act]
  BY <1>1, <1>2 DEF Entry
<1>5. e.vals \in Seq(BOOLEAN) /\ e.curr \in Nat /\ e.init \in Nat /\ e.act \in Seq(Assignment)
  BY <1>1 DEF Entry
<1>6. Without(i) \in Entry
  BY <1>3, <1>4, <1>5, EntryType
<1>7. Without(i).vals = v /\ Without(i).init = e.init /\ Without(i).act = e.act
  BY <1>4
<1> QED BY <1>1, <1>6, <1>7 DEF e, v

LEMMA WithType ==
  ASSUME EntriesInv, NEW i \in 1 .. Len(keyValueEmitOffsets), NEW h \in Headers
  PROVE  LET e == keyValueEmitOffsets[i]
         IN /\ With(h, i) \in Entry
            /\ With(h, i).vals = Append(e.vals, TRUE)
            /\ With(h, i).init = e.init /\ With(h, i).act # <<>>
<1> DEFINE e == keyValueEmitOffsets[i]
           declared == \E k \in (1 .. i - 1) \ Dropped(h) : keyValueEmitOffsets[k].curr = e.curr
           c == IF declared THEN e.curr ELSE e.curr + Width[h]
           a == WriteHeader(h, e.curr) \o e.act
           v == Append(e.vals, TRUE)
<1>1. e \in Entry
  BY DEF EntriesInv
<1>2. With(h, i) = [e EXCEPT !.vals = v, !.curr = c, !.act = a]
  BY DEF With
<1> HIDE DEF e, declared
<1>3. e.vals \in Seq(BOOLEAN) /\ e.curr \in Nat /\ e.init \in Nat /\ e.act \in Seq(Assignment)
  BY <1>1 DEF Entry
<1>4. v \in Seq(BOOLEAN)
  BY <1>3
<1>5. c \in Nat
  <2>1. Width[h] \in Nat
    BY DeparserAssumption
  <2> QED BY <1>3, <2>1
<1>6. a \in Seq(Assignment) /\ a # <<>>
  <2> DEFINE w == WriteHeader(h, e.curr)
  <2>1. w \in Seq(Assignment) /\ Len(w) > 0
    BY <1>3, WriteHeaderType
  <2> HIDE DEF w
  <2>2. w \o e.act \in Seq(Assignment) /\ Len(w \o e.act) = Len(w) + Len(e.act)
    BY <1>3, <2>1, ConcatElements
  <2>3. Len(w \o e.act) > 0
    BY <1>3, <2>1, <2>2
  <2>4. w \o e.act # <<>>
    BY <2>3
  <2> QED BY <2>2, <2>4 DEF w
<1> HIDE DEF c, a, v
<1>7. With(h, i) = [vals |-> v, curr |-> c, init |-> e.init, act |-> a]
  BY <1>1, <1>2 DEF Entry
<1>8. With(h, i) \in Entry
  BY <1>3, <1>4, <1>5, <1>6, <1>7, EntryType
<1>9. With(h, i).vals = v /\ With(h, i).init = e.init /\ With(h, i).act # <<>>
  BY <1>6, <1>7
<1> QED BY <1>8, <1>9 DEF e, v

\* What extendEmitTable does to the two vectors: n entries without h, and one with h for each
\* of the entries that are kept.
Extended(h, kept) ==
  LET n == Len(keyValueEmitOffsets)
  IN /\ kept \in Seq((1 .. n) \ Dropped(h))
     /\ \A i \in (1 .. n) \ Dropped(h) : \E m \in 1 .. Len(kept) : kept[m] = i
     /\ \A m, l \in 1 .. Len(kept) : kept[m] = kept[l] => m = l
     /\ keyValueEmitOffsets' \in Seq(Entry)
     /\ Len(keyValueEmitOffsets') = n + Len(kept)
     /\ \A i \in 1 .. n : keyValueEmitOffsets'[i] = Without(i)
     /\ \A m \in 1 .. Len(kept) : keyValueEmitOffsets'[n + m] = With(h, kept[m])
     /\ headerKeyValues' \in Seq(Seq(KeyValue))
     /\ Len(headerKeyValues') = n + Len(kept)
     /\ \A i \in 1 .. n : headerKeyValues'[i] = Append(headerKeyValues[i], "f")
     /\ \A m \in 1 .. Len(kept) : headerKeyValues'[n + m] = Append(headerKeyValues[kept[m]], "t")

LEMMA ExtendEmitTableExtends ==
  ASSUME EntriesInv, Aligned, NEW h \in Headers, ExtendEmitTable(h)
  PROVE  \E kept : Extended(h, kept)
<1> DEFINE n == Len(keyValueEmitOffsets)
           D == Dropped(h)
           I == (1 .. n) \ D
           ids == [i \in 1 .. n |-> i]
           kept == Selected(ids, I)
           doubled == headerKeyValues \o headerKeyValues
           valued == [i \in 1 .. 2 * n |-> IF i <= n THEN Append(doubled[i], "f")
                                           ELSE IF i - n \in D THEN <<>>
                                           ELSE Append(doubled[i], "t")]
           J == {i \in DOMAIN valued : valued[i] # <<>>}
<1>1. /\ keyValueEmitOffsets' = [i \in 1 .. n |-> Without(i)] \o [m \in DOMAIN kept |-> With(h, kept[m])]
      /\ headerKeyValues' = Selected(valued, J)
  BY DEF ExtendEmitTable, RemoveEmptyElements
<1>2. /\ n \in Nat /\ headerKeyValues \in Seq(Seq(KeyValue)) /\ Len(headerKeyValues) = n
  BY DEF EntriesInv, Aligned
<1> HIDE DEF n, D, J
<1>3. /\ \A i \in 1 .. n : doubled[i] = headerKeyValues[i] /\ doubled[n + i] = headerKeyValues[i]
  <2>1. /\ \A i \in 1 .. Len(headerKeyValues) : doubled[i] = headerKeyValues[i]
        /\ \A i \in 1 .. Len(headerKeyValues) :
             doubled[Len(headerKeyValues) + i] = headerKeyValues[i]
    BY <1>2, ConcatElements
  <2> QED BY <1>2, <2>1
<1> HIDE DEF doubled
<1>4. ASSUME NEW i \in 1 .. n
      PROVE  /\ headerKeyValues[i] \in Seq(KeyValue)
             /\ Append(headerKeyValues[i], "f") \in Seq(KeyValue) \ {<<>>}
             /\ Append(headerKeyValues[i], "t") \in Seq(KeyValue) \ {<<>>}
  <2> DEFINE S == Seq(KeyValue)
             k == headerKeyValues[i]
  <2>1. headerKeyValues \in Seq(S) /\ i \in 1 .. Len(headerKeyValues)
    BY <1>2
  <2> HIDE DEF S
  <2>2. k \in S
    BY <2>1
  <2>3. k \in Seq(KeyValue) /\ "t" \in KeyValue /\ "f" \in KeyValue
    BY <2>2 DEF S, KeyValue
  <2> HIDE DEF k
  <2>4. /\ Append(k, "f") \in Seq(KeyValue) /\ Append(k, "f") # <<>>
        /\ Append(k, "t") \in Seq(KeyValue) /\ Append(k, "t") # <<>>
    BY <2>3
  <2> QED BY <2>3, <2>4 DEF k
<1>5. ASSUME NEW i \in 1 .. n
      PROVE  /\ valued[i] = Append(headerKeyValues[i], "f")
             /\ valued[n + i] = IF i \in D THEN <<>> ELSE Append(headerKeyValues[i], "t")
  <2>1. i \in 1 .. 2 * n /\ i <= n /\ n + i \in 1 .. 2 * n /\ ~(n + i <= n) /\ (n + i) - n = i
    BY <1>2
  <2> QED BY <1>3, <2>1
<1>6. valued \in Seq(Seq(KeyValue)) /\ Len(valued) = 2 * n /\ DOMAIN valued = 1 .. 2 * n
  <2>1. ASSUME NEW i \in 1 .. 2 * n PROVE valued[i] \in Seq(KeyValue)
    <3> HIDE DEF valued
    <3>1. CASE i <= n
      <4>1. i \in 1 .. n
        BY <1>2, <3>1
      <4> QED BY <1>4, <1>5, <4>1
    <3>2. CASE i > n
      <4>1. i - n \in 1 .. n /\ i = n + (i - n)
        BY <1>2, <3>2
      <4>2. <<>> \in Seq(KeyValue)
        OBVIOUS
      <4> QED BY <1>4, <1>5, <4>1, <4>2
    <3> QED BY <1>2, <3>1, <3>2
  <2>2. valued = [i \in 1 .. 2 * n |-> valued[i]] /\ 2 * n \in Nat
    BY <1>2
  <2> DEFINE S == Seq(KeyValue)
  <2> HIDE DEF valued, S
  <2>3. valued \in [1 .. 2 * n -> S]
    BY <2>1, <2>2 DEF S
  <2>4. valued \in Seq(S) /\ Len(valued) = 2 * n /\ DOMAIN valued = 1 .. 2 * n
    BY <2>2, <2>3
  <2> QED BY <2>4 DEF S
<1> HIDE DEF valued, I, ids, kept
<1>7. ASSUME NEW i \in 1 .. n PROVE i \in J /\ (n + i \in J <=> i \in I)
  <2>1. i \in 1 .. 2 * n /\ n + i \in 1 .. 2 * n
    BY <1>2
  <2> QED BY <1>4, <1>5, <1>6, <2>1 DEF I, J
<1>8. /\ kept \in Seq(1 .. n)
      /\ Selected(valued, J) \in Seq(Seq(KeyValue))
      /\ Len(Selected(valued, J)) = n + Len(kept)
      /\ \A i \in 1 .. n : Selected(valued, J)[i] = valued[i]
      /\ \A m \in 1 .. Len(kept) : Selected(valued, J)[n + m] = valued[n + kept[m]]
  <2>1. Halves(n, I, J)
    BY <1>7 DEF Halves
  <2> DEFINE X == Seq(KeyValue)
  <2>2. valued \in Seq(X) /\ Len(valued) = 2 * n /\ n \in Nat
    BY <1>2, <1>6
  <2> HIDE DEF X, J
  <2>3. ids \in Seq(1 .. n) /\ Len(ids) = n /\ \A i \in 1 .. n : ids[i] = i
    BY <1>2 DEF ids
  <2>4. /\ Selected(ids, I) \in Seq(1 .. n)
        /\ Selected(valued, J) \in Seq(X)
        /\ Len(Selected(valued, J)) = n + Len(Selected(ids, I))
        /\ \A i \in 1 .. n : Selected(valued, J)[i] = valued[i]
        /\ \A m \in 1 .. Len(Selected(ids, I)) :
             Selected(valued, J)[n + m] = valued[n + Selected(ids, I)[m]]
    BY ONLY <2>1, <2>2, <2>3, SelectedHalves, SMTT(30)
  <2> QED BY <2>4 DEF kept, X
<1>9. /\ kept \in Seq(I)
      /\ \A i \in I : \E m \in 1 .. Len(kept) : kept[m] = i
  <2>1. ids \in Seq(1 .. n) /\ Len(ids) = n /\ \A i \in 1 .. n : ids[i] = i
    BY <1>2 DEF ids
  <2>2. n \in 0 .. Len(ids) /\ kept = Selections(ids, I)[n]
    BY <1>2, <2>1 DEF Selected, kept
  <2>3. /\ kept \in Seq({ids[i] : i \in I \cap (1 .. n)})
        /\ \A i \in I \cap (1 .. n) : \E m \in DOMAIN kept : kept[m] = ids[i]
    BY <2>1, <2>2, SelectionsElements DEF Gathers
  <2>4. I \cap (1 .. n) = I /\ {ids[i] : i \in I \cap (1 .. n)} = I
    BY <2>1 DEF I
  <2>5. DOMAIN kept = 1 .. Len(kept)
    BY <1>8
  <2> QED BY <2>1, <2>3, <2>4, <2>5 DEF I
<1>10. Len(kept) \in Nat /\ DOMAIN kept = 1 .. Len(kept)
       /\ \A m \in 1 .. Len(kept) : kept[m] \in I /\ kept[m] \in 1 .. n /\ kept[m] \notin D
  BY <1>9 DEF I
<1>11. /\ keyValueEmitOffsets' \in Seq(Entry)
       /\ Len(keyValueEmitOffsets') = n + Len(kept)
       /\ \A i \in 1 .. n : keyValueEmitOffsets'[i] = Without(i)
       /\ \A m \in 1 .. Len(kept) : keyValueEmitOffsets'[n + m] = With(h, kept[m])
  <2> DEFINE s == [i \in 1 .. n |-> Without(i)]
             t == [m \in DOMAIN kept |-> With(h, kept[m])]
  <2>1. \A i \in 1 .. n : Without(i) \in Entry
    BY WithoutType DEF n
  <2>2. \A m \in 1 .. Len(kept) : With(h, kept[m]) \in Entry
    BY <1>10, WithType DEF n
  <2>3. s \in [1 .. n -> Entry] /\ \A i \in 1 .. n : s[i] = Without(i)
    BY <2>1
  <2>4. t \in [1 .. Len(kept) -> Entry] /\ \A m \in 1 .. Len(kept) : t[m] = With(h, kept[m])
    BY <1>10, <2>2
  <2>5. keyValueEmitOffsets' = s \o t
    BY <1>1
  <2> HIDE DEF s, t
  <2>6. s \in Seq(Entry) /\ Len(s) = n /\ t \in Seq(Entry) /\ Len(t) = Len(kept)
    <3>1. s \in [1 .. n -> Entry] /\ t \in [1 .. Len(kept) -> Entry] /\ n \in Nat
          /\ Len(kept) \in Nat
      BY <1>2, <1>10, <2>3, <2>4
    <3> QED BY ONLY <3>1
  <2>7. /\ s \o t \in Seq(Entry) /\ Len(s \o t) = Len(s) + Len(t)
        /\ \A i \in 1 .. Len(s) : (s \o t)[i] = s[i]
        /\ \A i \in 1 .. Len(t) : (s \o t)[Len(s) + i] = t[i]
    <3>1. s \in Seq(Entry) /\ t \in Seq(Entry)
      BY <2>6
    <3> QED BY ONLY <3>1, ConcatElements
  <2> QED BY <2>3, <2>4, <2>5, <2>6, <2>7
<1>12. /\ headerKeyValues' \in Seq(Seq(KeyValue))
       /\ Len(headerKeyValues') = n + Len(kept)
       /\ \A i \in 1 .. n : headerKeyValues'[i] = Append(headerKeyValues[i], "f")
       /\ \A m \in 1 .. Len(kept) : headerKeyValues'[n + m] = Append(headerKeyValues[kept[m]], "t")
  BY <1>1, <1>5, <1>8, <1>10
<1>13. \A m, l \in 1 .. Len(kept) : kept[m] = kept[l] => m = l
  <2>1. ids \in Seq(1 .. n) /\ Len(ids) = n /\ \A i \in 1 .. n : ids[i] = i
    BY <1>2 DEF ids
  <2> QED BY <1>2, <2>1, SelectedOnce DEF kept
<1>14. Extended(h, kept)
  BY <1>9, <1>11, <1>12, <1>13 DEF Extended, n, D, I
<1> QED BY <1>14

\* The values of an entry and one more.
LEMMA AppendTrue ==
  ASSUME NEW v \in Seq(BOOLEAN), NEW n \in Nat, Len(v) = n
  PROVE  /\ Append(v, TRUE) \in Seq(BOOLEAN) /\ Len(Append(v, TRUE)) = n + 1
         /\ \A m \in 1 .. n : Append(v, TRUE)[m] <=> v[m]
         /\ Append(v, TRUE)[n + 1]
  OBVIOUS

LEMMA AppendFalse ==
  ASSUME NEW v \in Seq(BOOLEAN), NEW n \in Nat, Len(v) = n
  PROVE  /\ Append(v, FALSE) \in Seq(BOOLEAN) /\ Len(Append(v, FALSE)) = n + 1
         /\ \A m \in 1 .. n : Append(v, FALSE)[m] <=> v[m]
         /\ ~Append(v, FALSE)[n + 1]
  OBVIOUS

\* Headers that are parsed together do not exclude each other: the entry that adds h to
\* an accepted combination is not dropped.
LEMMA AcceptedKept ==
  ASSUME EntriesInv, emitted < Len(Emits), NEW k \in 1 .. Len(keyValueEmitOffsets),
         NEW P \in Accepts, NEW h, h = Emits[emitted + 1], h \in P,
         \A m \in 1 .. emitted : keyValueEmitOffsets[k].vals[m] <=> Emits[m] \in P
  PROVE  k \notin Dropped(h)
<1> DEFINE vals == keyValueEmitOffsets[k].vals
           v == Append(vals, TRUE)
<1>1. vals \in Seq(BOOLEAN) /\ Len(vals) = emitted /\ emitted \in Nat
  <2>1. keyValueEmitOffsets[k] \in Entry
    BY DEF EntriesInv
  <2> QED BY <2>1, SMTT(30) DEF EntriesInv, Entry
<1>2. /\ Emits \in Seq(Headers) /\ P \subseteq ParsedHeaders
      /\ \A i, j \in DOMAIN Emits : Emits[i] = Emits[j] => i = j
      /\ \A S \in XoredHeaderSets : \A g, f \in P \cap S : g = f
  BY DeparserAssumption
<1> HIDE DEF vals
<1>3. /\ DOMAIN v = 1 .. emitted + 1
      /\ \A m \in 1 .. emitted : v[m] <=> vals[m]
  <2>1. /\ v \in Seq(BOOLEAN) /\ Len(v) = emitted + 1
        /\ \A m \in 1 .. emitted : v[m] <=> vals[m]
    BY <1>1, AppendTrue
  <2> HIDE DEF v
  <2> QED BY <2>1
<1> HIDE DEF v
<1>4. ASSUME NEW m \in DOMAIN v, v[m] PROVE m \in DOMAIN Emits /\ Emits[m] \in P
  <2>1. m \in DOMAIN Emits
    BY <1>1, <1>2, <1>3
  <2>2. CASE m = emitted + 1
    BY <2>1, <2>2
  <2>3. CASE m \in 1 .. emitted
    <3>1. vals[m]
      BY <1>3, <1>4, <2>3
    <3> QED BY <2>1, <2>3, <3>1 DEF vals
  <2> QED BY <1>1, <1>3, <2>2, <2>3
<1>5. ~EmitsXORedHdrs(v)
  <2> SUFFICES ASSUME NEW S \in XoredHeaderSets, NEW i \in DOMAIN v, NEW j \in DOMAIN v,
                      i # j, v[i], v[j], Emits[i] \in S, Emits[j] \in S
               PROVE  FALSE
    BY DEF EmitsXORedHdrs
  <2>1. Emits[i] \in P \cap S /\ Emits[j] \in P \cap S /\ i \in DOMAIN Emits /\ j \in DOMAIN Emits
    BY <1>4
  <2>2. Emits[i] = Emits[j]
    BY <1>2, <2>1
  <2> QED BY <1>2, <2>1, <2>2
<1>6. h \in ParsedHeaders
  BY <1>2
<1> QED BY <1>5, <1>6 DEF Dropped, v, vals

LEMMA ExtendPassInv ==
  ASSUME PassInv, emitted < Len(Emits), emitted > 0 \/ HasOffsetKey,
         ExtendEmitTable(Emits[emitted + 1]), emitted' = emitted + 1,
         initialOffsets' = initialOffsets, xoredValidityOps' = xoredValidityOps
  PROVE  PassInv'
<1> DEFINE h == Emits[emitted + 1]
           n == Len(keyValueEmitOffsets)
<1>1. /\ Emits \in Seq(Headers) /\ Len(Emits) \in Nat /\ emitted \in Nat
      /\ emitted' \in 0 .. Len(Emits) /\ h \in Headers
  BY DeparserAssumption DEF PassInv, EntriesInv
<1>2. n \in Nat
  BY DEF PassInv, EntriesInv
<1>3. PICK kept : Extended(h, kept)
  BY <1>1, ExtendEmitTableExtends DEF PassInv
<1>4. /\ Len(kept) \in Nat
      /\ \A m \in 1 .. Len(kept) : kept[m] \in (1 .. n) \ Dropped(h)
      /\ \A i \in (1 .. n) \ Dropped(h) : \E m \in 1 .. Len(kept) : kept[m] = i
      /\ keyValueEmitOffsets' \in Seq(Entry)
      /\ Len(keyValueEmitOffsets') = n + Len(kept)
      /\ \A i \in 1 .. n : keyValueEmitOffsets'[i] = Without(i)
      /\ \A m \in 1 .. Len(kept) : keyValueEmitOffsets'[n + m] = With(h, kept[m])
      /\ headerKeyValues' \in Seq(Seq(KeyValue))
      /\ Len(headerKeyValues') = n + Len(kept)
      /\ \A i \in 1 .. n : headerKeyValues'[i] = Append(headerKeyValues[i], "f")
      /\ \A m \in 1 .. Len(kept) : headerKeyValues'[n + m] = Append(headerKeyValues[kept[m]], "t")
  <2>1. /\ kept \in Seq((1 .. n) \ Dropped(h))
        /\ Len(keyValueEmitOffsets') = n + Len(kept)
        /\ Len(headerKeyValues') = n + Len(kept)
    BY <1>3, Zenon DEF Extended
  <2>2. Len(kept) \in Nat /\ \A m \in 1 .. Len(kept) : kept[m] \in (1 .. n) \ Dropped(h)
    <3> HIDE DEF n, h
    <3> QED BY ONLY <2>1
  <2>3. /\ \A i \in (1 .. n) \ Dropped(h) : \E m \in 1 .. Len(kept) : kept[m] = i
        /\ keyValueEmitOffsets' \in Seq(Entry)
        /\ \A i \in 1 .. n : keyValueEmitOffsets'[i] = Without(i)
        /\ \A m \in 1 .. Len(kept) : keyValueEmitOffsets'[n + m] = With(h, kept[m])
        /\ headerKeyValues' \in Seq(Seq(KeyValue))
    BY <1>3, Zenon DEF Extended
  <2>4. /\ \A i \in 1 .. n : headerKeyValues'[i] = Append(headerKeyValues[i], "f")
        /\ \A m \in 1 .. Len(kept) :
             headerKeyValues'[n + m] = Append(headerKeyValues[kept[m]], "t")
    BY <1>3, Zenon DEF Extended
  <2> QED BY <2>1, <2>2, <2>3, <2>4
<1> HIDE DEF h, n
<1>5. ASSUME NEW k \in 1 .. n + Len(kept)
      PROVE  k \in 1 .. n \/ \E m \in 1 .. Len(kept) : k = n + m
  <2>1. k > n => k - n \in 1 .. Len(kept) /\ k = n + (k - n)
    BY <1>2, <1>4
  <2> QED BY <1>2, <2>1
<1>6. ASSUME NEW i \in 1 .. n
      PROVE  LET e == keyValueEmitOffsets[i]
             IN /\ e \in Entry /\ e.vals \in Seq(BOOLEAN) /\ Len(e.vals) = emitted
                /\ \A m \in 1 .. emitted : e.vals[m] => e.act # <<>>
                /\ headerKeyValues[i] = Keys(e.vals)
                /\ Without(i).vals = Append(e.vals, FALSE)
                /\ Without(i).init = e.init /\ Without(i).act = e.act
                /\ With(h, i).vals = Append(e.vals, TRUE)
                /\ With(h, i).init = e.init /\ With(h, i).act # <<>>
  <2>1. keyValueEmitOffsets[i] \in Entry /\ keyValueEmitOffsets[i].vals \in Seq(BOOLEAN)
    <3>1. keyValueEmitOffsets[i] \in Entry
      BY DEF n, PassInv, EntriesInv
    <3> QED BY <3>1 DEF Entry
  <2>2. headerKeyValues[i] = Keys(keyValueEmitOffsets[i].vals)
    BY AlignedKeys DEF n, PassInv
  <2>3. /\ Len(keyValueEmitOffsets[i].vals) = emitted
        /\ \A m \in 1 .. emitted : keyValueEmitOffsets[i].vals[m] => keyValueEmitOffsets[i].act # <<>>
    BY DEF n, PassInv, EntriesInv
  <2>4. /\ Without(i).vals = Append(keyValueEmitOffsets[i].vals, FALSE)
        /\ Without(i).init = keyValueEmitOffsets[i].init
        /\ Without(i).act = keyValueEmitOffsets[i].act
    BY WithoutType DEF n, PassInv
  <2>5. /\ With(h, i).vals = Append(keyValueEmitOffsets[i].vals, TRUE)
        /\ With(h, i).init = keyValueEmitOffsets[i].init
        /\ With(h, i).act # <<>>
    BY <1>1, WithType DEF n, PassInv
  <2> QED BY <2>1, <2>2, <2>3, <2>4, <2>5
<1>7. ASSUME NEW k \in 1 .. Len(keyValueEmitOffsets')
      PROVE  /\ Len(keyValueEmitOffsets'[k].vals) = emitted'
             /\ \A m \in 1 .. emitted' :
                  keyValueEmitOffsets'[k].vals[m] => keyValueEmitOffsets'[k].act # <<>>
  <2>1. CASE k \in 1 .. n
    <3> DEFINE e == keyValueEmitOffsets[k]
    <3>1. /\ e.vals \in Seq(BOOLEAN) /\ Len(e.vals) = emitted
          /\ \A m \in 1 .. emitted : e.vals[m] => e.act # <<>>
          /\ keyValueEmitOffsets'[k].vals = Append(e.vals, FALSE)
          /\ keyValueEmitOffsets'[k].act = e.act
      BY <1>4, <1>6, <2>1
    <3> HIDE DEF e
    <3>2. /\ Len(Append(e.vals, FALSE)) = emitted + 1
          /\ \A m \in 1 .. emitted : Append(e.vals, FALSE)[m] <=> e.vals[m]
          /\ ~Append(e.vals, FALSE)[emitted + 1]
      BY <1>1, <3>1, AppendFalse
    <3>3. ASSUME NEW m \in 1 .. emitted + 1, Append(e.vals, FALSE)[m] PROVE e.act # <<>>
      <4>1. m # emitted + 1
        BY <3>2, <3>3
      <4>2. m \in 1 .. emitted
        BY <1>1, <4>1
      <4> QED BY <3>1, <3>2, <3>3, <4>2
    <3> QED BY <3>1, <3>2, <3>3
  <2>2. ASSUME NEW m \in 1 .. Len(kept), k = n + m
        PROVE  /\ Len(keyValueEmitOffsets'[k].vals) = emitted'
               /\ keyValueEmitOffsets'[k].act # <<>>
    <3> DEFINE e == keyValueEmitOffsets[kept[m]]
    <3>1. /\ e.vals \in Seq(BOOLEAN) /\ Len(e.vals) = emitted
          /\ keyValueEmitOffsets'[k].vals = Append(e.vals, TRUE)
          /\ keyValueEmitOffsets'[k].act # <<>>
      BY <1>4, <1>6, <2>2, ZenonT(30)
    <3> HIDE DEF e
    <3> QED BY <1>1, <3>1
  <2> QED BY <1>4, <1>5, <2>1, <2>2
<1>8. EntriesInv'
  BY <1>1, <1>4, <1>7 DEF PassInv, EntriesInv
<1>9. ASSUME NEW k \in 1 .. Len(keyValueEmitOffsets')
      PROVE  headerKeyValues'[k] = Keys(keyValueEmitOffsets'[k].vals)
  <2>1. CASE k \in 1 .. n
    <3> DEFINE v == keyValueEmitOffsets[k].vals
    <3>1. /\ v \in Seq(BOOLEAN) /\ headerKeyValues[k] = Keys(v)
          /\ keyValueEmitOffsets'[k].vals = Append(v, FALSE)
          /\ headerKeyValues'[k] = Append(headerKeyValues[k], "f")
      BY <1>4, <1>6, <2>1
    <3> HIDE DEF v
    <3>2. Keys(Append(v, FALSE)) = Append(Keys(v), "f")
      BY <3>1, KeysAppend
    <3> QED BY <3>1, <3>2
  <2>2. ASSUME NEW m \in 1 .. Len(kept), k = n + m
        PROVE  headerKeyValues'[k] = Keys(keyValueEmitOffsets'[k].vals)
    <3> DEFINE v == keyValueEmitOffsets[kept[m]].vals
    <3>1. /\ v \in Seq(BOOLEAN) /\ headerKeyValues[kept[m]] = Keys(v)
          /\ keyValueEmitOffsets'[k].vals = Append(v, TRUE)
          /\ headerKeyValues'[k] = Append(headerKeyValues[kept[m]], "t")
      BY <1>4, <1>6, <2>2
    <3> HIDE DEF v
    <3>2. Keys(Append(v, TRUE)) = Append(Keys(v), "t")
      BY <3>1, KeysAppend
    <3> QED BY <3>1, <3>2
  <2> QED BY <1>4, <1>5, <2>1, <2>2
<1>10. Aligned'
  <2>1. DOMAIN keyValueEmitOffsets' = 1 .. Len(keyValueEmitOffsets')
    BY <1>4
  <2>2. \A v : Keys(v) = (IF HasOffsetKey' THEN <<OffsetKey>> ELSE <<>>)
                           \o [k \in DOMAIN v |-> IF v[k] THEN "t" ELSE "f"]
    BY DEF Keys, HasOffsetKey
  <2> QED BY <1>4, <1>9, <2>1, <2>2 DEF Aligned
<1>11. ASSUME NEW i \in DOMAIN initialOffsets, NEW P \in Accepts
       PROVE  \E k \in 1 .. Len(keyValueEmitOffsets') :
                /\ HasOffsetKey => keyValueEmitOffsets'[k].init = initialOffsets[i]
                /\ \A m \in 1 .. emitted + 1 : keyValueEmitOffsets'[k].vals[m] <=> Emits[m] \in P
  <2>1. PICK k \in 1 .. n : EntryFor(k, i, P)
    BY DEF PassInv, Covered, n
  <2> DEFINE e == keyValueEmitOffsets[k]
  <2>2. /\ HasOffsetKey => e.init = initialOffsets[i]
        /\ \A m \in 1 .. emitted : e.vals[m] <=> Emits[m] \in P
    BY <2>1 DEF EntryFor
  <2>3. e.vals \in Seq(BOOLEAN) /\ Len(e.vals) = emitted
    BY <1>6
  <2>4. CASE h \in P
    <3>1. k \notin Dropped(h)
      BY <2>2, <2>4, AcceptedKept DEF h, n, PassInv
    <3>2. PICK m \in 1 .. Len(kept) : kept[m] = k
      BY <1>4, <3>1
    <3>3. n + m \in 1 .. Len(keyValueEmitOffsets')
      BY <1>2, <1>4
    <3>4. keyValueEmitOffsets'[n + m].vals = Append(e.vals, TRUE)
          /\ keyValueEmitOffsets'[n + m].init = e.init
      BY <1>4, <1>6, <3>2
    <3> DEFINE v == Append(e.vals, TRUE)
    <3> HIDE DEF e
    <3>5. /\ \A j \in 1 .. emitted : v[j] <=> e.vals[j]
          /\ v[emitted + 1]
      BY <1>1, <2>3, AppendTrue
    <3> HIDE DEF v
    <3>6. ASSUME NEW j \in 1 .. emitted + 1 PROVE v[j] <=> Emits[j] \in P
      <4>1. j \in 1 .. emitted \/ j = emitted + 1
        BY <1>1
      <4> QED BY <2>2, <2>4, <3>5, <4>1 DEF h
    <3>7. keyValueEmitOffsets'[n + m].vals = v
      BY <3>4 DEF v
    <3> QED BY <2>2, <3>3, <3>4, <3>6, <3>7
  <2>5. CASE h \notin P
    <3>1. k \in 1 .. Len(keyValueEmitOffsets')
      BY <1>2, <1>4
    <3>2. keyValueEmitOffsets'[k].vals = Append(e.vals, FALSE)
          /\ keyValueEmitOffsets'[k].init = e.init
      BY <1>4, <1>6
    <3> DEFINE v == Append(e.vals, FALSE)
    <3> HIDE DEF e
    <3>3. /\ \A j \in 1 .. emitted : v[j] <=> e.vals[j]
          /\ ~v[emitted + 1]
      BY <1>1, <2>3, AppendFalse
    <3> HIDE DEF v
    <3>4. ASSUME NEW j \in 1 .. emitted + 1 PROVE v[j] <=> Emits[j] \in P
      <4>1. j \in 1 .. emitted \/ j = emitted + 1
        BY <1>1
      <4> QED BY <2>2, <2>5, <3>3, <4>1 DEF h
    <3>5. keyValueEmitOffsets'[k].vals = v
      BY <3>2 DEF v
    <3> QED BY <2>2, <3>1, <3>2, <3>4, <3>5
  <2> QED BY <2>4, <2>5
<1>12. Covered'
  BY <1>11 DEF Covered, EntryFor, HasOffsetKey
<1> QED BY <1>8, <1>10, <1>12 DEF PassInv

\* The key of an entry before the first emit statement.
LEMMA FirstKey ==
  ASSUME HasOffsetKey
  PROVE  Keys(<<>>) = <<OffsetKey>>
<1>1. ASSUME NEW v \in Seq(BOOLEAN), Len(v) = 0 PROVE Keys(v) = <<OffsetKey>>
  <2> DEFINE s == Keys(v)
             x == OffsetKey
  <2>1. s \in Seq(KeyValue) /\ Len(s) = 1 + Len(v) /\ s[1] = x
    BY KeysType
  <2> HIDE DEF s, x
  <2>2. Len(s) = 1
    BY <1>1, <2>1
  <2>3. s = <<x>>
    BY <2>1, <2>2
  <2> QED BY <2>3 DEF s, x
<1>2. <<>> \in Seq(BOOLEAN) /\ Len(<<>>) = 0
  OBVIOUS
<1> QED BY <1>1, <1>2

LEMMA InitPassInv ==
  ASSUME Init
  PROVE  PassInv
<1> DEFINE n == Len(initialOffsets)
<1>1. /\ initialOffsets \in Seq(Nat) /\ emitted = 0
      /\ xoredValidityOps \in Seq([first : SUBSET Headers, second : SUBSET Headers])
      /\ 0 \in 0 .. Len(Emits)
  <2>1. PICK a \in Arguments : initialOffsets = a[1] /\ xoredValidityOps = a[2]
    BY DEF Init
  <2>2. a \in Seq(Nat) \X Seq([first : SUBSET Headers, second : SUBSET Headers])
    BY DeparserAssumption
  <2>3. Len(Emits) \in Nat
    BY DeparserAssumption
  <2> QED BY <2>1, <2>2, <2>3 DEF Init
<1>2. CASE HasOffsetKey
  <2> DEFINE e(i) == [vals |-> <<>>, curr |-> initialOffsets[i], init |-> initialOffsets[i],
                      act |-> <<>>]
  <2>1. n \in Nat /\ DOMAIN initialOffsets = 1 .. n /\ \A i \in 1 .. n : initialOffsets[i] \in Nat
    BY <1>1
  <2>2. /\ keyValueEmitOffsets = [i \in 1 .. n |-> e(i)]
        /\ headerKeyValues = [i \in 1 .. n |-> <<OffsetKey>>]
    BY <1>2, <2>1 DEF Init, OffsetEntries
  <2>3. ASSUME NEW i \in 1 .. n PROVE e(i) \in Entry
    <3>1. <<>> \in Seq(BOOLEAN) /\ <<>> \in Seq(Assignment)
      OBVIOUS
    <3> QED BY <2>1, <3>1, EntryType
  <2>4. /\ keyValueEmitOffsets \in Seq(Entry) /\ Len(keyValueEmitOffsets) = n
        /\ \A i \in 1 .. n : keyValueEmitOffsets[i] = e(i)
    <3> HIDE DEF e, n
    <3>1. keyValueEmitOffsets \in [1 .. n -> Entry]
      BY <2>2, <2>3
    <3> QED BY <2>1, <2>2, <3>1
  <2>5. /\ headerKeyValues \in Seq(Seq(KeyValue)) /\ Len(headerKeyValues) = n
        /\ \A i \in 1 .. n : headerKeyValues[i] = <<OffsetKey>>
    <3>1. <<OffsetKey>> \in Seq(KeyValue)
      BY DEF KeyValue
    <3> DEFINE S == Seq(KeyValue)
    <3> HIDE DEF S, n
    <3>2. headerKeyValues \in [1 .. n -> S]
      BY <2>2, <3>1 DEF S
    <3>3. headerKeyValues \in Seq(S) /\ Len(headerKeyValues) = n
      BY <2>1, <3>2
    <3> QED BY <2>2, <3>3 DEF S
  <2>6. \A i \in 1 .. n : e(i).vals = <<>> /\ e(i).init = initialOffsets[i] /\ Len(e(i).vals) = 0
    OBVIOUS
  <2> HIDE DEF e, n
  <2>7. EntriesInv
    BY <1>1, <2>4, <2>5, <2>6 DEF EntriesInv
  <2>8. Keys(<<>>) = <<OffsetKey>>
    BY <1>2, FirstKey
  <2>9. Aligned
    BY <2>4, <2>5, <2>6, <2>7, <2>8, AlignedKeys
  <2>10. ASSUME NEW i \in DOMAIN initialOffsets, NEW P \in Accepts
         PROVE  \E k \in 1 .. Len(keyValueEmitOffsets) : EntryFor(k, i, P)
    <3>1. i \in 1 .. n /\ 1 .. emitted = {}
      BY <1>1, <2>1
    <3>2. EntryFor(i, i, P)
      BY <2>4, <2>6, <3>1 DEF EntryFor
    <3> QED BY <2>4, <3>1, <3>2
  <2> QED BY <2>7, <2>9, <2>10 DEF PassInv, Covered
<1>3. CASE ~HasOffsetKey
  <2>1. keyValueEmitOffsets = <<>> /\ headerKeyValues = <<>>
    BY <1>3 DEF Init
  <2>2. EntriesInv
    <3>1. <<>> \in Seq(Entry) /\ <<>> \in Seq(Seq(KeyValue)) /\ Len(<<>>) = 0 /\ 1 .. 0 = {}
      OBVIOUS
    <3> QED BY <1>1, <2>1, <3>1 DEF EntriesInv
  <2>3. Aligned
    BY <2>1 DEF Aligned
  <2>4. Covered
    BY <1>1, <1>3 DEF Covered
  <2> QED BY <2>2, <2>3, <2>4 DEF PassInv
<1> QED BY <1>2, <1>3

\* The keys of the two entries of the first emit statement.
LEMMA FirstKeys ==
  ASSUME ~HasOffsetKey
  PROVE  Keys(<<FALSE>>) = <<"f">> /\ Keys(<<TRUE>>) = <<"t">>
<1>1. ASSUME NEW v \in Seq(BOOLEAN), Len(v) = 1 PROVE Keys(v) = <<IF v[1] THEN "t" ELSE "f">>
  <2> DEFINE s == Keys(v)
             x == IF v[1] THEN "t" ELSE "f"
  <2>1. 1 \in 1 .. Len(v) /\ 0 + 1 = 1
    BY <1>1
  <2>2. s \in Seq(KeyValue) /\ Len(s) = 0 + Len(v) /\ s[0 + 1] = x
    BY <1>1, <2>1, KeysType
  <2> HIDE DEF s, x
  <2>3. s = <<x>>
    BY <1>1, <2>2
  <2> QED BY <2>3 DEF s, x
<1>2. <<FALSE>> \in Seq(BOOLEAN) /\ Len(<<FALSE>>) = 1 /\ ~ <<FALSE>>[1]
  OBVIOUS
<1>3. <<TRUE>> \in Seq(BOOLEAN) /\ Len(<<TRUE>>) = 1 /\ <<TRUE>>[1]
  OBVIOUS
<1>4. Keys(<<FALSE>>) = <<"f">>
  <2>1. Keys(<<FALSE>>) = <<IF <<FALSE>>[1] THEN "t" ELSE "f">>
    BY <1>1, <1>2
  <2>2. (IF <<FALSE>>[1] THEN "t" ELSE "f") = "f"
    BY <1>2
  <2> QED BY <2>1, <2>2
<1>5. Keys(<<TRUE>>) = <<"t">>
  <2>1. Keys(<<TRUE>>) = <<IF <<TRUE>>[1] THEN "t" ELSE "f">>
    BY <1>1, <1>3
  <2>2. (IF <<TRUE>>[1] THEN "t" ELSE "f") = "t"
    BY <1>3
  <2> QED BY <2>1, <2>2
<1> QED BY <1>4, <1>5

LEMMA CreatePassInv ==
  ASSUME PassInv, emitted = 0, ~HasOffsetKey, CreateEmitTable(Emits[1]), emitted' = 1,
         initialOffsets' = initialOffsets, xoredValidityOps' = xoredValidityOps
  PROVE  PassInv'
<1> DEFINE h == Emits[1]
           e1 == [vals |-> <<FALSE>>, curr |-> 0, init |-> 0, act |-> <<>>]
           e2 == [vals |-> <<TRUE>>, curr |-> Width[h], init |-> Width[h],
                  act |-> WriteHeader(h, 0)]
<1>1. /\ Emits \in Seq(Headers) /\ Len(Emits) \in Nat /\ 1 \in 0 .. Len(Emits) /\ h \in Headers
      /\ initialOffsets \in Seq(Nat)
      /\ xoredValidityOps \in Seq([first : SUBSET Headers, second : SUBSET Headers])
  <2>1. Emits \in Seq(Headers) /\ Emits # <<>>
    BY DeparserAssumption
  <2>2. Len(Emits) \in Nat /\ 1 \in 0 .. Len(Emits) /\ h \in Headers
    BY <2>1
  <2> QED BY <2>1, <2>2 DEF PassInv, EntriesInv
<1>2. WriteHeader(h, 0) \in Seq(Assignment) /\ WriteHeader(h, 0) # <<>> /\ Width[h] \in Nat
  <2>1. 0 \in Nat /\ Width[h] \in Nat
    BY <1>1, DeparserAssumption
  <2>2. WriteHeader(h, 0) \in Seq(Assignment) /\ Len(WriteHeader(h, 0)) > 0
    BY <1>1, <2>1, WriteHeaderType
  <2> QED BY <2>1, <2>2
<1>3. e1 \in Entry /\ e2 \in Entry
  <2>1. <<FALSE>> \in Seq(BOOLEAN) /\ <<TRUE>> \in Seq(BOOLEAN) /\ <<>> \in Seq(Assignment)
    OBVIOUS
  <2> QED BY <1>2, <2>1, EntryType
<1>4. keyValueEmitOffsets' = <<e1, e2>> /\ headerKeyValues' = << <<"f">>, <<"t">> >>
  BY DEF CreateEmitTable
<1>5. /\ e1.vals = <<FALSE>> /\ Len(e1.vals) = 1 /\ ~e1.vals[1]
      /\ e2.vals = <<TRUE>> /\ Len(e2.vals) = 1 /\ e2.vals[1] /\ e2.act # <<>>
  BY <1>2
<1> HIDE DEF e1, e2, h
<1>6. /\ keyValueEmitOffsets' \in Seq(Entry) /\ Len(keyValueEmitOffsets') = 2
      /\ keyValueEmitOffsets'[1] = e1 /\ keyValueEmitOffsets'[2] = e2
  BY <1>3, <1>4
<1>7. /\ headerKeyValues' \in Seq(Seq(KeyValue)) /\ Len(headerKeyValues') = 2
      /\ headerKeyValues'[1] = <<"f">> /\ headerKeyValues'[2] = <<"t">>
  <2> DEFINE S == Seq(KeyValue)
             f == <<"f">>
             t == <<"t">>
  <2>1. f \in S /\ t \in S
    BY DEF KeyValue
  <2> HIDE DEF S, f, t
  <2>2. <<f, t>> \in Seq(S) /\ Len(<<f, t>>) = 2 /\ <<f, t>>[1] = f /\ <<f, t>>[2] = t
    BY <2>1
  <2> QED BY <1>4, <2>2 DEF S, f, t
<1>8. 1 .. 2 = {1, 2} /\ 1 .. 1 = {1}
  OBVIOUS
<1>9. EntriesInv'
  BY <1>1, <1>5, <1>6, <1>7, <1>8 DEF EntriesInv
<1>10. \A k \in {1, 2} : headerKeyValues'[k] = Keys(keyValueEmitOffsets'[k].vals)
  BY <1>5, <1>6, <1>7, FirstKeys
<1>11. Aligned'
  <2>1. DOMAIN keyValueEmitOffsets' = {1, 2}
    BY <1>6, <1>8
  <2>2. \A v : Keys(v) = (IF HasOffsetKey' THEN <<OffsetKey>> ELSE <<>>)
                           \o [k \in DOMAIN v |-> IF v[k] THEN "t" ELSE "f"]
    BY DEF Keys, HasOffsetKey
  <2> QED BY <1>6, <1>7, <1>10, <2>1, <2>2 DEF Aligned
<1>12. ASSUME NEW i \in DOMAIN initialOffsets, NEW P \in Accepts
       PROVE  \E k \in 1 .. Len(keyValueEmitOffsets') :
                \A m \in 1 .. 1 : keyValueEmitOffsets'[k].vals[m] <=> Emits[m] \in P
  <2>1. CASE Emits[1] \in P
    <3>1. 2 \in 1 .. Len(keyValueEmitOffsets') /\ keyValueEmitOffsets'[2].vals[1]
      BY <1>5, <1>6, <1>8
    <3> QED BY <1>8, <2>1, <3>1
  <2>2. CASE Emits[1] \notin P
    <3>1. 1 \in 1 .. Len(keyValueEmitOffsets') /\ ~keyValueEmitOffsets'[1].vals[1]
      BY <1>5, <1>6, <1>8
    <3> QED BY <1>8, <2>2, <3>1
  <2> QED BY <2>1, <2>2
<1>13. Covered'
  BY <1>12 DEF Covered, EntryFor, HasOffsetKey
<1> QED BY <1>9, <1>11, <1>13 DEF PassInv

\* The vectors of the pass, and where its emit statements are when the table is made.
VectorsInv == PassInv /\ (stage # "emits" => emitted = Len(Emits))

LEMMA InitVectorsInv == Init => VectorsInv
  BY InitPassInv DEF Init, VectorsInv

LEMMA NextVectorsInv == VectorsInv /\ [Next]_vars => VectorsInv'
<1> SUFFICES ASSUME VectorsInv, [Next]_vars PROVE VectorsInv'
  OBVIOUS
<1>1. CASE EmitStatement
  <2>1. /\ stage = "emits" /\ emitted < Len(Emits) /\ emitted' = emitted + 1 /\ stage' = stage
        /\ initialOffsets' = initialOffsets /\ xoredValidityOps' = xoredValidityOps
    BY <1>1 DEF EmitStatement
  <2>2. emitted \in 0 .. Len(Emits) /\ Len(Emits) \in Nat
    BY DeparserAssumption DEF VectorsInv, PassInv, EntriesInv
  <2>3. CASE emitted = 0 /\ ~HasOffsetKey
    <3>1. CreateEmitTable(Emits[1])
      BY <1>1, <2>3 DEF EmitStatement
    <3> QED BY <2>1, <2>3, <3>1, CreatePassInv DEF VectorsInv
  <2>4. CASE ~(emitted = 0 /\ ~HasOffsetKey)
    <3>1. ExtendEmitTable(Emits[emitted + 1]) /\ (emitted > 0 \/ HasOffsetKey)
      BY <1>1, <2>2, <2>4 DEF EmitStatement
    <3> QED BY <2>1, <3>1, ExtendPassInv DEF VectorsInv
  <2> QED BY <2>3, <2>4
<1>2. CASE /\ UNCHANGED <<initialOffsets, xoredValidityOps, emitted, headerKeyValues,
                          keyValueEmitOffsets>>
           /\ stage = "emits" /\ stage' # "emits" => emitted = Len(Emits)
  <2>1. HasOffsetKey' = HasOffsetKey
    BY <1>2 DEF HasOffsetKey
  <2>2. Aligned'
    BY <1>2, <2>1 DEF VectorsInv, PassInv, Aligned
  <2>3. Covered'
    BY <1>2, <2>1 DEF VectorsInv, PassInv, Covered, EntryFor
  <2>4. EntriesInv'
    BY <1>2 DEF VectorsInv, PassInv, EntriesInv
  <2> QED BY <1>2, <2>2, <2>3, <2>4 DEF VectorsInv, PassInv
<1>3. CASE FinishTable
  BY <1>2, <1>3 DEF FinishTable
<1>4. CASE \E i \in DOMAIN initialOffsets : \E parsed \in Accepts :
             \E flags \in Flags : Arrive(initialOffsets[i], parsed, flags)
  BY <1>2, <1>4 DEF Arrive, passVars
<1>5. CASE RunAction
  BY <1>2, <1>5 DEF RunAction, passVars
<1>6. CASE EndAction
  BY <1>2, <1>6 DEF EndAction, passVars
<1>7. CASE UNCHANGED vars
  BY <1>2, <1>7 DEF vars, passVars
<1> QED BY <1>1, <1>3, <1>4, <1>5, <1>6, <1>7 DEF Next

\* The pass keeps its two vectors of entries in step: what headerKeyValues says of an
\* entry is the key that keyValueEmitOffsets has for it.
THEOREM VectorsAligned == Spec => []Aligned
<1>1. VectorsInv => Aligned
  BY DEF VectorsInv, PassInv
<1> QED BY <1>1, InitVectorsInv, NextVectorsInv, PTL DEF Spec

----------------------------------------------------------------------------
(* The table. *)

\* The entry for a start offset and an accepted combination, once all emit statements
\* are visited.
LEMMA EntryOfPacket ==
  ASSUME PassInv, emitted = Len(Emits), NEW i \in DOMAIN initialOffsets, NEW P \in Accepts
  PROVE  \E k \in 1 .. Len(keyValueEmitOffsets) :
           LET e == keyValueEmitOffsets[k]
           IN /\ (IF HasOffsetKey THEN e.init ELSE 0) = initialOffsets[i]
              /\ \A m \in DOMAIN Emits : e.vals[m] <=> Emits[m] \in P
              /\ \A m \in DOMAIN Emits : e.vals[m] => e.act # <<>>
<1>1. DOMAIN Emits = 1 .. emitted /\ emitted > 0
  <2>1. Emits \in Seq(Headers) /\ Emits # <<>>
    BY DeparserAssumption
  <2> QED BY <2>1
<1>2. PICK k \in 1 .. Len(keyValueEmitOffsets) : EntryFor(k, i, P)
  BY <1>1 DEF PassInv, Covered
<1>3. ~HasOffsetKey => initialOffsets[i] = 0
  BY DEF HasOffsetKey
<1>4. \A m \in 1 .. emitted : keyValueEmitOffsets[k].vals[m] => keyValueEmitOffsets[k].act # <<>>
  BY DEF PassInv, EntriesInv
<1> QED BY <1>1, <1>2, <1>3, <1>4 DEF EntryFor

NoOpKeys == OpKeys("first") \cup OpKeys("second") = {}

\* The entries that are made are entries of the pass; none is lost that has an action, or
\* any where the offset is a key.
LEMMA MadeElements ==
  ASSUME EntriesInv
  PROVE  /\ MadeEntries \in Seq(Entry)
         /\ \A k \in 1 .. Len(keyValueEmitOffsets) :
              HasOffsetKey \/ keyValueEmitOffsets[k].act # <<>> =>
                \E m \in DOMAIN MadeEntries : MadeEntries[m] = keyValueEmitOffsets[k]
<1> DEFINE s == keyValueEmitOffsets
           n == Len(s)
           I == {i \in DOMAIN s : HasOffsetKey \/ s[i].act # <<>>}
           made == Selections(s, I)[n]
<1>1. s \in Seq(Entry)
  BY DEF EntriesInv
<1>2. n \in Nat /\ n \in 0 .. n /\ DOMAIN s = 1 .. n
  BY <1>1
<1>3. /\ made \in Seq({s[i] : i \in I \cap (1 .. n)})
      /\ \A i \in I \cap (1 .. n) : \E m \in DOMAIN made : made[m] = s[i]
  <2> HIDE DEF I, made
  <2>1. s \in Seq(Entry) /\ n \in 0 .. Len(s)
    BY <1>1, <1>2
  <2>2. Gathers(made, s, I, n)
    BY ONLY <2>1, SelectionsElements DEF made
  <2> QED BY <2>2 DEF Gathers
<1>4. MadeEntries = made
  BY DEF MadeEntries, Selected
<1>5. {s[i] : i \in I \cap (1 .. n)} \subseteq Entry
  BY <1>1, <1>2
<1>6. \A k \in 1 .. n : HasOffsetKey \/ s[k].act # <<>> => k \in I \cap (1 .. n)
  BY <1>2
<1> HIDE DEF made, I
<1>7. made \in Seq(Entry)
  BY <1>3, <1>5
<1> QED BY <1>3, <1>4, <1>6, <1>7

LEMMA EmitTableEntry ==
  ASSUME EntriesInv, NEW m \in DOMAIN MadeEntries
  PROVE  /\ m \in DOMAIN EmitTable
         /\ EmitTable[m].off = IF HasOffsetKey THEN MadeEntries[m].init ELSE 0
         /\ EmitTable[m].vals = MadeEntries[m].vals
         /\ EmitTable[m].ops = [first |-> {}, second |-> {}]
  BY DEF EmitTable

LEMMA MultipliedEntry ==
  ASSUME PassInv, NEW k \in 1 .. Len(keyValueEmitOffsets), NEW m \in DOMAIN xoredValidityOps
  PROVE  LET t == MultiplyHdrValidityOpsTable
             e == keyValueEmitOffsets[k]
         IN \E q \in DOMAIN t :
              /\ t[q].off = IF HasOffsetKey THEN e.init ELSE 0
              /\ t[q].vals = e.vals
              /\ t[q].ops = xoredValidityOps[m]
<1> DEFINE n == Len(headerKeyValues)
           total == n * Len(xoredValidityOps)
           rec(i) == xoredValidityOps[((i - 1) \div n) + 1]
           row(i) == ((i - 1) % n) + 1
           q == (m - 1) * n + (k - 1) + 1
           data == [i \in 1 .. total |->
                      EmitData(keyValueEmitOffsets[row(i)], headerKeyValues[row(i)], rec(i))]
           declared(i) == Min({j \in 1 .. i : ActName(data[j]) = ActName(data[i])})
           entry(i) == LET e == keyValueEmitOffsets[row(i)]
                       IN [off |-> IF HasOffsetKey THEN e.init ELSE 0, vals |-> e.vals,
                           ops |-> rec(i), act |-> EntryAction(data[declared(i)]),
                           resets |-> FALSE]
           t == MultiplyHdrValidityOpsTable
<1>1. n = Len(keyValueEmitOffsets) /\ n \in Nat \ {0}
  BY DEF PassInv, EntriesInv, Aligned
<1>2. Len(xoredValidityOps) \in Nat /\ m \in 1 .. Len(xoredValidityOps)
  BY DEF PassInv, EntriesInv
<1>3. m - 1 \in Nat /\ k - 1 \in 0 .. n - 1 /\ k \in Nat /\ m \in Nat
  BY <1>1, <1>2
<1>4. (q - 1) \div n = m - 1 /\ (q - 1) % n = k - 1
  <2> DEFINE a == m - 1
             r == k - 1
  <2>1. a \in Nat /\ r \in 0 .. n - 1
    BY <1>3
  <2> HIDE DEF a, r, n
  <2>2. (a * n + r) \div n = a /\ (a * n + r) % n = r
    BY <1>1, <2>1, RowOfIndex
  <2>3. q - 1 = a * n + r
    <3>1. a * n \in Int /\ r \in Int
      BY <1>1, <2>1
    <3>2. q = a * n + r + 1
      BY DEF a, r
    <3> QED BY <3>1, <3>2
  <2> QED BY <2>2, <2>3 DEF a, r
<1>5. q \in 1 .. total
  <2> DEFINE a == m - 1
             r == k - 1
             l == Len(xoredValidityOps)
  <2>1. a \in Nat /\ r \in 0 .. n - 1 /\ l \in Nat /\ a < l
    BY <1>2, <1>3
  <2> HIDE DEF a, r, n, l
  <2>2. a * n + r \in 0 .. n * l - 1
    BY <1>1, <2>1
  <2>3. n * l \in Nat
    BY <1>1, <2>1
  <2>4. q = a * n + r + 1 /\ total = n * l
    BY DEF a, r, l
  <2> QED BY <2>2, <2>3, <2>4
<1>6. row(q) = k /\ rec(q) = xoredValidityOps[m]
  <2> HIDE DEF q, n
  <2>1. ((q - 1) \div n) + 1 = m /\ ((q - 1) % n) + 1 = k
    BY <1>3, <1>4
  <2> QED BY <2>1
<1>7. t = [i \in 1 .. total |-> entry(i)]
  BY DEF MultiplyHdrValidityOpsTable
<1> HIDE DEF t, q, total, rec, row, data, declared
<1>8. q \in DOMAIN t /\ t[q] = entry(q)
  BY <1>5, <1>7
<1>9. /\ entry(q).off = IF HasOffsetKey THEN keyValueEmitOffsets[k].init ELSE 0
      /\ entry(q).vals = keyValueEmitOffsets[k].vals
      /\ entry(q).ops = xoredValidityOps[m]
  BY <1>6
<1> HIDE DEF entry
<1> QED BY <1>8, <1>9 DEF t

\* The table that the pass finishes with has its entries for the packets.
LEMMA FinishedTableHits ==
  ASSUME PassInv, FinishTable
  PROVE  PacketsHit'
<1>1. /\ emitted = Len(Emits) /\ initialOffsets' = initialOffsets
      /\ xoredValidityOps' = xoredValidityOps
  BY DEF FinishTable
<1>2. /\ HasOffsetKey' = HasOffsetKey /\ Flags' = Flags
      /\ OpKeys("first")' = OpKeys("first") /\ OpKeys("second")' = OpKeys("second")
  BY <1>1 DEF HasOffsetKey, Flags, OpKeys
<1>3. ASSUME NEW i \in DOMAIN initialOffsets, NEW P \in Accepts, NEW flags \in Flags,
             HasOffsetKey \/ ~NoOpKeys \/ \E m \in DOMAIN Emits : Emits[m] \in P
      PROVE  \E q \in DOMAIN table' :
               /\ table'[q].off = initialOffsets[i]
               /\ \A m \in DOMAIN Emits : table'[q].vals[m] <=> Emits[m] \in P
               /\ \A part \in {"first", "second"} :
                    flags[part] \cap OpKeys(part) = table'[q].ops[part]
  <2>1. PICK k \in 1 .. Len(keyValueEmitOffsets) :
          /\ (IF HasOffsetKey THEN keyValueEmitOffsets[k].init ELSE 0) = initialOffsets[i]
          /\ \A m \in DOMAIN Emits : keyValueEmitOffsets[k].vals[m] <=> Emits[m] \in P
          /\ \A m \in DOMAIN Emits :
               keyValueEmitOffsets[k].vals[m] => keyValueEmitOffsets[k].act # <<>>
    BY <1>1, EntryOfPacket
  <2>2. CASE NoOpKeys
    <3>1. table' = EmitTable
      BY <2>2 DEF FinishTable, NoOpKeys
    <3>2. HasOffsetKey \/ keyValueEmitOffsets[k].act # <<>>
      BY <1>3, <2>1, <2>2
    <3>3. PICK m \in DOMAIN MadeEntries : MadeEntries[m] = keyValueEmitOffsets[k]
      BY <3>2, MadeElements DEF PassInv
    <3>4. /\ m \in DOMAIN EmitTable
          /\ EmitTable[m].off = IF HasOffsetKey THEN MadeEntries[m].init ELSE 0
          /\ EmitTable[m].vals = MadeEntries[m].vals
          /\ EmitTable[m].ops = [first |-> {}, second |-> {}]
      BY EmitTableEntry DEF PassInv
    <3>5. ASSUME NEW part \in {"first", "second"}
          PROVE  flags[part] \cap OpKeys(part) = EmitTable[m].ops[part]
      <4>1. OpKeys(part) = {}
        BY <2>2 DEF NoOpKeys
      <4>2. EmitTable[m].ops[part] = {}
        BY <3>4
      <4> QED BY <4>1, <4>2
    <3> QED BY <2>1, <3>1, <3>3, <3>4, <3>5
  <2>3. CASE ~NoOpKeys
    <3>1. table' = MultiplyHdrValidityOpsTable
      BY <2>3 DEF FinishTable, NoOpKeys
    <3>2. PICK m \in DOMAIN xoredValidityOps : flags = xoredValidityOps[m]
      <4>1. xoredValidityOps # <<>>
        <5> SUFFICES ASSUME xoredValidityOps = <<>> PROVE NoOpKeys
          BY <2>3
        <5>1. DOMAIN xoredValidityOps = {}
          OBVIOUS
        <5> QED BY <5>1 DEF NoOpKeys, OpKeys
      <4> QED BY <4>1 DEF Flags
    <3>3. PICK q \in DOMAIN MultiplyHdrValidityOpsTable :
            /\ MultiplyHdrValidityOpsTable[q].off
                 = IF HasOffsetKey THEN keyValueEmitOffsets[k].init ELSE 0
            /\ MultiplyHdrValidityOpsTable[q].vals = keyValueEmitOffsets[k].vals
            /\ MultiplyHdrValidityOpsTable[q].ops = xoredValidityOps[m]
      BY MultipliedEntry
    <3>4. \A part \in {"first", "second"} : flags[part] \subseteq OpKeys(part)
      BY <3>2 DEF OpKeys
    <3>5. \A part \in {"first", "second"} :
            flags[part] \cap OpKeys(part) = MultiplyHdrValidityOpsTable[q].ops[part]
      BY <3>2, <3>3, <3>4
    <3> QED BY <2>1, <3>1, <3>3, <3>5
  <2> QED BY <2>2, <2>3
<1>4. ASSUME NEW i \in DOMAIN initialOffsets, NEW P \in Accepts, NEW flags \in Flags,
             HasOffsetKey \/ ~NoOpKeys \/ \E m \in DOMAIN Emits : Emits[m] \in P
      PROVE  Hits(initialOffsets[i], P, flags)' # {}
  <2>1. PICK q \in DOMAIN table' :
          /\ table'[q].off = initialOffsets[i]
          /\ \A m \in DOMAIN Emits : table'[q].vals[m] <=> Emits[m] \in P
          /\ \A part \in {"first", "second"} :
               flags[part] \cap OpKeys(part) = table'[q].ops[part]
    BY <1>3, <1>4
  <2>2. \A part \in {"first", "second"} : OpKeys(part)' = OpKeys(part)
    BY <1>2
  <2>3. q \in Hits(initialOffsets[i], P, flags)'
    BY <1>1, <2>1, <2>2 DEF Hits
  <2> QED BY <2>3
<1> QED BY <1>1, <1>2, <1>4 DEF PacketsHit, NoOpKeys

TableInv == VectorsInv /\ PacketsHit

LEMMA InitTableInv == Init => TableInv
  BY InitVectorsInv DEF Init, TableInv, PacketsHit

LEMMA NextTableInv == TableInv /\ [Next]_vars => TableInv'
<1> SUFFICES ASSUME TableInv, [Next]_vars PROVE TableInv'
  OBVIOUS
<1>1. VectorsInv'
  BY NextVectorsInv DEF TableInv
<1>2. CASE FinishTable
  BY <1>1, <1>2, FinishedTableHits DEF TableInv, VectorsInv
<1>3. CASE stage' = "emits"
  BY <1>1, <1>3 DEF TableInv, PacketsHit
<1>4. CASE stage # "emits" /\ UNCHANGED <<initialOffsets, xoredValidityOps, table>>
  <2>1. HasOffsetKey' = HasOffsetKey /\ Flags' = Flags
    BY <1>4 DEF HasOffsetKey, Flags
  <2>2. OpKeys("first")' = OpKeys("first") /\ OpKeys("second")' = OpKeys("second")
    BY <1>4 DEF OpKeys
  <2>3. \A off, P, flags : Hits(off, P, flags)' = Hits(off, P, flags)
    BY <1>4, <2>2 DEF Hits
  <2>4. PacketsHit
    BY DEF TableInv
  <2>5. PacketsHit'
    BY <1>4, <2>1, <2>2, <2>3, <2>4 DEF PacketsHit
  <2> QED BY <1>1, <2>5 DEF TableInv
<1>5. CASE EmitStatement
  BY <1>3, <1>5 DEF EmitStatement
<1>6. CASE \E i \in DOMAIN initialOffsets : \E parsed \in Accepts :
             \E flags \in Flags : Arrive(initialOffsets[i], parsed, flags)
  BY <1>4, <1>6 DEF Arrive, passVars
<1>7. CASE RunAction
  BY <1>4, <1>7 DEF RunAction, passVars
<1>8. CASE EndAction
  BY <1>4, <1>8 DEF EndAction, passVars
<1>9. CASE UNCHANGED vars
  BY <1>3, <1>4, <1>9 DEF vars, passVars
<1> QED BY <1>2, <1>5, <1>6, <1>7, <1>8, <1>9 DEF Next

\* The table has an entry for every packet: for each start offset, each set of headers the
\* parser may accept with and each record of operations the control may have performed.
THEOREM EveryPacketHits == Spec => []PacketsHit
<1>1. TableInv => PacketsHit
  BY DEF TableInv
<1> QED BY <1>1, InitTableInv, NextTableInv, PTL DEF Spec

----------------------------------------------------------------------------
(* The offset. *)

\* Without operations the actions reset curr_offset, and every packet runs one.
ResetsInv ==
  /\ stage \in {"emits", "table", "run", "done"}
  /\ xoredValidityOps = <<>> /\ HasOffsetKey =>
       /\ stage # "emits" => DOMAIN table \subseteq Nat /\ \A q \in DOMAIN table : table[q].resets
       /\ stage \in {"run", "done"} => pkt.resets
       /\ stage = "done" => currOffset = pkt.off

OffsetInv == TableInv /\ ResetsInv

LEMMA NextResetsInv ==
  ASSUME OffsetInv, [Next]_vars
  PROVE  ResetsInv'
<1>1. CASE EmitStatement
  BY <1>1 DEF EmitStatement, OffsetInv, ResetsInv
<1>2. CASE FinishTable
  <2> SUFFICES ASSUME xoredValidityOps = <<>>, HasOffsetKey
               PROVE  DOMAIN table' \subseteq Nat /\ \A q \in DOMAIN table' : table'[q].resets
    BY <1>2 DEF FinishTable, ResetsInv, HasOffsetKey
  <2>1. DOMAIN xoredValidityOps = {}
    OBVIOUS
  <2>2. table' = EmitTable
    BY <1>2, <2>1 DEF FinishTable, OpKeys
  <2>3. MadeEntries \in Seq(Entry)
    BY MadeElements DEF OffsetInv, TableInv, VectorsInv, PassInv
  <2>4. DOMAIN MadeEntries \subseteq Nat
    BY <2>3
  <2>5. DOMAIN EmitTable = DOMAIN MadeEntries /\ \A q \in DOMAIN EmitTable : EmitTable[q].resets
    BY DEF EmitTable
  <2> QED BY <2>2, <2>4, <2>5
<1>3. CASE \E i \in DOMAIN initialOffsets : \E parsed \in Accepts :
             \E flags \in Flags : Arrive(initialOffsets[i], parsed, flags)
  <2>1. PICK i \in DOMAIN initialOffsets, P \in Accepts, flags \in Flags :
          Arrive(initialOffsets[i], P, flags)
    BY <1>3
  <2>2. /\ stage = "table" /\ stage' = "run" /\ table' = table
        /\ initialOffsets' = initialOffsets /\ xoredValidityOps' = xoredValidityOps
    BY <2>1 DEF Arrive, passVars
  <2> SUFFICES ASSUME xoredValidityOps = <<>>, HasOffsetKey PROVE pkt'.resets
    BY <2>2 DEF ResetsInv, OffsetInv, HasOffsetKey
  <2> DEFINE hit == Hits(initialOffsets[i], P, flags)
  <2>3. hit # {}
    BY <2>2 DEF OffsetInv, TableInv, PacketsHit
  <2>4. hit \subseteq DOMAIN table /\ DOMAIN table \subseteq Nat
    BY <2>2 DEF OffsetInv, ResetsInv, Hits
  <2>5. pkt' = [off |-> initialOffsets[i], parsed |-> P, ops |-> flags,
                resets |-> hit # {} /\ table[Min(hit)].resets]
    BY <2>1 DEF Arrive
  <2> HIDE DEF hit
  <2>6. Min(hit) \in DOMAIN table
    BY <2>3, <2>4, MinNat
  <2>7. table[Min(hit)].resets
    BY <2>2, <2>6 DEF OffsetInv, ResetsInv
  <2> QED BY <2>3, <2>5, <2>7
<1>4. CASE RunAction
  BY <1>4 DEF RunAction, passVars, OffsetInv, ResetsInv, HasOffsetKey
<1>5. CASE EndAction
  BY <1>5 DEF EndAction, passVars, OffsetInv, ResetsInv, HasOffsetKey
<1>6. CASE UNCHANGED vars
  BY <1>6 DEF vars, passVars, runVars, OffsetInv, ResetsInv, HasOffsetKey
<1> QED BY <1>1, <1>2, <1>3, <1>4, <1>5, <1>6 DEF Next

\* A package whose control changes no header's validity leaves curr_offset where it found
\* it, whichever of its offsets it started at and whatever it parsed.
THEOREM OffsetIsRestored == Spec => []OffsetRestoredWithoutOps
<1>1. Init => OffsetInv
  <2>1. Init => ResetsInv
    BY DEF Init, ResetsInv
  <2> QED BY <2>1, InitTableInv DEF OffsetInv
<1>2. OffsetInv /\ [Next]_vars => OffsetInv'
  BY NextTableInv, NextResetsInv DEF OffsetInv
<1>3. OffsetInv => OffsetRestoredWithoutOps
  BY DEF OffsetInv, ResetsInv, OffsetRestoredWithoutOps, OffsetRestored
<1> QED BY <1>1, <1>2, <1>3, PTL DEF Spec

----------------------------------------------------------------------------
(* What a straight-line action does to the stack. *)

Op == [dst : Int, hdr : Headers \cup {"stack"}, src : Int]

\* One assignment.
Assign(s, a) ==
  [s EXCEPT ![a.dst] = IF a.hdr = "stack" THEN s[a.src] ELSE HdrByte(a.hdr, a.src)]

\* The first n assignments of c turn the stack s into t.
Ran(c, n, s, t) ==
  \E r : /\ r[0] = s /\ r[n] = t
         /\ \A i \in 1 .. n : r[i] = Assign(r[i - 1], c[i])

OnStack(s) == DOMAIN s = 0 .. StackSize - 1

LEMMA AssignByte ==
  ASSUME NEW s, OnStack(s), NEW a
  PROVE  /\ OnStack(Assign(s, a))
         /\ \A j \in 0 .. StackSize - 1 :
              Assign(s, a)[j] = IF j = a.dst
                                THEN IF a.hdr = "stack" THEN s[a.src] ELSE HdrByte(a.hdr, a.src)
                                ELSE s[j]
  BY DEF OnStack, Assign

\* One more assignment.
LEMMA RanOneMore ==
  ASSUME NEW c, NEW n \in Nat, NEW s, NEW t, Ran(c, n, s, t)
  PROVE  Ran(c, n + 1, s, Assign(t, c[n + 1]))
<1>1. PICK r : /\ r[0] = s /\ r[n] = t
               /\ \A i \in 1 .. n : r[i] = Assign(r[i - 1], c[i])
  BY DEF Ran
<1> DEFINE last == Assign(t, c[n + 1])
           q == [i \in 0 .. n + 1 |-> IF i = n + 1 THEN last ELSE r[i]]
<1>2. q[0] = s /\ q[n] = t /\ q[n + 1] = last
  BY <1>1
<1>3. ASSUME NEW i \in 1 .. n + 1 PROVE q[i] = Assign(q[i - 1], c[i])
  <2>1. CASE i = n + 1
    <3>1. i - 1 = n
      BY <2>1
    <3> HIDE DEF q
    <3> QED BY <1>2, <2>1, <3>1
  <2>2. CASE i # n + 1
    <3>1. i \in 1 .. n /\ i \in 0 .. n + 1 /\ i - 1 \in 0 .. n + 1 /\ i - 1 # n + 1
      BY <2>2
    <3>2. q[i] = r[i] /\ q[i - 1] = r[i - 1]
      BY <2>2, <3>1
    <3> HIDE DEF q
    <3> QED BY <1>1, <3>1, <3>2
  <2> QED BY <2>1, <2>2
<1> HIDE DEF q, last
<1>4. Ran(c, n + 1, s, last)
  BY <1>2, <1>3 DEF Ran
<1> QED BY <1>4 DEF last

\* An action in two parts.
LEMMA RanConcat ==
  ASSUME NEW c \in Seq(Op), NEW d \in Seq(Op), NEW s, NEW t, Ran(c \o d, Len(c \o d), s, t)
  PROVE  \E u : Ran(c, Len(c), s, u) /\ Ran(d, Len(d), u, t)
<1> DEFINE e == c \o d
           m == Len(c)
           n == Len(d)
<1>1. /\ m \in Nat /\ n \in Nat /\ Len(e) = m + n
      /\ \A i \in 1 .. m : e[i] = c[i]
      /\ \A i \in 1 .. n : e[m + i] = d[i]
  BY ConcatElements
<1> HIDE DEF e, m, n
<1>2. PICK r : /\ r[0] = s /\ r[m + n] = t
               /\ \A i \in 1 .. m + n : r[i] = Assign(r[i - 1], e[i])
  BY <1>1 DEF Ran, e
<1> DEFINE q == [i \in 0 .. n |-> r[m + i]]
<1>3. \A i \in 1 .. m : r[i] = Assign(r[i - 1], c[i])
  BY <1>1, <1>2
<1>4. Ran(c, m, s, r[m])
  BY <1>2, <1>3 DEF Ran
<1>5. q[0] = r[m] /\ q[n] = t
  BY <1>1, <1>2
<1>6. ASSUME NEW i \in 1 .. n PROVE q[i] = Assign(q[i - 1], d[i])
  <2>1. i \in 0 .. n /\ i - 1 \in 0 .. n /\ m + i \in 1 .. m + n /\ m + (i - 1) = (m + i) - 1
    BY <1>1
  <2>2. q[i] = r[m + i] /\ q[i - 1] = r[(m + i) - 1]
    BY <2>1
  <2> HIDE DEF q
  <2> QED BY <1>1, <1>2, <2>1, <2>2
<1> HIDE DEF q
<1>7. Ran(d, n, r[m], t)
  BY <1>5, <1>6 DEF Ran
<1> QED BY <1>4, <1>7 DEF m, n

LEMMA RanNothing ==
  ASSUME NEW s, NEW t, Ran(<<>>, Len(<<>>), s, t)
  PROVE  t = s
<1>1. Len(<<>>) = 0
  OBVIOUS
<1> QED BY <1>1 DEF Ran

\* An action that assigns to bytes of a block only.
Confined(c, lo, n) == \A i \in 1 .. Len(c) : lo <= c[i].dst /\ c[i].dst < lo + n

LEMMA ConfinedRun ==
  ASSUME NEW c \in Seq(Op), NEW lo \in Int, NEW n \in Int, Confined(c, lo, n),
         NEW s, OnStack(s), NEW t, Ran(c, Len(c), s, t)
  PROVE  /\ OnStack(t)
         /\ \A j \in 0 .. StackSize - 1 : ~(lo <= j /\ j < lo + n) => t[j] = s[j]
<1>1. Len(c) \in Nat
  OBVIOUS
<1>2. PICK r : /\ r[0] = s /\ r[Len(c)] = t
               /\ \A i \in 1 .. Len(c) : r[i] = Assign(r[i - 1], c[i])
  BY DEF Ran
<1> DEFINE Good(i) == /\ OnStack(r[i])
                      /\ \A j \in 0 .. StackSize - 1 : ~(lo <= j /\ j < lo + n) => r[i][j] = s[j]
           T == {i \in Nat : i <= Len(c) => Good(i)}
<1>3. 0 \in T
  BY <1>2
<1>4. ASSUME NEW i \in Nat, i \in T PROVE i + 1 \in T
  <2> SUFFICES ASSUME i + 1 <= Len(c) PROVE Good(i + 1)
    OBVIOUS
  <2>1. Good(i) /\ i + 1 \in 1 .. Len(c) /\ (i + 1) - 1 = i
    BY <1>1, <1>4
  <2>2. r[i + 1] = Assign(r[i], c[i + 1])
    BY <1>2, <2>1
  <2>3. lo <= c[i + 1].dst /\ c[i + 1].dst < lo + n
    BY <2>1 DEF Confined
  <2>4. /\ OnStack(r[i + 1])
        /\ \A j \in 0 .. StackSize - 1 : j # c[i + 1].dst => r[i + 1][j] = r[i][j]
    <3> DEFINE u == r[i]
               a == c[i + 1]
    <3>1. OnStack(u) /\ r[i + 1] = Assign(u, a)
      BY <2>1, <2>2
    <3> HIDE DEF u, a
    <3>2. /\ OnStack(Assign(u, a))
          /\ \A j \in 0 .. StackSize - 1 : j # a.dst => Assign(u, a)[j] = u[j]
      BY <3>1, AssignByte, ZenonT(30)
    <3> QED BY <3>1, <3>2 DEF u, a
  <2>5. ASSUME NEW j \in 0 .. StackSize - 1, ~(lo <= j /\ j < lo + n)
        PROVE  r[i + 1][j] = s[j]
    <3>1. j # c[i + 1].dst
      BY <2>3, <2>5
    <3> QED BY <2>1, <2>4, <2>5, <3>1
  <2> QED BY <2>4, <2>5
<1> HIDE DEF T
<1>5. Len(c) \in T
  BY <1>1, <1>3, <1>4, NatSetInduction
<1> QED BY <1>1, <1>2, <1>5 DEF T

\* t is s with the header h written at `to'.
Put(s, t, to, h) ==
  /\ OnStack(t)
  /\ \A j \in 0 .. StackSize - 1 :
       t[j] = IF to <= j /\ j < to + Width[h] THEN HdrByte(h, j - to) ELSE s[j]

LEMMA WriteHeaderBytes ==
  ASSUME NEW h \in Headers, NEW to \in Nat
  PROVE  /\ WriteHeader(h, to) \in Seq(Op) /\ Len(WriteHeader(h, to)) = Width[h]
         /\ \A i \in 1 .. Width[h] : WriteHeader(h, to)[i] = WriteByte(to + i - 1, h, i - 1)
<1> DEFINE w == Width[h]
           c == WriteHeader(h, to)
<1>1. w \in Nat \ {0}
  BY DeparserAssumption
<1>2. c = [i \in 1 .. w |-> WriteByte(to + i - 1, h, i - 1)]
  BY DEF WriteHeader
<1> HIDE DEF w, c
<1>3. ASSUME NEW i \in 1 .. w PROVE WriteByte(to + i - 1, h, i - 1) \in Op
  <2>1. to + i - 1 \in Int /\ i - 1 \in Int
    BY <1>1
  <2> QED BY <2>1 DEF WriteByte, Op
<1>4. c \in [1 .. w -> Op]
  BY <1>2, <1>3
<1>5. c \in Seq(Op) /\ Len(c) = w
  BY <1>1, <1>4
<1> QED BY <1>2, <1>5 DEF c, w

LEMMA WriteHeaderRun ==
  ASSUME NEW h \in Headers, NEW to \in Nat, NEW s, OnStack(s), NEW t,
         Ran(WriteHeader(h, to), Len(WriteHeader(h, to)), s, t)
  PROVE  Put(s, t, to, h)
<1> DEFINE w == Width[h]
           c == WriteHeader(h, to)
<1>1. w \in Nat \ {0} /\ StackSize \in Nat /\ h # "stack"
  BY DeparserAssumption, StackAssumption
<1>2. c \in Seq(Op) /\ Len(c) = w /\ \A i \in 1 .. w : c[i] = WriteByte(to + i - 1, h, i - 1)
  BY WriteHeaderBytes
<1>3. PICK r : /\ r[0] = s /\ r[w] = t
               /\ \A i \in 1 .. w : r[i] = Assign(r[i - 1], c[i])
  BY <1>2 DEF Ran
<1> HIDE DEF w, c
<1> DEFINE Good(i) == /\ OnStack(r[i])
                      /\ \A j \in 0 .. StackSize - 1 :
                           r[i][j] = IF to <= j /\ j < to + i THEN HdrByte(h, j - to) ELSE s[j]
           T == {i \in Nat : i <= w => Good(i)}
<1>4. 0 \in T
  BY <1>1, <1>3
<1>5. ASSUME NEW i \in Nat, i \in T PROVE i + 1 \in T
  <2> SUFFICES ASSUME i + 1 <= w PROVE Good(i + 1)
    OBVIOUS
  <2> DEFINE u == r[i]
             a == c[i + 1]
  <2>1. Good(i) /\ i + 1 \in 1 .. w /\ (i + 1) - 1 = i
    BY <1>1, <1>5
  <2>2. OnStack(u) /\ r[i + 1] = Assign(u, a)
    BY <1>3, <2>1
  <2>3. a.dst = to + i /\ a.hdr = h /\ a.src = i
    <3>1. a = WriteByte(to + (i + 1) - 1, h, (i + 1) - 1)
      BY <1>2, <2>1
    <3> HIDE DEF a
    <3>2. to + (i + 1) - 1 = to + i /\ (i + 1) - 1 = i
      OBVIOUS
    <3> QED BY <3>1, <3>2 DEF WriteByte
  <2> HIDE DEF a
  <2>4. ASSUME NEW j \in 0 .. StackSize - 1
        PROVE  u[j] = IF to <= j /\ j < to + i THEN HdrByte(h, j - to) ELSE s[j]
    BY <2>1
  <2> HIDE DEF u
  <2>5. /\ OnStack(Assign(u, a))
        /\ \A j \in 0 .. StackSize - 1 :
             Assign(u, a)[j] = IF j = to + i THEN HdrByte(h, i) ELSE u[j]
    <3>1. /\ OnStack(Assign(u, a))
          /\ \A j \in 0 .. StackSize - 1 :
               Assign(u, a)[j] = IF j = a.dst
                                 THEN IF a.hdr = "stack" THEN u[a.src] ELSE HdrByte(a.hdr, a.src)
                                 ELSE u[j]
      BY <2>2, AssignByte
    <3> QED BY <1>1, <2>3, <3>1
  <2>6. ASSUME NEW j \in 0 .. StackSize - 1
        PROVE  r[i + 1][j] = IF to <= j /\ j < to + (i + 1) THEN HdrByte(h, j - to) ELSE s[j]
    <3>1. CASE j = to + i
      <4>1. to <= j /\ j < to + (i + 1) /\ j - to = i
        BY <3>1
      <4> QED BY <2>2, <2>5, <3>1, <4>1
    <3>2. CASE j # to + i
      <4>1. (to <= j /\ j < to + (i + 1)) <=> (to <= j /\ j < to + i)
        BY <3>2
      <4> QED BY <2>2, <2>4, <2>5, <3>2, <4>1
    <3> QED BY <3>1, <3>2
  <2> QED BY <2>2, <2>5, <2>6
<1> HIDE DEF T
<1>6. w \in T
  BY <1>1, <1>4, <1>5, NatSetInduction
<1> QED BY <1>1, <1>3, <1>6 DEF T, Put, w

\* The assignments of a move.
MoveCode(c, lo, by, n) ==
  /\ c \in Seq(Op) /\ Len(c) = n
  /\ \A k \in 1 .. n :
       LET i == IF by > 0 THEN n - k ELSE k - 1
       IN c[k].dst = lo + by + i /\ c[k].hdr = "stack" /\ c[k].src = lo + i

LEMMA MoveBytes ==
  ASSUME NEW lo \in Int, NEW by \in Int, NEW n \in Nat
  PROVE  MoveCode(CreateByteMove(lo, by, n), lo, by, n)
<1> DEFINE c == CreateByteMove(lo, by, n)
           at(k) == IF by > 0 THEN n - k ELSE k - 1
<1>1. c = [k \in 1 .. n |-> CopyByte(lo + by + at(k), lo + at(k))]
  BY DEF CreateByteMove
<1> HIDE DEF c
<1>2. ASSUME NEW k \in 1 .. n PROVE at(k) \in Int
  OBVIOUS
<1> HIDE DEF at
<1>3. ASSUME NEW k \in 1 .. n PROVE CopyByte(lo + by + at(k), lo + at(k)) \in Op
  <2>1. lo + by + at(k) \in Int /\ lo + at(k) \in Int
    BY <1>2
  <2> QED BY <2>1 DEF CopyByte, Op
<1>4. c \in [1 .. n -> Op]
  BY <1>1, <1>3
<1>5. c \in Seq(Op) /\ Len(c) = n
  BY <1>4
<1>6. ASSUME NEW k \in 1 .. n
      PROVE  c[k].dst = lo + by + at(k) /\ c[k].hdr = "stack" /\ c[k].src = lo + at(k)
  BY <1>1 DEF CopyByte
<1> QED BY <1>5, <1>6 DEF c, at, MoveCode

\* The n bytes from lo on are now at lo + by, and nothing else changed.
Shifted(s, t, lo, by, n) ==
  \A j \in 0 .. StackSize - 1 :
    t[j] = IF lo + by <= j /\ j < lo + by + n THEN s[j - by] ELSE s[j]

\* A move is a copy, overlap or not (ByteMove), also within a longer action.
LEMMA MoveRun ==
  ASSUME NEW lo \in Nat, NEW by \in Int, by # 0, NEW n \in Nat,
         lo + n <= StackSize, lo + by >= 0, lo + by + n <= StackSize,
         NEW s, OnStack(s), NEW t,
         Ran(CreateByteMove(lo, by, n), Len(CreateByteMove(lo, by, n)), s, t)
  PROVE  OnStack(t) /\ Shifted(s, t, lo, by, n)
<1> DEFINE c == CreateByteMove(lo, by, n)
<1>1. StackSize \in Nat
  BY StackAssumption
<1>2. /\ c \in Seq(Op) /\ Len(c) = n
      /\ \A k \in 1 .. n :
           LET i == IF by > 0 THEN n - k ELSE k - 1
           IN c[k].dst = lo + by + i /\ c[k].hdr = "stack" /\ c[k].src = lo + i
  <2>1. MoveCode(c, lo, by, n)
    BY MoveBytes
  <2> HIDE DEF c
  <2> QED BY <2>1 DEF MoveCode
<1>3. PICK r : /\ r[0] = s /\ r[n] = t
               /\ \A i \in 1 .. n : r[i] = Assign(r[i - 1], c[i])
  BY <1>2 DEF Ran
<1> HIDE DEF c
<1> DEFINE Moved(i, j) == IF by > 0 THEN lo + by + n - i <= j /\ j < lo + by + n
                          ELSE lo + by <= j /\ j < lo + by + i
           Good(i) == /\ OnStack(r[i])
                      /\ \A j \in 0 .. StackSize - 1 :
                           r[i][j] = IF Moved(i, j) THEN s[j - by] ELSE s[j]
           T == {i \in Nat : i <= n => Good(i)}
<1>4. 0 \in T
  <2>1. \A j \in 0 .. StackSize - 1 : ~Moved(0, j)
    BY <1>1
  <2> HIDE DEF Moved
  <2> QED BY <1>3, <2>1
<1>5. ASSUME NEW i \in Nat, i \in T PROVE i + 1 \in T
  <2> SUFFICES ASSUME i + 1 <= n PROVE Good(i + 1)
    OBVIOUS
  <2> DEFINE u == r[i]
             a == c[i + 1]
  <2>1. Good(i) /\ i + 1 \in 1 .. n /\ (i + 1) - 1 = i
    BY <1>5
  <2>2. OnStack(u) /\ r[i + 1] = Assign(u, a)
    BY <1>3, <2>1
  <2>3. PICK src \in Int, dst \in Int :
          /\ a.src = src /\ a.dst = dst /\ a.hdr = "stack"
          /\ src = IF by > 0 THEN lo + n - (i + 1) ELSE lo + i
          /\ dst = src + by
    <3> DEFINE m == IF by > 0 THEN n - (i + 1) ELSE (i + 1) - 1
    <3>1. a.dst = lo + by + m /\ a.hdr = "stack" /\ a.src = lo + m
      BY <1>2, <2>1
    <3> HIDE DEF a
    <3>2. lo + m \in Int /\ lo + by + m \in Int /\ lo + by + m = (lo + m) + by
          /\ lo + m = IF by > 0 THEN lo + n - (i + 1) ELSE lo + i
      OBVIOUS
    <3> QED BY <3>1, <3>2
  <2> HIDE DEF a
  <2>4. \A j \in 0 .. StackSize - 1 : u[j] = IF Moved(i, j) THEN s[j - by] ELSE s[j]
    BY <2>1
  <2> HIDE DEF u
  <2>5. /\ OnStack(Assign(u, a))
        /\ \A j \in 0 .. StackSize - 1 : Assign(u, a)[j] = IF j = dst THEN u[src] ELSE u[j]
    <3>1. /\ OnStack(Assign(u, a))
          /\ \A j \in 0 .. StackSize - 1 :
               Assign(u, a)[j] = IF j = a.dst
                                 THEN IF a.hdr = "stack" THEN u[a.src] ELSE HdrByte(a.hdr, a.src)
                                 ELSE u[j]
      BY <2>2, AssignByte
    <3> QED BY <2>3, <3>1
  <2>6. /\ src \in 0 .. StackSize - 1 /\ dst \in 0 .. StackSize - 1 /\ ~Moved(i, src)
        /\ src = dst - by
    BY <1>1, <2>1, <2>3
  <2>7. ASSUME NEW j \in 0 .. StackSize - 1
        PROVE  Moved(i + 1, j) <=> Moved(i, j) \/ j = dst
    BY <1>1, <2>1, <2>3
  <2> HIDE DEF Moved
  <2>8. u[src] = s[dst - by]
    BY <2>4, <2>6
  <2>9. \A j \in 0 .. StackSize - 1 :
          Assign(u, a)[j] = IF Moved(i + 1, j) THEN s[j - by] ELSE s[j]
    BY <2>4, <2>5, <2>7, <2>8
  <2> QED BY <2>2, <2>5, <2>9
<1> HIDE DEF T
<1>6. n \in T
  BY <1>4, <1>5, NatSetInduction
<1>7. Good(n)
  BY <1>6 DEF T
<1>8. ASSUME NEW j \in 0 .. StackSize - 1
      PROVE  Moved(n, j) <=> lo + by <= j /\ j < lo + by + n
  BY <1>1
<1> HIDE DEF Moved
<1> QED BY <1>3, <1>7, <1>8 DEF Shifted

----------------------------------------------------------------------------
(* Widths. *)

IsWidths(S, v) ==
  v = [n \in 0 .. Len(Emits) |->
         IF n = 0 THEN 0 ELSE v[n - 1] + (IF Emits[n] \in S THEN Width[Emits[n]] ELSE 0)]

LEMMA EmitsType ==
  /\ Emits \in Seq(Headers) /\ Len(Emits) \in Nat \ {0} /\ DOMAIN Emits = 1 .. Len(Emits)
  /\ \A n \in 1 .. Len(Emits) : Emits[n] \in Headers /\ Width[Emits[n]] \in Nat \ {0}
<1>1. Emits \in Seq(Headers) /\ Emits # <<>> /\ Width \in [Headers -> Nat \ {0}]
  BY DeparserAssumption
<1>2. Len(Emits) \in Nat \ {0} /\ DOMAIN Emits = 1 .. Len(Emits)
  BY <1>1
<1>3. \A n \in 1 .. Len(Emits) : Emits[n] \in Headers
  BY <1>1
<1> QED BY <1>1, <1>2, <1>3

LEMMA WidthDef ==
  ASSUME NEW S
  PROVE  /\ WidthUpTo(S) \in [0 .. Len(Emits) -> Nat]
         /\ WidthUpTo(S)[0] = 0
         /\ \A n \in 1 .. Len(Emits) :
              WidthUpTo(S)[n] = WidthUpTo(S)[n - 1]
                                  + (IF Emits[n] \in S THEN Width[Emits[n]] ELSE 0)
<1> DEFINE N == Len(Emits)
           inc(n) == IF Emits[n] \in S THEN Width[Emits[n]] ELSE 0
           F == [n \in Nat |-> [x \in Nat |-> IF n \in 1 .. N THEN x + inc(n) ELSE x]]
<1>1. N \in Nat /\ \A n \in 1 .. N : inc(n) \in Nat
  BY EmitsType
<1> HIDE DEF N, inc
<1>2. F \in [Nat -> [Nat -> Nat]] /\ 0 \in Nat
  BY <1>1
<1>3. \A n \in 1 .. N, x \in Nat : F[n][x] = x + inc(n)
  BY <1>1
<1> HIDE DEF F
<1>4. \E v \in [0 .. N -> Nat] : v[0] = 0 /\ \A n \in 1 .. N : v[n] = F[n][v[n - 1]]
  <2> DEFINE V == Nat
             b == 0
  <2>1. F \in [Nat -> [V -> V]] /\ b \in V /\ N \in Nat
    BY <1>1, <1>2
  <2> HIDE DEF V, b
  <2>2. Recurses(V, b, F, N)
    BY ONLY <2>1, NatRecursion
  <2> QED BY <2>2 DEF Recurses, V, b
<1>5. PICK v \in [0 .. N -> Nat] : v[0] = 0 /\ \A n \in 1 .. N : v[n] = F[n][v[n - 1]]
  BY <1>4
<1>6. v = [n \in 0 .. N |-> IF n = 0 THEN 0 ELSE v[n - 1] + inc(n)]
  <2>1. ASSUME NEW n \in 0 .. N PROVE v[n] = IF n = 0 THEN 0 ELSE v[n - 1] + inc(n)
    <3>1. CASE n # 0
      <4>1. n \in 1 .. N /\ n - 1 \in 0 .. N
        BY <1>1, <3>1
      <4> QED BY <1>3, <1>5, <3>1, <4>1
    <3> QED BY <1>5, <3>1
  <2>2. v = [n \in 0 .. N |-> v[n]]
    BY <1>5
  <2> QED BY <2>1, <2>2
<1>7. \E g : IsWidths(S, g)
  BY <1>6 DEF IsWidths, N, inc
<1> DEFINE w == WidthUpTo(S)
<1>8. IsWidths(S, w)
  BY <1>7 DEF IsWidths, WidthUpTo
<1> HIDE DEF w
<1>9. w = [n \in 0 .. N |-> IF n = 0 THEN 0 ELSE w[n - 1] + inc(n)]
  BY <1>8 DEF IsWidths, N, inc
<1>10. w[0] = 0
  BY <1>1, <1>9
<1>11. ASSUME NEW n \in 1 .. N PROVE w[n] = w[n - 1] + inc(n)
  <2>1. n \in 0 .. N /\ n # 0
    BY <1>1
  <2> QED BY <1>9, <2>1
<1>12. DOMAIN w = 0 .. N /\ w = [n \in 0 .. N |-> w[n]]
  BY <1>9
<1> DEFINE T == {n \in Nat : n <= N => w[n] \in Nat}
<1>13. 0 \in T
  BY <1>10
<1>14. ASSUME NEW n \in Nat, n \in T PROVE n + 1 \in T
  <2> SUFFICES ASSUME n + 1 <= N PROVE w[n + 1] \in Nat
    OBVIOUS
  <2>1. n + 1 \in 1 .. N /\ (n + 1) - 1 = n /\ w[n] \in Nat
    BY <1>1, <1>14
  <2> QED BY <1>1, <1>11, <2>1
<1> HIDE DEF T
<1>15. \A n \in Nat : n \in T
  BY <1>13, <1>14, NatSetInduction
<1>16. \A n \in 0 .. N : w[n] \in Nat
  BY <1>1, <1>15 DEF T
<1> QED BY <1>10, <1>11, <1>12, <1>16 DEF w, N, inc

LEMMA WidthMonotone ==
  ASSUME NEW S, NEW m \in 0 .. Len(Emits), NEW n \in 0 .. Len(Emits), m <= n
  PROVE  WidthUpTo(S)[m] <= WidthUpTo(S)[n]
<1> DEFINE N == Len(Emits)
           w == WidthUpTo(S)
           T == {k \in Nat : m <= k /\ k <= N => w[m] <= w[k]}
<1>1. N \in Nat /\ m \in Nat /\ n \in Nat
  BY EmitsType
<1>2. /\ \A k \in 0 .. N : w[k] \in Nat
      /\ \A k \in 1 .. N : w[k - 1] <= w[k]
  <2>1. w \in [0 .. N -> Nat]
    BY WidthDef
  <2>2. \A k \in 1 .. N : w[k] = w[k - 1] + (IF Emits[k] \in S THEN Width[Emits[k]] ELSE 0)
    BY WidthDef
  <2> HIDE DEF w
  <2>3. ASSUME NEW k \in 1 .. N PROVE w[k - 1] <= w[k]
    <3>1. w[k - 1] \in Nat /\ w[k] \in Nat /\ Width[Emits[k]] \in Nat
      BY <1>1, <2>1, EmitsType, SMTT(30)
    <3> QED BY <2>2, <3>1
  <2> QED BY <2>1, <2>3
<1> HIDE DEF w, N
<1>3. 0 \in T
  BY <1>1, <1>2
<1>4. ASSUME NEW k \in Nat, k \in T PROVE k + 1 \in T
  <2> SUFFICES ASSUME m <= k + 1, k + 1 <= N PROVE w[m] <= w[k + 1]
    OBVIOUS
  <2>1. CASE m = k + 1
    BY <1>1, <1>2, <2>1
  <2>2. CASE m # k + 1
    <3>1. w[m] <= w[k]
      BY <1>1, <1>4, <2>2
    <3>2. k + 1 \in 1 .. N /\ (k + 1) - 1 = k /\ k \in 0 .. N /\ k + 1 \in 0 .. N /\ m \in 0 .. N
      BY <1>1, <2>2
    <3>3. w[k] <= w[k + 1]
      BY <1>2, <3>2
    <3>4. w[m] \in Nat /\ w[k] \in Nat /\ w[k + 1] \in Nat
      BY <1>2, <3>2
    <3> QED BY <3>1, <3>3, <3>4
  <2> QED BY <2>1, <2>2
<1> HIDE DEF T
<1>5. n \in T
  BY <1>1, <1>3, <1>4, NatSetInduction
<1> QED BY <1>1, <1>5 DEF T, w, N

\* Only the emitted headers count.
LEMMA WidthSame ==
  ASSUME NEW S, NEW R, NEW n \in 0 .. Len(Emits),
         \A m \in 1 .. n : Emits[m] \in S <=> Emits[m] \in R
  PROVE  \A m \in 0 .. n : WidthUpTo(S)[m] = WidthUpTo(R)[m]
<1> DEFINE N == Len(Emits)
           v == WidthUpTo(S)
           w == WidthUpTo(R)
           T == {k \in Nat : k <= n => v[k] = w[k]}
<1>1. N \in Nat /\ n \in Nat /\ n <= N
  BY EmitsType
<1>2. v[0] = w[0]
  BY WidthDef
<1>3. \A k \in 1 .. N : v[k] = v[k - 1] + (IF Emits[k] \in S THEN Width[Emits[k]] ELSE 0)
  BY WidthDef
<1>4. \A k \in 1 .. N : w[k] = w[k - 1] + (IF Emits[k] \in R THEN Width[Emits[k]] ELSE 0)
  BY WidthDef
<1> HIDE DEF v, w, N
<1>5. 0 \in T
  BY <1>2
<1>6. ASSUME NEW k \in Nat, k \in T PROVE k + 1 \in T
  <2> SUFFICES ASSUME k + 1 <= n PROVE v[k + 1] = w[k + 1]
    OBVIOUS
  <2>1. k + 1 \in 1 .. n /\ k + 1 \in 1 .. N /\ (k + 1) - 1 = k /\ v[k] = w[k]
    BY <1>1, <1>6
  <2>2. Emits[k + 1] \in S <=> Emits[k + 1] \in R
    BY <2>1
  <2> QED BY <1>3, <1>4, <2>1, <2>2
<1> HIDE DEF T
<1>7. \A k \in Nat : k \in T
  BY <1>5, <1>6, NatSetInduction
<1> QED BY <1>1, <1>7 DEF T, v, w

----------------------------------------------------------------------------
(* What multiplyHdrValidityOpsTable computes for an entry and a record. *)

\* An element of emitData.
Element == [os : Int, mo : Int, h : Headers \cup {OffsetKey}]
EmitDataType == [data : Seq(Element), mo : Int, curr : Nat]

\* x writes the k-th emitted header, which is valid, behind the valid ones before it.
Placed(x, k, off, valid) ==
  /\ Emits[k] \in valid /\ x.h = Emits[k]
  /\ x.os + x.mo = off + WidthUpTo(valid)[k - 1]

\* The elements are those of the valid headers among the first n emitted ones.
Places(data, n, off, valid) ==
  /\ data \in Seq(Element)
  /\ \A m \in 1 .. Len(data) : \E k \in 1 .. n : Placed(data[m], k, off, valid)
  /\ \A k \in 1 .. n :
       Emits[k] \in valid => \E m \in 1 .. Len(data) : Placed(data[m], k, off, valid)

EmitDataInv(d, n, off, parsed, valid) ==
  /\ d \in EmitDataType
  /\ d.curr = off + WidthUpTo(parsed)[n]
  /\ d.mo = WidthUpTo(valid)[n] - WidthUpTo(parsed)[n]
  /\ Places(d.data, n, off, valid)

LEMMA PlacesMore ==
  ASSUME NEW data, NEW n \in Nat, NEW off, NEW valid, Places(data, n, off, valid),
         NEW x \in Element, Placed(x, n + 1, off, valid)
  PROVE  Places(Append(data, x), n + 1, off, valid)
<1> DEFINE r == Append(data, x)
<1>1. /\ data \in Seq(Element) /\ Len(data) \in Nat
      /\ r \in Seq(Element) /\ Len(r) = Len(data) + 1
      /\ \A i \in 1 .. Len(data) : r[i] = data[i]
      /\ r[Len(data) + 1] = x
  <2>1. data \in Seq(Element)
    BY DEF Places
  <2> QED BY <2>1, AppendElements
<1> HIDE DEF r
<1>2. ASSUME NEW m \in 1 .. Len(r) PROVE \E k \in 1 .. n + 1 : Placed(r[m], k, off, valid)
  <2>1. CASE m = Len(data) + 1
    BY <1>1, <2>1
  <2>2. CASE m # Len(data) + 1
    <3>1. m \in 1 .. Len(data)
      BY <1>1, <2>2
    <3>2. PICK k \in 1 .. n : Placed(data[m], k, off, valid)
      BY <3>1 DEF Places
    <3>3. k \in 1 .. n + 1 /\ r[m] = data[m]
      BY <1>1, <3>1
    <3> QED BY <3>2, <3>3
  <2> QED BY <2>1, <2>2
<1>3. ASSUME NEW k \in 1 .. n + 1, Emits[k] \in valid
      PROVE  \E m \in 1 .. Len(r) : Placed(r[m], k, off, valid)
  <2>1. CASE k = n + 1
    <3>1. Len(data) + 1 \in 1 .. Len(r) /\ r[Len(data) + 1] = x
      BY <1>1
    <3> QED BY <2>1, <3>1
  <2>2. CASE k # n + 1
    <3>1. k \in 1 .. n
      BY <2>2
    <3>2. PICK m \in 1 .. Len(data) : Placed(data[m], k, off, valid)
      BY <1>3, <3>1 DEF Places
    <3>3. m \in 1 .. Len(r) /\ r[m] = data[m]
      BY <1>1
    <3> QED BY <3>2, <3>3
  <2> QED BY <2>1, <2>2
<1> QED BY <1>1, <1>2, <1>3 DEF Places, r

LEMMA PlacesSame ==
  ASSUME NEW data, NEW n \in Nat, NEW off, NEW valid, Places(data, n, off, valid),
         Emits[n + 1] \notin valid
  PROVE  Places(data, n + 1, off, valid)
<1>1. data \in Seq(Element)
  BY DEF Places
<1>2. ASSUME NEW m \in 1 .. Len(data) PROVE \E k \in 1 .. n + 1 : Placed(data[m], k, off, valid)
  <2>1. PICK k \in 1 .. n : Placed(data[m], k, off, valid)
    BY DEF Places
  <2>2. k \in 1 .. n + 1
    OBVIOUS
  <2> QED BY <2>1, <2>2
<1>3. ASSUME NEW k \in 1 .. n + 1, Emits[k] \in valid
      PROVE  \E m \in 1 .. Len(data) : Placed(data[m], k, off, valid)
  <2>1. k \in 1 .. n
    BY <1>3
  <2> QED BY <1>3, <2>1 DEF Places
<1> QED BY <1>1, <1>2, <1>3 DEF Places

LEMMA VisitKeyInv ==
  ASSUME NEW d, NEW n \in 0 .. Len(Emits) - 1, NEW off \in Nat, NEW parsed,
         NEW ops \in [first : SUBSET Headers, second : SUBSET Headers],
         ops.first \cap ops.second = {}, NEW h, h = Emits[n + 1],
         NEW value, value = IF h \in parsed THEN "t" ELSE "f",
         NEW valid, valid = (parsed \cup ops.first) \ ops.second,
         EmitDataInv(d, n, off, parsed, valid)
  PROVE  EmitDataInv(VisitKey(d, h, value, ops), n + 1, off, parsed, valid)
<1> DEFINE p == WidthUpTo(parsed)
           v == WidthUpTo(valid)
           w == Width[h]
           e == VisitKey(d, h, value, ops)
<1>1. /\ n \in Nat /\ n + 1 \in 1 .. Len(Emits) /\ (n + 1) - 1 = n /\ h \in Headers
      /\ h # OffsetKey /\ w \in Nat /\ Len(Emits) \in Nat /\ n \in 0 .. Len(Emits)
      /\ n + 1 \in 0 .. Len(Emits)
  BY EmitsType, DeparserAssumption
<1>2. /\ p[n] \in Nat /\ v[n] \in Nat
      /\ p[n + 1] = p[n] + (IF h \in parsed THEN w ELSE 0)
      /\ v[n + 1] = v[n] + (IF h \in valid THEN w ELSE 0)
  <2>1. /\ p \in [0 .. Len(Emits) -> Nat]
        /\ \A k \in 1 .. Len(Emits) :
             p[k] = p[k - 1] + (IF Emits[k] \in parsed THEN Width[Emits[k]] ELSE 0)
    BY WidthDef
  <2>2. /\ v \in [0 .. Len(Emits) -> Nat]
        /\ \A k \in 1 .. Len(Emits) :
             v[k] = v[k - 1] + (IF Emits[k] \in valid THEN Width[Emits[k]] ELSE 0)
    BY WidthDef
  <2> HIDE DEF p, v
  <2> QED BY <1>1, <2>1, <2>2
<1> HIDE DEF e
<1>3. /\ d \in EmitDataType /\ d.curr = off + p[n] /\ d.mo = v[n] - p[n]
      /\ Places(d.data, n, off, valid)
  BY DEF EmitDataInv
<1>4. d.data \in Seq(Element) /\ d.mo \in Int /\ d.curr \in Nat
  BY <1>3 DEF EmitDataType
<1>5. WidthOf(h) = w
  BY <1>1 DEF WidthOf
<1> HIDE DEF p, v, w
<1>6. value = "t" <=> h \in parsed
  OBVIOUS
<1>7. ASSUME NEW x \in Element, x.h = h, x.os + x.mo = off + v[n], h \in valid
      PROVE  Places(Append(d.data, x), n + 1, off, valid)
  <2>1. Placed(x, n + 1, off, valid)
    BY <1>1, <1>7 DEF Placed, v
  <2> QED BY <1>1, <1>3, <2>1, PlacesMore
<1>8. h \notin valid => Places(d.data, n + 1, off, valid)
  BY <1>1, <1>3, PlacesSame
<1>9. ASSUME NEW a \in Seq(Element), NEW mo \in Int, NEW curr \in Nat,
             e = [data |-> a, mo |-> mo, curr |-> curr]
      PROVE  e \in EmitDataType /\ e.data = a /\ e.mo = mo /\ e.curr = curr
  BY <1>9 DEF EmitDataType
<1>10. d = [data |-> d.data, mo |-> d.mo, curr |-> d.curr]
  BY <1>3 DEF EmitDataType
<1> DEFINE dp == IF h \in parsed THEN w ELSE 0
           dv == IF h \in valid THEN w ELSE 0
           c == d.curr
           m == d.mo
           p1 == p[n + 1]
           v1 == v[n + 1]
<1>11. \A mo, curr \in Int : curr = c + dp /\ mo = m + dv - dp => curr = off + p1 /\ mo = v1 - p1
  <2> DEFINE p0 == p[n]
             v0 == v[n]
  <2>1. /\ p0 \in Nat /\ v0 \in Nat /\ p1 = p0 + dp /\ v1 = v0 + dv /\ c = off + p0
        /\ m = v0 - p0 /\ dp \in Nat /\ dv \in Nat
    BY <1>1, <1>2, <1>3
  <2> HIDE DEF p0, v0, p1, v1, c, m, dp, dv
  <2> QED BY <2>1
<1>12. c \in Nat /\ m \in Int
  BY <1>4
<1> HIDE DEF c, m, p1, v1
<1>13. CASE h \in ops.first /\ h \notin parsed
  <2> DEFINE x == [os |-> d.curr + d.mo, mo |-> 0, h |-> h]
             a == Append(d.data, x)
  <2>1. h \in valid /\ dp = 0 /\ dv = w
    BY <1>13
  <2>2. e = [data |-> a, mo |-> m + w, curr |-> c]
    BY <1>5, <1>6, <1>10, <1>13 DEF VisitKey, e, m, c
  <2>3. x \in Element /\ x.h = h /\ x.os + x.mo = off + v[n]
    BY <1>1, <1>2, <1>3, <1>4, SMTT(30) DEF Element
  <2> HIDE DEF x
  <2>4. Places(a, n + 1, off, valid)
    BY <1>7, <2>1, <2>3
  <2>5. a \in Seq(Element)
    BY <2>4 DEF Places
  <2> HIDE DEF a, dp, dv
  <2>6. c = c + dp /\ m + w = m + dv - dp /\ m + w \in Int
    BY <1>1, <1>12, <2>1
  <2>7. c = off + p1 /\ m + w = v1 - p1
    BY ONLY <1>11, <1>12, <2>6
  <2>8. e \in EmitDataType /\ e.data = a /\ e.mo = m + w /\ e.curr = c
    BY <1>9, <1>12, <2>2, <2>5, <2>6
  <2>9. Places(e.data, n + 1, off, valid)
    BY <2>4, <2>8
  <2> QED BY <2>7, <2>8, <2>9 DEF EmitDataInv, e, p, v, p1, v1
<1>14. CASE h \notin ops.first /\ h \notin parsed
  <2>1. h \notin valid /\ dp = 0 /\ dv = 0
    BY <1>14
  <2>2. e = [data |-> d.data, mo |-> m, curr |-> c]
    BY <1>6, <1>10, <1>14 DEF VisitKey, e, m, c
  <2> HIDE DEF dp, dv
  <2>3. c = c + dp /\ m = m + dv - dp
    BY <1>12, <2>1
  <2>4. c = off + p1 /\ m = v1 - p1
    BY ONLY <1>11, <1>12, <2>3
  <2>8. e \in EmitDataType /\ e.data = d.data /\ e.mo = m /\ e.curr = c
    BY <1>9, <1>4, <1>12, <2>2
  <2>9. Places(e.data, n + 1, off, valid)
    BY <1>8, <2>1, <2>8
  <2> QED BY <2>4, <2>8, <2>9 DEF EmitDataInv, e, p, v, p1, v1
<1>15. CASE h \in parsed /\ h \notin ops.second
  <2> DEFINE x == [os |-> d.curr, mo |-> d.mo, h |-> h]
             a == Append(d.data, x)
  <2>1. h \in valid /\ dp = w /\ dv = w
    BY <1>15
  <2>2. e = [data |-> a, mo |-> m, curr |-> c + w]
    BY <1>5, <1>6, <1>10, <1>15 DEF VisitKey, e, m, c
  <2>3. x \in Element /\ x.h = h /\ x.os + x.mo = off + v[n]
    <3>1. x.os = off + p[n] /\ x.mo = v[n] - p[n] /\ x.os \in Int /\ x.mo \in Int
      BY <1>3, <1>4
    <3>2. x \in Element /\ x.h = h
      BY <1>1, <1>4 DEF Element
    <3> HIDE DEF x
    <3> QED BY <1>2, <3>1, <3>2, SMTT(30)
  <2> HIDE DEF x
  <2>4. Places(a, n + 1, off, valid)
    BY <1>7, <2>1, <2>3
  <2>5. a \in Seq(Element)
    BY <2>4 DEF Places
  <2> HIDE DEF a, dp, dv
  <2>6. c + w = c + dp /\ m = m + dv - dp /\ c + w \in Nat
    BY <1>1, <1>12, <2>1
  <2>7. c + w = off + p1 /\ m = v1 - p1
    BY ONLY <1>11, <1>12, <2>6
  <2>8. e \in EmitDataType /\ e.data = a /\ e.mo = m /\ e.curr = c + w
    BY <1>9, <1>12, <2>2, <2>5, <2>6
  <2>9. Places(e.data, n + 1, off, valid)
    BY <2>4, <2>8
  <2> QED BY <2>7, <2>8, <2>9 DEF EmitDataInv, e, p, v, p1, v1
<1>16. CASE h \in parsed /\ h \in ops.second
  <2>1. h \notin valid /\ dp = w /\ dv = 0
    BY <1>16
  <2>2. e = [data |-> d.data, mo |-> m - w, curr |-> c + w]
    BY <1>5, <1>6, <1>10, <1>16 DEF VisitKey, e, m, c
  <2> HIDE DEF dp, dv
  <2>3. c + w = c + dp /\ m - w = m + dv - dp /\ c + w \in Nat /\ m - w \in Int
    BY <1>1, <1>12, <2>1
  <2>4. c + w = off + p1 /\ m - w = v1 - p1
    BY ONLY <1>11, <1>12, <2>3
  <2>8. e \in EmitDataType /\ e.data = d.data /\ e.mo = m - w /\ e.curr = c + w
    BY <1>9, <1>4, <2>2, <2>3
  <2>9. Places(e.data, n + 1, off, valid)
    BY <1>8, <2>1, <2>8
  <2> QED BY <2>4, <2>8, <2>9 DEF EmitDataInv, e, p, v, p1, v1
<1> QED BY <1>13, <1>14, <1>15, <1>16 DEF e

LEMMA VisitKeyType ==
  ASSUME NEW d \in EmitDataType, NEW h \in Headers \cup {OffsetKey}, NEW value, NEW ops
  PROVE  VisitKey(d, h, value, ops) \in EmitDataType
<1> DEFINE w == WidthOf(h)
           e == VisitKey(d, h, value, ops)
           x == [os |-> d.curr + d.mo, mo |-> 0, h |-> h]
           y == [os |-> d.curr, mo |-> d.mo, h |-> h]
<1>1. w \in Nat
  <2>1. Width \in [Headers -> Nat \ {0}]
    BY DeparserAssumption
  <2> QED BY <2>1 DEF WidthOf
<1>2. d.data \in Seq(Element) /\ d.mo \in Int /\ d.curr \in Nat
  BY DEF EmitDataType
<1>3. d = [data |-> d.data, mo |-> d.mo, curr |-> d.curr]
  BY DEF EmitDataType
<1>4. x \in Element /\ y \in Element
  BY <1>2 DEF Element
<1>5. Append(d.data, x) \in Seq(Element) /\ Append(d.data, y) \in Seq(Element)
  <2> HIDE DEF x, y
  <2> QED BY <1>2, <1>4
<1>6. \/ e = d
      \/ e = [data |-> Append(d.data, x), mo |-> d.mo + w, curr |-> d.curr]
      \/ e = [data |-> Append(d.data, y), mo |-> d.mo, curr |-> d.curr + w]
      \/ e = [data |-> d.data, mo |-> d.mo - w, curr |-> d.curr + w]
  BY <1>3 DEF VisitKey
<1>7. d.mo + w \in Int /\ d.mo - w \in Int /\ d.curr + w \in Nat
  BY <1>1, <1>2
<1>8. ASSUME NEW a \in Seq(Element), NEW m \in Int, NEW c \in Nat
      PROVE  [data |-> a, mo |-> m, curr |-> c] \in EmitDataType
  BY DEF EmitDataType
<1> HIDE DEF e, w, x, y
<1>9. e \in EmitDataType
  BY <1>2, <1>5, <1>6, <1>7, <1>8
<1> QED BY <1>9 DEF e

LEMMA KeyNamesType ==
  ASSUME HasOffsetKey
  PROVE  /\ KeyNames \in Seq(Headers \cup {OffsetKey}) /\ Len(KeyNames) = Len(Emits) + 1
         /\ KeyNames[1] = OffsetKey
         /\ \A k \in 1 .. Len(Emits) : KeyNames[k + 1] = Emits[k]
<1> DEFINE S == Headers \cup {OffsetKey}
           o == <<OffsetKey>>
<1>1. o \in Seq(S) /\ Emits \in Seq(S) /\ Len(o) = 1 /\ o[1] = OffsetKey
  BY EmitsType
<1> HIDE DEF S, o
<1>2. /\ o \o Emits \in Seq(S) /\ Len(o \o Emits) = Len(o) + Len(Emits)
      /\ \A i \in 1 .. Len(o) : (o \o Emits)[i] = o[i]
      /\ \A i \in 1 .. Len(Emits) : (o \o Emits)[Len(o) + i] = Emits[i]
  BY <1>1, ConcatElements
<1>3. KeyNames = o \o Emits
  BY DEF KeyNames, o
<1>4. \A i \in 1 .. Len(Emits) : Len(o) + i = i + 1
  BY <1>1, EmitsType
<1> QED BY <1>1, <1>2, <1>3, <1>4, EmitsType DEF S

IsVisited(v, entry, values, ops) ==
  v = [j \in 0 .. Len(KeyNames) |->
         IF j = 0 THEN [data |-> <<>>, mo |-> 0, curr |-> entry.init]
         ELSE VisitKey(v[j - 1], KeyNames[j], values[j], ops)]

LEMMA EmitDataDef ==
  ASSUME HasOffsetKey, NEW entry \in Entry, NEW values, NEW ops
  PROVE  \E v : /\ v[0] = [data |-> <<>>, mo |-> 0, curr |-> entry.init]
                /\ \A j \in 1 .. Len(Emits) + 1 :
                     v[j] = VisitKey(v[j - 1], KeyNames[j], values[j], ops)
                /\ v[Len(Emits) + 1] = EmitData(entry, values, ops)
<1> DEFINE N == Len(Emits) + 1
           b == [data |-> <<>>, mo |-> 0, curr |-> entry.init]
           V == EmitDataType
           F == [n \in Nat |-> [d \in V |-> IF n \in 1 .. N
                                            THEN VisitKey(d, KeyNames[n], values[n], ops) ELSE d]]
<1>1. N \in Nat /\ Len(KeyNames) = N
  BY EmitsType, KeyNamesType
<1>2. b \in V
  <2>1. entry.init \in Nat /\ <<>> \in Seq(Element)
    BY DEF Entry
  <2> QED BY <2>1 DEF EmitDataType
<1>3. ASSUME NEW n \in 1 .. N, NEW d \in V PROVE VisitKey(d, KeyNames[n], values[n], ops) \in V
  <2>1. KeyNames[n] \in Headers \cup {OffsetKey}
    <3> DEFINE S == Headers \cup {OffsetKey}
    <3>1. KeyNames \in Seq(S) /\ n \in 1 .. Len(KeyNames)
      BY <1>1, KeyNamesType
    <3> HIDE DEF S
    <3>2. KeyNames[n] \in S
      BY <3>1
    <3> QED BY <3>2 DEF S
  <2> QED BY <2>1, VisitKeyType
<1> HIDE DEF N, b, V
<1>4. F \in [Nat -> [V -> V]]
  BY <1>3
<1>5. \A n \in 1 .. N : \A d \in V : F[n][d] = VisitKey(d, KeyNames[n], values[n], ops)
  BY <1>1
<1> HIDE DEF F
<1>6. Recurses(V, b, F, N)
  BY ONLY <1>1, <1>2, <1>4, NatRecursion
<1>7. PICK g \in [0 .. N -> V] : g[0] = b /\ \A n \in 1 .. N : g[n] = F[n][g[n - 1]]
  BY <1>6 DEF Recurses
<1>8. g = [j \in 0 .. N |-> IF j = 0 THEN b ELSE VisitKey(g[j - 1], KeyNames[j], values[j], ops)]
  <2>1. ASSUME NEW j \in 0 .. N
        PROVE  g[j] = IF j = 0 THEN b ELSE VisitKey(g[j - 1], KeyNames[j], values[j], ops)
    <3>1. CASE j # 0
      <4>1. j \in 1 .. N /\ j - 1 \in 0 .. N
        BY <1>1, <3>1
      <4>2. g[j - 1] \in V
        BY <1>7, <4>1
      <4> QED BY <1>5, <1>7, <3>1, <4>1, <4>2
    <3> QED BY <1>7, <3>1
  <2>2. g = [j \in 0 .. N |-> g[j]]
    BY <1>7
  <2> QED BY <2>1, <2>2
<1>9. \E v : IsVisited(v, entry, values, ops)
  BY <1>1, <1>8 DEF IsVisited, b
<1> DEFINE v == CHOOSE u : IsVisited(u, entry, values, ops)
<1>10. IsVisited(v, entry, values, ops)
  BY <1>9
<1>11. EmitData(entry, values, ops) = v[N]
  BY <1>1 DEF EmitData, IsVisited
<1> HIDE DEF v
<1>12. v = [j \in 0 .. N |-> IF j = 0 THEN b ELSE VisitKey(v[j - 1], KeyNames[j], values[j], ops)]
  BY <1>1, <1>10 DEF IsVisited, b
<1>13. v[0] = b
  BY <1>1, <1>12
<1>14. ASSUME NEW j \in 1 .. N PROVE v[j] = VisitKey(v[j - 1], KeyNames[j], values[j], ops)
  <2>1. j \in 0 .. N /\ j # 0
    BY <1>1
  <2> QED BY <1>12, <2>1
<1> QED BY <1>11, <1>13, <1>14 DEF N, b

\* For a package with an offset key: emitData lists the valid headers, each with its place.
LEMMA EmitDataResult ==
  ASSUME HasOffsetKey, NEW entry \in Entry, Len(entry.vals) = Len(Emits),
         NEW values, values = Keys(entry.vals),
         NEW parsed, \A k \in 1 .. Len(Emits) : entry.vals[k] <=> Emits[k] \in parsed,
         NEW ops \in [first : SUBSET Headers, second : SUBSET Headers],
         ops.first \cap ops.second = {},
         NEW valid, valid = (parsed \cup ops.first) \ ops.second
  PROVE  EmitDataInv(EmitData(entry, values, ops), Len(Emits), entry.init, parsed, valid)
<1> DEFINE N == Len(Emits)
           off == entry.init
<1>1. N \in Nat \ {0} /\ off \in Nat /\ entry.vals \in Seq(BOOLEAN)
  BY EmitsType DEF Entry
<1>2. PICK v : /\ v[0] = [data |-> <<>>, mo |-> 0, curr |-> off]
               /\ \A j \in 1 .. N + 1 : v[j] = VisitKey(v[j - 1], KeyNames[j], values[j], ops)
               /\ v[N + 1] = EmitData(entry, values, ops)
  BY EmitDataDef
<1>3. /\ values[1] = OffsetKey
      /\ \A k \in 1 .. N : values[k + 1] = IF Emits[k] \in parsed THEN "t" ELSE "f"
  <2>1. /\ Keys(entry.vals)[1] = OffsetKey
        /\ \A k \in 1 .. N : Keys(entry.vals)[1 + k] = IF entry.vals[k] THEN "t" ELSE "f"
    BY <1>1, KeysType
  <2>2. \A k \in 1 .. N : k + 1 = 1 + k
    BY <1>1
  <2> QED BY <2>1, <2>2
<1>4. /\ KeyNames[1] = OffsetKey
      /\ \A k \in 1 .. N : KeyNames[k + 1] = Emits[k]
  BY KeyNamesType
<1> DEFINE Good(n) == EmitDataInv(v[n + 1], n, off, parsed, valid)
           T == {n \in Nat : n <= N => Good(n)}
<1>5. 0 \in T
  <2> DEFINE d == v[1]
             b == [data |-> <<>>, mo |-> 0, curr |-> off]
  <2>1. d = VisitKey(v[0], OffsetKey, OffsetKey, ops)
    <3>1. 1 \in 1 .. N + 1 /\ 1 - 1 = 0
      BY <1>1
    <3> QED BY <1>2, <1>3, <1>4, <3>1
  <2>2. OffsetKey # "t"
    BY DEF OffsetKey
  <2>3. d = v[0]
    <3>1. OffsetKey \notin ops.first /\ OffsetKey \notin ops.second
      BY DeparserAssumption
    <3> HIDE DEF d
    <3> QED BY <2>1, <2>2, <3>1 DEF VisitKey
  <2>4. d = b
    BY <1>2, <2>3
  <2>5. Places(<<>>, 0, off, valid)
    <3> DEFINE z == <<>>
    <3>1. z \in Seq(Element) /\ Len(z) = 0
      OBVIOUS
    <3> HIDE DEF z
    <3>2. Places(z, 0, off, valid)
      BY <3>1 DEF Places
    <3> QED BY <3>2 DEF z
  <2>6. WidthUpTo(parsed)[0] = 0 /\ WidthUpTo(valid)[0] = 0
    BY WidthDef
  <2>7. b \in EmitDataType
    <3>1. <<>> \in Seq(Element)
      OBVIOUS
    <3> QED BY <1>1, <3>1 DEF EmitDataType
  <2>8. b.data = <<>> /\ b.mo = 0 /\ b.curr = off
    OBVIOUS
  <2> HIDE DEF b
  <2>9. EmitDataInv(b, 0, off, parsed, valid)
    BY <1>1, <2>5, <2>6, <2>7, <2>8 DEF EmitDataInv
  <2> QED BY <2>4, <2>9
<1>6. ASSUME NEW n \in Nat, n \in T PROVE n + 1 \in T
  <2> SUFFICES ASSUME n + 1 <= N PROVE Good(n + 1)
    OBVIOUS
  <2> DEFINE d == v[n + 1]
             h == Emits[n + 1]
             value == values[(n + 1) + 1]
  <2>1. /\ n \in 0 .. N - 1 /\ n + 1 \in 1 .. N
        /\ (n + 1) + 1 \in 1 .. N + 1 /\ ((n + 1) + 1) - 1 = n + 1
    BY <1>1
  <2>2. EmitDataInv(d, n, off, parsed, valid)
    BY <1>1, <1>6, <2>1
  <2>3. v[(n + 1) + 1] = VisitKey(d, h, value, ops)
    BY <1>2, <1>4, <2>1
  <2>4. value = IF h \in parsed THEN "t" ELSE "f"
    BY <1>3, <2>1
  <2> HIDE DEF d, value
  <2>5. EmitDataInv(VisitKey(d, h, value, ops), n + 1, off, parsed, valid)
    BY <1>1, <2>1, <2>2, <2>4, VisitKeyInv
  <2> QED BY <2>3, <2>5
<1> HIDE DEF T
<1>7. N \in T
  BY <1>1, <1>5, <1>6, NatSetInduction
<1> QED BY <1>1, <1>2, <1>7 DEF T

\* The run of headers that move down has a start.
LEMMA RunStartIn ==
  ASSUME NEW data \in Seq(Element), NEW s \in 1 .. Len(data)
  PROVE  RunStart(data, s) \in 1 .. s
<1> DEFINE Down(t) == data[t].mo < 0
           LastUp(n, t) == ~Down(t) /\ \A u \in t + 1 .. n : Down(u)
           T == {n \in Nat : n <= Len(data) =>
                               \/ \A t \in 1 .. n : Down(t)
                               \/ \E t \in 1 .. n : LastUp(n, t)}
<1>1. 0 \in T
  OBVIOUS
<1>2. ASSUME NEW n \in Nat, n \in T PROVE n + 1 \in T
  <2> SUFFICES ASSUME n + 1 <= Len(data)
               PROVE  \/ \A t \in 1 .. n + 1 : Down(t)
                      \/ \E t \in 1 .. n + 1 : LastUp(n + 1, t)
    OBVIOUS
  <2>1. (\A t \in 1 .. n : Down(t)) \/ (\E t \in 1 .. n : LastUp(n, t))
    BY <1>2
  <2> HIDE DEF Down
  <2>2. CASE ~Down(n + 1)
    <3>1. n + 1 \in 1 .. n + 1 /\ (n + 1) + 1 .. n + 1 = {}
      OBVIOUS
    <3> QED BY <2>2, <3>1
  <2>3. CASE Down(n + 1)
    <3>1. \A t \in 1 .. n + 1 : t \in 1 .. n \/ t = n + 1
      OBVIOUS
    <3>2. CASE \A t \in 1 .. n : Down(t)
      BY <2>3, <3>1, <3>2
    <3>3. CASE \E t \in 1 .. n : LastUp(n, t)
      <4>1. PICK t \in 1 .. n : LastUp(n, t)
        BY <3>3
      <4>2. t \in 1 .. n + 1 /\ \A u \in t + 1 .. n + 1 : u \in t + 1 .. n \/ u = n + 1
        OBVIOUS
      <4> QED BY <2>3, <4>1, <4>2
    <3> QED BY <2>1, <3>2, <3>3
  <2> QED BY <2>2, <2>3
<1> HIDE DEF T
<1>3. s \in T /\ s \in Nat /\ s <= Len(data)
  BY <1>1, <1>2, NatSetInduction
<1>4. (\A t \in 1 .. s : Down(t)) \/ (\E t \in 1 .. s : LastUp(s, t))
  BY <1>3 DEF T
<1>5. ASSUME NEW t \in 1 .. s PROVE data[t].mo \in Int
  <2>1. data[t] \in Element
    OBVIOUS
  <2> QED BY <2>1 DEF Element
<1>6. CASE data[s].mo >= 0
  BY <1>6 DEF RunStart
<1>7. CASE ~(data[s].mo >= 0) /\ \A t \in 1 .. s : data[t].mo < 0
  BY <1>7 DEF RunStart
<1>8. CASE ~(data[s].mo >= 0) /\ ~ \A t \in 1 .. s : data[t].mo < 0
  <2> DEFINE Q(t) == data[t].mo >= 0 /\ \A u \in t + 1 .. s : data[u].mo < 0
  <2>1. PICK t \in 1 .. s : LastUp(s, t)
    BY <1>4, <1>8
  <2>2. \E r \in 1 .. s : Q(r)
    BY <1>5, <2>1
  <2>3. (CHOOSE r \in 1 .. s : Q(r)) \in 1 .. s
    <3> HIDE DEF Q
    <3> QED BY <2>2
  <2>4. RunStart(data, s) = CHOOSE r \in 1 .. s : Q(r)
    BY <1>8 DEF RunStart
  <2> QED BY <2>3, <2>4
<1> QED BY <1>6, <1>7, <1>8

IsOrder(data, N, v) ==
  v = [s \in 0 .. N |-> IF s = 0 THEN <<>>
                        ELSE SubSeq(data, RunStart(data, s), s) \o v[RunStart(data, s) - 1]]

LEMMA OrderExists ==
  ASSUME NEW data \in Seq(Element), NEW N \in 0 .. Len(data)
  PROVE  \E v : IsOrder(data, N, v)
<1> DEFINE T == {n \in Nat : n <= Len(data) => \E v : IsOrder(data, n, v)}
           Rest(u, s) == SubSeq(data, RunStart(data, s), s) \o u[RunStart(data, s) - 1]
<1>1. 0 \in T
  <2> DEFINE v == [s \in 0 .. 0 |-> <<>>]
  <2>1. IsOrder(data, 0, v)
    BY DEF IsOrder
  <2> QED BY <2>1
<1>2. ASSUME NEW n \in Nat, n \in T PROVE n + 1 \in T
  <2> SUFFICES ASSUME n + 1 <= Len(data) PROVE \E v : IsOrder(data, n + 1, v)
    OBVIOUS
  <2>1. PICK v : IsOrder(data, n, v)
    BY <1>2
  <2> DEFINE last == Rest(v, n + 1)
             u == [i \in 0 .. n + 1 |-> IF i = n + 1 THEN last ELSE v[i]]
  <2>2. ASSUME NEW i \in 0 .. n + 1
        PROVE  u[i] = IF i = 0 THEN <<>> ELSE Rest(u, i)
    <3>1. i # 0 => RunStart(data, i) - 1 \in 0 .. n /\ RunStart(data, i) - 1 \in 0 .. n + 1
                   /\ RunStart(data, i) - 1 # n + 1
      <4> SUFFICES ASSUME i # 0
                   PROVE  RunStart(data, i) - 1 \in 0 .. n /\ RunStart(data, i) - 1 \in 0 .. n + 1
                          /\ RunStart(data, i) - 1 # n + 1
        OBVIOUS
      <4> DEFINE r == RunStart(data, i)
      <4>1. i \in 1 .. Len(data)
        OBVIOUS
      <4>2. r \in 1 .. i
        BY <4>1, RunStartIn
      <4> HIDE DEF r
      <4>3. r - 1 \in 0 .. n /\ r - 1 \in 0 .. n + 1 /\ r - 1 # n + 1
        BY <4>1, <4>2
      <4> QED BY <4>3 DEF r
    <3>2. i # 0 => u[RunStart(data, i) - 1] = v[RunStart(data, i) - 1]
      <4> DEFINE r == RunStart(data, i) - 1
      <4> HIDE DEF r, last
      <4>1. i # 0 => r \in 0 .. n + 1 /\ r # n + 1
        BY <3>1 DEF r
      <4> QED BY <4>1 DEF r
    <3>3. CASE i = n + 1
      <4> HIDE DEF last
      <4>1. u[i] = last /\ i # 0
        BY <3>3
      <4> USE DEF last
      <4> HIDE DEF u
      <4> QED BY <3>2, <3>3, <4>1
    <3>4. CASE i # n + 1
      <4>1. i \in 0 .. n
        BY <3>4
      <4>2. v[i] = IF i = 0 THEN <<>> ELSE Rest(v, i)
        BY <2>1, <4>1 DEF IsOrder
      <4>3. u[i] = v[i]
        BY <3>4
      <4> HIDE DEF u
      <4> QED BY <3>2, <4>2, <4>3
    <3> QED BY <3>3, <3>4
  <2>3. IsOrder(data, n + 1, u)
    <3>1. u = [i \in 0 .. n + 1 |-> u[i]]
      OBVIOUS
    <3> HIDE DEF u
    <3> QED BY <2>2, <3>1 DEF IsOrder
  <2> QED BY <2>3
<1> HIDE DEF T
<1>3. N \in T /\ N <= Len(data)
  BY <1>1, <1>2, NatSetInduction
<1> QED BY <1>3 DEF T

\* r has the first n elements of data, in some order.
Reorders(r, data, n) ==
  /\ r \in Seq(Element)
  /\ \A i \in 1 .. Len(r) : \E m \in 1 .. n : r[i] = data[m]
  /\ \A m \in 1 .. n : \E i \in 1 .. Len(r) : r[i] = data[m]

LEMMA ReordersMore ==
  ASSUME NEW data \in Seq(Element), NEW s \in 1 .. Len(data), NEW a \in 1 .. s,
         NEW r, Reorders(r, data, a - 1)
  PROVE  Reorders(SubSeq(data, a, s) \o r, data, s)
<1> DEFINE q == SubSeq(data, a, s)
           l == s - a + 1
           t == q \o r
<1>1. /\ r \in Seq(Element) /\ Len(r) \in Nat
      /\ \A i \in 1 .. Len(r) : \E m \in 1 .. a - 1 : r[i] = data[m]
      /\ \A m \in 1 .. a - 1 : \E i \in 1 .. Len(r) : r[i] = data[m]
  BY DEF Reorders
<1>2. l \in Nat /\ a \in Nat /\ s \in Nat /\ a <= s /\ s <= Len(data)
  OBVIOUS
<1>3. q \in Seq(Element) /\ Len(q) = l /\ \A i \in 1 .. l : q[i] = data[a + i - 1]
  OBVIOUS
<1> HIDE DEF q
<1>4. /\ t \in Seq(Element) /\ Len(t) = l + Len(r)
      /\ \A i \in 1 .. l : t[i] = data[a + i - 1]
      /\ \A i \in 1 .. Len(r) : t[l + i] = r[i]
  <2>1. /\ t \in Seq(Element) /\ Len(t) = Len(q) + Len(r)
        /\ \A i \in 1 .. Len(q) : t[i] = q[i]
        /\ \A i \in 1 .. Len(r) : t[Len(q) + i] = r[i]
    <3>1. q \in Seq(Element) /\ r \in Seq(Element)
      BY <1>1, <1>3
    <3> QED BY ONLY <3>1, ConcatElements
  <2> HIDE DEF t
  <2> QED BY <1>3, <2>1
<1> HIDE DEF t
<1>5. ASSUME NEW i \in 1 .. Len(t) PROVE \E m \in 1 .. s : t[i] = data[m]
  <2>1. CASE i <= l
    <3>1. i \in 1 .. l /\ a + i - 1 \in 1 .. s
      BY <1>2, <2>1
    <3> QED BY <1>4, <3>1
  <2>2. CASE i > l
    <3>1. i - l \in 1 .. Len(r) /\ l + (i - l) = i
      BY <1>1, <1>2, <1>4, <2>2
    <3>2. PICK m \in 1 .. a - 1 : r[i - l] = data[m]
      BY <1>1, <3>1
    <3>3. m \in 1 .. s
      BY <1>2
    <3> QED BY <1>4, <3>1, <3>2, <3>3
  <2> QED BY <1>2, <2>1, <2>2
<1>6. ASSUME NEW m \in 1 .. s PROVE \E i \in 1 .. Len(t) : t[i] = data[m]
  <2>1. CASE m < a
    <3>1. m \in 1 .. a - 1
      BY <1>2, <2>1
    <3>2. PICK i \in 1 .. Len(r) : r[i] = data[m]
      BY <1>1, <3>1
    <3>3. l + i \in 1 .. Len(t)
      BY <1>1, <1>2, <1>4
    <3> QED BY <1>4, <3>2, <3>3
  <2>2. CASE m >= a
    <3>1. /\ m - a + 1 \in 1 .. l /\ a + (m - a + 1) - 1 = m
          /\ m - a + 1 \in 1 .. Len(t)
      BY <1>1, <1>2, <1>4, <2>2
    <3> QED BY <1>4, <3>1
  <2> QED BY <1>2, <2>1, <2>2
<1> QED BY <1>4, <1>5, <1>6 DEF Reorders, t, q

\* emitOrder has the elements of emitData, each of them.
LEMMA EmitOrderReorders ==
  ASSUME NEW data \in Seq(Element)
  PROVE  Reorders(EmitOrder(data), data, Len(data))
<1> DEFINE N == Len(data)
           v == CHOOSE u : IsOrder(data, N, u)
<1>1. N \in Nat /\ N \in 0 .. N
  OBVIOUS
<1>2. \E u : IsOrder(data, N, u)
  BY <1>1, OrderExists
<1>3. IsOrder(data, N, v)
  BY <1>2
<1>4. EmitOrder(data) = v[N]
  BY DEF EmitOrder, IsOrder
<1> HIDE DEF v, N
<1>5. v[0] = <<>>
  BY <1>1, <1>3 DEF IsOrder
<1>6. ASSUME NEW s \in 1 .. N
      PROVE  v[s] = SubSeq(data, RunStart(data, s), s) \o v[RunStart(data, s) - 1]
  <2>1. s \in 0 .. N /\ s # 0
    BY <1>1
  <2> QED BY <1>3, <2>1 DEF IsOrder
<1> DEFINE T == {n \in Nat : n <= N => \A s \in 0 .. n : Reorders(v[s], data, s)}
<1>7. 0 \in T
  <2> DEFINE z == <<>>
  <2>1. z \in Seq(Element) /\ Len(z) = 0
    OBVIOUS
  <2> HIDE DEF z
  <2>2. Reorders(z, data, 0)
    BY <2>1 DEF Reorders
  <2>3. \A s \in 0 .. 0 : s = 0
    OBVIOUS
  <2> QED BY <1>5, <2>2, <2>3 DEF z
<1>8. ASSUME NEW n \in Nat, n \in T PROVE n + 1 \in T
  <2> SUFFICES ASSUME n + 1 <= N, NEW s \in 0 .. n + 1 PROVE Reorders(v[s], data, s)
    OBVIOUS
  <2>1. \A m \in 0 .. n : Reorders(v[m], data, m)
    BY <1>1, <1>8
  <2>2. CASE s \in 0 .. n
    BY <2>1, <2>2
  <2>3. CASE s \notin 0 .. n
    <3> DEFINE a == RunStart(data, s)
    <3>1. s = n + 1 /\ s \in 1 .. N
      BY <1>1, <2>3
    <3>2. a \in 1 .. s
      BY <3>1, RunStartIn DEF N
    <3>3. v[s] = SubSeq(data, a, s) \o v[a - 1]
      BY <1>6, <3>1
    <3> HIDE DEF a
    <3>4. a - 1 \in 0 .. n
      BY <3>1, <3>2
    <3>5. Reorders(v[a - 1], data, a - 1)
      BY <2>1, <3>4
    <3>6. Reorders(SubSeq(data, a, s) \o v[a - 1], data, s)
      BY <3>1, <3>2, <3>5, ReordersMore DEF N
    <3> QED BY <3>3, <3>6
  <2> QED BY <2>2, <2>3
<1> HIDE DEF T
<1>9. N \in T
  BY <1>1, <1>7, <1>8, NatSetInduction
<1> QED BY <1>1, <1>4, <1>9 DEF T, N

----------------------------------------------------------------------------
(* What the actions of the table do. *)

\* What of the header h fits on the stack behind `to' is there.
HeaderAt(t, to, h) ==
  \A b \in 0 .. Width[h] - 1 : to + b < StackSize => t[to + b] = HdrByte(h, b)

\* t is s with the headers in K written to where the valid ones of the first n emitted
\* headers have their place, and nothing else changed before or behind these.
HeadersWritten(s, t, off, valid, n, K) ==
  /\ OnStack(t)
  /\ \A k \in K : HeaderAt(t, off + WidthUpTo(valid)[k - 1], Emits[k])
  /\ \A j \in 0 .. StackSize - 1 :
       j < off \/ off + WidthUpTo(valid)[n] <= j => t[j] = s[j]

\* The valid ones of the first n emitted headers.
ValidUpTo(valid, n) == {k \in 1 .. n : Emits[k] \in valid}

\* Valid headers have their places one behind the other.
LEMMA PlacesApart ==
  ASSUME NEW valid, NEW k \in ValidUpTo(valid, Len(Emits))
  PROVE  /\ k \in 1 .. Len(Emits) /\ WidthUpTo(valid)[k - 1] \in Nat
         /\ WidthUpTo(valid)[k] = WidthUpTo(valid)[k - 1] + Width[Emits[k]]
         /\ \A n \in k .. Len(Emits) :
              /\ WidthUpTo(valid)[n] \in Nat
              /\ WidthUpTo(valid)[k - 1] + Width[Emits[k]] <= WidthUpTo(valid)[n]
<1> DEFINE w == WidthUpTo(valid)
           N == Len(Emits)
<1>1. /\ w \in [0 .. N -> Nat]
      /\ \A n \in 1 .. N : w[n] = w[n - 1] + (IF Emits[n] \in valid THEN Width[Emits[n]] ELSE 0)
  BY WidthDef
<1>2. k \in 1 .. N /\ Emits[k] \in valid /\ N \in Nat /\ k - 1 \in 0 .. N /\ k \in 0 .. N
  BY EmitsType DEF ValidUpTo
<1>3. ASSUME NEW n \in k .. N PROVE n \in 0 .. N /\ w[n] \in Nat /\ w[k] <= w[n]
  <2>1. n \in 0 .. N /\ k <= n
    BY <1>2
  <2> QED BY <1>1, <1>2, <2>1, WidthMonotone
<1>4. w[k] = w[k - 1] + Width[Emits[k]]
  BY <1>1, <1>2
<1> HIDE DEF w
<1> QED BY <1>1, <1>2, <1>3, <1>4 DEF w, N

LEMMA PutMore ==
  ASSUME NEW s, NEW t, NEW u, NEW off \in Nat, NEW valid, NEW n \in 0 .. Len(Emits),
         NEW K \in SUBSET ValidUpTo(valid, n), NEW i \in ValidUpTo(valid, n),
         HeadersWritten(s, t, off, valid, n, K),
         Put(t, u, off + WidthUpTo(valid)[i - 1], Emits[i])
  PROVE  HeadersWritten(s, u, off, valid, n, K \cup {i})
<1> DEFINE w == WidthUpTo(valid)
           a == w[i - 1]
           l == Width[Emits[i]]
           N == Len(Emits)
<1>1. N \in Nat /\ n \in Nat /\ n <= N /\ StackSize \in Nat
  BY EmitsType, StackAssumption
<1>2. ASSUME NEW k \in ValidUpTo(valid, n) PROVE k \in ValidUpTo(valid, N) /\ k \in 1 .. n
  BY <1>1 DEF ValidUpTo
<1>3. ASSUME NEW k \in ValidUpTo(valid, n)
      PROVE  /\ w[k - 1] \in Nat /\ w[n] \in Nat /\ Width[Emits[k]] \in Nat \ {0}
             /\ w[k - 1] + Width[Emits[k]] <= w[n]
             /\ \A m \in ValidUpTo(valid, n) : k < m => w[k - 1] + Width[Emits[k]] <= w[m - 1]
  <2>1. /\ k \in 1 .. N /\ w[k - 1] \in Nat
        /\ \A m \in k .. N : w[m] \in Nat /\ w[k - 1] + Width[Emits[k]] <= w[m]
    BY <1>2, PlacesApart
  <2>2. Width[Emits[k]] \in Nat \ {0}
    BY <2>1, EmitsType
  <2>3. n \in k .. N /\ \A m \in ValidUpTo(valid, n) : k < m => m - 1 \in k .. N
    BY <1>1, <1>2
  <2> HIDE DEF w
  <2> QED BY <2>1, <2>2, <2>3
<1>4. /\ OnStack(t)
      /\ \A k \in K : HeaderAt(t, off + w[k - 1], Emits[k])
      /\ \A j \in 0 .. StackSize - 1 : j < off \/ off + w[n] <= j => t[j] = s[j]
  BY DEF HeadersWritten
<1>5. /\ OnStack(u)
      /\ \A j \in 0 .. StackSize - 1 :
           u[j] = IF off + a <= j /\ j < off + a + l THEN HdrByte(Emits[i], j - (off + a)) ELSE t[j]
  BY DEF Put
<1>6. a \in Nat /\ l \in Nat \ {0} /\ w[n] \in Nat /\ a + l <= w[n]
  BY <1>3
<1>7. HeaderAt(u, off + a, Emits[i])
  <2> SUFFICES ASSUME NEW b \in 0 .. l - 1, off + a + b < StackSize
               PROVE  u[off + a + b] = HdrByte(Emits[i], b)
    BY DEF HeaderAt
  <2> HIDE DEF a, l
  <2> DEFINE j == off + a + b
  <2>1. j \in 0 .. StackSize - 1 /\ off + a <= j /\ j < off + a + l /\ j - (off + a) = b
    BY <1>1, <1>6
  <2> HIDE DEF j
  <2>2. u[j] = HdrByte(Emits[i], b)
    BY <1>5, <2>1
  <2> QED BY <2>2 DEF j
<1>8. ASSUME NEW k \in K, k # i PROVE HeaderAt(u, off + w[k - 1], Emits[k])
  <2> DEFINE c == w[k - 1]
             m == Width[Emits[k]]
  <2>1. k \in ValidUpTo(valid, n) /\ k \in Nat /\ i \in Nat
    BY <1>2
  <2>2. c \in Nat /\ m \in Nat \ {0} /\ (c + m <= a \/ a + l <= c)
    BY <1>3, <1>8, <2>1
  <2> SUFFICES ASSUME NEW b \in 0 .. m - 1, off + c + b < StackSize
               PROVE  u[off + c + b] = HdrByte(Emits[k], b)
    BY DEF HeaderAt
  <2>3. t[off + c + b] = HdrByte(Emits[k], b)
    BY <1>4 DEF HeaderAt
  <2> HIDE DEF a, l, c, m
  <2> DEFINE j == off + c + b
  <2>4. j \in 0 .. StackSize - 1 /\ ~(off + a <= j /\ j < off + a + l)
    BY <1>1, <1>6, <2>2
  <2> HIDE DEF j
  <2>5. u[j] = t[j]
    BY <1>5, <2>4
  <2> QED BY <2>3, <2>5 DEF j
<1>9. ASSUME NEW j \in 0 .. StackSize - 1, j < off \/ off + w[n] <= j
      PROVE  u[j] = s[j]
  <2> HIDE DEF a, l, w
  <2>1. ~(off + a <= j /\ j < off + a + l)
    BY <1>6, <1>9
  <2> QED BY <1>4, <1>5, <1>9, <2>1
<1> QED BY <1>5, <1>7, <1>8, <1>9 DEF HeadersWritten

LEMMA EmitRun ==
  ASSUME NEW x \in Element, x.h \in Headers, NEW to \in Nat, to = x.os + x.mo,
         to + Width[x.h] <= StackSize
  PROVE  /\ Emit(x) \in Seq(Op)
         /\ \A s, t : OnStack(s) /\ Ran(Emit(x), Len(Emit(x)), s, t) => Put(s, t, to, x.h)
<1> DEFINE l == Width[x.h]
           move == IF x.mo # 0 THEN CreateByteMove(x.os, x.mo, l) ELSE <<>>
           write == WriteHeader(x.h, to)
<1>1. /\ StackSize \in Nat /\ l \in Nat \ {0} /\ x.os \in Int /\ x.mo \in Int
      /\ to + l <= StackSize
  BY StackAssumption, DeparserAssumption DEF Element
<1>2. Emit(x) = move \o write
  <2>1. (IF to <= StackSize /\ to + l > StackSize THEN StackSize - to ELSE l) = l
    BY <1>1
  <2> QED BY <2>1 DEF Emit
<1>3. write \in Seq(Op)
  BY WriteHeaderBytes
<1>4. move \in Seq(Op) /\ Confined(move, to, l)
  <2>1. CASE x.mo = 0
    <3> DEFINE z == <<>>
    <3>1. z \in Seq(Op) /\ Len(z) = 0
      OBVIOUS
    <3> HIDE DEF z
    <3>2. Confined(z, to, l)
      BY <3>1 DEF Confined
    <3> QED BY <2>1, <3>1, <3>2 DEF z
  <2>2. CASE x.mo # 0
    <3> DEFINE c == CreateByteMove(x.os, x.mo, l)
               os == x.os
               mo == x.mo
    <3>1. MoveCode(c, os, mo, l)
      BY <1>1, MoveBytes
    <3>2. os \in Int /\ mo \in Int /\ os + mo = to
      BY <1>1
    <3>3. move = c
      BY <2>2
    <3> HIDE DEF c, os, mo, l, move
    <3>4. ASSUME NEW k \in 1 .. Len(c) PROVE to <= c[k].dst /\ c[k].dst < to + l
      <4> DEFINE i == IF mo > 0 THEN l - k ELSE k - 1
      <4>1. k \in 1 .. l /\ c[k].dst = os + mo + i
        BY <3>1 DEF MoveCode
      <4>2. i \in 0 .. l - 1
        BY <1>1, <4>1
      <4> HIDE DEF i
      <4> QED BY <1>1, <3>2, <4>1, <4>2, SMTT(30)
    <3> QED BY <3>1, <3>3, <3>4 DEF MoveCode, Confined
  <2> QED BY <2>1, <2>2
<1> HIDE DEF move, write
<1>5. Emit(x) \in Seq(Op)
  BY <1>2, <1>3, <1>4, ConcatElements
<1>6. ASSUME NEW s, NEW t, OnStack(s), Ran(Emit(x), Len(Emit(x)), s, t)
      PROVE  Put(s, t, to, x.h)
  <2>1. Ran(move \o write, Len(move \o write), s, t)
    BY <1>2, <1>6
  <2>2. PICK u : Ran(move, Len(move), s, u) /\ Ran(write, Len(write), u, t)
    BY <1>3, <1>4, <2>1, RanConcat
  <2> HIDE DEF l
  <2>3. /\ OnStack(u)
        /\ \A j \in 0 .. StackSize - 1 : ~(to <= j /\ j < to + l) => u[j] = s[j]
    BY <1>1, <1>4, <1>6, <2>2, ConfinedRun
  <2>4. Put(u, t, to, x.h)
    BY <2>2, <2>3, WriteHeaderRun DEF write
  <2> QED BY <2>3, <2>4 DEF Put, l
<1> QED BY <1>5, <1>6

IsEmits(v, order) ==
  v = [i \in 0 .. Len(order) |-> IF i = 0 THEN <<>> ELSE v[i - 1] \o Emit(order[i])]

LEMMA EmitsInOrderDef ==
  ASSUME NEW order, NEW N \in Nat, Len(order) = N,
         \A i \in 1 .. N : Emit(order[i]) \in Seq(Op)
  PROVE  /\ EmitsInOrder(order) \in [0 .. N -> Seq(Op)]
         /\ EmitsInOrder(order)[0] = <<>>
         /\ \A i \in 1 .. N :
              EmitsInOrder(order)[i] = EmitsInOrder(order)[i - 1] \o Emit(order[i])
<1> DEFINE V == Seq(Op)
           b == <<>>
           F == [n \in Nat |-> [c \in V |-> IF n \in 1 .. N THEN c \o Emit(order[n]) ELSE c]]
<1>1. b \in V
  OBVIOUS
<1>2. ASSUME NEW n \in 1 .. N, NEW c \in V PROVE c \o Emit(order[n]) \in V
  BY ConcatElements
<1> HIDE DEF V, b
<1>3. F \in [Nat -> [V -> V]]
  BY <1>2
<1>4. \A n \in 1 .. N : \A c \in V : F[n][c] = c \o Emit(order[n])
  OBVIOUS
<1> HIDE DEF F
<1>5. Recurses(V, b, F, N)
  BY ONLY N \in Nat, <1>1, <1>3, NatRecursion
<1>6. PICK g \in [0 .. N -> V] : g[0] = b /\ \A n \in 1 .. N : g[n] = F[n][g[n - 1]]
  BY <1>5 DEF Recurses
<1>7. g = [i \in 0 .. N |-> IF i = 0 THEN b ELSE g[i - 1] \o Emit(order[i])]
  <2>1. ASSUME NEW i \in 0 .. N
        PROVE  g[i] = IF i = 0 THEN b ELSE g[i - 1] \o Emit(order[i])
    <3>1. CASE i # 0
      <4>1. i \in 1 .. N /\ i - 1 \in 0 .. N
        BY <3>1
      <4>2. g[i - 1] \in V
        BY <1>6, <4>1
      <4> QED BY <1>4, <1>6, <3>1, <4>1, <4>2
    <3> QED BY <1>6, <3>1
  <2>2. g = [i \in 0 .. N |-> g[i]]
    BY <1>6
  <2> QED BY <2>1, <2>2
<1>8. \E v : IsEmits(v, order)
  BY <1>7 DEF IsEmits, b
<1> DEFINE v == EmitsInOrder(order)
<1>9. IsEmits(v, order)
  BY <1>8 DEF IsEmits, EmitsInOrder
<1> HIDE DEF v
<1>10. v = [i \in 0 .. N |-> IF i = 0 THEN b ELSE v[i - 1] \o Emit(order[i])]
  BY <1>9 DEF IsEmits, b
<1>11. v[0] = b
  BY <1>10
<1>12. ASSUME NEW i \in 1 .. N PROVE v[i] = v[i - 1] \o Emit(order[i])
  <2>1. i \in 0 .. N /\ i # 0
    OBVIOUS
  <2> QED BY <1>10, <2>1
<1> DEFINE T == {i \in Nat : i <= N => v[i] \in V}
<1>13. 0 \in T
  BY <1>1, <1>11
<1>14. ASSUME NEW i \in Nat, i \in T PROVE i + 1 \in T
  <2> SUFFICES ASSUME i + 1 <= N PROVE v[i + 1] \in V
    OBVIOUS
  <2>1. i + 1 \in 1 .. N /\ (i + 1) - 1 = i /\ v[i] \in V
    BY <1>14
  <2> QED BY <1>2, <1>12, <2>1
<1> HIDE DEF T
<1>15. \A i \in Nat : i \in T
  BY <1>13, <1>14, NatSetInduction
<1>16. v \in [0 .. N -> V]
  <2>1. \A i \in 0 .. N : v[i] \in V
    BY <1>15 DEF T
  <2>2. v = [i \in 0 .. N |-> v[i]]
    BY <1>10
  <2> QED BY <2>1, <2>2
<1> QED BY <1>11, <1>12, <1>16 DEF v, V, b

\* One header after the other, in whatever order.
LEMMA EmitsRun ==
  ASSUME NEW order \in Seq(Element), NEW off \in Nat, NEW valid,
         off + WidthUpTo(valid)[Len(Emits)] <= StackSize,
         \A i \in 1 .. Len(order) : \E k \in 1 .. Len(Emits) : Placed(order[i], k, off, valid),
         \A k \in ValidUpTo(valid, Len(Emits)) :
           \E i \in 1 .. Len(order) : Placed(order[i], k, off, valid)
  PROVE  LET c == EmitsInOrder(order)[Len(order)]
         IN /\ c \in Seq(Op)
            /\ \A s, t : OnStack(s) /\ Ran(c, Len(c), s, t)
                  => HeadersWritten(s, t, off, valid, Len(Emits), ValidUpTo(valid, Len(Emits)))
<1> DEFINE N == Len(order)
           M == Len(Emits)
           w == WidthUpTo(valid)
           c == EmitsInOrder(order)
           Wrote(i) == {k \in 1 .. M : \E m \in 1 .. i : Placed(order[m], k, off, valid)}
<1>1. N \in Nat /\ M \in Nat /\ StackSize \in Nat
  BY EmitsType, StackAssumption
<1>2. ASSUME NEW i \in 1 .. N, NEW k \in 1 .. M, Placed(order[i], k, off, valid)
      PROVE  /\ k \in ValidUpTo(valid, M)
             /\ Emit(order[i]) \in Seq(Op)
             /\ \A s, t : OnStack(s) /\ Ran(Emit(order[i]), Len(Emit(order[i])), s, t)
                   => Put(s, t, off + w[k - 1], Emits[k])
  <2> DEFINE x == order[i]
             to == off + w[k - 1]
  <2>1. x \in Element /\ Emits[k] \in valid /\ x.h = Emits[k] /\ to = x.os + x.mo
    BY <1>2 DEF Placed
  <2>2. k \in ValidUpTo(valid, M)
    BY <2>1 DEF ValidUpTo
  <2>3. w[k - 1] \in Nat /\ w[M] \in Nat /\ w[k - 1] + Width[Emits[k]] <= w[M]
    <3>1. M \in k .. M
      BY <1>1
    <3> QED BY <2>2, <3>1, PlacesApart
  <2>4. x.h \in Headers /\ to \in Nat /\ to + Width[x.h] <= StackSize
    <3>1. Emits[k] \in Headers /\ Width[Emits[k]] \in Nat
      BY EmitsType
    <3> HIDE DEF x, w
    <3> QED BY <1>1, <2>1, <2>3, <3>1, SMTT(30) DEF w
  <2> HIDE DEF x, to
  <2>5. /\ Emit(x) \in Seq(Op)
        /\ \A s, t : OnStack(s) /\ Ran(Emit(x), Len(Emit(x)), s, t) => Put(s, t, to, x.h)
    BY <2>1, <2>4, EmitRun
  <2> QED BY <2>1, <2>2, <2>5 DEF x, to
<1>3. ASSUME NEW i \in 1 .. N
      PROVE  \E k \in 1 .. M : Placed(order[i], k, off, valid)
  OBVIOUS
<1>4. \A i \in 1 .. N : Emit(order[i]) \in Seq(Op)
  BY <1>2, <1>3
<1>5. /\ c \in [0 .. N -> Seq(Op)] /\ c[0] = <<>>
      /\ \A i \in 1 .. N : c[i] = c[i - 1] \o Emit(order[i])
  BY <1>1, <1>4, EmitsInOrderDef
<1> HIDE DEF c, w
<1> DEFINE Good(i) == \A s, t : OnStack(s) /\ Ran(c[i], Len(c[i]), s, t)
                                  => HeadersWritten(s, t, off, valid, M, Wrote(i))
           T == {i \in Nat : i <= N => Good(i)}
<1>6. 0 \in T
  <2> SUFFICES ASSUME NEW s, NEW t, OnStack(s), Ran(c[0], Len(c[0]), s, t)
               PROVE  HeadersWritten(s, t, off, valid, M, Wrote(0))
    OBVIOUS
  <2>1. t = s
    BY <1>5, RanNothing
  <2>2. Wrote(0) = {}
    OBVIOUS
  <2> HIDE DEF Wrote
  <2> QED BY <2>1, <2>2 DEF HeadersWritten
<1>7. ASSUME NEW i \in Nat, i \in T PROVE i + 1 \in T
  <2> SUFFICES ASSUME i + 1 <= N, NEW s, NEW t, OnStack(s), Ran(c[i + 1], Len(c[i + 1]), s, t)
               PROVE  HeadersWritten(s, t, off, valid, M, Wrote(i + 1))
    OBVIOUS
  <2> DEFINE e == Emit(order[i + 1])
             ci == c[i]
  <2>1. i + 1 \in 1 .. N /\ (i + 1) - 1 = i /\ i \in 0 .. N /\ Good(i)
    BY <1>1, <1>7
  <2>2. PICK k \in 1 .. M : Placed(order[i + 1], k, off, valid)
    BY <1>3, <2>1
  <2>3. /\ k \in ValidUpTo(valid, M) /\ e \in Seq(Op)
        /\ \A p, q : OnStack(p) /\ Ran(e, Len(e), p, q) => Put(p, q, off + w[k - 1], Emits[k])
    BY <1>2, <2>1, <2>2
  <2>4. c[i + 1] = ci \o e /\ ci \in Seq(Op)
    BY <1>5, <2>1
  <2>5. \A p, q : OnStack(p) /\ Ran(ci, Len(ci), p, q) => HeadersWritten(p, q, off, valid, M, Wrote(i))
    BY <2>1
  <2> HIDE DEF e, ci
  <2>6. Ran(ci \o e, Len(ci \o e), s, t)
    BY <2>4
  <2>7. PICK u : Ran(ci, Len(ci), s, u) /\ Ran(e, Len(e), u, t)
    BY <2>3, <2>4, <2>6, RanConcat
  <2>8. HeadersWritten(s, u, off, valid, M, Wrote(i))
    BY <2>5, <2>7
  <2>9. Put(u, t, off + w[k - 1], Emits[k])
    <3>1. OnStack(u)
      BY <2>8 DEF HeadersWritten
    <3> QED BY <2>3, <2>7, <3>1
  <2>10. Wrote(i) \subseteq ValidUpTo(valid, M)
    <3> SUFFICES ASSUME NEW g \in Wrote(i) PROVE g \in ValidUpTo(valid, M)
      OBVIOUS
    <3> QED BY DEF ValidUpTo, Placed
  <2>11. Wrote(i + 1) = Wrote(i) \cup {k}
    <3>1. ASSUME NEW g \in Wrote(i + 1) PROVE g \in Wrote(i) \cup {k}
      <4>1. PICK m \in 1 .. i + 1 : Placed(order[m], g, off, valid) /\ g \in 1 .. M
        OBVIOUS
      <4>2. CASE m = i + 1
        <5>1. Emits[g] = Emits[k]
          BY <2>2, <4>1, <4>2 DEF Placed
        <5>2. g \in DOMAIN Emits /\ k \in DOMAIN Emits
          BY <4>1, EmitsType
        <5>3. g = k
          BY <5>1, <5>2, DeparserAssumption
        <5> QED BY <5>3
      <4>3. CASE m # i + 1
        <5>1. m \in 1 .. i
          BY <4>3
        <5> QED BY <4>1, <5>1
      <4> QED BY <4>2, <4>3
    <3>2. ASSUME NEW g \in Wrote(i) PROVE g \in Wrote(i + 1)
      <4>1. PICK m \in 1 .. i : Placed(order[m], g, off, valid) /\ g \in 1 .. M
        OBVIOUS
      <4>2. m \in 1 .. i + 1
        OBVIOUS
      <4> QED BY <4>1, <4>2
    <3>3. k \in Wrote(i + 1)
      <4>1. i + 1 \in 1 .. i + 1
        OBVIOUS
      <4> QED BY <2>2, <4>1
    <3> HIDE DEF Wrote
    <3> QED BY <3>1, <3>2, <3>3
  <2> HIDE DEF Wrote
  <2>12. M \in 0 .. Len(Emits)
    BY <1>1
  <2>13. HeadersWritten(s, t, off, valid, M, Wrote(i) \cup {k})
    BY <2>3, <2>8, <2>9, <2>10, <2>12, PutMore DEF w
  <2> QED BY <2>11, <2>13
<1> HIDE DEF T
<1>8. N \in T
  BY <1>1, <1>6, <1>7, NatSetInduction
<1>9. Good(N)
  BY <1>1, <1>8 DEF T
<1>10. Wrote(N) = ValidUpTo(valid, M)
  BY DEF ValidUpTo, Placed
<1> HIDE DEF Wrote
<1>11. c[N] \in Seq(Op)
  BY <1>1, <1>5
<1> QED BY <1>9, <1>10, <1>11 DEF c

\* t is what the emit statements make of s: nothing changed up to off, then the valid
\* headers, then what was behind the parsed ones.
Rewritten(s, t, off, parsed, valid) ==
  LET width == WidthUpTo(valid)
      end == off + width[Len(Emits)]
      rest == off + WidthUpTo(parsed)[Len(Emits)]
  IN /\ \A j \in 0 .. StackSize - 1 :
          /\ j < off => t[j] = s[j]
          /\ end <= j /\ j - end + rest < StackSize => t[j] = s[j - end + rest]
     /\ \A n \in 1 .. Len(Emits) :
          Emits[n] \in valid => HeaderAt(t, off + width[n - 1], Emits[n])

\* Running the action c makes of any stack what the emit statements do.
Handles(c, off, parsed, valid) ==
  /\ c \in Seq(Op)
  /\ \A s, t : OnStack(s) /\ Ran(c, Len(c), s, t) => Rewritten(s, t, off, parsed, valid)

\* The headers are still there when what is behind them has changed.
LEMMA HeadersKept ==
  ASSUME NEW valid, NEW off \in Nat, NEW s, NEW u, NEW t,
         HeadersWritten(s, u, off, valid, Len(Emits), ValidUpTo(valid, Len(Emits))),
         \A j \in 0 .. StackSize - 1 : j < off + WidthUpTo(valid)[Len(Emits)] => t[j] = u[j],
         NEW n \in 1 .. Len(Emits), Emits[n] \in valid
  PROVE  HeaderAt(t, off + WidthUpTo(valid)[n - 1], Emits[n])
<1> DEFINE a == WidthUpTo(valid)[n - 1]
           e == WidthUpTo(valid)[Len(Emits)]
           l == Width[Emits[n]]
<1>1. n \in ValidUpTo(valid, Len(Emits)) /\ Len(Emits) \in n .. Len(Emits) /\ StackSize \in Nat
  BY EmitsType, StackAssumption DEF ValidUpTo
<1>2. a \in Nat /\ e \in Nat /\ a + l <= e /\ l \in Nat
  BY <1>1, PlacesApart, EmitsType
<1>3. HeaderAt(u, off + a, Emits[n])
  BY <1>1 DEF HeadersWritten
<1> SUFFICES ASSUME NEW b \in 0 .. l - 1, off + a + b < StackSize
             PROVE  t[off + a + b] = HdrByte(Emits[n], b)
  BY DEF HeaderAt
<1>4. u[off + a + b] = HdrByte(Emits[n], b)
  BY <1>3 DEF HeaderAt
<1> DEFINE j == off + a + b
<1>5. j \in 0 .. StackSize - 1 /\ j < off + e
  <2> HIDE DEF a, e, l
  <2> QED BY <1>1, <1>2
<1> HIDE DEF j
<1>6. t[j] = u[j]
  BY <1>5
<1> QED BY <1>4, <1>6 DEF j

\* The action that extendEntry makes of emitData.
LEMMA EntryActionRun ==
  ASSUME NEW d, NEW off \in Nat, NEW parsed, NEW valid,
         EmitDataInv(d, Len(Emits), off, parsed, valid),
         off + WidthUpTo(parsed)[Len(Emits)] <= StackSize,
         off + WidthUpTo(valid)[Len(Emits)] <= StackSize
  PROVE  Handles(EntryAction(d), off, parsed, valid)
<1> DEFINE M == Len(Emits)
           order == EmitOrder(d.data)
           emits == EmitsInOrder(order)[Len(order)]
           mo == d.mo
           rest == off + WidthUpTo(parsed)[M]
           end == off + WidthUpTo(valid)[M]
           K == ValidUpTo(valid, M)
           move == CreateByteMove(rest, mo, ResiBlockSize(rest + mo, rest))
           res == IF mo # 0 THEN move ELSE <<>>
<1>1. /\ StackSize \in Nat /\ rest \in Nat /\ end \in Nat /\ off <= end
      /\ rest <= StackSize /\ end <= StackSize
  <2>1. M \in 0 .. M
    BY EmitsType
  <2>2. WidthUpTo(parsed)[M] \in Nat
    BY <2>1, WidthDef
  <2>3. WidthUpTo(valid)[M] \in Nat
    BY <2>1, WidthDef
  <2> QED BY <2>2, <2>3, StackAssumption
<1>2. /\ d \in EmitDataType /\ d.curr = rest /\ Places(d.data, M, off, valid)
      /\ mo = WidthUpTo(valid)[M] - WidthUpTo(parsed)[M]
  BY DEF EmitDataInv
<1>3. mo \in Int /\ mo = end - rest
  <2>1. M \in 0 .. M
    BY EmitsType
  <2>2. WidthUpTo(parsed)[M] \in Nat
    BY <2>1, WidthDef
  <2>3. WidthUpTo(valid)[M] \in Nat
    BY <2>1, WidthDef
  <2> QED BY <1>2, <2>2, <2>3
<1>4. /\ emits \in Seq(Op)
      /\ \A p, q : OnStack(p) /\ Ran(emits, Len(emits), p, q) => HeadersWritten(p, q, off, valid, M, K)
  <2> DEFINE data == d.data
  <2>1. data \in Seq(Element) /\ Len(data) \in Nat
    BY <1>2 DEF Places
  <2>2. Reorders(order, data, Len(data))
    BY <2>1, EmitOrderReorders
  <2> HIDE DEF order
  <2>3. order \in Seq(Element)
    BY <2>2 DEF Reorders
  <2>4. ASSUME NEW i \in 1 .. Len(order) PROVE \E k \in 1 .. M : Placed(order[i], k, off, valid)
    <3>1. PICK m \in 1 .. Len(data) : order[i] = data[m]
      BY <2>2 DEF Reorders
    <3> QED BY <1>2, <3>1 DEF Places
  <2>5. ASSUME NEW k \in K PROVE \E i \in 1 .. Len(order) : Placed(order[i], k, off, valid)
    <3>1. k \in 1 .. M /\ Emits[k] \in valid
      BY DEF ValidUpTo
    <3>2. PICK m \in 1 .. Len(data) : Placed(data[m], k, off, valid)
      BY <1>2, <3>1 DEF Places
    <3>3. PICK i \in 1 .. Len(order) : order[i] = data[m]
      BY <2>2, <3>2 DEF Reorders
    <3> QED BY <3>2, <3>3
  <2> QED BY <2>3, <2>4, <2>5, EmitsRun
<1>5. EntryAction(d) = IF mo > 0 THEN res \o emits ELSE emits \o res
  BY <1>2 DEF EntryAction, WithResidual
<1>6. rest + mo = end
  BY <1>1, <1>3
<1> DEFINE block == ResiBlockSize(rest + mo, rest)
<1>7. block = IF mo > 0 THEN StackSize - end ELSE StackSize - rest
  <2> HIDE DEF rest, end, mo
  <2> QED BY <1>1, <1>3, <1>6 DEF ResiBlockSize
<1>8. block \in Nat
  <2> HIDE DEF rest, end, mo, block
  <2> QED BY <1>1, <1>7
<1>9. res \in Seq(Op)
  <2>1. CASE mo = 0
    BY <2>1
  <2>2. CASE mo # 0
    <3>1. move \in Seq(Op)
      <4> HIDE DEF block, rest, mo
      <4>1. rest \in Int /\ block \in Nat /\ mo \in Int
        BY <1>1, <1>3, <1>8
      <4>2. MoveCode(CreateByteMove(rest, mo, block), rest, mo, block)
        BY <4>1, MoveBytes
      <4> QED BY <4>2 DEF MoveCode, block
    <3> QED BY <2>2, <3>1
  <2> QED BY <2>1, <2>2
<1>10. ASSUME NEW p, NEW q, OnStack(p), mo # 0, Ran(res, Len(res), p, q)
       PROVE  /\ OnStack(q)
              /\ \A j \in 0 .. StackSize - 1 :
                   q[j] = IF end <= j /\ j < end + block THEN p[j - mo] ELSE p[j]
  <2>1. res = CreateByteMove(rest, mo, block)
    BY <1>10
  <2> HIDE DEF res, rest, mo, end, block
  <2>2. /\ rest \in Nat /\ mo \in Int /\ block \in Nat /\ end \in Nat /\ rest + mo = end
        /\ rest + block <= StackSize /\ rest + mo >= 0 /\ rest + mo + block <= StackSize
    BY <1>1, <1>3, <1>6, <1>7, <1>8
  <2>3. Ran(CreateByteMove(rest, mo, block), Len(CreateByteMove(rest, mo, block)), p, q)
    BY <1>10, <2>1
  <2>4. mo # 0 /\ OnStack(p)
    BY <1>10
  <2>5. OnStack(q) /\ Shifted(p, q, rest, mo, block)
    BY ONLY <2>2, <2>3, <2>4, MoveRun
  <2> QED BY <2>2, <2>5 DEF Shifted
<1>0. EntryAction(d) \in Seq(Op)
  <2> HIDE DEF res, emits
  <2>1. res \o emits \in Seq(Op) /\ emits \o res \in Seq(Op)
    BY <1>4, <1>9
  <2> QED BY <1>5, <2>1
<1> SUFFICES ASSUME NEW s, NEW t, OnStack(s), Ran(EntryAction(d), Len(EntryAction(d)), s, t)
             PROVE  Rewritten(s, t, off, parsed, valid)
  BY <1>0 DEF Handles
<1>11. ASSUME NEW u, HeadersWritten(s, u, off, valid, M, K) \/ HeadersWritten(u, t, off, valid, M, K)
       PROVE  \A j \in 0 .. StackSize - 1 :
                /\ HeadersWritten(s, u, off, valid, M, K) => (j < off \/ end <= j => u[j] = s[j])
                /\ HeadersWritten(u, t, off, valid, M, K) => (j < off \/ end <= j => t[j] = u[j])
  BY DEF HeadersWritten
<1>12. ASSUME \A j \in 0 .. StackSize - 1 :
                /\ j < off => t[j] = s[j]
                /\ end <= j /\ j - mo < StackSize => t[j] = s[j - mo],
              \A n \in 1 .. M : Emits[n] \in valid => HeaderAt(t, off + WidthUpTo(valid)[n - 1], Emits[n])
       PROVE  Rewritten(s, t, off, parsed, valid)
  <2>1. ASSUME NEW j \in 0 .. StackSize - 1 PROVE j - end + rest = j - mo
    <3> HIDE DEF end, rest, mo
    <3> QED BY <1>1, <1>3
  <2> QED BY <1>12, <2>1 DEF Rewritten
<1>13. CASE mo > 0
  <2>1. Ran(res \o emits, Len(res \o emits), s, t)
    BY <1>5, <1>13
  <2> HIDE DEF res, emits
  <2>2. PICK u : Ran(res, Len(res), s, u) /\ Ran(emits, Len(emits), u, t)
    BY <1>4, <1>9, <2>1, RanConcat
  <2>3. mo # 0
    BY <1>3, <1>13
  <2>4. /\ OnStack(u)
        /\ \A j \in 0 .. StackSize - 1 :
             u[j] = IF end <= j /\ j < end + block THEN s[j - mo] ELSE s[j]
    BY <1>10, <2>2, <2>3
  <2>5. HeadersWritten(u, t, off, valid, M, K)
    BY <1>4, <2>2, <2>4
  <2>6. \A j \in 0 .. StackSize - 1 : j < off \/ end <= j => t[j] = u[j]
    BY <1>11, <2>5
  <2>7. ASSUME NEW j \in 0 .. StackSize - 1
        PROVE  /\ j < off => t[j] = s[j]
               /\ end <= j /\ j - mo < StackSize => t[j] = s[j - mo]
    <3> HIDE DEF end, rest, mo, block
    <3>1. j < off => ~(end <= j)
      BY <1>1
    <3>2. end <= j => j < end + block
      BY <1>1, <1>7, <1>13
    <3> QED BY <2>4, <2>6, <3>1, <3>2
  <2>8. ASSUME NEW n \in 1 .. M, Emits[n] \in valid
        PROVE  HeaderAt(t, off + WidthUpTo(valid)[n - 1], Emits[n])
    BY <2>5, <2>8, HeadersKept
  <2> QED BY <1>12, <2>7, <2>8
<1>14. CASE ~(mo > 0)
  <2>1. Ran(emits \o res, Len(emits \o res), s, t)
    BY <1>5, <1>14
  <2>2. PICK u : Ran(emits, Len(emits), s, u) /\ Ran(res, Len(res), u, t)
    <3> HIDE DEF res, emits
    <3> QED BY <1>4, <1>9, <2>1, RanConcat
  <2> HIDE DEF emits
  <2>3. HeadersWritten(s, u, off, valid, M, K)
    BY <1>4, <2>2
  <2>4. OnStack(u)
    BY <2>3 DEF HeadersWritten
  <2>5. \A j \in 0 .. StackSize - 1 : j < off \/ end <= j => u[j] = s[j]
    BY <1>11, <2>3
  <2>6. \A j \in 0 .. StackSize - 1 :
          t[j] = IF mo # 0 /\ end <= j /\ j < end + block THEN u[j - mo] ELSE u[j]
    <3>1. CASE mo = 0
      <4>1. res = <<>>
        BY <3>1
      <4>2. t = u
        BY <2>2, <4>1, RanNothing
      <4> QED BY <3>1, <4>2
    <3>2. CASE mo # 0
      <4>1. \A j \in 0 .. StackSize - 1 :
              t[j] = IF end <= j /\ j < end + block THEN u[j - mo] ELSE u[j]
        BY <1>10, <2>2, <2>4, <3>2
      <4> QED BY <3>2, <4>1
    <3> QED BY <3>1, <3>2
  <2>7. ASSUME NEW j \in 0 .. StackSize - 1
        PROVE  /\ j < off => t[j] = s[j]
               /\ end <= j /\ j - mo < StackSize => t[j] = s[j - mo]
    <3> HIDE DEF end, rest, mo, block
    <3>1. j < off => ~(end <= j)
      BY <1>1
    <3>2. CASE end <= j /\ j - mo < StackSize /\ mo # 0
      <4>1. j < end + block /\ j - mo \in 0 .. StackSize - 1 /\ end <= j - mo
        BY <1>1, <1>3, <1>7, <1>14, <3>2
      <4> QED BY <2>5, <2>6, <3>1, <3>2, <4>1
    <3>3. CASE end <= j /\ mo = 0
      <4>1. j - mo = j
        BY <3>3
      <4> QED BY <2>5, <2>6, <3>1, <3>3, <4>1
    <3>4. CASE ~(end <= j)
      <4>1. t[j] = u[j]
        BY <2>6, <3>4
      <4>2. j < off => u[j] = s[j]
        BY <2>5
      <4> QED BY <3>4, <4>1, <4>2
    <3>5. CASE end <= j /\ ~(j - mo < StackSize)
      BY <3>1, <3>5
    <3> QED BY <3>2, <3>3, <3>4, <3>5
  <2>8. \A j \in 0 .. StackSize - 1 : j < end => t[j] = u[j]
    <3>1. ASSUME NEW j \in 0 .. StackSize - 1, j < end PROVE ~(end <= j)
      <4> HIDE DEF end
      <4> QED BY <1>1, <3>1
    <3> QED BY <2>6, <3>1
  <2>9. ASSUME NEW n \in 1 .. M, Emits[n] \in valid
        PROVE  HeaderAt(t, off + WidthUpTo(valid)[n - 1], Emits[n])
    BY <2>3, <2>8, <2>9, HeadersKept
  <2> QED BY <1>12, <2>7, <2>9
<1> QED BY <1>13, <1>14

----------------------------------------------------------------------------
(* Every assignment of an action stays on the stack. *)

\* An assignment that writes to the stack and reads from it or from within a header.
Contained(a) ==
  /\ a.dst \in 0 .. StackSize - 1
  /\ IF a.hdr = "stack" THEN a.src \in 0 .. StackSize - 1
     ELSE a.hdr \in Headers /\ a.src \in 0 .. Width[a.hdr] - 1

AllContained(c) == \A i \in 1 .. Len(c) : Contained(c[i])

LEMMA NothingContained == AllContained(<<>>)
<1> DEFINE z == <<>>
<1>1. Len(z) = 0
  OBVIOUS
<1> HIDE DEF z
<1>2. AllContained(z)
  BY <1>1 DEF AllContained
<1> QED BY <1>2 DEF z

LEMMA ConcatContained ==
  ASSUME NEW c \in Seq(Op), NEW e \in Seq(Op), AllContained(c), AllContained(e)
  PROVE  AllContained(c \o e)
<1> DEFINE r == c \o e
<1>1. /\ Len(r) = Len(c) + Len(e) /\ Len(c) \in Nat /\ Len(e) \in Nat
      /\ \A i \in 1 .. Len(c) : r[i] = c[i]
      /\ \A i \in 1 .. Len(e) : r[Len(c) + i] = e[i]
  BY ConcatElements
<1> HIDE DEF r
<1>2. ASSUME NEW i \in 1 .. Len(r) PROVE Contained(r[i])
  <2>1. CASE i <= Len(c)
    <3>1. i \in 1 .. Len(c)
      BY <1>1, <2>1
    <3> QED BY <1>1, <3>1 DEF AllContained
  <2>2. CASE i > Len(c)
    <3>1. i - Len(c) \in 1 .. Len(e) /\ Len(c) + (i - Len(c)) = i
      BY <1>1, <2>2
    <3>2. r[i] = e[i - Len(c)]
      BY <1>1, <3>1
    <3> QED BY <3>1, <3>2 DEF AllContained
  <2> QED BY <1>1, <2>1, <2>2
<1> QED BY <1>2 DEF AllContained, r

\* A header that is written to a place on the stack.
LEMMA WriteContained ==
  ASSUME NEW h \in Headers, NEW to \in Nat, to + Width[h] <= StackSize
  PROVE  AllContained(WriteHeader(h, to))
<1> DEFINE c == WriteHeader(h, to)
           w == Width[h]
<1>1. w \in Nat \ {0} /\ StackSize \in Nat /\ h # "stack"
  BY DeparserAssumption, StackAssumption
<1>2. Len(c) = w /\ \A i \in 1 .. w : c[i] = WriteByte(to + i - 1, h, i - 1)
  BY WriteHeaderBytes
<1>3. to + w <= StackSize
  OBVIOUS
<1> HIDE DEF c, w
<1>4. ASSUME NEW i \in 1 .. w PROVE Contained(c[i])
  <2>1. to + i - 1 \in 0 .. StackSize - 1 /\ i - 1 \in 0 .. w - 1
    BY <1>1, <1>3
  <2>2. c[i].dst = to + i - 1 /\ c[i].hdr = h /\ c[i].src = i - 1
    BY <1>2 DEF WriteByte
  <2> QED BY <1>1, <2>1, <2>2 DEF Contained, w
<1> QED BY <1>2, <1>4 DEF AllContained, c

\* A block that lies on the stack, and so does its new place.
LEMMA MoveContained ==
  ASSUME NEW lo \in Nat, NEW by \in Int, NEW n \in Nat, lo + by >= 0,
         lo + n <= StackSize, lo + by + n <= StackSize
  PROVE  AllContained(CreateByteMove(lo, by, n))
<1> DEFINE c == CreateByteMove(lo, by, n)
<1>1. MoveCode(c, lo, by, n) /\ StackSize \in Nat
  BY MoveBytes, StackAssumption
<1> HIDE DEF c
<1>2. Len(c) = n
  BY <1>1 DEF MoveCode
<1>3. ASSUME NEW k \in 1 .. n PROVE Contained(c[k])
  <2> DEFINE i == IF by > 0 THEN n - k ELSE k - 1
  <2>1. i \in 0 .. n - 1
    OBVIOUS
  <2>2. c[k].dst = lo + by + i /\ c[k].hdr = "stack" /\ c[k].src = lo + i
    BY <1>1 DEF MoveCode
  <2> HIDE DEF i
  <2>3. lo + by + i \in 0 .. StackSize - 1 /\ lo + i \in 0 .. StackSize - 1
    BY <1>1, <2>1
  <2> QED BY <2>2, <2>3 DEF Contained
<1> QED BY <1>2, <1>3 DEF AllContained, c

\* A header that is moved, if at all, from a place on the stack.
LEMMA EmitContained ==
  ASSUME NEW x \in Element, x.h \in Headers, NEW to \in Nat, to = x.os + x.mo,
         to + Width[x.h] <= StackSize,
         x.mo # 0 => x.os \in Nat /\ x.os + Width[x.h] <= StackSize
  PROVE  AllContained(Emit(x))
<1> DEFINE l == Width[x.h]
           move == IF x.mo # 0 THEN CreateByteMove(x.os, x.mo, l) ELSE <<>>
           write == WriteHeader(x.h, to)
<1>1. /\ StackSize \in Nat /\ l \in Nat \ {0} /\ x.os \in Int /\ x.mo \in Int
      /\ to + l <= StackSize
  BY StackAssumption, DeparserAssumption DEF Element
<1>2. Emit(x) = move \o write
  <2>1. (IF to <= StackSize /\ to + l > StackSize THEN StackSize - to ELSE l) = l
    BY <1>1
  <2> QED BY <2>1 DEF Emit
<1>3. write \in Seq(Op) /\ AllContained(write)
  BY WriteHeaderBytes, WriteContained
<1>4. move \in Seq(Op) /\ AllContained(move)
  <2>1. CASE x.mo = 0
    <3> DEFINE z == <<>>
    <3>1. z \in Seq(Op) /\ AllContained(z)
      BY NothingContained
    <3> QED BY <2>1, <3>1
  <2>2. CASE x.mo # 0
    <3> DEFINE c == CreateByteMove(x.os, x.mo, l)
               os == x.os
               mo == x.mo
    <3>1. os \in Nat /\ mo \in Int /\ os + mo = to /\ os + l <= StackSize
      BY <1>1, <2>2
    <3>2. MoveCode(c, os, mo, l)
      BY <1>1, MoveBytes
    <3>3. c \in Seq(Op)
      BY <3>2 DEF MoveCode
    <3> HIDE DEF os, mo, l
    <3>4. os + mo >= 0 /\ os + mo + l <= StackSize /\ l \in Nat
      BY <1>1, <3>1
    <3>5. AllContained(CreateByteMove(os, mo, l))
      BY <3>1, <3>4, MoveContained
    <3> QED BY <2>2, <3>3, <3>5 DEF os, mo
  <2> QED BY <2>1, <2>2
<1> HIDE DEF move, write
<1> QED BY <1>2, <1>3, <1>4, ConcatContained

\* A header that is moved has its old place before the rest of the packet.
SourcesBefore(d) ==
  \A m \in 1 .. Len(d.data) :
    d.data[m].mo # 0 =>
      d.data[m].os \in Nat /\ d.data[m].os + WidthOf(d.data[m].h) <= d.curr

LEMMA VisitKeySources ==
  ASSUME NEW d \in EmitDataType, SourcesBefore(d),
         NEW h \in Headers \cup {OffsetKey}, NEW value, NEW ops
  PROVE  SourcesBefore(VisitKey(d, h, value, ops))
<1> DEFINE w == WidthOf(h)
           e == VisitKey(d, h, value, ops)
           x == [os |-> d.curr + d.mo, mo |-> 0, h |-> h]
           y == [os |-> d.curr, mo |-> d.mo, h |-> h]
<1>1. w \in Nat /\ \A g \in Headers \cup {OffsetKey} : WidthOf(g) \in Nat
  <2>1. Width \in [Headers -> Nat \ {0}]
    BY DeparserAssumption
  <2> QED BY <2>1 DEF WidthOf
<1>2. d.data \in Seq(Element) /\ d.mo \in Int /\ d.curr \in Nat /\ Len(d.data) \in Nat
  BY DEF EmitDataType
<1>3. x \in Element /\ y \in Element
  BY <1>2 DEF Element
<1>4. /\ x.mo = 0 /\ y.os = d.curr /\ y.h = h
  OBVIOUS
<1>5. d = [data |-> d.data, mo |-> d.mo, curr |-> d.curr]
  BY DEF EmitDataType
<1>6. \/ e = d
      \/ e = [data |-> Append(d.data, x), mo |-> d.mo + w, curr |-> d.curr]
      \/ e = [data |-> Append(d.data, y), mo |-> d.mo, curr |-> d.curr + w]
      \/ e = [data |-> d.data, mo |-> d.mo - w, curr |-> d.curr + w]
  BY <1>5 DEF VisitKey
<1>7. /\ e.curr \in Nat /\ d.curr <= e.curr
      /\ \/ e.data = d.data
         \/ e.data = Append(d.data, x)
         \/ e.data = Append(d.data, y) /\ e.curr = d.curr + w
  <2> HIDE DEF e, w, x, y
  <2> QED BY <1>1, <1>2, <1>6
<1> HIDE DEF e, x, y, w
<1>8. ASSUME NEW m \in 1 .. Len(d.data), d.data[m].mo # 0
      PROVE  d.data[m].os \in Nat /\ d.data[m].os + WidthOf(d.data[m].h) <= e.curr
  <2>1. d.data[m].os \in Nat /\ d.data[m].os + WidthOf(d.data[m].h) <= d.curr
    BY <1>8 DEF SourcesBefore
  <2>2. d.data[m].h \in Headers \cup {OffsetKey}
    <3>1. d.data[m] \in Element
      BY <1>2
    <3> QED BY <3>1 DEF Element
  <2>3. WidthOf(d.data[m].h) \in Nat
    BY <1>1, <2>2
  <2> QED BY <1>2, <1>7, <2>1, <2>3
<1>9. ASSUME NEW z \in Element, e.data = Append(d.data, z),
             z.mo # 0 => z.os \in Nat /\ z.os + WidthOf(z.h) <= e.curr
      PROVE  SourcesBefore(e)
  <2> DEFINE r == Append(d.data, z)
  <2>1. /\ Len(r) = Len(d.data) + 1
        /\ \A i \in 1 .. Len(d.data) : r[i] = d.data[i]
        /\ r[Len(d.data) + 1] = z
    BY <1>2, AppendElements
  <2>2. e.data = r
    BY <1>9
  <2> HIDE DEF r
  <2>3. ASSUME NEW m \in 1 .. Len(r), r[m].mo # 0
        PROVE  r[m].os \in Nat /\ r[m].os + WidthOf(r[m].h) <= e.curr
    <3>1. CASE m = Len(d.data) + 1
      BY <1>9, <2>1, <2>3, <3>1
    <3>2. CASE m # Len(d.data) + 1
      <4>1. m \in 1 .. Len(d.data)
        BY <1>2, <2>1, <3>2
      <4>2. r[m] = d.data[m]
        BY <2>1, <4>1
      <4> QED BY <1>8, <2>3, <4>1, <4>2
    <3> QED BY <3>1, <3>2
  <2> QED BY <2>2, <2>3 DEF SourcesBefore
<1>10. ASSUME e.data = d.data PROVE SourcesBefore(e)
  BY <1>8, <1>10 DEF SourcesBefore
<1>11. ASSUME e.data = Append(d.data, x) PROVE SourcesBefore(e)
  BY <1>3, <1>4, <1>9, <1>11
<1>12. ASSUME e.data = Append(d.data, y), e.curr = d.curr + w PROVE SourcesBefore(e)
  <2>1. y.os \in Nat /\ y.os + WidthOf(y.h) <= e.curr
    BY <1>1, <1>2, <1>4, <1>12 DEF w
  <2> QED BY <1>3, <1>9, <1>12, <2>1
<1>13. SourcesBefore(e)
  BY <1>7, <1>10, <1>11, <1>12
<1> QED BY <1>13 DEF e

LEMMA EmitDataSources ==
  ASSUME HasOffsetKey, NEW entry \in Entry, NEW values, NEW ops
  PROVE  SourcesBefore(EmitData(entry, values, ops))
<1> DEFINE N == Len(Emits) + 1
           b == [data |-> <<>>, mo |-> 0, curr |-> entry.init]
<1>1. N \in Nat
  BY EmitsType
<1>2. PICK v : /\ v[0] = b
               /\ \A j \in 1 .. N : v[j] = VisitKey(v[j - 1], KeyNames[j], values[j], ops)
               /\ v[N] = EmitData(entry, values, ops)
  BY EmitDataDef
<1>3. KeyNames \in Seq(Headers \cup {OffsetKey}) /\ Len(KeyNames) = N
  BY KeyNamesType
<1>4. b \in EmitDataType /\ SourcesBefore(b)
  <2> DEFINE z == <<>>
  <2>1. z \in Seq(Element) /\ Len(z) = 0
    OBVIOUS
  <2>2. entry.init \in Nat
    BY DEF Entry
  <2>3. b = [data |-> z, mo |-> 0, curr |-> entry.init]
    OBVIOUS
  <2> HIDE DEF z, b
  <2>4. b \in EmitDataType
    BY <2>1, <2>2, <2>3 DEF EmitDataType
  <2>5. b.data = z
    BY <2>3
  <2>6. SourcesBefore(b)
    BY <2>1, <2>5 DEF SourcesBefore
  <2> QED BY <2>4, <2>6
<1> HIDE DEF N, b
<1> DEFINE T == {n \in Nat : n <= N => v[n] \in EmitDataType /\ SourcesBefore(v[n])}
<1>5. 0 \in T
  BY <1>2, <1>4
<1>6. ASSUME NEW n \in Nat, n \in T PROVE n + 1 \in T
  <2> SUFFICES ASSUME n + 1 <= N PROVE v[n + 1] \in EmitDataType /\ SourcesBefore(v[n + 1])
    OBVIOUS
  <2> DEFINE d == v[n]
             h == KeyNames[n + 1]
             value == values[n + 1]
  <2>1. n + 1 \in 1 .. N /\ (n + 1) - 1 = n /\ d \in EmitDataType /\ SourcesBefore(d)
    BY <1>1, <1>6
  <2>2. v[n + 1] = VisitKey(d, h, value, ops) /\ h \in Headers \cup {OffsetKey}
    BY <1>2, <1>3, <2>1
  <2> HIDE DEF d, h, value
  <2>3. VisitKey(d, h, value, ops) \in EmitDataType
    BY <2>1, <2>2, VisitKeyType
  <2>4. SourcesBefore(VisitKey(d, h, value, ops))
    BY <2>1, <2>2, VisitKeySources
  <2> QED BY <2>2, <2>3, <2>4
<1> HIDE DEF T
<1>7. N \in T
  BY <1>1, <1>5, <1>6, NatSetInduction
<1> QED BY <1>1, <1>2, <1>7 DEF T

LEMMA EmitsContained ==
  ASSUME NEW order, NEW N \in Nat, Len(order) = N,
         \A i \in 1 .. N : Emit(order[i]) \in Seq(Op) /\ AllContained(Emit(order[i]))
  PROVE  EmitsInOrder(order)[N] \in Seq(Op) /\ AllContained(EmitsInOrder(order)[N])
<1> DEFINE c == EmitsInOrder(order)
<1>1. /\ c \in [0 .. N -> Seq(Op)] /\ c[0] = <<>>
      /\ \A i \in 1 .. N : c[i] = c[i - 1] \o Emit(order[i])
  BY EmitsInOrderDef
<1> HIDE DEF c
<1> DEFINE T == {i \in Nat : i <= N => AllContained(c[i])}
<1>2. 0 \in T
  BY <1>1, NothingContained
<1>3. ASSUME NEW i \in Nat, i \in T PROVE i + 1 \in T
  <2> SUFFICES ASSUME i + 1 <= N PROVE AllContained(c[i + 1])
    OBVIOUS
  <2> DEFINE p == c[i]
             e == Emit(order[i + 1])
  <2>1. i + 1 \in 1 .. N /\ (i + 1) - 1 = i /\ AllContained(p)
    BY <1>3
  <2>2. p \in Seq(Op) /\ c[i + 1] = p \o e
    <3>1. i \in 0 .. N
      BY <2>1
    <3> QED BY <1>1, <2>1, <3>1
  <2>3. e \in Seq(Op) /\ AllContained(e)
    BY <2>1
  <2> HIDE DEF p, e
  <2>4. AllContained(p \o e)
    BY <2>1, <2>2, <2>3, ConcatContained
  <2> QED BY <2>2, <2>4
<1> HIDE DEF T
<1>4. N \in T
  BY <1>2, <1>3, NatSetInduction
<1> QED BY <1>1, <1>4 DEF T, c

\* The action of an entry: the headers have their places before the end of the stack, and the
\* block that the rest of the packet is cut to ends there.
LEMMA EntryActionContained ==
  ASSUME NEW d, NEW off \in Nat, NEW parsed, NEW valid,
         EmitDataInv(d, Len(Emits), off, parsed, valid), SourcesBefore(d),
         off + WidthUpTo(parsed)[Len(Emits)] <= StackSize,
         off + WidthUpTo(valid)[Len(Emits)] <= StackSize
  PROVE  AllContained(EntryAction(d))
<1> DEFINE M == Len(Emits)
           order == EmitOrder(d.data)
           emits == EmitsInOrder(order)[Len(order)]
           mo == d.mo
           rest == off + WidthUpTo(parsed)[M]
           end == off + WidthUpTo(valid)[M]
           block == ResiBlockSize(rest + mo, rest)
           move == CreateByteMove(rest, mo, block)
           res == IF mo # 0 THEN move ELSE <<>>
<1>1. /\ d \in EmitDataType /\ d.curr = rest /\ Places(d.data, M, off, valid)
      /\ mo = WidthUpTo(valid)[M] - WidthUpTo(parsed)[M]
  BY DEF EmitDataInv
<1>2. M \in 0 .. M /\ M \in Nat /\ StackSize \in Nat
  BY EmitsType, StackAssumption
<1>3. WidthUpTo(parsed)[M] \in Nat
  BY <1>2, WidthDef
<1>4. WidthUpTo(valid)[M] \in Nat
  BY <1>2, WidthDef
<1>5. /\ rest \in Nat /\ end \in Nat /\ mo \in Int /\ rest + mo = end
      /\ rest <= StackSize /\ end <= StackSize
  BY <1>1, <1>3, <1>4
<1>6. emits \in Seq(Op) /\ AllContained(emits)
  <2> DEFINE data == d.data
             N == Len(order)
  <2>1. data \in Seq(Element) /\ Len(data) \in Nat
    BY <1>1 DEF Places
  <2>2. Reorders(order, data, Len(data))
    BY <2>1, EmitOrderReorders
  <2> HIDE DEF order
  <2>3. N \in Nat
    BY <2>2 DEF Reorders
  <2>4. ASSUME NEW i \in 1 .. N
        PROVE  Emit(order[i]) \in Seq(Op) /\ AllContained(Emit(order[i]))
    <3>1. PICK m \in 1 .. Len(data) : order[i] = data[m]
      BY <2>2 DEF Reorders
    <3> DEFINE x == data[m]
    <3>2. PICK k \in 1 .. M : Placed(x, k, off, valid)
      BY <1>1 DEF Places
    <3> DEFINE to == off + WidthUpTo(valid)[k - 1]
    <3>3. /\ x \in Element /\ Emits[k] \in valid /\ x.h = Emits[k] /\ x.os + x.mo = to
          /\ x.mo # 0 => x.os \in Nat /\ x.os + WidthOf(x.h) <= rest
      BY <1>1, <2>1, <3>2 DEF Placed, SourcesBefore
    <3>4. x.h \in Headers /\ Width[x.h] \in Nat /\ WidthOf(x.h) = Width[x.h]
      <4>1. Emits[k] \in Headers /\ Width[Emits[k]] \in Nat
        BY EmitsType
      <4>2. Emits[k] # OffsetKey
        BY <4>1, DeparserAssumption
      <4> HIDE DEF x
      <4> QED BY <3>3, <4>1, <4>2 DEF WidthOf
    <3>5. /\ WidthUpTo(valid)[k - 1] \in Nat
          /\ WidthUpTo(valid)[k - 1] + Width[Emits[k]] <= WidthUpTo(valid)[M]
      <4>1. k \in ValidUpTo(valid, M) /\ M \in k .. M
        BY <1>2, <3>3 DEF ValidUpTo
      <4> QED BY <4>1, PlacesApart
    <3>6. to \in Nat /\ to + Width[x.h] <= StackSize
      <4> DEFINE a == WidthUpTo(valid)[k - 1]
                 l == Width[Emits[k]]
                 z == WidthUpTo(valid)[M]
      <4>1. a \in Nat /\ l \in Nat /\ a + l <= z /\ z \in Nat /\ end = off + z /\ to = off + a
            /\ Width[x.h] = l /\ end <= StackSize /\ StackSize \in Nat /\ off \in Nat
        BY <1>2, <1>4, <1>5, <3>3, <3>4, <3>5
      <4> HIDE DEF a, l, z, end, to, x
      <4>2. off + a \in Nat /\ off + a + l <= StackSize
        BY ONLY <4>1
      <4> QED BY <4>1, <4>2
    <3>7. x.mo # 0 => x.os \in Nat /\ x.os + Width[x.h] <= StackSize
      <4> HIDE DEF rest, x
      <4> QED BY <1>2, <1>5, <3>3, <3>4
    <3> HIDE DEF x, to
    <3>8. Emit(x) \in Seq(Op)
      BY <3>3, <3>4, <3>6, EmitRun
    <3>9. AllContained(Emit(x))
      BY <3>3, <3>4, <3>6, <3>7, EmitContained
    <3> QED BY <3>1, <3>8, <3>9 DEF x
  <2> QED BY <2>3, <2>4, EmitsContained
<1>7. EntryAction(d) = IF mo > 0 THEN res \o emits ELSE emits \o res
  BY <1>1 DEF EntryAction, WithResidual
<1>8. block = IF mo > 0 THEN StackSize - end ELSE StackSize - rest
  <2> HIDE DEF rest, end, mo
  <2> QED BY <1>2, <1>5 DEF ResiBlockSize
<1>9. res \in Seq(Op) /\ AllContained(res)
  <2>1. CASE mo = 0
    <3> DEFINE z == <<>>
    <3>1. z \in Seq(Op) /\ AllContained(z)
      BY NothingContained
    <3> QED BY <2>1, <3>1
  <2>2. CASE mo # 0
    <3> HIDE DEF block, rest, mo, end
    <3>1. /\ block \in Nat /\ rest + mo >= 0
          /\ rest + block <= StackSize /\ rest + mo + block <= StackSize
      BY <1>2, <1>5, <1>8
    <3>2. MoveCode(CreateByteMove(rest, mo, block), rest, mo, block)
      BY <1>5, <3>1, MoveBytes
    <3>3. AllContained(CreateByteMove(rest, mo, block))
      BY <1>5, <3>1, MoveContained
    <3> QED BY <2>2, <3>2, <3>3 DEF MoveCode
  <2> QED BY <2>1, <2>2
<1> HIDE DEF res, emits
<1>10. AllContained(res \o emits) /\ AllContained(emits \o res)
  BY <1>6, <1>9, ConcatContained
<1> QED BY <1>7, <1>10

----------------------------------------------------------------------------
(* The actions of the entries, without operations. *)

\* An assignment of a byte of a header before `end'.
Fills(a, end) ==
  a.hdr \in Headers /\ a.src \in 0 .. Width[a.hdr] - 1 /\ a.dst \in 0 .. end - 1

\* The action puts the headers of Q, as far as they are among the first n emitted ones, where
\* they belong and changes nothing else.
Writes(act, off, Q, n) ==
  /\ act \in Seq(Op)
  /\ \A i \in 1 .. Len(act) : Fills(act[i], off + WidthUpTo(Q)[n])
  /\ \A s, t : OnStack(s) /\ Ran(act, Len(act), s, t)
                 => HeadersWritten(s, t, off, Q, n, ValidUpTo(Q, n))

LEMMA WritesNothing ==
  ASSUME NEW off \in Nat, NEW Q
  PROVE  Writes(<<>>, off, Q, 0)
<1> DEFINE act == <<>>
<1>1. act \in Seq(Op)
  OBVIOUS
<1>2. ASSUME NEW s, NEW t, OnStack(s), Ran(act, Len(act), s, t)
      PROVE  HeadersWritten(s, t, off, Q, 0, ValidUpTo(Q, 0))
  <2>1. t = s
    BY <1>2, RanNothing
  <2>2. ValidUpTo(Q, 0) = {}
    BY DEF ValidUpTo
  <2> QED BY <1>2, <2>1, <2>2 DEF HeadersWritten
<1>3. Len(act) = 0
  OBVIOUS
<1> HIDE DEF act
<1>4. Writes(act, off, Q, 0)
  BY <1>1, <1>2, <1>3 DEF Writes
<1> QED BY <1>4 DEF act

\* A header that is not in Q.
LEMMA WritesSame ==
  ASSUME NEW act, NEW off, NEW Q, NEW n \in 0 .. Len(Emits) - 1, Writes(act, off, Q, n),
         Emits[n + 1] \notin Q
  PROVE  Writes(act, off, Q, n + 1)
<1>1. n + 1 \in 1 .. Len(Emits) /\ (n + 1) - 1 = n /\ n \in Nat
  BY EmitsType
<1>2. WidthUpTo(Q)[n + 1] = WidthUpTo(Q)[n]
  <2>1. /\ WidthUpTo(Q) \in [0 .. Len(Emits) -> Nat]
        /\ WidthUpTo(Q)[n + 1] = WidthUpTo(Q)[(n + 1) - 1]
             + (IF Emits[n + 1] \in Q THEN Width[Emits[n + 1]] ELSE 0)
    BY <1>1, WidthDef
  <2>2. WidthUpTo(Q)[n] \in Nat
    BY <2>1
  <2> QED BY <1>1, <2>1, <2>2
<1>3. ValidUpTo(Q, n + 1) = ValidUpTo(Q, n)
  BY <1>1 DEF ValidUpTo
<1>4. ASSUME NEW s, NEW t, OnStack(s), Ran(act, Len(act), s, t)
      PROVE  HeadersWritten(s, t, off, Q, n + 1, ValidUpTo(Q, n + 1))
  <2>1. HeadersWritten(s, t, off, Q, n, ValidUpTo(Q, n))
    BY <1>4 DEF Writes
  <2> QED BY <1>2, <1>3, <2>1 DEF HeadersWritten
<1> QED BY <1>2, <1>4 DEF Writes

\* A header of Q: it is written first, behind the place of the others.
LEMMA WritesMore ==
  ASSUME NEW act, NEW off \in Nat, NEW Q, NEW n \in 0 .. Len(Emits) - 1,
         Writes(act, off, Q, n), Emits[n + 1] \in Q
  PROVE  Writes(WriteHeader(Emits[n + 1], off + WidthUpTo(Q)[n]) \o act, off, Q, n + 1)
<1> DEFINE h == Emits[n + 1]
           w == WidthUpTo(Q)
           to == off + w[n]
           write == WriteHeader(h, to)
           l == Width[h]
<1>1. n + 1 \in 1 .. Len(Emits) /\ (n + 1) - 1 = n /\ n \in Nat /\ StackSize \in Nat
  BY EmitsType, StackAssumption
<1>2. h \in Headers /\ l \in Nat \ {0}
  BY <1>1, EmitsType
<1>3. w[n] \in Nat /\ w[n + 1] = w[n] + l
  <2>1. /\ w \in [0 .. Len(Emits) -> Nat]
        /\ w[n + 1] = w[(n + 1) - 1] + (IF h \in Q THEN l ELSE 0)
    BY <1>1, WidthDef
  <2>2. w[n] \in Nat
    BY <2>1
  <2> QED BY <1>1, <2>1, <2>2
<1>4. to \in Nat /\ off + w[n + 1] = to + l
  <2> HIDE DEF w
  <2> QED BY <1>2, <1>3
<1>5. write \in Seq(Op)
  BY <1>2, <1>4, WriteHeaderBytes
<1>6. act \in Seq(Op)
  BY DEF Writes
<1>7. write \o act \in Seq(Op)
  <2> HIDE DEF write
  <2> QED BY <1>5, <1>6
<1>8. ASSUME NEW s, NEW t, OnStack(s), Ran(write \o act, Len(write \o act), s, t)
      PROVE  HeadersWritten(s, t, off, Q, n + 1, ValidUpTo(Q, n + 1))
  <2>1. PICK u : Ran(write, Len(write), s, u) /\ Ran(act, Len(act), u, t)
    <3> HIDE DEF write
    <3> QED BY <1>5, <1>6, <1>8, RanConcat
  <2>2. Put(s, u, to, h)
    BY <1>2, <1>4, <1>8, <2>1, WriteHeaderRun
  <2>3. OnStack(u)
    BY <2>2 DEF Put
  <2>4. HeadersWritten(u, t, off, Q, n, ValidUpTo(Q, n))
    BY <2>1, <2>3 DEF Writes
  <2>5. OnStack(t)
    BY <2>4 DEF HeadersWritten
  <2>6. \A j \in 0 .. StackSize - 1 : j < off \/ to <= j => t[j] = u[j]
    BY <2>4 DEF HeadersWritten
  <2>7. \A j \in 0 .. StackSize - 1 :
          u[j] = IF to <= j /\ j < to + l THEN HdrByte(h, j - to) ELSE s[j]
    BY <2>2 DEF Put
  <2>8. ASSUME NEW k \in ValidUpTo(Q, n + 1) PROVE HeaderAt(t, off + w[k - 1], Emits[k])
    <3>1. CASE k = n + 1
      <4>1. ASSUME NEW b \in 0 .. l - 1, to + b < StackSize PROVE t[to + b] = HdrByte(h, b)
        <5> DEFINE j == to + b
        <5> HIDE DEF to, l
        <5>1. j \in 0 .. StackSize - 1 /\ to <= j /\ j < to + l /\ j - to = b
          BY <1>1, <1>2, <1>4, <4>1
        <5> HIDE DEF j
        <5>2. t[j] = HdrByte(h, j - to)
          BY <2>6, <2>7, <5>1
        <5>3. t[j] = HdrByte(h, b)
          BY <5>1, <5>2
        <5> QED BY <5>3 DEF j
      <4>2. HeaderAt(t, to, h)
        BY <4>1 DEF HeaderAt
      <4> QED BY <1>1, <3>1, <4>2
    <3>2. CASE k # n + 1
      <4>1. k \in ValidUpTo(Q, n)
        BY <1>1, <3>2 DEF ValidUpTo
      <4> QED BY <2>4, <4>1 DEF HeadersWritten
    <3> QED BY <3>1, <3>2
  <2>9. ASSUME NEW j \in 0 .. StackSize - 1, j < off \/ off + w[n + 1] <= j PROVE t[j] = s[j]
    <3>1. (j < off \/ to <= j) /\ ~(to <= j /\ j < to + l)
      <4>1. off <= to
        <5> HIDE DEF w
        <5> QED BY <1>3
      <4> HIDE DEF to, l, w
      <4> QED BY <1>1, <1>2, <1>4, <2>9, <4>1
    <3> QED BY <2>6, <2>7, <3>1
  <2> QED BY <2>5, <2>8, <2>9 DEF HeadersWritten
<1>9. \A i \in 1 .. Len(write) : Fills(write[i], to + l)
  <2>1. Len(write) = l /\ \A i \in 1 .. l : write[i] = WriteByte(to + i - 1, h, i - 1)
    BY <1>2, <1>4, WriteHeaderBytes
  <2> HIDE DEF write, to, l
  <2>2. ASSUME NEW i \in 1 .. l PROVE Fills(write[i], to + l)
    <3> DEFINE a == write[i]
    <3>1. to + i - 1 \in 0 .. (to + l) - 1 /\ i - 1 \in 0 .. l - 1
      BY <1>2, <1>4
    <3>2. a = WriteByte(to + i - 1, h, i - 1)
      BY <2>1
    <3> HIDE DEF a, h
    <3>3. a.dst = to + i - 1 /\ a.hdr = h /\ a.src = i - 1
      BY <3>2 DEF WriteByte
    <3>4. Fills(a, to + l)
      BY <1>2, <3>1, <3>3 DEF Fills, l
    <3> QED BY <3>4 DEF a
  <2> QED BY <2>1, <2>2
<1>10. ASSUME NEW i \in 1 .. Len(act) PROVE Fills(act[i], to + l)
  <2>1. Fills(act[i], to)
    BY DEF Writes
  <2> HIDE DEF to, l
  <2>2. ASSUME NEW x \in 0 .. to - 1 PROVE x \in 0 .. (to + l) - 1
    BY <1>2, <1>4
  <2> DEFINE a == act[i]
  <2>3. Fills(a, to)
    BY <2>1
  <2> HIDE DEF a
  <2>4. a.dst \in 0 .. (to + l) - 1
    BY <2>2, <2>3 DEF Fills
  <2>5. Fills(a, to + l)
    BY <2>3, <2>4 DEF Fills
  <2> QED BY <2>5 DEF a
<1> HIDE DEF write, to, l
<1>11. ASSUME NEW i \in 1 .. Len(write \o act) PROVE Fills((write \o act)[i], to + l)
  <2> DEFINE r == write \o act
  <2>1. /\ Len(r) = Len(write) + Len(act) /\ Len(write) \in Nat /\ Len(act) \in Nat
        /\ \A j \in 1 .. Len(write) : r[j] = write[j]
        /\ \A j \in 1 .. Len(act) : r[Len(write) + j] = act[j]
    BY <1>5, <1>6, ConcatElements
  <2>2. i \in 1 .. Len(r)
    OBVIOUS
  <2> HIDE DEF r
  <2>3. ASSUME i <= Len(write) PROVE Fills(r[i], to + l)
    <3>1. i \in 1 .. Len(write)
      BY <2>1, <2>2, <2>3
    <3> QED BY <1>9, <2>1, <3>1
  <2>4. ASSUME i > Len(write) PROVE Fills(r[i], to + l)
    <3>1. i - Len(write) \in 1 .. Len(act) /\ Len(write) + (i - Len(write)) = i
      BY <2>1, <2>2, <2>4
    <3>2. r[i] = act[i - Len(write)]
      BY <2>1, <3>1
    <3> QED BY <1>10, <3>1, <3>2
  <2>5. i <= Len(write) \/ i > Len(write)
    BY <2>1, <2>2
  <2>6. Fills(r[i], to + l)
    BY <2>3, <2>4, <2>5
  <2> QED BY <2>6 DEF r
<1>12. Writes(write \o act, off, Q, n + 1)
  BY <1>4, <1>7, <1>8, <1>11 DEF Writes
<1> QED BY <1>12 DEF write, to

----------------------------------------------------------------------------
(* The entries, without operations, when the start offsets are apart. *)

\* The sets of the first n emitted headers an entry may be for.  createEmitTable does not ask
\* whether its header is parsed.
Combinations(n) ==
  {Q \in SUBSET {Emits[m] : m \in 1 .. n} :
     /\ \A h \in Q : h \in ParsedHeaders \/ (h = Emits[1] /\ ~HasOffsetKey)
     /\ \A X \in XoredHeaderSets : \A g, h \in Q \cap X : g = h}

\* No two packages' combinations end at the same offset before the last emit statement.
OffsetsApart ==
  /\ \A i, j \in DOMAIN initialOffsets : initialOffsets[i] = initialOffsets[j] => i = j
  /\ \A n \in 0 .. Len(Emits) - 2 :
       \A i, j \in DOMAIN initialOffsets : \A Q, R \in Combinations(n) :
         initialOffsets[i] + WidthUpTo(Q)[n] = initialOffsets[j] + WidthUpTo(R)[n]
           => i = j /\ Q = R

StartOf(e) == IF HasOffsetKey THEN e.init ELSE 0

Agrees(vals, n, Q) == \A m \in 1 .. n : vals[m] <=> Emits[m] \in Q

EntryRight(e, n) ==
  /\ \E i \in DOMAIN initialOffsets : StartOf(e) = initialOffsets[i]
  /\ \E Q \in Combinations(n) : Agrees(e.vals, n, Q)
  /\ \A Q : Agrees(e.vals, n, Q) =>
       /\ Writes(e.act, StartOf(e), Q, n)
       /\ n < Len(Emits) => e.curr = StartOf(e) + WidthUpTo(Q)[n]

SameKey(e, f, n) == StartOf(e) = StartOf(f) /\ \A m \in 1 .. n : e.vals[m] <=> f.vals[m]

\* Every entry's action writes the headers of its key, its offset is behind them, and no
\* other entry has the key.
WritesInv ==
  /\ \A k \in 1 .. Len(keyValueEmitOffsets) : EntryRight(keyValueEmitOffsets[k], emitted)
  /\ \A k, l \in 1 .. Len(keyValueEmitOffsets) :
       SameKey(keyValueEmitOffsets[k], keyValueEmitOffsets[l], emitted) => k = l

LEMMA StartType ==
  ASSUME NEW e \in Entry
  PROVE  StartOf(e) \in Nat
  BY DEF Entry, StartOf

LEMMA CombinationLess ==
  ASSUME NEW n \in 0 .. Len(Emits) - 1, NEW Q \in Combinations(n)
  PROVE  Q \in Combinations(n + 1) /\ Emits[n + 1] \notin Q
<1>1. n \in Nat /\ n + 1 \in 1 .. Len(Emits) /\ DOMAIN Emits = 1 .. Len(Emits)
  BY EmitsType
<1>2. {Emits[m] : m \in 1 .. n} \subseteq {Emits[m] : m \in 1 .. n + 1}
  BY <1>1
<1>3. Q \in Combinations(n + 1)
  BY <1>2 DEF Combinations
<1>4. ASSUME NEW m \in 1 .. n PROVE Emits[m] # Emits[n + 1]
  <2>1. m \in 1 .. Len(Emits) /\ m # n + 1
    BY <1>1
  <2> QED BY <1>1, <2>1, DeparserAssumption
<1>5. Emits[n + 1] \notin Q
  BY <1>4 DEF Combinations
<1> QED BY <1>3, <1>5

\* Two entries with the same offset are the same.
LEMMA OffsetsDiffer ==
  ASSUME EntriesInv, WritesInv, OffsetsApart, emitted <= Len(Emits) - 2,
         NEW k \in 1 .. Len(keyValueEmitOffsets), NEW l \in 1 .. Len(keyValueEmitOffsets),
         keyValueEmitOffsets[k].curr = keyValueEmitOffsets[l].curr
  PROVE  k = l
<1> DEFINE e == keyValueEmitOffsets[k]
           f == keyValueEmitOffsets[l]
           n == emitted
<1>1. n \in 0 .. Len(Emits) - 2 /\ n < Len(Emits)
  BY EmitsType DEF EntriesInv
<1>2. EntryRight(e, n) /\ EntryRight(f, n)
  BY DEF WritesInv
<1>3. SameKey(e, f, n) => k = l
  BY DEF WritesInv
<1>4. e.curr = f.curr
  OBVIOUS
<1> HIDE DEF e, f, n
<1>5. PICK i \in DOMAIN initialOffsets : StartOf(e) = initialOffsets[i]
  BY <1>2 DEF EntryRight
<1>6. PICK j \in DOMAIN initialOffsets : StartOf(f) = initialOffsets[j]
  BY <1>2 DEF EntryRight
<1>7. PICK Q \in Combinations(n) : Agrees(e.vals, n, Q)
  BY <1>2 DEF EntryRight
<1>8. PICK R \in Combinations(n) : Agrees(f.vals, n, R)
  BY <1>2 DEF EntryRight
<1>9. e.curr = StartOf(e) + WidthUpTo(Q)[n] /\ f.curr = StartOf(f) + WidthUpTo(R)[n]
  BY <1>1, <1>2, <1>7, <1>8 DEF EntryRight
<1>10. i = j /\ Q = R
  <2>1. initialOffsets[i] + WidthUpTo(Q)[n] = initialOffsets[j] + WidthUpTo(R)[n]
    BY <1>4, <1>5, <1>6, <1>9
  <2>2. \A a, b \in DOMAIN initialOffsets : \A S, T \in Combinations(n) :
          initialOffsets[a] + WidthUpTo(S)[n] = initialOffsets[b] + WidthUpTo(T)[n]
            => a = b /\ S = T
    BY <1>1 DEF OffsetsApart
  <2> HIDE DEF OffsetsApart
  <2> QED BY <2>1, <2>2, ZenonT(30)
<1>11. SameKey(e, f, n)
  BY <1>5, <1>6, <1>7, <1>8, <1>10 DEF SameKey, Agrees
<1> QED BY <1>3, <1>11

\* The entry without the next header.
LEMMA WithoutRight ==
  ASSUME EntriesInv, emitted < Len(Emits), NEW i \in 1 .. Len(keyValueEmitOffsets),
         EntryRight(keyValueEmitOffsets[i], emitted)
  PROVE  EntryRight(Without(i), emitted + 1)
<1> DEFINE e == keyValueEmitOffsets[i]
           f == Without(i)
           n == emitted
<1>1. /\ n \in 0 .. Len(Emits) - 1 /\ n + 1 \in 1 .. Len(Emits) /\ n < Len(Emits) /\ n \in Nat
      /\ n \in 0 .. Len(Emits)
  BY EmitsType DEF EntriesInv
<1>2. /\ e \in Entry /\ f.vals = Append(e.vals, FALSE) /\ f.init = e.init /\ f.act = e.act
  BY WithoutType
<1>3. f.curr = e.curr
  BY <1>2 DEF Without, Entry
<1>4. EntryRight(e, n) /\ Len(e.vals) = n
  BY DEF EntriesInv
<1> HIDE DEF e, f, n
<1>5. StartOf(f) = StartOf(e)
  BY <1>2 DEF StartOf
<1>6. (\A m \in 1 .. n : f.vals[m] <=> e.vals[m]) /\ ~f.vals[n + 1]
  <2>1. e.vals \in Seq(BOOLEAN)
    BY <1>2 DEF Entry
  <2> DEFINE v == e.vals
  <2> HIDE DEF v
  <2>2. /\ \A m \in 1 .. n : Append(v, FALSE)[m] <=> v[m]
        /\ ~Append(v, FALSE)[n + 1]
    BY <1>1, <1>4, <2>1, AppendFalse DEF v
  <2> QED BY <1>2, <2>2 DEF v
<1>7. ASSUME NEW Q
      PROVE  Agrees(f.vals, n + 1, Q) <=> Agrees(e.vals, n, Q) /\ Emits[n + 1] \notin Q
  <2>1. \A m \in 1 .. n + 1 : m \in 1 .. n \/ m = n + 1
    BY <1>1
  <2>2. \A m \in 1 .. n : m \in 1 .. n + 1
    BY <1>1
  <2>3. n + 1 \in 1 .. n + 1
    BY <1>1
  <2> QED BY <1>6, <2>1, <2>2, <2>3 DEF Agrees
<1>8. \E Q \in Combinations(n + 1) : Agrees(f.vals, n + 1, Q)
  <2>1. PICK Q \in Combinations(n) : Agrees(e.vals, n, Q)
    BY <1>4 DEF EntryRight
  <2> QED BY <1>1, <1>7, <2>1, CombinationLess
<1>9. ASSUME NEW Q, Agrees(f.vals, n + 1, Q)
      PROVE  /\ Writes(f.act, StartOf(f), Q, n + 1)
             /\ n + 1 < Len(Emits) => f.curr = StartOf(f) + WidthUpTo(Q)[n + 1]
  <2>1. Agrees(e.vals, n, Q) /\ Emits[n + 1] \notin Q
    BY <1>7, <1>9
  <2>2. Writes(e.act, StartOf(e), Q, n) /\ e.curr = StartOf(e) + WidthUpTo(Q)[n]
    BY <1>1, <1>4, <2>1 DEF EntryRight
  <2>3. Writes(e.act, StartOf(e), Q, n + 1)
    BY <1>1, <2>1, <2>2, WritesSame
  <2>4. WidthUpTo(Q)[n + 1] = WidthUpTo(Q)[n]
    <3>1. /\ WidthUpTo(Q) \in [0 .. Len(Emits) -> Nat] /\ (n + 1) - 1 = n
          /\ WidthUpTo(Q)[n + 1] = WidthUpTo(Q)[(n + 1) - 1]
               + (IF Emits[n + 1] \in Q THEN Width[Emits[n + 1]] ELSE 0)
      BY <1>1, WidthDef
    <3>2. WidthUpTo(Q)[n] \in Nat
      BY <1>1, <3>1
    <3> QED BY <2>1, <3>1, <3>2
  <2> QED BY <1>2, <1>3, <1>5, <2>2, <2>3, <2>4
<1>10. \E a \in DOMAIN initialOffsets : StartOf(f) = initialOffsets[a]
  BY <1>4, <1>5 DEF EntryRight
<1>11. EntryRight(f, n + 1)
  BY <1>8, <1>9, <1>10 DEF EntryRight
<1> QED BY <1>11 DEF f, n

\* A combination that an entry is kept for.
LEMMA CombinationMore ==
  ASSUME EntriesInv, emitted < Len(Emits), NEW i \in 1 .. Len(keyValueEmitOffsets),
         i \notin Dropped(Emits[emitted + 1]), NEW Q \in Combinations(emitted),
         Agrees(keyValueEmitOffsets[i].vals, emitted, Q)
  PROVE  Q \cup {Emits[emitted + 1]} \in Combinations(emitted + 1)
<1> DEFINE e == keyValueEmitOffsets[i]
           n == emitted
           h == Emits[n + 1]
           R == Q \cup {h}
           v == Append(e.vals, TRUE)
<1>1. n \in 0 .. Len(Emits) - 1 /\ n + 1 \in 1 .. Len(Emits) /\ n \in Nat
  BY EmitsType DEF EntriesInv
<1>2. /\ i \in DOMAIN keyValueEmitOffsets /\ e.vals \in Seq(BOOLEAN) /\ Len(e.vals) = n
  <2>1. keyValueEmitOffsets \in Seq(Entry) /\ Len(e.vals) = n
    BY DEF EntriesInv
  <2>2. i \in DOMAIN keyValueEmitOffsets /\ e \in Entry
    BY <2>1
  <2> QED BY <2>1, <2>2 DEF Entry
<1>3. h \in ParsedHeaders /\ ~EmitsXORedHdrs(v)
  BY <1>2 DEF Dropped
<1>4. Agrees(e.vals, n, Q)
  OBVIOUS
<1>5. /\ DOMAIN v = 1 .. n + 1 /\ v[n + 1]
      /\ \A m \in 1 .. n : v[m] <=> e.vals[m]
  <2> DEFINE u == e.vals
  <2>1. u \in Seq(BOOLEAN) /\ Len(u) = n
    BY <1>2
  <2> HIDE DEF u, n
  <2>2. /\ Append(u, TRUE) \in Seq(BOOLEAN) /\ Len(Append(u, TRUE)) = n + 1
        /\ \A m \in 1 .. n : Append(u, TRUE)[m] <=> u[m]
        /\ Append(u, TRUE)[n + 1]
    BY <1>1, <2>1, AppendTrue
  <2>3. DOMAIN Append(u, TRUE) = 1 .. n + 1
    BY <2>2
  <2> QED BY <2>2, <2>3 DEF u
<1> HIDE DEF v, e
<1>6. /\ Q \subseteq {Emits[m] : m \in 1 .. n}
      /\ \A g \in Q : g \in ParsedHeaders \/ (g = Emits[1] /\ ~HasOffsetKey)
      /\ \A X \in XoredHeaderSets : \A f, g \in Q \cap X : f = g
  BY DEF Combinations
<1>7. ASSUME NEW g \in R PROVE \E a \in 1 .. n + 1 : g = Emits[a] /\ v[a]
  <2>1. CASE g = h
    <3>1. n + 1 \in 1 .. n + 1
      BY <1>1
    <3> QED BY <1>5, <2>1, <3>1
  <2>2. CASE g \in Q
    <3>1. PICK a \in 1 .. n : g = Emits[a]
      BY <1>6, <2>2
    <3>2. v[a] /\ a \in 1 .. n + 1
      BY <1>1, <1>4, <1>5, <2>2, <3>1 DEF Agrees
    <3> QED BY <3>1, <3>2
  <2> QED BY <2>1, <2>2
<1>8. ASSUME NEW X \in XoredHeaderSets, NEW f \in R \cap X, NEW g \in R \cap X PROVE f = g
  <2>1. PICK a \in 1 .. n + 1 : f = Emits[a] /\ v[a]
    BY <1>7
  <2>2. PICK b \in 1 .. n + 1 : g = Emits[b] /\ v[b]
    BY <1>7
  <2>3. a = b
    BY <1>3, <1>5, <2>1, <2>2 DEF EmitsXORedHdrs
  <2> QED BY <2>1, <2>2, <2>3
<1>9. R \subseteq {Emits[m] : m \in 1 .. n + 1}
  BY <1>7
<1>10. \A g \in R : g \in ParsedHeaders \/ (g = Emits[1] /\ ~HasOffsetKey)
  BY <1>3, <1>6
<1> HIDE DEF R
<1>11. R \in Combinations(n + 1)
  BY <1>8, <1>9, <1>10 DEF Combinations
<1> QED BY <1>11 DEF R

\* The entry with the next header.
LEMMA WithRight ==
  ASSUME EntriesInv, WritesInv, OffsetsApart, emitted < Len(Emits),
         NEW i \in 1 .. Len(keyValueEmitOffsets), NEW h, h = Emits[emitted + 1], i \notin Dropped(h)
  PROVE  EntryRight(With(h, i), emitted + 1)
<1> DEFINE e == keyValueEmitOffsets[i]
           f == With(h, i)
           n == emitted
           declared == \E k \in (1 .. i - 1) \ Dropped(h) : keyValueEmitOffsets[k].curr = e.curr
<1>1. /\ n \in 0 .. Len(Emits) - 1 /\ n + 1 \in 1 .. Len(Emits) /\ n < Len(Emits) /\ n \in Nat
      /\ n \in 0 .. Len(Emits) /\ h \in Headers /\ Width[h] \in Nat /\ i \in Nat
  BY EmitsType DEF EntriesInv
<1>2. e \in Entry /\ f.vals = Append(e.vals, TRUE) /\ f.init = e.init
  <2>1. EntriesInv /\ i \in 1 .. Len(keyValueEmitOffsets) /\ h \in Headers
    BY <1>1
  <2>2. keyValueEmitOffsets[i] \in Entry
    BY DEF EntriesInv
  <2>3. /\ With(h, i).vals = Append(keyValueEmitOffsets[i].vals, TRUE)
        /\ With(h, i).init = keyValueEmitOffsets[i].init
    BY ONLY <2>1, WithType
  <2> QED BY <2>2, <2>3
<1>3. /\ f.act = WriteHeader(h, e.curr) \o e.act
      /\ f.curr = IF declared THEN e.curr ELSE e.curr + Width[h]
  <2>1. f = [e EXCEPT !.vals = Append(@, TRUE), !.curr = IF declared THEN @ ELSE @ + Width[h],
                      !.act = WriteHeader(h, e.curr) \o @]
    BY DEF With
  <2> HIDE DEF e, f, declared
  <2> QED BY <1>2, <2>1 DEF Entry
<1>4. EntryRight(e, n) /\ Len(e.vals) = n
  BY DEF EntriesInv, WritesInv
<1>5. n + 1 < Len(Emits) => ~declared
  <2> SUFFICES ASSUME n + 1 < Len(Emits), NEW k \in 1 .. i - 1, keyValueEmitOffsets[k].curr = e.curr
               PROVE  FALSE
    OBVIOUS
  <2>1. k \in 1 .. Len(keyValueEmitOffsets) /\ k # i
    <3>1. Len(keyValueEmitOffsets) \in Nat
      BY DEF EntriesInv
    <3> QED BY <1>1, <3>1
  <2>2. emitted <= Len(Emits) - 2
    BY <1>1, EmitsType
  <2> QED BY <2>1, <2>2, OffsetsDiffer
<1> HIDE DEF declared
<1>6. \E Q \in Combinations(n) : Agrees(e.vals, n, Q) /\ Q \cup {h} \in Combinations(n + 1)
  <2>1. PICK Q \in Combinations(n) : Agrees(e.vals, n, Q)
    BY <1>4 DEF EntryRight
  <2> QED BY <1>1, <2>1, CombinationMore
<1>7. h = Emits[n + 1]
  OBVIOUS
<1> HIDE DEF e, f, n
<1>8. StartOf(f) = StartOf(e) /\ StartOf(e) \in Nat
  BY <1>2, StartType DEF StartOf
<1>9. (\A m \in 1 .. n : f.vals[m] <=> e.vals[m]) /\ f.vals[n + 1]
  <2>1. e.vals \in Seq(BOOLEAN)
    BY <1>2 DEF Entry
  <2> DEFINE v == e.vals
  <2> HIDE DEF v
  <2>2. /\ \A m \in 1 .. n : Append(v, TRUE)[m] <=> v[m]
        /\ Append(v, TRUE)[n + 1]
    BY <1>1, <1>4, <2>1, AppendTrue DEF v
  <2> QED BY <1>2, <2>2 DEF v
<1>10. ASSUME NEW Q
       PROVE  Agrees(f.vals, n + 1, Q) <=> Agrees(e.vals, n, Q) /\ h \in Q
  <2>1. \A m \in 1 .. n + 1 : m \in 1 .. n \/ m = n + 1
    BY <1>1
  <2>2. \A m \in 1 .. n : m \in 1 .. n + 1
    BY <1>1
  <2>3. n + 1 \in 1 .. n + 1
    BY <1>1
  <2> QED BY <1>7, <1>9, <2>1, <2>2, <2>3 DEF Agrees
<1>11. \E Q \in Combinations(n + 1) : Agrees(f.vals, n + 1, Q)
  <2>1. PICK Q \in Combinations(n) : Agrees(e.vals, n, Q) /\ Q \cup {h} \in Combinations(n + 1)
    BY <1>6
  <2>2. Emits[n + 1] \notin Q
    BY <1>1, <2>1, CombinationLess
  <2>3. \A m \in 1 .. n : Emits[m] # Emits[n + 1]
    <3> SUFFICES ASSUME NEW m \in 1 .. n, Emits[m] = Emits[n + 1] PROVE FALSE
      OBVIOUS
    <3>1. m \in DOMAIN Emits /\ n + 1 \in DOMAIN Emits /\ m # n + 1
      BY <1>1, EmitsType
    <3> QED BY <3>1, DeparserAssumption
  <2>4. Agrees(e.vals, n, Q \cup {h})
    BY <1>7, <2>1, <2>3 DEF Agrees
  <2> QED BY <1>10, <2>1, <2>4
<1>12. ASSUME NEW Q, Agrees(f.vals, n + 1, Q)
       PROVE  /\ Writes(f.act, StartOf(f), Q, n + 1)
              /\ n + 1 < Len(Emits) => f.curr = StartOf(f) + WidthUpTo(Q)[n + 1]
  <2>1. Agrees(e.vals, n, Q) /\ Emits[n + 1] \in Q
    BY <1>7, <1>10, <1>12
  <2>2. Writes(e.act, StartOf(e), Q, n) /\ e.curr = StartOf(e) + WidthUpTo(Q)[n]
    BY <1>1, <1>4, <2>1 DEF EntryRight
  <2>3. Writes(WriteHeader(Emits[n + 1], StartOf(e) + WidthUpTo(Q)[n]) \o e.act, StartOf(e), Q, n + 1)
    BY <1>1, <1>8, <2>1, <2>2, WritesMore
  <2>4. WidthUpTo(Q)[n + 1] = WidthUpTo(Q)[n] + Width[h] /\ WidthUpTo(Q)[n] \in Nat
    <3>1. /\ WidthUpTo(Q) \in [0 .. Len(Emits) -> Nat] /\ (n + 1) - 1 = n
          /\ WidthUpTo(Q)[n + 1] = WidthUpTo(Q)[(n + 1) - 1]
               + (IF Emits[n + 1] \in Q THEN Width[Emits[n + 1]] ELSE 0)
      BY <1>1, WidthDef
    <3>2. WidthUpTo(Q)[n] \in Nat
      BY <1>1, <3>1
    <3> QED BY <1>7, <2>1, <3>1, <3>2
  <2>5. n + 1 < Len(Emits) => f.curr = e.curr + Width[h]
    BY <1>3, <1>5
  <2>6. StartOf(e) + WidthUpTo(Q)[n] + Width[h] = StartOf(e) + WidthUpTo(Q)[n + 1]
    BY <1>1, <1>8, <2>4
  <2> QED BY <1>3, <1>7, <1>8, <2>2, <2>3, <2>5, <2>6
<1>13. \E a \in DOMAIN initialOffsets : StartOf(f) = initialOffsets[a]
  BY <1>4, <1>8 DEF EntryRight
<1>14. EntryRight(f, n + 1)
  BY <1>11, <1>12, <1>13 DEF EntryRight
<1> QED BY <1>14 DEF f, n

\* What the values of the two entries made of one say.
LEMMA NextValues ==
  ASSUME EntriesInv, NEW h \in Headers, NEW i \in 1 .. Len(keyValueEmitOffsets)
  PROVE  /\ StartOf(Without(i)) = StartOf(keyValueEmitOffsets[i])
         /\ StartOf(With(h, i)) = StartOf(keyValueEmitOffsets[i])
         /\ \A m \in 1 .. emitted :
              /\ Without(i).vals[m] <=> keyValueEmitOffsets[i].vals[m]
              /\ With(h, i).vals[m] <=> keyValueEmitOffsets[i].vals[m]
         /\ ~Without(i).vals[emitted + 1] /\ With(h, i).vals[emitted + 1]
<1> DEFINE v == keyValueEmitOffsets[i].vals
<1>1. v \in Seq(BOOLEAN) /\ Len(v) = emitted /\ emitted \in Nat
  <2>1. keyValueEmitOffsets[i] \in Entry /\ Len(v) = emitted /\ emitted \in Nat
    BY EmitsType DEF EntriesInv
  <2> QED BY <2>1 DEF Entry
<1>2. Without(i).vals = Append(v, FALSE) /\ Without(i).init = keyValueEmitOffsets[i].init
  BY WithoutType
<1>3. With(h, i).vals = Append(v, TRUE) /\ With(h, i).init = keyValueEmitOffsets[i].init
  BY WithType
<1> HIDE DEF v
<1>4. (\A m \in 1 .. emitted : Append(v, FALSE)[m] <=> v[m]) /\ ~Append(v, FALSE)[emitted + 1]
  BY <1>1, AppendFalse
<1>5. (\A m \in 1 .. emitted : Append(v, TRUE)[m] <=> v[m]) /\ Append(v, TRUE)[emitted + 1]
  BY <1>1, AppendTrue
<1> QED BY <1>2, <1>3, <1>4, <1>5 DEF StartOf, v

LEMMA ExtendWritesInv ==
  ASSUME PassInv, WritesInv, OffsetsApart, emitted < Len(Emits),
         ExtendEmitTable(Emits[emitted + 1]), emitted' = emitted + 1,
         initialOffsets' = initialOffsets
  PROVE  WritesInv'
<1> DEFINE h == Emits[emitted + 1]
           n == Len(keyValueEmitOffsets)
<1>1. EntriesInv /\ Aligned /\ h \in Headers /\ n \in Nat /\ emitted \in Nat
  BY EmitsType DEF PassInv, EntriesInv
<1>2. PICK kept : Extended(h, kept)
  BY <1>1, ExtendEmitTableExtends
<1>3. /\ Len(kept) \in Nat
      /\ \A m \in 1 .. Len(kept) : kept[m] \in (1 .. n) \ Dropped(h)
      /\ \A m, l \in 1 .. Len(kept) : kept[m] = kept[l] => m = l
      /\ Len(keyValueEmitOffsets') = n + Len(kept)
      /\ \A i \in 1 .. n : keyValueEmitOffsets'[i] = Without(i)
      /\ \A m \in 1 .. Len(kept) : keyValueEmitOffsets'[n + m] = With(h, kept[m])
  BY <1>2 DEF Extended
<1> HIDE DEF h, n
<1>4. ASSUME NEW k \in 1 .. n + Len(kept)
      PROVE  k \in 1 .. n \/ \E m \in 1 .. Len(kept) : k = n + m
  <2>1. k > n => k - n \in 1 .. Len(kept) /\ k = n + (k - n)
    BY <1>1, <1>3
  <2> QED BY <1>1, <2>1
<1>5. ASSUME NEW i \in 1 .. n
      PROVE  /\ EntryRight(Without(i), emitted + 1)
             /\ i \notin Dropped(h) => EntryRight(With(h, i), emitted + 1)
  <2>1. i \in 1 .. Len(keyValueEmitOffsets) /\ EntryRight(keyValueEmitOffsets[i], emitted)
    BY DEF n, WritesInv
  <2> QED BY <1>1, <2>1, WithoutRight, WithRight DEF h
<1>6. ASSUME NEW k \in 1 .. n + Len(kept) PROVE EntryRight(keyValueEmitOffsets'[k], emitted + 1)
  <2>1. CASE k \in 1 .. n
    BY <1>3, <1>5, <2>1
  <2>2. ASSUME NEW m \in 1 .. Len(kept), k = n + m
        PROVE  EntryRight(keyValueEmitOffsets'[k], emitted + 1)
    <3>1. kept[m] \in 1 .. n /\ kept[m] \notin Dropped(h)
      BY <1>3
    <3>2. EntryRight(With(h, kept[m]), emitted + 1)
      BY <1>5, <3>1
    <3> QED BY <1>3, <2>2, <3>2
  <2> QED BY <1>4, <2>1, <2>2
<1>7. \A i \in 1 .. n :
        /\ StartOf(Without(i)) = StartOf(keyValueEmitOffsets[i])
        /\ StartOf(With(h, i)) = StartOf(keyValueEmitOffsets[i])
        /\ \A m \in 1 .. emitted :
             /\ Without(i).vals[m] <=> keyValueEmitOffsets[i].vals[m]
             /\ With(h, i).vals[m] <=> keyValueEmitOffsets[i].vals[m]
        /\ ~Without(i).vals[emitted + 1] /\ With(h, i).vals[emitted + 1]
  BY <1>1, NextValues DEF n, h
<1>8. ASSUME NEW i \in 1 .. n, NEW j \in 1 .. n,
             \/ SameKey(Without(i), Without(j), emitted + 1)
             \/ SameKey(With(h, i), With(h, j), emitted + 1)
      PROVE  i = j
  <2>1. \A m \in 1 .. emitted : m \in 1 .. emitted + 1
    BY <1>1
  <2>2. SameKey(keyValueEmitOffsets[i], keyValueEmitOffsets[j], emitted)
    BY <1>7, <1>8, <2>1 DEF SameKey
  <2> QED BY <2>2 DEF WritesInv, n
<1>9. ASSUME NEW i \in 1 .. n, NEW j \in 1 .. n
      PROVE  /\ ~SameKey(Without(i), With(h, j), emitted + 1)
             /\ ~SameKey(With(h, i), Without(j), emitted + 1)
  <2>1. emitted + 1 \in 1 .. emitted + 1
    BY <1>1
  <2> QED BY <1>7, <2>1 DEF SameKey
<1>10. ASSUME NEW k \in 1 .. n + Len(kept), NEW l \in 1 .. n + Len(kept),
              SameKey(keyValueEmitOffsets'[k], keyValueEmitOffsets'[l], emitted + 1)
       PROVE  k = l
  <2>1. CASE k \in 1 .. n /\ l \in 1 .. n
    BY <1>3, <1>8, <1>10, <2>1
  <2>2. ASSUME k \in 1 .. n, NEW b \in 1 .. Len(kept), l = n + b PROVE FALSE
    BY <1>3, <1>9, <1>10, <2>2
  <2>3. ASSUME l \in 1 .. n, NEW a \in 1 .. Len(kept), k = n + a PROVE FALSE
    BY <1>3, <1>9, <1>10, <2>3
  <2>4. ASSUME NEW a \in 1 .. Len(kept), k = n + a, NEW b \in 1 .. Len(kept), l = n + b PROVE k = l
    <3>1. SameKey(With(h, kept[a]), With(h, kept[b]), emitted + 1)
      BY <1>3, <1>10, <2>4
    <3>2. kept[a] \in 1 .. n /\ kept[b] \in 1 .. n
      BY <1>3
    <3>3. kept[a] = kept[b]
      BY <1>8, <3>1, <3>2
    <3> QED BY <1>3, <2>4, <3>3
  <2> QED BY <1>4, <2>1, <2>2, <2>3, <2>4
<1>11. HasOffsetKey' = HasOffsetKey
  BY DEF HasOffsetKey
<1>12. ASSUME NEW k \in 1 .. Len(keyValueEmitOffsets') PROVE EntryRight(keyValueEmitOffsets[k], emitted)'
  BY <1>3, <1>6, <1>11 DEF EntryRight, StartOf, Combinations
<1>13. ASSUME NEW k \in 1 .. Len(keyValueEmitOffsets'), NEW l \in 1 .. Len(keyValueEmitOffsets'),
              SameKey(keyValueEmitOffsets[k], keyValueEmitOffsets[l], emitted)'
       PROVE  k = l
  BY <1>3, <1>10, <1>11, <1>13 DEF SameKey, StartOf
<1> QED BY <1>12, <1>13 DEF WritesInv

LEMMA CreateWritesInv ==
  ASSUME EntriesInv, emitted = 0, ~HasOffsetKey, CreateEmitTable(Emits[1]), emitted' = 1,
         initialOffsets' = initialOffsets
  PROVE  WritesInv'
<1> DEFINE h == Emits[1]
           z == <<>>
           e1 == [vals |-> <<FALSE>>, curr |-> 0, init |-> 0, act |-> z]
           e2 == [vals |-> <<TRUE>>, curr |-> Width[h], init |-> Width[h],
                  act |-> WriteHeader(h, 0)]
<1>1. /\ h \in Headers /\ 1 \in 1 .. Len(Emits) /\ 0 \in 0 .. Len(Emits) - 1 /\ 0 + 1 = 1
      /\ Width[h] \in Nat
  BY EmitsType
<1>2. initialOffsets = <<0>> /\ 1 \in DOMAIN initialOffsets /\ initialOffsets[1] = 0
  <2>1. initialOffsets = <<0>>
    BY DEF HasOffsetKey
  <2>2. 1 \in DOMAIN <<0>> /\ <<0>>[1] = 0
    OBVIOUS
  <2> QED BY <2>1, <2>2
<1>3. ~HasOffsetKey'
  BY DEF HasOffsetKey
<1>4. /\ Len(keyValueEmitOffsets') = 2
      /\ keyValueEmitOffsets'[1] = e1 /\ keyValueEmitOffsets'[2] = e2
  <2>1. keyValueEmitOffsets' = <<e1, e2>>
    BY DEF CreateEmitTable
  <2> HIDE DEF e1, e2
  <2> QED BY <2>1
<1>5. ~e1.vals[1] /\ e2.vals[1] /\ e1.curr = 0 /\ e2.curr = Width[h]
      /\ e1.act = z /\ e2.act = WriteHeader(h, 0)
  <2>1. ~ <<FALSE>>[1] /\ <<TRUE>>[1]
    OBVIOUS
  <2>2. e1.vals = <<FALSE>> /\ e2.vals = <<TRUE>>
    OBVIOUS
  <2> QED BY <2>1, <2>2
<1>6. 1 .. 1 = {1} /\ 1 .. 2 = {1, 2}
  OBVIOUS
<1>7. ASSUME NEW Q
      PROVE  /\ Agrees(e1.vals, 1, Q) <=> h \notin Q
             /\ Agrees(e2.vals, 1, Q) <=> h \in Q
  <2> HIDE DEF e1, e2
  <2> QED BY <1>5, <1>6 DEF Agrees
<1> HIDE DEF e1, e2
<1>8. ASSUME NEW Q
      PROVE  /\ Writes(z, 0, Q, 0) /\ WidthUpTo(Q)[0] = 0
             /\ WidthUpTo(Q)[1] = IF h \in Q THEN Width[h] ELSE 0
  <2>1. WidthUpTo(Q)[0] = 0
    BY WidthDef
  <2>2. WidthUpTo(Q)[1] = WidthUpTo(Q)[1 - 1] + (IF h \in Q THEN Width[h] ELSE 0)
    BY <1>1, WidthDef
  <2>3. 1 - 1 = 0
    OBVIOUS
  <2> QED BY <1>1, <2>1, <2>2, <2>3, WritesNothing
<1>9. ASSUME NEW Q, h \notin Q PROVE Writes(z, 0, Q, 1) /\ 0 = 0 + WidthUpTo(Q)[1]
  <2>1. Writes(z, 0, Q, 0 + 1)
    <3> HIDE DEF z
    <3> QED BY <1>1, <1>8, <1>9, WritesSame
  <2> QED BY <1>1, <1>8, <1>9, <2>1
<1>10. ASSUME NEW Q, h \in Q
       PROVE  Writes(WriteHeader(h, 0), 0, Q, 1) /\ Width[h] = 0 + WidthUpTo(Q)[1]
  <2>1. Writes(WriteHeader(Emits[0 + 1], 0 + WidthUpTo(Q)[0]) \o z, 0, Q, 0 + 1)
    <3> HIDE DEF z
    <3> QED BY <1>1, <1>8, <1>10, WritesMore
  <2>2. 0 + WidthUpTo(Q)[0] = 0 /\ Emits[0 + 1] = h
    BY <1>1, <1>8
  <2>3. WriteHeader(h, 0) \o z = WriteHeader(h, 0)
    <3> DEFINE c == WriteHeader(h, 0)
    <3>1. c \in Seq(Op)
      BY <1>1, WriteHeaderBytes
    <3> HIDE DEF c
    <3> QED BY <3>1
  <2> QED BY <1>1, <1>8, <1>10, <2>1, <2>2, <2>3
<1>11. {} \in Combinations(1)' /\ {h} \in Combinations(1)'
  BY <1>3, <1>6 DEF Combinations
<1>12. StartOf(e1)' = 0 /\ StartOf(e2)' = 0
  BY <1>3 DEF StartOf
<1>13. EntryRight(keyValueEmitOffsets[1], emitted)'
  <2>1. \E Q \in Combinations(1)' : Agrees(e1.vals, 1, Q)
    BY <1>7, <1>11
  <2>2. StartOf(keyValueEmitOffsets[1])' = 0
    BY <1>3 DEF StartOf
  <2> QED BY <1>2, <1>4, <1>5, <1>7, <1>9, <2>1, <2>2 DEF EntryRight
<1>14. EntryRight(keyValueEmitOffsets[2], emitted)'
  <2>1. \E Q \in Combinations(1)' : Agrees(e2.vals, 1, Q)
    BY <1>7, <1>11
  <2>2. StartOf(keyValueEmitOffsets[2])' = 0
    BY <1>3 DEF StartOf
  <2> QED BY <1>2, <1>4, <1>5, <1>7, <1>10, <2>1, <2>2 DEF EntryRight
<1>15. /\ ~SameKey(keyValueEmitOffsets[1], keyValueEmitOffsets[2], emitted)'
       /\ ~SameKey(keyValueEmitOffsets[2], keyValueEmitOffsets[1], emitted)'
  BY <1>4, <1>5, <1>6 DEF SameKey
<1> QED BY <1>4, <1>6, <1>13, <1>14, <1>15 DEF WritesInv

\* What Init says of the entries.
LEMMA InitEntries ==
  ASSUME Init, NEW k \in 1 .. Len(keyValueEmitOffsets)
  PROVE  /\ HasOffsetKey /\ emitted = 0 /\ k \in DOMAIN initialOffsets
         /\ initialOffsets[k] \in Nat
         /\ keyValueEmitOffsets[k].act = <<>>
         /\ keyValueEmitOffsets[k].init = initialOffsets[k]
         /\ keyValueEmitOffsets[k].curr = initialOffsets[k]
<1>1. initialOffsets \in Seq(Nat)
  BY InitPassInv DEF PassInv, EntriesInv
<1>2. keyValueEmitOffsets = IF HasOffsetKey THEN OffsetEntries ELSE <<>>
  BY DEF Init
<1>3. HasOffsetKey
  <2> SUFFICES ASSUME ~HasOffsetKey PROVE FALSE
    OBVIOUS
  <2>1. Len(<<>>) = 0 /\ 1 .. 0 = {}
    OBVIOUS
  <2> QED BY <1>2, <2>1
<1> DEFINE n == Len(initialOffsets)
           e(i) == [vals |-> <<>>, curr |-> initialOffsets[i], init |-> initialOffsets[i],
                    act |-> <<>>]
<1>4. keyValueEmitOffsets = [i \in 1 .. n |-> e(i)] /\ n \in Nat /\ DOMAIN initialOffsets = 1 .. n
  BY <1>1, <1>2, <1>3 DEF OffsetEntries
<1>5. k \in 1 .. n
  <2> HIDE DEF n, e
  <2>1. Len(keyValueEmitOffsets) = n
    BY <1>4
  <2> QED BY <2>1
<1>6. keyValueEmitOffsets[k] = e(k)
  <2> HIDE DEF n, e
  <2> QED BY <1>4, <1>5
<1>7. initialOffsets[k] \in Nat
  BY <1>1, <1>5
<1>8. e(k).act = <<>> /\ e(k).init = initialOffsets[k] /\ e(k).curr = initialOffsets[k]
  OBVIOUS
<1> HIDE DEF e
<1> QED BY <1>3, <1>4, <1>5, <1>6, <1>7, <1>8 DEF Init

LEMMA InitWritesInv ==
  ASSUME Init, OffsetsApart
  PROVE  WritesInv
<1>1. ASSUME NEW k \in 1 .. Len(keyValueEmitOffsets)
      PROVE  /\ EntryRight(keyValueEmitOffsets[k], 0)
             /\ StartOf(keyValueEmitOffsets[k]) = initialOffsets[k] /\ k \in DOMAIN initialOffsets
  <2> DEFINE e == keyValueEmitOffsets[k]
             off == initialOffsets[k]
  <2>1. /\ HasOffsetKey /\ k \in DOMAIN initialOffsets /\ off \in Nat
        /\ e.act = <<>> /\ e.init = off /\ e.curr = off
    BY InitEntries
  <2> HIDE DEF e
  <2>2. StartOf(e) = off
    BY <2>1 DEF StartOf
  <2>3. 1 .. 0 = {}
    OBVIOUS
  <2>4. \A Q : Agrees(e.vals, 0, Q)
    BY <2>3 DEF Agrees
  <2>5. {} \in Combinations(0)
    BY DEF Combinations
  <2>6. \A Q : Writes(e.act, off, Q, 0)
    BY <2>1, WritesNothing
  <2>7. \A Q : WidthUpTo(Q)[0] = 0
    BY WidthDef
  <2>8. EntryRight(e, 0)
    BY <2>1, <2>2, <2>4, <2>5, <2>6, <2>7 DEF EntryRight
  <2> QED BY <2>1, <2>2, <2>8 DEF e
<1>2. emitted = 0
  BY DEF Init
<1> QED BY <1>1, <1>2 DEF WritesInv, SameKey, OffsetsApart

\* With an offset key, an entry is for one of the offsets.
StartsInv ==
  HasOffsetKey =>
    \A k \in 1 .. Len(keyValueEmitOffsets) :
      \E i \in DOMAIN initialOffsets : keyValueEmitOffsets[k].init = initialOffsets[i]

LEMMA ExtendStartsInv ==
  ASSUME PassInv, StartsInv, emitted < Len(Emits), ExtendEmitTable(Emits[emitted + 1]),
         initialOffsets' = initialOffsets
  PROVE  StartsInv'
<1> DEFINE h == Emits[emitted + 1]
           n == Len(keyValueEmitOffsets)
<1>1. EntriesInv /\ Aligned /\ h \in Headers /\ n \in Nat
  BY EmitsType DEF PassInv, EntriesInv
<1>2. PICK kept : Extended(h, kept)
  BY <1>1, ExtendEmitTableExtends
<1>3. /\ Len(kept) \in Nat
      /\ \A m \in 1 .. Len(kept) : kept[m] \in 1 .. n
      /\ Len(keyValueEmitOffsets') = n + Len(kept)
      /\ \A i \in 1 .. n : keyValueEmitOffsets'[i] = Without(i)
      /\ \A m \in 1 .. Len(kept) : keyValueEmitOffsets'[n + m] = With(h, kept[m])
  BY <1>2 DEF Extended
<1>4. ASSUME NEW i \in 1 .. n
      PROVE  Without(i).init = keyValueEmitOffsets[i].init /\ With(h, i).init = keyValueEmitOffsets[i].init
  BY <1>1, WithoutType, WithType
<1> HIDE DEF h, n
<1>5. ASSUME NEW k \in 1 .. n + Len(kept)
      PROVE  \E i \in 1 .. n : keyValueEmitOffsets'[k].init = keyValueEmitOffsets[i].init
  <2>1. CASE k \in 1 .. n
    BY <1>3, <1>4, <2>1
  <2>2. CASE k \notin 1 .. n
    <3> DEFINE m == k - n
    <3>1. m \in 1 .. Len(kept) /\ k = n + m
      BY <1>1, <1>3, <2>2
    <3> HIDE DEF m
    <3> QED BY <1>3, <1>4, <3>1
  <2> QED BY <2>1, <2>2
<1>6. HasOffsetKey' = HasOffsetKey
  BY DEF HasOffsetKey
<1> QED BY <1>3, <1>5, <1>6 DEF StartsInv, n

\* What is known of the entries.
RightInv == TableInv /\ (OffsetsApart => WritesInv) /\ StartsInv

LEMMA InitRightInv == Init => RightInv
  BY InitTableInv, InitWritesInv, InitEntries DEF RightInv, StartsInv

LEMMA NextRightInv == RightInv /\ [Next]_vars => RightInv'
<1> SUFFICES ASSUME RightInv, [Next]_vars PROVE RightInv'
  OBVIOUS
<1>1. TableInv'
  BY NextTableInv DEF RightInv
<1>2. PassInv /\ StartsInv /\ (OffsetsApart => WritesInv)
  BY DEF RightInv, TableInv, VectorsInv
<1>3. ASSUME initialOffsets' = initialOffsets PROVE OffsetsApart' = OffsetsApart /\ HasOffsetKey' = HasOffsetKey
  BY <1>3 DEF OffsetsApart, Combinations, HasOffsetKey
<1>4. CASE EmitStatement
  <2>1. /\ emitted < Len(Emits) /\ emitted' = emitted + 1 /\ initialOffsets' = initialOffsets
    BY <1>4 DEF EmitStatement
  <2>2. CASE emitted = 0 /\ ~HasOffsetKey
    <3>1. CreateEmitTable(Emits[1]) /\ emitted' = 1
      BY <1>4, <2>1, <2>2 DEF EmitStatement
    <3>2. WritesInv'
      BY <1>2, <2>1, <2>2, <3>1, CreateWritesInv DEF PassInv
    <3>3. StartsInv'
      BY <1>3, <2>1, <2>2 DEF StartsInv
    <3> QED BY <1>1, <3>2, <3>3 DEF RightInv
  <2>3. CASE ~(emitted = 0 /\ ~HasOffsetKey)
    <3>1. ExtendEmitTable(Emits[emitted + 1])
      BY <1>4, <2>3 DEF EmitStatement
    <3>2. OffsetsApart' => WritesInv'
      BY <1>2, <1>3, <2>1, <3>1, ExtendWritesInv
    <3>3. StartsInv'
      BY <1>2, <2>1, <3>1, ExtendStartsInv
    <3> QED BY <1>1, <3>2, <3>3 DEF RightInv
  <2> QED BY <2>2, <2>3
<1>5. CASE UNCHANGED <<initialOffsets, emitted, keyValueEmitOffsets>>
  <2>1. HasOffsetKey' = HasOffsetKey /\ OffsetsApart' = OffsetsApart
    BY <1>3, <1>5
  <2>2. StartsInv'
    BY <1>2, <1>5, <2>1 DEF StartsInv
  <2>3. OffsetsApart => WritesInv'
    <3> SUFFICES ASSUME WritesInv PROVE WritesInv'
      BY <1>2
    <3>1. \A n : Combinations(n)' = Combinations(n)
      BY <2>1 DEF Combinations
    <3>2. ASSUME NEW k \in 1 .. Len(keyValueEmitOffsets)
          PROVE  /\ StartOf(keyValueEmitOffsets[k])' = StartOf(keyValueEmitOffsets[k])
                 /\ EntryRight(keyValueEmitOffsets[k], emitted)'
      <4>1. EntryRight(keyValueEmitOffsets[k], emitted)
        BY DEF WritesInv
      <4>2. StartOf(keyValueEmitOffsets[k])' = StartOf(keyValueEmitOffsets[k])
        BY <1>5, <2>1 DEF StartOf
      <4>3. Combinations(emitted)' = Combinations(emitted)
        BY <1>5, <3>1
      <4> QED BY <1>5, <4>1, <4>2, <4>3 DEF EntryRight
    <3> QED BY <1>5, <3>2 DEF WritesInv, SameKey
  <2> QED BY <1>1, <2>1, <2>2, <2>3 DEF RightInv
<1>6. CASE FinishTable
  BY <1>5, <1>6 DEF FinishTable
<1>7. CASE \E i \in DOMAIN initialOffsets : \E parsed \in Accepts :
             \E flags \in Flags : Arrive(initialOffsets[i], parsed, flags)
  BY <1>5, <1>7 DEF Arrive, passVars
<1>8. CASE RunAction
  BY <1>5, <1>8 DEF RunAction, passVars
<1>9. CASE EndAction
  BY <1>5, <1>9 DEF EndAction, passVars
<1>10. CASE UNCHANGED vars
  BY <1>5, <1>10 DEF vars, passVars
<1> QED BY <1>4, <1>6, <1>7, <1>8, <1>9, <1>10 DEF Next

----------------------------------------------------------------------------
(* The entries of the table. *)

\* Without operations.
LEMMA WritesRewritten ==
  ASSUME NEW c, NEW off \in Nat, NEW Q, Writes(c, off, Q, Len(Emits))
  PROVE  Handles(c, off, Q, Q)
<1> DEFINE M == Len(Emits)
           w == WidthUpTo(Q)
           end == off + w[M]
<1>1. M \in 1 .. M /\ M \in 0 .. M
  BY EmitsType
<1>2. end \in Int
  <2>1. w[M] \in Nat
    BY <1>1, WidthDef
  <2> QED BY <2>1
<1>3. ASSUME NEW s, NEW t, OnStack(s), Ran(c, Len(c), s, t) PROVE Rewritten(s, t, off, Q, Q)
  <2>1. HeadersWritten(s, t, off, Q, M, ValidUpTo(Q, M))
    BY <1>3 DEF Writes
  <2>2. \A j \in 0 .. StackSize - 1 : j < off \/ end <= j => t[j] = s[j]
    BY <2>1 DEF HeadersWritten
  <2>3. \A j \in 0 .. StackSize - 1 : j - end + end = j
    <3> HIDE DEF end
    <3> QED BY <1>2
  <2>4. ASSUME NEW k \in 1 .. M, Emits[k] \in Q PROVE HeaderAt(t, off + w[k - 1], Emits[k])
    <3>1. k \in ValidUpTo(Q, M)
      BY <2>4 DEF ValidUpTo
    <3> QED BY <2>1, <3>1 DEF HeadersWritten
  <2>5. \A j \in 0 .. StackSize - 1 : end <= j => t[j] = s[j - end + end]
    BY <2>2, <2>3
  <2> QED BY <2>2, <2>4, <2>5 DEF Rewritten
<1> QED BY <1>3 DEF Writes, Handles

LEMMA WritesContained ==
  ASSUME NEW c, NEW off \in Nat, NEW Q, Writes(c, off, Q, Len(Emits)),
         off + WidthUpTo(Q)[Len(Emits)] <= StackSize
  PROVE  AllContained(c)
<1> DEFINE end == off + WidthUpTo(Q)[Len(Emits)]
<1>1. end \in Nat /\ end <= StackSize /\ StackSize \in Nat
  <2>1. WidthUpTo(Q)[Len(Emits)] \in Nat
    BY EmitsType, WidthDef
  <2> QED BY <2>1, StackAssumption
<1>2. ASSUME NEW i \in 1 .. Len(c) PROVE Contained(c[i])
  <2> DEFINE a == c[i]
  <2>1. Fills(a, end)
    BY DEF Writes
  <2> HIDE DEF end, a
  <2>2. a.dst \in 0 .. StackSize - 1
    BY <1>1, <2>1 DEF Fills
  <2>3. a.hdr \in Headers /\ a.src \in 0 .. Width[a.hdr] - 1 /\ a.hdr # "stack"
    BY <2>1, DeparserAssumption DEF Fills
  <2>4. Contained(a)
    BY <2>2, <2>3 DEF Contained
  <2> QED BY <2>4 DEF a
<1> QED BY <1>2 DEF AllContained

\* Every entry that is made is one of the pass.
LEMMA MadeFrom ==
  ASSUME EntriesInv, NEW m \in DOMAIN MadeEntries
  PROVE  \E k \in 1 .. Len(keyValueEmitOffsets) : MadeEntries[m] = keyValueEmitOffsets[k]
<1> DEFINE s == keyValueEmitOffsets
           n == Len(s)
           I == {i \in DOMAIN s : HasOffsetKey \/ s[i].act # <<>>}
           made == Selections(s, I)[n]
           E == {s[i] : i \in I \cap (1 .. n)}
<1>1. s \in Seq(Entry) /\ n \in 0 .. Len(s)
  BY DEF EntriesInv
<1>2. made \in Seq(E)
  <2> HIDE DEF I, made
  <2>1. Gathers(made, s, I, n)
    BY ONLY <1>1, SelectionsElements DEF made
  <2> QED BY <2>1 DEF Gathers
<1>3. MadeEntries = made
  BY DEF MadeEntries, Selected
<1> HIDE DEF made, E
<1>4. made[m] \in E
  BY <1>2, <1>3
<1> QED BY <1>3, <1>4 DEF E

LEMMA EmitTableHandles ==
  ASSUME EntriesInv, WritesInv, emitted = Len(Emits), NEW q \in DOMAIN EmitTable,
         NEW parsed, Agrees(EmitTable[q].vals, Len(Emits), parsed)
  PROVE  /\ Handles(EmitTable[q].act, EmitTable[q].off, parsed, parsed)
         /\ EmitTable[q].off + WidthUpTo(parsed)[Len(Emits)] <= StackSize
              => AllContained(EmitTable[q].act)
         /\ EmitTable[q].ops = [first |-> {}, second |-> {}]
<1>1. q \in DOMAIN MadeEntries
  BY DEF EmitTable
<1>2. PICK k \in 1 .. Len(keyValueEmitOffsets) : MadeEntries[q] = keyValueEmitOffsets[k]
  BY <1>1, MadeFrom
<1> DEFINE e == keyValueEmitOffsets[k]
<1>3. /\ EmitTable[q].off = StartOf(e) /\ EmitTable[q].vals = e.vals /\ EmitTable[q].act = e.act
      /\ EmitTable[q].ops = [first |-> {}, second |-> {}]
  BY <1>1, <1>2 DEF EmitTable, StartOf
<1>4. EntryRight(e, Len(Emits)) /\ e \in Entry
  BY DEF WritesInv, EntriesInv
<1> HIDE DEF e
<1>5. Writes(e.act, StartOf(e), parsed, Len(Emits)) /\ StartOf(e) \in Nat
  BY <1>3, <1>4, StartType DEF EntryRight
<1>6. Handles(e.act, StartOf(e), parsed, parsed)
  BY <1>5, WritesRewritten
<1>7. StartOf(e) + WidthUpTo(parsed)[Len(Emits)] <= StackSize => AllContained(e.act)
  BY <1>5, WritesContained
<1> QED BY <1>3, <1>6, <1>7

\* Two emitData of the same name, for the same start offset, stand for the same valid headers
\* and the same move of the rest of the packet.
LEMMA NameTells ==
  ASSUME NEW d, NEW f, NEW off, NEW P, NEW V, NEW R, NEW W,
         EmitDataInv(d, Len(Emits), off, P, V), EmitDataInv(f, Len(Emits), off, R, W),
         ActName(d) = ActName(f)
  PROVE  \A k \in 1 .. Len(Emits) : Emits[k] \in V => Emits[k] \in W
<1>1. /\ d.data \in Seq(Element) /\ f.data \in Seq(Element)
      /\ Places(d.data, Len(Emits), off, V) /\ Places(f.data, Len(Emits), off, W)
  BY DEF EmitDataInv, Places
<1> DEFINE a == [i \in DOMAIN d.data |-> <<d.data[i].h, d.data[i].os>>]
           b == [i \in DOMAIN f.data |-> <<f.data[i].h, f.data[i].os>>]
<1>2. a = b
  <2> HIDE DEF a, b
  <2>1. <<a, d.mo>> = <<b, f.mo>>
    BY DEF ActName, a, b
  <2> QED BY <2>1
<1>3. DOMAIN d.data = DOMAIN f.data
  <2>1. DOMAIN a = DOMAIN d.data /\ DOMAIN b = DOMAIN f.data
    OBVIOUS
  <2> HIDE DEF a, b
  <2> QED BY <1>2, <2>1
<1>4. ASSUME NEW i \in DOMAIN d.data PROVE d.data[i].h = f.data[i].h
  <2>1. a[i] = <<d.data[i].h, d.data[i].os>>
    OBVIOUS
  <2>2. b[i] = <<f.data[i].h, f.data[i].os>>
    BY <1>3
  <2> HIDE DEF a, b
  <2> QED BY <1>2, <2>1, <2>2
<1>5. SUFFICES ASSUME NEW k \in 1 .. Len(Emits), Emits[k] \in V PROVE Emits[k] \in W
  OBVIOUS
<1>6. PICK m \in 1 .. Len(d.data) : Placed(d.data[m], k, off, V)
  BY <1>1, <1>5 DEF Places
<1>7. m \in DOMAIN d.data /\ m \in 1 .. Len(f.data)
  BY <1>1, <1>3, <1>6
<1>8. PICK l \in 1 .. Len(Emits) : Placed(f.data[m], l, off, W)
  BY <1>1, <1>7 DEF Places
<1> QED BY <1>4, <1>6, <1>7, <1>8 DEF Placed

LEMMA SameName ==
  ASSUME NEW d, NEW f, NEW off, NEW P, NEW V, NEW R, NEW W,
         EmitDataInv(d, Len(Emits), off, P, V), EmitDataInv(f, Len(Emits), off, R, W),
         ActName(d) = ActName(f)
  PROVE  /\ \A k \in 1 .. Len(Emits) : Emits[k] \in V <=> Emits[k] \in W
         /\ \A k \in 0 .. Len(Emits) : WidthUpTo(V)[k] = WidthUpTo(W)[k]
         /\ WidthUpTo(P)[Len(Emits)] = WidthUpTo(R)[Len(Emits)]
<1> DEFINE M == Len(Emits)
<1>1. M \in 0 .. M
  BY EmitsType
<1>2. \A k \in 1 .. M : Emits[k] \in V <=> Emits[k] \in W
  BY NameTells
<1>3. \A k \in 0 .. M : WidthUpTo(V)[k] = WidthUpTo(W)[k]
  BY <1>1, <1>2, WidthSame
<1>4. d.mo = f.mo
  BY DEF ActName
<1>5. /\ d.mo = WidthUpTo(V)[M] - WidthUpTo(P)[M]
      /\ f.mo = WidthUpTo(W)[M] - WidthUpTo(R)[M]
  BY DEF EmitDataInv
<1>6. WidthUpTo(V)[M] \in Nat /\ WidthUpTo(P)[M] \in Nat /\ WidthUpTo(R)[M] \in Nat
  BY <1>1, WidthDef
<1>7. WidthUpTo(P)[M] = WidthUpTo(R)[M]
  <2> DEFINE v == WidthUpTo(V)[M]
             p == WidthUpTo(P)[M]
             r == WidthUpTo(R)[M]
  <2>1. v - p = v - r /\ v \in Nat /\ p \in Nat /\ r \in Nat
    BY <1>1, <1>3, <1>4, <1>5, <1>6
  <2> HIDE DEF v, p, r
  <2>2. p = r
    BY <2>1
  <2> QED BY <2>2 DEF p, r
<1> QED BY <1>2, <1>3, <1>7

LEMMA HandlesSame ==
  ASSUME NEW c, NEW off, NEW P, NEW V, NEW R, NEW W,
         \A k \in 1 .. Len(Emits) : Emits[k] \in V <=> Emits[k] \in W,
         \A k \in 0 .. Len(Emits) : WidthUpTo(V)[k] = WidthUpTo(W)[k],
         WidthUpTo(P)[Len(Emits)] = WidthUpTo(R)[Len(Emits)],
         Handles(c, off, P, V)
  PROVE  Handles(c, off, R, W)
<1>1. Len(Emits) \in 0 .. Len(Emits) /\ \A k \in 1 .. Len(Emits) : k - 1 \in 0 .. Len(Emits)
  BY EmitsType
<1>2. ASSUME NEW s, NEW t, Rewritten(s, t, off, P, V) PROVE Rewritten(s, t, off, R, W)
  <2>1. WidthUpTo(V)[Len(Emits)] = WidthUpTo(W)[Len(Emits)]
    BY <1>1
  <2>2. \A k \in 1 .. Len(Emits) : WidthUpTo(V)[k - 1] = WidthUpTo(W)[k - 1]
    BY <1>1
  <2>3. \A k \in 1 .. Len(Emits) : Emits[k] \in W => HeaderAt(t, off + WidthUpTo(W)[k - 1], Emits[k])
    BY <1>2, <2>2 DEF Rewritten
  <2> QED BY <1>2, <2>1, <2>3 DEF Rewritten
<1> QED BY <1>2 DEF Handles

\* The entries of one record after those of the one before.
LEMMA IndexOfRow ==
  ASSUME NEW n \in Nat, NEW l \in Nat, NEW i \in 1 .. n * l
  PROVE  /\ n # 0
         /\ ((i - 1) \div n) + 1 \in 1 .. l
         /\ ((i - 1) % n) + 1 \in 1 .. n
<1> DEFINE p == n * l
<1>1. n # 0
  <2> SUFFICES ASSUME n = 0 PROVE FALSE
    OBVIOUS
  <2>1. n * l = 0
    OBVIOUS
  <2> QED BY <2>1
<1>2. p \in Nat
  OBVIOUS
<1>3. i - 1 \in Nat /\ i - 1 < p
  <2> HIDE DEF p
  <2> QED BY <1>2 DEF p
<1> DEFINE a == (i - 1) \div n
           r == (i - 1) % n
<1>4. a \in Nat /\ r \in 0 .. n - 1 /\ i - 1 = n * a + r
  BY <1>1, <1>3
<1>5. a < l
  <2> SUFFICES ASSUME l <= a PROVE FALSE
    BY <1>4
  <2> HIDE DEF a, r
  <2>1. PICK b \in Nat : a = l + b
    <3>1. a - l \in Nat /\ a = l + (a - l)
      BY <1>4
    <3> QED BY <3>1
  <2>2. n * a = n * l + n * b /\ n * b \in Nat
    BY <2>1
  <2> DEFINE x == n * a
             y == n * b
  <2>3. x = p + y /\ y \in Nat /\ i - 1 = x + r /\ r \in Nat
    BY <1>4, <2>2
  <2> HIDE DEF x, y, p
  <2> QED BY <1>2, <1>3, <2>3
<1> HIDE DEF a, r
<1>6. a + 1 \in 1 .. l /\ r + 1 \in 1 .. n
  BY <1>4, <1>5
<1> QED BY <1>1, <1>6 DEF a, r

\* What the multiplication may rely on.
OneOffset ==
  /\ HasOffsetKey /\ Len(initialOffsets) = 1
  /\ \A m \in DOMAIN xoredValidityOps :
       xoredValidityOps[m].first \cap xoredValidityOps[m].second = {}

Fits(off, parsed, valid) ==
  /\ off + WidthUpTo(parsed)[Len(Emits)] <= StackSize
  /\ off + WidthUpTo(valid)[Len(Emits)] <= StackSize

\* The headers of a key.
LEMMA AgreesWith ==
  ASSUME NEW vals
  PROVE  \E Q : Agrees(vals, Len(Emits), Q)
<1> DEFINE Q == {Emits[m] : m \in {k \in 1 .. Len(Emits) : vals[k]}}
<1>1. ASSUME NEW m \in 1 .. Len(Emits), Emits[m] \in Q PROVE vals[m]
  <2>1. PICK k \in 1 .. Len(Emits) : vals[k] /\ Emits[m] = Emits[k]
    BY <1>1
  <2>2. m = k
    <3>1. m \in DOMAIN Emits /\ k \in DOMAIN Emits
      BY EmitsType
    <3>2. \A i, j \in DOMAIN Emits : Emits[i] = Emits[j] => i = j
      BY DeparserAssumption
    <3> QED BY <2>1, <3>1, <3>2
  <2> QED BY <2>1, <2>2
<1>2. ASSUME NEW m \in 1 .. Len(Emits), vals[m] PROVE Emits[m] \in Q
  BY <1>2
<1> HIDE DEF Q
<1>3. Agrees(vals, Len(Emits), Q)
  BY <1>1, <1>2 DEF Agrees
<1> QED BY <1>3

LEMMA MultipliedHandles ==
  ASSUME PassInv, StartsInv, OneOffset, emitted = Len(Emits),
         NEW q \in DOMAIN MultiplyHdrValidityOpsTable, NEW x, x = MultiplyHdrValidityOpsTable[q],
         NEW parsed, Agrees(x.vals, Len(Emits), parsed),
         NEW valid, valid = (parsed \cup x.ops.first) \ x.ops.second,
         Fits(x.off, parsed, valid)
  PROVE  Handles(x.act, x.off, parsed, valid) /\ AllContained(x.act)
<1> DEFINE n == Len(headerKeyValues)
           l == Len(xoredValidityOps)
           total == n * l
           rec(i) == xoredValidityOps[((i - 1) \div n) + 1]
           row(i) == ((i - 1) % n) + 1
           entry(i) == keyValueEmitOffsets[row(i)]
           data == [i \in 1 .. total |-> EmitData(entry(i), headerKeyValues[row(i)], rec(i))]
           declared(i) == Min({j \in 1 .. i : ActName(data[j]) = ActName(data[i])})
           o == initialOffsets[1]
           V(i, P) == (P \cup rec(i).first) \ rec(i).second
<1>1. /\ n \in Nat /\ l \in Nat /\ n = Len(keyValueEmitOffsets) /\ HasOffsetKey /\ EntriesInv
      /\ xoredValidityOps \in Seq([first : SUBSET Headers, second : SUBSET Headers])
      /\ \A m \in 1 .. l : xoredValidityOps[m].first \cap xoredValidityOps[m].second = {}
  BY DEF PassInv, EntriesInv, Aligned, OneOffset
<1>2. q \in 1 .. total /\ total \in Nat
  <2>1. DOMAIN MultiplyHdrValidityOpsTable = 1 .. total
    BY ZenonT(30) DEF MultiplyHdrValidityOpsTable
  <2>2. total \in Nat
    <3> HIDE DEF n, l
    <3> QED BY <1>1
  <2> QED BY <2>1, <2>2
<1>3. /\ x.act = EntryAction(data[declared(q)])
      /\ x.off = entry(q).init /\ x.vals = entry(q).vals /\ x.ops = rec(q)
  <2> DEFINE made(i) == LET e == entry(i)
                        IN [off |-> IF HasOffsetKey THEN e.init ELSE 0, vals |-> e.vals,
                            ops |-> rec(i), act |-> EntryAction(data[declared(i)]),
                            resets |-> FALSE]
             t == MultiplyHdrValidityOpsTable
  <2>1. t = [i \in 1 .. total |-> made(i)]
    BY DEF MultiplyHdrValidityOpsTable
  <2>2. x = made(q)
    <3> HIDE DEF made, total, t
    <3>1. t[q] = made(q)
      BY <1>2, <2>1
    <3> QED BY <3>1 DEF t
  <2> HIDE DEF data, declared, entry, rec
  <2> QED BY <1>1, <2>2
<1>4. ASSUME NEW i \in 1 .. total
      PROVE  /\ row(i) \in 1 .. n /\ ((i - 1) \div n) + 1 \in 1 .. l
             /\ rec(i) \in [first : SUBSET Headers, second : SUBSET Headers]
             /\ rec(i).first \cap rec(i).second = {}
             /\ data[i] = EmitData(entry(i), headerKeyValues[row(i)], rec(i))
  <2>1. row(i) \in 1 .. n /\ ((i - 1) \div n) + 1 \in 1 .. l
    <3> HIDE DEF n, l
    <3> QED BY <1>1, IndexOfRow
  <2>2. data[i] = EmitData(entry(i), headerKeyValues[row(i)], rec(i))
    <3> HIDE DEF total, entry, row, rec
    <3> QED OBVIOUS
  <2> DEFINE m == ((i - 1) \div n) + 1
  <2>3. m \in 1 .. l /\ rec(i) = xoredValidityOps[m]
    BY <2>1
  <2> DEFINE r == rec(i)
  <2>4. /\ r \in [first : SUBSET Headers, second : SUBSET Headers]
        /\ r.first \cap r.second = {}
    <3> DEFINE X == [first : SUBSET Headers, second : SUBSET Headers]
    <3>1. r = xoredValidityOps[m] /\ m \in 1 .. l /\ xoredValidityOps \in Seq(X)
      BY <1>1, <2>3
    <3> HIDE DEF X, r, m
    <3>2. r \in X
      BY <3>1 DEF l
    <3>3. r.first \cap r.second = {}
      BY <1>1, <3>1
    <3> QED BY <3>2, <3>3 DEF X
  <2> QED BY <2>1, <2>2, <2>4
<1> HIDE DEF data, rec
<1>5. ASSUME NEW i \in 1 .. total, NEW P, Agrees(entry(i).vals, Len(Emits), P)
      PROVE  EmitDataInv(data[i], Len(Emits), o, P, V(i, P)) /\ entry(i).init = o
  <2> DEFINE k == row(i)
             e == keyValueEmitOffsets[k]
             values == headerKeyValues[k]
  <2>1. k \in 1 .. Len(keyValueEmitOffsets)
    BY <1>1, <1>4
  <2> HIDE DEF k
  <2>2. /\ e \in Entry /\ Len(e.vals) = Len(Emits)
    BY <2>1 DEF PassInv, EntriesInv
  <2>3. values = Keys(e.vals)
    BY <1>1, <2>1, AlignedKeys DEF PassInv
  <2>4. e.init = o
    <3>1. PICK j \in DOMAIN initialOffsets : e.init = initialOffsets[j]
      BY <1>1, <2>1 DEF StartsInv
    <3>2. j = 1
      <4>1. initialOffsets \in Seq(Nat) /\ Len(initialOffsets) = 1
        BY DEF PassInv, EntriesInv, OneOffset
      <4> QED BY <4>1
    <3> QED BY <3>1, <3>2
  <2>5. \A m \in 1 .. Len(Emits) : e.vals[m] <=> Emits[m] \in P
    BY <1>5 DEF Agrees, k
  <2> DEFINE ops == rec(i)
             W == (P \cup ops.first) \ ops.second
  <2>6. /\ ops \in [first : SUBSET Headers, second : SUBSET Headers]
        /\ ops.first \cap ops.second = {}
    BY <1>4
  <2>7. data[i] = EmitData(e, values, ops)
    BY <1>4 DEF k
  <2> HIDE DEF e, values, ops
  <2>8. W = (P \cup ops.first) \ ops.second
    OBVIOUS
  <2> HIDE DEF W
  <2>9. EmitDataInv(EmitData(e, values, ops), Len(Emits), e.init, P, W)
    BY ONLY <1>1, <2>2, <2>3, <2>5, <2>6, <2>8, EmitDataResult
  <2> QED BY <2>4, <2>7, <2>9 DEF W, ops, e, k
<1> DEFINE j == declared(q)
<1>6. j \in 1 .. q /\ ActName(data[j]) = ActName(data[q])
  <2> DEFINE S == {i \in 1 .. q : ActName(data[i]) = ActName(data[q])}
  <2>1. q \in Nat /\ q \in 1 .. q
    <3> HIDE DEF total
    <3> QED BY <1>2
  <2>2. S \in SUBSET Nat /\ S # {}
    BY <2>1
  <2>3. Min(S) \in S
    <3> HIDE DEF S
    <3> QED BY <2>2, MinNat
  <2> QED BY <2>3
<1> HIDE DEF j
<1>7. j \in 1 .. total
  <2> HIDE DEF total
  <2> QED BY <1>2, <1>6
<1> HIDE DEF total, n, l, row
<1>8. PICK P : Agrees(entry(j).vals, Len(Emits), P)
  BY AgreesWith
<1>9. EmitDataInv(data[j], Len(Emits), o, P, V(j, P))
  BY <1>5, <1>7, <1>8
<1>10. EmitDataInv(data[q], Len(Emits), o, parsed, valid) /\ x.off = o
  BY <1>2, <1>3, <1>5
<1>11. o \in Nat
  <2>1. initialOffsets \in Seq(Nat) /\ Len(initialOffsets) = 1
    BY DEF PassInv, EntriesInv, OneOffset
  <2> QED BY <2>1
<1>12. SourcesBefore(data[j])
  <2> DEFINE e == entry(j)
             values == headerKeyValues[row(j)]
             ops == rec(j)
  <2>1. data[j] = EmitData(e, values, ops)
    BY <1>4, <1>7
  <2>2. e \in Entry
    <3>1. row(j) \in 1 .. Len(keyValueEmitOffsets)
      BY <1>1, <1>4, <1>7
    <3> HIDE DEF row
    <3> QED BY <1>1, <3>1 DEF EntriesInv
  <2> HIDE DEF e, values, ops
  <2>3. SourcesBefore(EmitData(e, values, ops))
    BY <1>1, <2>2, EmitDataSources
  <2> QED BY <2>1, <2>3
<1> DEFINE W == V(j, P)
           d == data[j]
           f == data[q]
<1>13. /\ EmitDataInv(d, Len(Emits), o, P, W) /\ EmitDataInv(f, Len(Emits), o, parsed, valid)
       /\ ActName(d) = ActName(f) /\ x.act = EntryAction(d) /\ x.off = o
       /\ SourcesBefore(d)
  BY <1>3, <1>6, <1>9, <1>10, <1>12 DEF j
<1> HIDE DEF W, d, f, o
<1>14. /\ \A k \in 1 .. Len(Emits) : Emits[k] \in W <=> Emits[k] \in valid
       /\ \A k \in 0 .. Len(Emits) : WidthUpTo(W)[k] = WidthUpTo(valid)[k]
       /\ WidthUpTo(P)[Len(Emits)] = WidthUpTo(parsed)[Len(Emits)]
  BY <1>13, SameName
<1>15. Len(Emits) \in 0 .. Len(Emits)
  BY EmitsType
<1>16. /\ o + WidthUpTo(P)[Len(Emits)] <= StackSize
       /\ o + WidthUpTo(W)[Len(Emits)] <= StackSize
  BY <1>13, <1>14, <1>15 DEF Fits
<1>17. Handles(EntryAction(d), o, P, W)
  BY <1>11, <1>13, <1>16, EntryActionRun
<1>18. Handles(EntryAction(d), o, parsed, valid)
  BY ONLY <1>14, <1>17, HandlesSame
<1>19. AllContained(EntryAction(d))
  BY <1>11, <1>13, <1>16, EntryActionContained
<1> QED BY <1>13, <1>18, <1>19

\* What the deparser is relied on for: without operations, that no two packages' combinations
\* of headers meet at one offset; with operations, that there is one start offset, no record
\* validates and invalidates a header, and what is parsed and what is valid fit on the stack.
Limits(off, parsed, valid) ==
  IF NoOpKeys THEN OffsetsApart ELSE OneOffset /\ Fits(off, parsed, valid)

WithinLimits == Limits(pkt.off, pkt.parsed, ValidHeaders)

\* The action does what the emit statements do to the packet, and does not leave the stack if
\* the packet's headers do not.
Right(c, off, parsed, valid) ==
  Limits(off, parsed, valid) =>
    /\ Handles(c, off, parsed, valid)
    /\ Fits(off, parsed, valid) => AllContained(c)

\* Every entry has the right action for the packets of its key.
TableRight ==
  stage # "emits" =>
    /\ DOMAIN table \subseteq Nat
    /\ \A q \in DOMAIN table : \A parsed :
         LET x == table[q]
             valid == (parsed \cup x.ops.first) \ x.ops.second
         IN Agrees(x.vals, Len(Emits), parsed) => Right(x.act, x.off, parsed, valid)

LEMMA FinishedTableRight ==
  ASSUME RightInv, FinishTable
  PROVE  TableRight'
<1>1. /\ emitted = Len(Emits) /\ initialOffsets' = initialOffsets
      /\ xoredValidityOps' = xoredValidityOps
  BY DEF FinishTable
<1>2. PassInv /\ EntriesInv /\ StartsInv /\ (OffsetsApart => WritesInv)
  BY DEF RightInv, TableInv, VectorsInv, PassInv
<1>3. /\ NoOpKeys' = NoOpKeys /\ OffsetsApart' = OffsetsApart /\ OneOffset' = OneOffset
  <2>1. HasOffsetKey' = HasOffsetKey
    BY <1>1 DEF HasOffsetKey
  <2> QED BY <1>1, <2>1 DEF NoOpKeys, OpKeys, OffsetsApart, Combinations, OneOffset
<1>4. CASE NoOpKeys
  <2>1. table' = EmitTable
    BY <1>4 DEF FinishTable, NoOpKeys
  <2>2. MadeEntries \in Seq(Entry)
    BY <1>2, MadeElements
  <2>3. DOMAIN EmitTable = DOMAIN MadeEntries /\ DOMAIN EmitTable \subseteq Nat
    BY <2>2 DEF EmitTable
  <2>4. ASSUME NEW q \in DOMAIN EmitTable, NEW x, x = EmitTable[q], NEW parsed,
               Agrees(x.vals, Len(Emits), parsed), OffsetsApart,
               NEW valid, valid = (parsed \cup x.ops.first) \ x.ops.second
        PROVE  /\ Handles(x.act, x.off, parsed, valid)
               /\ Fits(x.off, parsed, valid) => AllContained(x.act)
    <3>1. /\ Handles(x.act, x.off, parsed, parsed) /\ x.ops = [first |-> {}, second |-> {}]
          /\ x.off + WidthUpTo(parsed)[Len(Emits)] <= StackSize => AllContained(x.act)
      BY <1>1, <1>2, <2>4, EmitTableHandles
    <3>2. valid = parsed
      BY <2>4, <3>1
    <3> QED BY <3>1, <3>2 DEF Fits
  <2> QED BY <1>3, <1>4, <2>1, <2>3, <2>4 DEF TableRight, Right, Limits
<1>5. CASE ~NoOpKeys
  <2>1. table' = MultiplyHdrValidityOpsTable
    BY <1>5 DEF FinishTable, NoOpKeys
  <2>2. DOMAIN MultiplyHdrValidityOpsTable \subseteq Nat
    BY DEF MultiplyHdrValidityOpsTable
  <2>3. ASSUME NEW q \in DOMAIN MultiplyHdrValidityOpsTable,
               NEW x, x = MultiplyHdrValidityOpsTable[q], NEW parsed,
               Agrees(x.vals, Len(Emits), parsed), OneOffset,
               NEW valid, valid = (parsed \cup x.ops.first) \ x.ops.second,
               Fits(x.off, parsed, valid)
        PROVE  Handles(x.act, x.off, parsed, valid) /\ AllContained(x.act)
    BY <1>1, <1>2, <2>3, MultipliedHandles
  <2> QED BY <1>3, <1>5, <2>1, <2>2, <2>3 DEF TableRight, Right, Limits
<1> QED BY <1>4, <1>5

LEMMA FlagsAreKeys ==
  ASSUME NEW flags \in Flags, NEW part \in {"first", "second"}
  PROVE  flags[part] \subseteq OpKeys(part)
<1>1. CASE xoredValidityOps = <<>>
  BY <1>1 DEF Flags, NoOps
<1>2. CASE xoredValidityOps # <<>>
  <2>1. PICK m \in DOMAIN xoredValidityOps : flags = xoredValidityOps[m]
    BY <1>2 DEF Flags
  <2> QED BY <2>1 DEF OpKeys
<1> QED BY <1>1, <1>2

\* The action a packet hits.
LEMMA PacketHandled ==
  ASSUME TableInv, TableRight, stage = "table",
         NEW i \in DOMAIN initialOffsets, NEW off, off = initialOffsets[i],
         NEW parsed \in Accepts, NEW flags \in Flags,
         NEW hit, hit = Hits(off, parsed, flags),
         NEW c, c = IF hit = {} THEN <<>> ELSE table[Min(hit)].act,
         NEW valid, valid = (parsed \cup flags.first) \ flags.second
  PROVE  Right(c, off, parsed, valid)
<1>1. off \in Nat
  <2>1. initialOffsets \in Seq(Nat)
    BY DEF TableInv, VectorsInv, PassInv, EntriesInv
  <2> QED BY <2>1
<1>2. flags.first \subseteq OpKeys("first") /\ flags.second \subseteq OpKeys("second")
  BY FlagsAreKeys
<1>3. CASE hit # {}
  <2> DEFINE q == Min(hit)
             x == table[q]
  <2>1. hit \subseteq DOMAIN table /\ DOMAIN table \subseteq Nat
    BY DEF TableRight, Hits
  <2>2. q \in hit
    BY <1>3, <2>1, MinNat
  <2> HIDE DEF q
  <2>3. /\ q \in DOMAIN table /\ x.off = off
        /\ \A m \in DOMAIN Emits : x.vals[m] <=> Emits[m] \in parsed
        /\ \A part \in {"first", "second"} : flags[part] \cap OpKeys(part) = x.ops[part]
    BY <2>2 DEF Hits
  <2>4. x.ops.first = flags.first /\ x.ops.second = flags.second
    <3>1. /\ flags.first \cap OpKeys("first") = x.ops.first
          /\ flags.second \cap OpKeys("second") = x.ops.second
      BY <2>3
    <3> QED BY <1>2, <3>1
  <2>5. Agrees(x.vals, Len(Emits), parsed)
    BY <2>3, EmitsType DEF Agrees
  <2>6. valid = (parsed \cup x.ops.first) \ x.ops.second
    BY <2>4
  <2>7. Right(x.act, x.off, parsed, valid)
    BY <2>3, <2>5, <2>6, ZenonT(30) DEF TableRight
  <2> QED BY <1>3, <2>3, <2>7 DEF q
<1>4. CASE hit = {}
  <2>1. NoOpKeys /\ \A k \in DOMAIN Emits : Emits[k] \notin parsed
    BY <1>4 DEF TableInv, PacketsHit, NoOpKeys
  <2>2. valid = parsed
    BY <1>2, <2>1 DEF NoOpKeys
  <2>3. c = <<>> /\ c \in Seq(Op)
    BY <1>4
  <2> DEFINE rest == off + WidthUpTo(parsed)[Len(Emits)]
  <2>4. rest \in Nat
    <3>1. WidthUpTo(parsed)[Len(Emits)] \in Nat
      BY EmitsType, WidthDef
    <3> QED BY <1>1, <3>1
  <2>5. \A j \in 0 .. StackSize - 1 : j - rest + rest = j
    <3> HIDE DEF rest
    <3> QED BY <2>4
  <2>6. ASSUME NEW s, NEW t, Ran(c, Len(c), s, t) PROVE Rewritten(s, t, off, parsed, parsed)
    <3>1. t = s
      BY <2>3, <2>6, RanNothing
    <3>2. \A k \in 1 .. Len(Emits) : Emits[k] \notin parsed
      BY <2>1, EmitsType
    <3> QED BY <2>5, <3>1, <3>2 DEF Rewritten
  <2>7. Handles(c, off, parsed, valid)
    BY <2>2, <2>3, <2>6 DEF Handles
  <2>8. AllContained(c)
    BY <1>4, NothingContained
  <2> QED BY <2>7, <2>8 DEF Right
<1> QED BY <1>3, <1>4

----------------------------------------------------------------------------
(* The packet. *)

PktStack == [j \in 0 .. StackSize - 1 |-> PktByte(j)]

\* A packet at the deparser that is within the limits and whose headers fit on the stack.
PacketFits ==
  stage \in {"run", "done"} =>
    WithinLimits /\ Fits(pkt.off, pkt.parsed, ValidHeaders)

\* The action of a packet has run up to pc, from the packet as it was.
RunInv ==
  /\ stage \in {"emits", "table", "run", "done"}
  /\ stage \in {"emits", "table"} => stack = PktStack
  /\ stage \in {"run", "done"} /\ WithinLimits =>
       /\ pkt.off \in Nat
       /\ Handles(code, pkt.off, pkt.parsed, ValidHeaders)
       /\ Fits(pkt.off, pkt.parsed, ValidHeaders) => AllContained(code)
       /\ pc \in Nat \ {0} /\ pc - 1 <= Len(code)
       /\ Ran(code, pc - 1, PktStack, stack)
       /\ stage = "done" => pc = Len(code) + 1

DeparserInv == RightInv /\ TableRight /\ RunInv

LEMMA InitDeparserInv == Init => DeparserInv
  BY InitRightInv DEF Init, DeparserInv, TableRight, RunInv, PktStack

LEMMA NextTableRight ==
  ASSUME DeparserInv, [Next]_vars
  PROVE  TableRight'
<1>1. CASE FinishTable
  BY <1>1, FinishedTableRight DEF DeparserInv
<1>2. CASE stage' = "emits"
  BY <1>2 DEF TableRight
<1>3. CASE stage # "emits" /\ UNCHANGED <<initialOffsets, xoredValidityOps, table>>
  <2>1. HasOffsetKey' = HasOffsetKey
    BY <1>3 DEF HasOffsetKey
  <2>2. NoOpKeys' = NoOpKeys /\ OffsetsApart' = OffsetsApart /\ OneOffset' = OneOffset
    BY <1>3, <2>1 DEF NoOpKeys, OpKeys, OffsetsApart, Combinations, OneOffset
  <2>3. TableRight
    BY DEF DeparserInv
  <2> QED BY <1>3, <2>2, <2>3 DEF TableRight, Right, Limits
<1>4. CASE EmitStatement
  BY <1>2, <1>4 DEF EmitStatement
<1>5. CASE \E i \in DOMAIN initialOffsets : \E parsed \in Accepts :
             \E flags \in Flags : Arrive(initialOffsets[i], parsed, flags)
  BY <1>3, <1>5 DEF Arrive, passVars
<1>6. CASE RunAction
  BY <1>3, <1>6 DEF RunAction, passVars
<1>7. CASE EndAction
  BY <1>3, <1>7 DEF EndAction, passVars
<1>8. CASE UNCHANGED vars
  BY <1>2, <1>3, <1>8 DEF vars, passVars
<1> QED BY <1>1, <1>4, <1>5, <1>6, <1>7, <1>8 DEF Next

LEMMA NextRunInv ==
  ASSUME DeparserInv, [Next]_vars
  PROVE  RunInv'
<1>1. ASSUME UNCHANGED <<initialOffsets, xoredValidityOps>>
      PROVE  /\ NoOpKeys' = NoOpKeys /\ OffsetsApart' = OffsetsApart /\ OneOffset' = OneOffset
             /\ pkt' = pkt => WithinLimits' = WithinLimits /\ ValidHeaders' = ValidHeaders
  <2>1. HasOffsetKey' = HasOffsetKey
    BY <1>1 DEF HasOffsetKey
  <2>2. NoOpKeys' = NoOpKeys /\ OffsetsApart' = OffsetsApart /\ OneOffset' = OneOffset
    BY <1>1, <2>1 DEF NoOpKeys, OpKeys, OffsetsApart, Combinations, OneOffset
  <2>3. ASSUME pkt' = pkt PROVE WithinLimits' = WithinLimits /\ ValidHeaders' = ValidHeaders
    BY <2>2, <2>3 DEF WithinLimits, Limits, ValidHeaders
  <2> QED BY <2>2, <2>3
<1>2. RunInv
  BY DEF DeparserInv
<1>3. CASE EmitStatement
  BY <1>2, <1>3 DEF EmitStatement, runVars, RunInv
<1>4. CASE FinishTable
  BY <1>2, <1>4 DEF FinishTable, runVars, RunInv
<1>5. CASE \E i \in DOMAIN initialOffsets : \E parsed \in Accepts :
             \E flags \in Flags : Arrive(initialOffsets[i], parsed, flags)
  <2>1. PICK i \in DOMAIN initialOffsets, parsed \in Accepts, flags \in Flags :
          Arrive(initialOffsets[i], parsed, flags)
    BY <1>5
  <2> DEFINE off == initialOffsets[i]
             hit == Hits(off, parsed, flags)
             valid == (parsed \cup flags.first) \ flags.second
  <2>2. /\ stage = "table" /\ stage' = "run" /\ pc' = 1
        /\ code' = IF hit = {} THEN <<>> ELSE table[Min(hit)].act
        /\ pkt' = [off |-> off, parsed |-> parsed, ops |-> flags,
                   resets |-> hit # {} /\ table[Min(hit)].resets]
        /\ stack' = stack /\ UNCHANGED <<initialOffsets, xoredValidityOps>>
    BY <2>1 DEF Arrive, passVars
  <2>3. TableInv /\ TableRight /\ stack = PktStack
    BY <1>2, <2>2 DEF DeparserInv, RightInv, RunInv
  <2>4. off \in Nat
    <3>1. initialOffsets \in Seq(Nat)
      BY <2>3 DEF TableInv, VectorsInv, PassInv, EntriesInv
    <3> QED BY <3>1
  <2> DEFINE res == hit # {} /\ table[Min(hit)].resets
             p == [off |-> off, parsed |-> parsed, ops |-> flags, resets |-> res]
  <2>5. pkt' = p /\ p.off = off /\ p.parsed = parsed /\ p.ops = flags
    BY <2>2
  <2> HIDE DEF p, off, hit
  <2>6. pkt'.off = off /\ pkt'.parsed = parsed /\ ValidHeaders' = valid
    BY <2>5 DEF ValidHeaders
  <2>7. ASSUME WithinLimits'
        PROVE  /\ Handles(code', off, parsed, valid)
               /\ Fits(off, parsed, valid) => AllContained(code')
    <3>1. Limits(off, parsed, valid)
      BY <1>1, <2>2, <2>6, <2>7 DEF WithinLimits, Limits
    <3>2. Right(code', off, parsed, valid)
      BY <2>2, <2>3, PacketHandled DEF off, hit
    <3> QED BY <3>1, <3>2 DEF Right
  <2>8. Ran(code', 0, PktStack, stack')
    <3> DEFINE r == [j \in {0} |-> stack']
    <3>1. r[0] = PktStack /\ r[0] = stack' /\ 1 .. 0 = {}
      BY <2>2, <2>3
    <3> HIDE DEF r
    <3> QED BY <3>1 DEF Ran
  <2>9. ASSUME WithinLimits' PROVE pc' - 1 = 0 /\ pc' - 1 <= Len(code') /\ pc' \in Nat \ {0}
    <3>1. code' \in Seq(Op)
      BY <2>7, <2>9 DEF Handles
    <3>2. Len(code') \in Nat
      BY <3>1
    <3> QED BY <2>2, <3>2
  <2> QED BY <2>2, <2>4, <2>6, <2>7, <2>8, <2>9 DEF RunInv
<1>6. CASE RunAction
  <2>1. /\ stage = "run" /\ stage' = "run" /\ pkt' = pkt /\ code' = code
        /\ UNCHANGED <<initialOffsets, xoredValidityOps>>
        /\ pc <= Len(code) /\ pc' = pc + 1 /\ stack' = Assign(stack, code[pc])
    BY <1>6 DEF RunAction, Execute, passVars, Assign
  <2> SUFFICES ASSUME WithinLimits'
               PROVE  /\ pc' \in Nat \ {0} /\ pc' - 1 <= Len(code')
                      /\ Ran(code, pc' - 1, PktStack, stack')
                      /\ pkt.off \in Nat /\ Handles(code, pkt.off, pkt.parsed, ValidHeaders)
                      /\ Fits(pkt.off, pkt.parsed, ValidHeaders) => AllContained(code)
    BY <1>1, <2>1 DEF RunInv
  <2>2. WithinLimits
    BY <1>1, <2>1
  <2>3. /\ pkt.off \in Nat /\ Handles(code, pkt.off, pkt.parsed, ValidHeaders)
        /\ Fits(pkt.off, pkt.parsed, ValidHeaders) => AllContained(code)
        /\ pc \in Nat \ {0} /\ Ran(code, pc - 1, PktStack, stack)
    BY <1>2, <2>1, <2>2 DEF RunInv
  <2>4. pc - 1 \in Nat /\ (pc - 1) + 1 = pc /\ pc' - 1 = (pc - 1) + 1 /\ pc' \in Nat \ {0}
    BY <2>1, <2>3
  <2>5. Ran(code, (pc - 1) + 1, PktStack, Assign(stack, code[(pc - 1) + 1]))
    BY <2>3, <2>4, RanOneMore
  <2>6. Ran(code, pc' - 1, PktStack, stack')
    BY <2>1, <2>4, <2>5
  <2> QED BY <2>1, <2>3, <2>4, <2>6
<1>7. CASE EndAction
  <2>1. /\ stage = "run" /\ stage' = "done" /\ pkt' = pkt /\ code' = code /\ pc' = pc
        /\ stack' = stack /\ pc > Len(code)
        /\ UNCHANGED <<initialOffsets, xoredValidityOps>>
    BY <1>7 DEF EndAction, passVars
  <2>2. ASSUME WithinLimits PROVE pc = Len(code) + 1
    <3>1. code \in Seq(Op) /\ pc \in Nat \ {0} /\ pc - 1 <= Len(code)
      BY <1>2, <2>1, <2>2 DEF RunInv, Handles
    <3>2. Len(code) \in Nat
      BY <3>1
    <3> QED BY <2>1, <3>1, <3>2
  <2> QED BY <1>1, <1>2, <2>1, <2>2 DEF RunInv
<1>8. CASE UNCHANGED vars
  BY <1>1, <1>2, <1>8 DEF vars, passVars, runVars, RunInv
<1> QED BY <1>3, <1>4, <1>5, <1>6, <1>7, <1>8 DEF Next

LEMMA RunInvDeparsed ==
  ASSUME RunInv, WithinLimits
  PROVE  Deparsed
<1> SUFFICES ASSUME stage = "done" PROVE Deparsed
  BY DEF Deparsed
<1> DEFINE valid == ValidHeaders
           width == WidthUpTo(valid)
           M == Len(Emits)
           off == pkt.off
           end == off + width[M]
           rest == off + WidthUpTo(pkt.parsed)[M]
<1>1. /\ off \in Nat /\ Handles(code, off, pkt.parsed, valid) /\ pc = Len(code) + 1
      /\ Ran(code, pc - 1, PktStack, stack)
  BY DEF RunInv
<1>2. pc - 1 = Len(code)
  <2>1. code \in Seq(Op)
    BY <1>1 DEF Handles
  <2>2. Len(code) \in Nat
    BY <2>1
  <2> QED BY <1>1, <2>2
<1>3. OnStack(PktStack)
  BY DEF OnStack, PktStack
<1>4. Rewritten(PktStack, stack, off, pkt.parsed, valid)
  BY <1>1, <1>2, <1>3 DEF Handles
<1>5. end \in Nat /\ rest \in Nat /\ StackSize \in Nat
  <2>1. width[M] \in Nat /\ WidthUpTo(pkt.parsed)[M] \in Nat
    BY EmitsType, WidthDef
  <2> QED BY <1>1, <2>1, StackAssumption
<1>6. ASSUME NEW j \in 0 .. StackSize - 1
      PROVE  /\ j < off => stack[j] = PktByte(j)
             /\ end <= j /\ j - end + rest < StackSize => stack[j] = PktByte(j - end + rest)
  <2>1. /\ j < off => stack[j] = PktStack[j]
        /\ end <= j /\ j - end + rest < StackSize => stack[j] = PktStack[j - end + rest]
    BY <1>4 DEF Rewritten
  <2>2. PktStack[j] = PktByte(j)
    BY DEF PktStack
  <2>3. ASSUME end <= j, j - end + rest < StackSize PROVE j - end + rest \in 0 .. StackSize - 1
    <3> HIDE DEF end, rest
    <3> QED BY <1>5, <2>3
  <2>4. ASSUME NEW i \in 0 .. StackSize - 1 PROVE PktStack[i] = PktByte(i)
    BY DEF PktStack
  <2> HIDE DEF end, rest
  <2> QED BY <2>1, <2>2, <2>3, <2>4
<1>7. ASSUME NEW n \in DOMAIN Emits, Emits[n] \in valid
      PROVE  \A s \in 0 .. Width[Emits[n]] - 1 :
               off + width[n - 1] + s < StackSize => stack[off + width[n - 1] + s] = HdrByte(Emits[n], s)
  <2>1. n \in 1 .. Len(Emits)
    BY EmitsType
  <2>2. HeaderAt(stack, off + width[n - 1], Emits[n])
    BY <1>4, <1>7, <2>1 DEF Rewritten
  <2> QED BY <2>2 DEF HeaderAt
<1> QED BY <1>6, <1>7 DEF Deparsed

\* The packet leaves the deparser as the emit statements say, whatever was parsed and
\* whichever operations were performed: the table's keys tell the cases apart, the offsets
\* computed for the moves and the headers are right, and no assignment of an action
\* overwrites a byte that a later one still reads.
THEOREM PacketDeparsed == Spec => [](WithinLimits => Deparsed)
<1>1. DeparserInv /\ [Next]_vars => DeparserInv'
  BY NextRightInv, NextTableRight, NextRunInv DEF DeparserInv
<1>2. DeparserInv => (WithinLimits => Deparsed)
  BY RunInvDeparsed DEF DeparserInv
<1> QED BY <1>1, <1>2, InitDeparserInv, PTL DEF Spec

----------------------------------------------------------------------------
(* The types. *)

ArgumentsInv == <<initialOffsets, xoredValidityOps>> \in Arguments

\* What the machine holds, when the packet fits.
MachineOK ==
  /\ OnStack(stack)
  /\ \A j \in 0 .. StackSize - 1 : stack[j] \in ByteValue
  /\ currOffset \in Nat

MachineInv ==
  /\ ArgumentsInv
  /\ stage \in {"emits", "table"} => code = <<>> /\ pc = 1
  /\ PacketFits => MachineOK

LEMMA InitMachineInv == Init => MachineInv
<1> SUFFICES ASSUME Init PROVE MachineInv
  OBVIOUS
<1>1. ArgumentsInv
  <2>1. PICK a \in Arguments : initialOffsets = a[1] /\ xoredValidityOps = a[2]
    BY DEF Init
  <2>2. a \in Seq(Nat) \X Seq([first : SUBSET Headers, second : SUBSET Headers])
    BY DeparserAssumption
  <2>3. a = <<a[1], a[2]>>
    BY <2>2
  <2> QED BY <2>1, <2>3 DEF ArgumentsInv
<1>2. code = <<>> /\ pc = 1 /\ currOffset = 0
  BY DEF Init
<1>3. stack = PktStack
  BY DEF Init, PktStack
<1>4. OnStack(stack) /\ \A j \in 0 .. StackSize - 1 : stack[j] = PktByte(j)
  BY <1>3 DEF OnStack, PktStack
<1>5. \A j \in 0 .. StackSize - 1 : PktByte(j) \in ByteValue
  BY DeparserAssumption
<1>6. MachineOK
  BY <1>2, <1>4, <1>5 DEF MachineOK
<1> QED BY <1>1, <1>2, <1>6 DEF MachineInv

LEMMA NextMachineInv ==
  ASSUME DeparserInv, MachineInv, [Next]_vars
  PROVE  MachineInv'
<1>1. ASSUME UNCHANGED <<initialOffsets, xoredValidityOps>>
      PROVE  /\ ArgumentsInv'
             /\ pkt' = pkt => /\ WithinLimits' = WithinLimits /\ ValidHeaders' = ValidHeaders
  <2>1. HasOffsetKey' = HasOffsetKey
    BY <1>1 DEF HasOffsetKey
  <2>2. NoOpKeys' = NoOpKeys /\ OffsetsApart' = OffsetsApart /\ OneOffset' = OneOffset
    BY <1>1, <2>1 DEF NoOpKeys, OpKeys, OffsetsApart, Combinations, OneOffset
  <2>3. ASSUME pkt' = pkt PROVE WithinLimits' = WithinLimits /\ ValidHeaders' = ValidHeaders
    BY <2>2, <2>3 DEF WithinLimits, Limits, ValidHeaders
  <2>4. ArgumentsInv'
    BY <1>1 DEF MachineInv, ArgumentsInv
  <2> QED BY <2>3, <2>4
<1>2. ArgumentsInv /\ (PacketFits => MachineOK) /\ RunInv
  BY DEF MachineInv, DeparserInv
<1>3. stage \in {"emits", "table"} => PacketFits
  BY DEF PacketFits
<1>4. ASSUME stage \in {"emits", "table"}, UNCHANGED <<initialOffsets, xoredValidityOps, runVars>>
      PROVE  MachineInv'
  <2>1. MachineOK /\ code = <<>> /\ pc = 1
    BY <1>2, <1>3, <1>4 DEF MachineInv
  <2>2. stack' = stack /\ code' = code /\ pc' = pc /\ currOffset' = currOffset
    BY <1>4 DEF runVars
  <2>3. MachineOK'
    BY <2>1, <2>2 DEF MachineOK, OnStack
  <2> QED BY <1>1, <1>4, <2>1, <2>2, <2>3 DEF MachineInv
<1>5. CASE EmitStatement
  BY <1>4, <1>5 DEF EmitStatement
<1>6. CASE FinishTable
  BY <1>4, <1>6 DEF FinishTable
<1>7. CASE \E i \in DOMAIN initialOffsets : \E parsed \in Accepts :
             \E flags \in Flags : Arrive(initialOffsets[i], parsed, flags)
  <2>1. PICK i \in DOMAIN initialOffsets, parsed \in Accepts, flags \in Flags :
          Arrive(initialOffsets[i], parsed, flags)
    BY <1>7
  <2>2. /\ stage = "table" /\ stage' = "run"
        /\ currOffset' = initialOffsets[i] + WidthUpTo(parsed)[Len(Emits)]
        /\ stack' = stack /\ UNCHANGED <<initialOffsets, xoredValidityOps>>
    BY <2>1 DEF Arrive, passVars
  <2>3. initialOffsets[i] \in Nat
    <3>1. initialOffsets \in Seq(Nat)
      BY DEF DeparserInv, RightInv, TableInv, VectorsInv, PassInv, EntriesInv
    <3> QED BY <3>1
  <2>4. WidthUpTo(parsed)[Len(Emits)] \in Nat
    BY EmitsType, WidthDef
  <2>5. currOffset' \in Nat
    BY <2>2, <2>3, <2>4
  <2>6. MachineOK
    BY <1>2, <1>3, <2>2
  <2>7. MachineOK'
    BY <2>2, <2>5, <2>6 DEF MachineOK, OnStack
  <2> QED BY <1>1, <2>2, <2>7 DEF MachineInv
<1>8. CASE RunAction
  <2>1. /\ stage = "run" /\ stage' = "run" /\ pkt' = pkt /\ currOffset' = currOffset
        /\ UNCHANGED <<initialOffsets, xoredValidityOps>>
        /\ pc <= Len(code) /\ stack' = Assign(stack, code[pc])
    BY <1>8 DEF RunAction, Execute, passVars, Assign
  <2>2. ASSUME PacketFits' PROVE MachineOK'
    <3>1. PacketFits /\ WithinLimits /\ Fits(pkt.off, pkt.parsed, ValidHeaders)
      BY <1>1, <2>1, <2>2 DEF PacketFits
    <3>2. MachineOK
      BY <1>2, <3>1
    <3>3. AllContained(code) /\ pc \in Nat \ {0} /\ code \in Seq(Op)
      BY <1>2, <2>1, <3>1 DEF RunInv, Handles
    <3>4. pc \in 1 .. Len(code)
      BY <2>1, <3>3
    <3> DEFINE a == code[pc]
               value == IF a.hdr = "stack" THEN stack[a.src] ELSE HdrByte(a.hdr, a.src)
    <3>5. Contained(a)
      BY <3>3, <3>4 DEF AllContained
    <3>6. value \in ByteValue
      <4>1. a.hdr = "stack" => stack[a.src] \in ByteValue
        BY <3>2, <3>5 DEF MachineOK, Contained
      <4>2. a.hdr # "stack" => HdrByte(a.hdr, a.src) \in ByteValue
        BY <3>5, DeparserAssumption DEF Contained
      <4> QED BY <4>1, <4>2
    <3>7. /\ OnStack(Assign(stack, a))
          /\ \A j \in 0 .. StackSize - 1 : Assign(stack, a)[j] = IF j = a.dst THEN value ELSE stack[j]
      BY <3>2, AssignByte DEF MachineOK
    <3> HIDE DEF value
    <3>8. \A j \in 0 .. StackSize - 1 : Assign(stack, a)[j] \in ByteValue
      BY <3>2, <3>6, <3>7 DEF MachineOK
    <3>9. OnStack(stack') /\ \A j \in 0 .. StackSize - 1 : stack'[j] \in ByteValue
      BY <2>1, <3>7, <3>8
    <3> QED BY <2>1, <3>2, <3>9 DEF MachineOK, OnStack
  <2> QED BY <1>1, <2>1, <2>2 DEF MachineInv
<1>9. CASE EndAction
  <2>1. /\ stage = "run" /\ stage' = "done" /\ pkt' = pkt /\ stack' = stack
        /\ currOffset' = IF pkt.resets THEN pkt.off ELSE currOffset
        /\ UNCHANGED <<initialOffsets, xoredValidityOps>>
    BY <1>9 DEF EndAction, passVars
  <2>2. ASSUME PacketFits' PROVE MachineOK'
    <3>1. PacketFits /\ WithinLimits
      BY <1>1, <2>1, <2>2 DEF PacketFits
    <3>2. MachineOK /\ pkt.off \in Nat
      BY <1>2, <2>1, <3>1 DEF RunInv
    <3>3. currOffset' \in Nat
      BY <2>1, <3>2 DEF MachineOK
    <3> QED BY <2>1, <3>2, <3>3 DEF MachineOK, OnStack
  <2> QED BY <1>1, <2>1, <2>2 DEF MachineInv
<1>10. CASE UNCHANGED vars
  <2>1. /\ UNCHANGED <<initialOffsets, xoredValidityOps>> /\ pkt' = pkt /\ stage' = stage
        /\ stack' = stack /\ code' = code /\ pc' = pc /\ currOffset' = currOffset
    BY <1>10 DEF vars, passVars, runVars
  <2>2. PacketFits' => PacketFits
    BY <1>1, <2>1 DEF PacketFits
  <2>3. MachineOK => MachineOK'
    BY <2>1 DEF MachineOK, OnStack
  <2> QED BY <1>1, <1>2, <2>1, <2>2, <2>3 DEF MachineInv
<1> QED BY <1>5, <1>6, <1>7, <1>8, <1>9, <1>10 DEF Next

LEMMA MachineTypeOK ==
  ASSUME DeparserInv, MachineInv, PacketFits
  PROVE  TypeOK
<1>1. /\ emitted \in 0 .. Len(Emits) /\ headerKeyValues \in Seq(Seq(KeyValue))
  BY DEF DeparserInv, RightInv, TableInv, VectorsInv, PassInv, EntriesInv
<1>2. \A i \in DOMAIN headerKeyValues : headerKeyValues[i] \in Seq({OffsetKey, "t", "f"})
  BY <1>1 DEF KeyValue
<1>3. stage \in {"emits", "table", "run", "done"} /\ RunInv
  BY DEF DeparserInv, RunInv
<1>4. /\ \A i \in DOMAIN code : code[i].dst \in 0 .. StackSize - 1
      /\ pc \in 1 .. Len(code) + 1
  <2>1. CASE stage \in {"emits", "table"}
    <3>1. code = <<>> /\ pc = 1
      BY <2>1 DEF MachineInv
    <3>2. DOMAIN code = {} /\ Len(code) = 0
      BY <3>1
    <3> QED BY <3>1, <3>2
  <2>2. CASE stage \in {"run", "done"}
    <3>1. WithinLimits /\ Fits(pkt.off, pkt.parsed, ValidHeaders)
      BY <2>2 DEF PacketFits
    <3>2. AllContained(code) /\ code \in Seq(Op) /\ pc \in Nat \ {0} /\ pc - 1 <= Len(code)
      BY <1>3, <2>2, <3>1 DEF RunInv, Handles
    <3>3. DOMAIN code = 1 .. Len(code) /\ Len(code) \in Nat
      BY <3>2
    <3>4. \A i \in DOMAIN code : code[i].dst \in 0 .. StackSize - 1
      BY <3>2, <3>3 DEF AllContained, Contained
    <3> QED BY <3>2, <3>3, <3>4
  <2> QED BY <1>3, <2>1, <2>2
<1>5. MachineOK /\ ArgumentsInv
  BY DEF MachineInv
<1> QED BY <1>1, <1>2, <1>3, <1>4, <1>5 DEF TypeOK, MachineOK, OnStack, ArgumentsInv

\* The actions that the pass generates stay on the stack: when it holds a packet's parsed
\* and its valid headers, no assignment of the action that the packet hits writes behind its
\* last byte, and what each one reads is a byte of the stack or of a header.
\* DeparserConverter cuts the blocks of the moves at the end of the stack (resiBlockSize) but
\* writes every header whole; that the headers fit is what StaticAnalyzer sizes it for.
THEOREM AssignmentsOnStack == Spec => [](PacketFits => TypeOK)
<1>1. DeparserInv /\ MachineInv /\ [Next]_vars => DeparserInv' /\ MachineInv'
  BY NextRightInv, NextTableRight, NextRunInv, NextMachineInv DEF DeparserInv
<1>2. DeparserInv /\ MachineInv => (PacketFits => TypeOK)
  BY MachineTypeOK
<1> QED BY <1>1, <1>2, InitDeparserInv, InitMachineInv, PTL DEF Spec
====
