---- MODULE FieldSlices_proof ----
(***************************************************************************)
(* The slices with which fields are copied from the byte stack and back,   *)
(* for stacks of any size and headers of any number of fields, of any      *)
(* widths and at any bit: the recursive functions of FieldSlices computed, *)
(* then the invariants of its behaviours.                                  *)
(***************************************************************************)
EXTENDS FieldSlices, SequenceLemmas

\* The byte and the bit of a position.
LEMMA ByteAndBit ==
  ASSUME NEW n \in Nat
  PROVE  /\ n \div 8 \in Nat /\ n % 8 \in 0 .. 7
         /\ n = 8 * (n \div 8) + (n % 8)
  OBVIOUS

----------------------------------------------------------------------------
(* Where the fields start. *)

IsStarts(f, widths, n, v) ==
  v = [k \in 1 .. n + 1 |-> IF k = 1 THEN f ELSE v[k - 1] + widths[k - 1]]

LEMMA StartsExist ==
  ASSUME NEW f, NEW widths, NEW N \in Nat
  PROVE  \E v : IsStarts(f, widths, N, v)
<1> DEFINE T == {n \in Nat : \E v : IsStarts(f, widths, n, v)}
<1>1. 0 \in T
  <2> DEFINE v == [k \in 1 .. 0 + 1 |-> f]
  <2>1. IsStarts(f, widths, 0, v)
    BY DEF IsStarts
  <2> QED BY <2>1
<1>2. ASSUME NEW n \in Nat, n \in T PROVE n + 1 \in T
  <2>1. PICK v : IsStarts(f, widths, n, v)
    BY <1>2
  <2> DEFINE u == [k \in 1 .. (n + 1) + 1 |->
                     IF k = n + 2 THEN v[n + 1] + widths[n + 1] ELSE v[k]]
  <2>2. ASSUME NEW k \in 1 .. (n + 1) + 1
        PROVE  u[k] = IF k = 1 THEN f ELSE u[k - 1] + widths[k - 1]
    <3>1. CASE k = n + 2
      BY <3>1
    <3>2. CASE k # n + 2
      <4>1. k \in 1 .. n + 1 /\ (k # 1 => k - 1 \in 1 .. n + 1)
        BY <3>2
      <4>2. v[k] = IF k = 1 THEN f ELSE v[k - 1] + widths[k - 1]
        BY <2>1, <4>1 DEF IsStarts
      <4> QED BY <4>1, <4>2
    <3> QED BY <3>1, <3>2
  <2>3. IsStarts(f, widths, n + 1, u)
    <3>1. u = [k \in 1 .. (n + 1) + 1 |-> u[k]]
      OBVIOUS
    <3> HIDE DEF u
    <3> QED BY <2>2, <3>1 DEF IsStarts
  <2> QED BY <2>3
<1> HIDE DEF T
<1>3. N \in T
  BY <1>1, <1>2, NatSetInduction
<1> QED BY <1>3 DEF T

\* A field starts where the one before it ends.
LEMMA StartsDef ==
  ASSUME NEW f \in Nat, NEW widths \in Seq(Nat \ {0})
  PROVE  /\ StartsOf(f, widths)[1] = f
         /\ \A k \in DOMAIN widths :
              StartsOf(f, widths)[k + 1] = StartsOf(f, widths)[k] + widths[k]
         /\ \A k \in 1 .. Len(widths) + 1 : StartsOf(f, widths)[k] \in Nat
<1> DEFINE n == Len(widths)
           v == StartsOf(f, widths)
<1>1. n \in Nat /\ DOMAIN widths = 1 .. n /\ \A k \in 1 .. n : widths[k] \in Nat
  OBVIOUS
<1>2. \E g : IsStarts(f, widths, n, g)
  BY <1>1, StartsExist
<1>3. IsStarts(f, widths, n, v)
  BY <1>2 DEF IsStarts, StartsOf
<1> HIDE DEF n, v
<1>4. v[1] = f
  <2>1. 1 \in 1 .. n + 1
    BY <1>1
  <2> QED BY <1>3, <2>1 DEF IsStarts
<1>5. ASSUME NEW k \in 1 .. n PROVE v[k + 1] = v[k] + widths[k]
  <2>1. k + 1 \in 1 .. n + 1 /\ k + 1 # 1 /\ (k + 1) - 1 = k
    BY <1>1
  <2> QED BY <1>3, <2>1 DEF IsStarts
<1> DEFINE T == {k \in Nat : k <= n => v[k + 1] \in Nat}
<1>6. 0 \in T
  BY <1>4
<1>7. ASSUME NEW k \in Nat, k \in T PROVE k + 1 \in T
  <2> SUFFICES ASSUME k + 1 <= n PROVE v[(k + 1) + 1] \in Nat
    OBVIOUS
  <2>1. k + 1 \in 1 .. n /\ v[k + 1] \in Nat /\ widths[k + 1] \in Nat
    BY <1>1, <1>7
  <2> QED BY <2>1, <1>5
<1> HIDE DEF T
<1>8. \A k \in Nat : k \in T
  BY <1>6, <1>7, NatSetInduction
<1>9. ASSUME NEW k \in 1 .. n + 1 PROVE v[k] \in Nat
  <2>1. k - 1 \in Nat /\ k - 1 <= n /\ (k - 1) + 1 = k
    BY <1>1
  <2> QED BY <1>8, <2>1 DEF T
<1> QED BY <1>1, <1>4, <1>5, <1>9 DEF n, v

\* No field starts before an earlier one.
LEMMA StartsGrow ==
  ASSUME NEW f \in Nat, NEW widths \in Seq(Nat \ {0}),
         NEW j \in 1 .. Len(widths) + 1, NEW k \in 1 .. Len(widths) + 1, j <= k
  PROVE  StartsOf(f, widths)[j] <= StartsOf(f, widths)[k]
<1> DEFINE n == Len(widths)
           v == StartsOf(f, widths)
           T == {i \in Nat : j + i <= n + 1 => v[j] <= v[j + i]}
<1>1. n \in Nat /\ DOMAIN widths = 1 .. n /\ (\A i \in 1 .. n : widths[i] \in Nat)
  OBVIOUS
<1>2. /\ \A i \in 1 .. n : v[i + 1] = v[i] + widths[i]
      /\ \A i \in 1 .. n + 1 : v[i] \in Nat
  BY StartsDef
<1> HIDE DEF n, v
<1>3. j \in 1 .. n + 1 /\ k \in 1 .. n + 1
  BY DEF n
<1>4. 0 \in T
  BY <1>1, <1>2, <1>3
<1>5. ASSUME NEW i \in Nat, i \in T PROVE i + 1 \in T
  <2> SUFFICES ASSUME j + (i + 1) <= n + 1 PROVE v[j] <= v[j + (i + 1)]
    OBVIOUS
  <2>1. j + i \in 1 .. n /\ j + i <= n + 1 /\ j + (i + 1) = (j + i) + 1
    BY <1>1, <1>3
  <2>2. v[j] <= v[j + i] /\ v[(j + i) + 1] = v[j + i] + widths[j + i]
    BY <1>2, <1>5, <2>1
  <2>3. v[j] \in Nat /\ v[j + i] \in Nat /\ widths[j + i] \in Nat
    BY <1>1, <1>2, <1>3, <2>1
  <2> QED BY <2>1, <2>2, <2>3
<1> HIDE DEF T
<1>6. \A i \in Nat : i \in T
  BY <1>4, <1>5, NatSetInduction
<1>7. k - j \in Nat /\ j + (k - j) = k /\ k <= n + 1
  BY <1>1, <1>3
<1>8. v[j] <= v[k]
  BY <1>6, <1>7 DEF T
<1> QED BY <1>8 DEF v

----------------------------------------------------------------------------
(* Extracting a field. *)

\* Bits lo .. hi of byte b are consecutive bits of the stack, most significant first.
LEMMA ByteSliceBits ==
  ASSUME stack \in [Positions -> Bits], Bytes \in Nat, NEW b \in Nat, NEW lo \in Nat, NEW hi \in Nat,
         lo <= hi, hi <= 7, 8 * b + 7 - lo < 8 * Bytes
  PROVE  /\ ByteSlice(b, lo, hi) \in Seq(Bits)
         /\ Len(ByteSlice(b, lo, hi)) = hi - lo + 1
         /\ \A i \in 1 .. hi - lo + 1 : ByteSlice(b, lo, hi)[i] = stack[8 * b + 7 - hi + i - 1]
<1> DEFINE n == hi - lo + 1
           s == ByteSlice(b, lo, hi)
<1>1. n \in Nat
  OBVIOUS
<1>2. s = [i \in 1 .. n |-> stack[Position(b, hi - i + 1)]]
  BY DEF ByteSlice
<1>3. ASSUME NEW i \in 1 .. n
      PROVE  /\ Position(b, hi - i + 1) = 8 * b + 7 - hi + i - 1
             /\ Position(b, hi - i + 1) \in Positions
  BY DEF Position, Positions
<1> HIDE DEF n, s
<1>4. \A i \in 1 .. n : s[i] = stack[8 * b + 7 - hi + i - 1] /\ s[i] \in Bits
  BY <1>2, <1>3
<1>5. s \in [1 .. n -> Bits]
  BY <1>2, <1>3
<1>6. s \in Seq(Bits) /\ Len(s) = n
  BY <1>1, <1>5
<1> QED BY <1>4, <1>6 DEF n, s

\* Appending a slice to n bits from position p on gives the n + m bits from there on, when
\* the slice has the m bits that follow.
LEMMA ConcatBits ==
  ASSUME NEW s \in Seq(Bits), NEW t \in Seq(Bits), NEW p \in Nat,
         \A i \in 1 .. Len(s) : s[i] = stack[p + i - 1],
         \A i \in 1 .. Len(t) : t[i] = stack[p + Len(s) + i - 1]
  PROVE  /\ s \o t \in Seq(Bits) /\ Len(s \o t) = Len(s) + Len(t)
         /\ \A i \in 1 .. Len(s) + Len(t) : (s \o t)[i] = stack[p + i - 1]
<1>1. s \o t \in Seq(Bits) /\ Len(s \o t) = Len(s) + Len(t) /\ Len(s) \in Nat /\ Len(t) \in Nat
  OBVIOUS
<1>2. ASSUME NEW i \in 1 .. Len(s) + Len(t) PROVE (s \o t)[i] = stack[p + i - 1]
  <2>1. CASE i <= Len(s)
    BY <1>1, <2>1
  <2>2. CASE i > Len(s)
    <3>1. i - Len(s) \in 1 .. Len(t) /\ (s \o t)[i] = t[i - Len(s)]
      BY <1>1, <2>2
    <3>2. p + Len(s) + (i - Len(s)) - 1 = p + i - 1
      BY <1>1
    <3> QED BY <3>1, <3>2
  <2> QED BY <1>1, <2>1, <2>2
<1> QED BY <1>1, <1>2

IsConcat(head, b, n, v) ==
  v = [k \in 0 .. n |-> IF k = 0 THEN head ELSE v[k - 1] \o ByteSlice(b + k - 1, 0, 7)]

LEMMA ConcatExists ==
  ASSUME NEW head \in Seq(Bits), NEW b \in Nat, NEW N \in Nat
  PROVE  \E v : IsConcat(head, b, N, v)
<1> DEFINE T == {n \in Nat : \E v : IsConcat(head, b, n, v)}
<1>1. 0 \in T
  <2> DEFINE v == [k \in 0 .. 0 |-> head]
  <2>1. IsConcat(head, b, 0, v)
    BY DEF IsConcat
  <2> QED BY <2>1
<1>2. ASSUME NEW n \in Nat, n \in T PROVE n + 1 \in T
  <2>1. PICK v : IsConcat(head, b, n, v)
    BY <1>2
  <2> DEFINE u == [k \in 0 .. n + 1 |->
                     IF k = n + 1 THEN v[n] \o ByteSlice(b + (n + 1) - 1, 0, 7) ELSE v[k]]
  <2>2. ASSUME NEW k \in 0 .. n + 1
        PROVE  u[k] = IF k = 0 THEN head ELSE u[k - 1] \o ByteSlice(b + k - 1, 0, 7)
    <3>1. CASE k = n + 1
      <4>1. u[k] = v[n] \o ByteSlice(b + k - 1, 0, 7) /\ k # 0 /\ u[k - 1] = v[n]
        BY <3>1
      <4> QED BY <4>1
    <3>2. CASE k # n + 1
      <4>1. k \in 0 .. n /\ (k # 0 => k - 1 \in 0 .. n)
        BY <3>2
      <4>2. v[k] = IF k = 0 THEN head ELSE v[k - 1] \o ByteSlice(b + k - 1, 0, 7)
        BY <2>1, <4>1 DEF IsConcat
      <4>3. u[k] = v[k] /\ (k # 0 => u[k - 1] = v[k - 1])
        BY <4>1
      <4> QED BY <4>2, <4>3
    <3> QED BY <3>1, <3>2
  <2>3. IsConcat(head, b, n + 1, u)
    <3>1. u = [k \in 0 .. n + 1 |-> u[k]]
      OBVIOUS
    <3> HIDE DEF u
    <3> QED BY <2>2, <3>1 DEF IsConcat
  <2> QED BY <2>3
<1> HIDE DEF T
<1>3. N \in T
  BY <1>1, <1>2, NatSetInduction
<1> QED BY <1>3 DEF T

LEMMA ConcatDef ==
  ASSUME NEW head \in Seq(Bits), NEW b \in Nat, NEW n \in Nat
  PROVE  /\ Concat(head, b, n)[0] = head
         /\ \A k \in 1 .. n :
              Concat(head, b, n)[k] = Concat(head, b, n)[k - 1] \o ByteSlice(b + k - 1, 0, 7)
<1> DEFINE v == Concat(head, b, n)
<1>1. \E g : IsConcat(head, b, n, g)
  BY ConcatExists
<1>2. IsConcat(head, b, n, v)
  BY <1>1 DEF IsConcat, Concat
<1> HIDE DEF v
<1>3. v[0] = head
  BY <1>2 DEF IsConcat
<1>4. ASSUME NEW k \in 1 .. n PROVE v[k] = v[k - 1] \o ByteSlice(b + k - 1, 0, 7)
  <2>1. k \in 0 .. n /\ k # 0
    OBVIOUS
  <2> QED BY <1>2, <2>1 DEF IsConcat
<1> QED BY <1>3, <1>4 DEF v

\* s is what the stack has from position p on.
BitsAt(s, p) == \A i \in 1 .. Len(s) : s[i] = stack[p + i - 1]

\* A slice that ends at the start of byte b, and n whole bytes behind it, are consecutive
\* bits of the stack.
LEMMA WholeBytesBits ==
  ASSUME stack \in [Positions -> Bits], Bytes \in Nat, NEW head \in Seq(Bits), NEW p \in Nat,
         BitsAt(head, p),
         NEW b \in Nat, NEW n \in Nat, 8 * b = p + Len(head), 8 * (b + n) <= 8 * Bytes
  PROVE  /\ Concat(head, b, n)[n] \in Seq(Bits)
         /\ Len(Concat(head, b, n)[n]) = Len(head) + 8 * n
         /\ BitsAt(Concat(head, b, n)[n], p)
<1> DEFINE v == Concat(head, b, n)
           Good(k) == /\ v[k] \in Seq(Bits) /\ Len(v[k]) = Len(head) + 8 * k
                      /\ \A i \in 1 .. Len(head) + 8 * k : v[k][i] = stack[p + i - 1]
           T == {k \in Nat : k <= n => Good(k)}
<1>1. v[0] = head /\ \A k \in 1 .. n : v[k] = v[k - 1] \o ByteSlice(b + k - 1, 0, 7)
  BY ConcatDef
<1>2. Len(head) \in Nat
  OBVIOUS
<1> HIDE DEF v
<1>3. 0 \in T
  BY <1>1, <1>2 DEF BitsAt
<1>4. ASSUME NEW k \in Nat, k \in T PROVE k + 1 \in T
  <2> SUFFICES ASSUME k + 1 <= n PROVE Good(k + 1)
    OBVIOUS
  <2> DEFINE t == ByteSlice(b + k, 0, 7)
  <2>1. k <= n /\ k + 1 \in 1 .. n /\ (k + 1) - 1 = k /\ b + (k + 1) - 1 = b + k
    OBVIOUS
  <2>2. Good(k)
    BY <1>4, <2>1
  <2>3. v[k + 1] = v[k] \o t
    BY <1>1, <2>1
  <2>4. b + k \in Nat /\ 8 * (b + k) + 7 - 0 < 8 * Bytes
    BY <2>1
  <2>5. /\ t \in Seq(Bits) /\ Len(t) = 8
        /\ \A i \in 1 .. 8 : t[i] = stack[8 * (b + k) + i - 1]
    <3>1. /\ ByteSlice(b + k, 0, 7) \in Seq(Bits)
          /\ Len(ByteSlice(b + k, 0, 7)) = 7 - 0 + 1
          /\ \A i \in 1 .. 7 - 0 + 1 :
               ByteSlice(b + k, 0, 7)[i] = stack[8 * (b + k) + 7 - 7 + i - 1]
      BY <2>4, ByteSliceBits, 0 <= 7, 7 <= 7, 0 \in Nat, 7 \in Nat, ZenonT(30)
    <3> HIDE DEF t
    <3>2. \A i \in 1 .. 8 : 8 * (b + k) + 7 - 7 + i - 1 = 8 * (b + k) + i - 1
      BY <2>4
    <3> QED BY <3>1, <3>2 DEF t
  <2>6. 8 * (b + k) = p + (Len(head) + 8 * k)
    BY <1>2
  <2> HIDE DEF t
  <2>7. \A i \in 1 .. Len(t) : t[i] = stack[p + Len(v[k]) + i - 1]
    BY <2>2, <2>5, <2>6
  <2>8. \A i \in 1 .. Len(v[k]) : v[k][i] = stack[p + i - 1]
    BY <2>2
  <2>9. v[k] \in Seq(Bits)
    BY <2>2
  <2>10. /\ v[k] \o t \in Seq(Bits) /\ Len(v[k] \o t) = Len(v[k]) + Len(t)
         /\ \A i \in 1 .. Len(v[k]) + Len(t) : (v[k] \o t)[i] = stack[p + i - 1]
    BY <2>5, <2>7, <2>8, <2>9, ConcatBits
  <2>11. Len(v[k]) + Len(t) = Len(head) + 8 * (k + 1)
    BY <1>2, <2>2, <2>5
  <2> QED BY <2>3, <2>10, <2>11
<1> HIDE DEF T, Good
<1>5. \A k \in Nat : k \in T
  BY <1>3, <1>4, NatSetInduction
<1>6. Good(n)
  BY <1>5 DEF T
<1> QED BY <1>6 DEF BitsAt, Good, v

\* What HeadSlice takes from the first byte of a field, if the field starts inside it:
\* as many bits as HeadWidth says and, unless the field ends inside the byte as well, the
\* first bits of the field.
LEMMA HeadSliceBits ==
  ASSUME stack \in [Positions -> Bits], Bytes \in Nat, NEW q \in Nat, NEW r \in 0 .. 7,
         NEW w \in Nat \ {0}, (8 * q + r) + w <= 8 * Bytes
  PROVE  /\ HeadSlice(q, 8 - r, w) \in Seq(Bits)
         /\ Len(HeadSlice(q, 8 - r, w)) = HeadWidth(8 - r, w)
         /\ r = 0 \/ w >= 8 - r =>
              \A i \in 1 .. HeadWidth(8 - r, w) : HeadSlice(q, 8 - r, w)[i] = stack[(8 * q + r) + i - 1]
<1>1. CASE r = 0
  <2>1. HeadSlice(q, 8 - r, w) = <<>> /\ HeadWidth(8 - r, w) = 0
    BY <1>1 DEF HeadSlice, HeadWidth
  <2>2. <<>> \in Seq(Bits) /\ Len(<<>>) = 0 /\ 1 .. 0 = {}
    OBVIOUS
  <2> QED BY <2>1, <2>2
<1>2. CASE r # 0 /\ w >= 8 - r
  <2> DEFINE hi == (8 - r) - 1
  <2>1. HeadSlice(q, 8 - r, w) = ByteSlice(q, 0, hi) /\ HeadWidth(8 - r, w) = 8 - r
    BY <1>2 DEF HeadSlice, HeadWidth
  <2>2. hi \in Nat /\ 0 <= hi /\ hi <= 7 /\ 8 * q + 7 - 0 < 8 * Bytes /\ hi - 0 + 1 = 8 - r
    BY <1>2
  <2>3. \A i \in 1 .. 8 - r : 8 * q + 7 - hi + i - 1 = (8 * q + r) + i - 1
    OBVIOUS
  <2> HIDE DEF hi
  <2>4. /\ ByteSlice(q, 0, hi) \in Seq(Bits)
        /\ Len(ByteSlice(q, 0, hi)) = hi - 0 + 1
        /\ \A i \in 1 .. hi - 0 + 1 : ByteSlice(q, 0, hi)[i] = stack[8 * q + 7 - hi + i - 1]
    BY <2>2, ByteSliceBits, ZenonT(30)
  <2> QED BY <2>1, <2>2, <2>3, <2>4
<1>3. CASE r # 0 /\ w < 8 - r
  <2> DEFINE lo == (8 - r) - w + 1
             hi == 8 - r
  <2>1. HeadSlice(q, 8 - r, w) = ByteSlice(q, lo, hi) /\ HeadWidth(8 - r, w) = w
    BY <1>3 DEF HeadSlice, HeadWidth
  <2>2. /\ lo \in Nat /\ hi \in Nat /\ lo <= hi /\ hi <= 7 /\ 8 * q + 7 - lo < 8 * Bytes
        /\ hi - lo + 1 = w
    BY <1>3
  <2> HIDE DEF hi, lo
  <2>3. ByteSlice(q, lo, hi) \in Seq(Bits) /\ Len(ByteSlice(q, lo, hi)) = hi - lo + 1
    BY <2>2, ByteSliceBits
  <2> QED BY <1>3, <2>1, <2>2, <2>3
<1> QED BY <1>1, <1>2, <1>3

\* The high bits of a byte.
LEMMA TailSliceBits ==
  ASSUME stack \in [Positions -> Bits], Bytes \in Nat, NEW b \in Nat, NEW rest \in 0 .. 7,
         8 * b + rest <= 8 * Bytes
  PROVE  /\ TailSlice(b, rest) \in Seq(Bits) /\ Len(TailSlice(b, rest)) = rest
         /\ \A i \in 1 .. rest : TailSlice(b, rest)[i] = stack[8 * b + i - 1]
<1>1. CASE rest = 0
  BY <1>1 DEF TailSlice
<1>2. CASE rest # 0
  <2> DEFINE lo == 8 - rest
  <2>1. TailSlice(b, rest) = ByteSlice(b, lo, 7)
    BY <1>2 DEF TailSlice
  <2>2. lo \in Nat /\ 7 \in Nat /\ lo <= 7 /\ 7 <= 7 /\ 8 * b + 7 - lo < 8 * Bytes /\ 7 - lo + 1 = rest
    BY <1>2
  <2>3. \A i \in 1 .. rest : 8 * b + 7 - 7 + i - 1 = 8 * b + i - 1
    OBVIOUS
  <2> HIDE DEF lo
  <2>4. /\ ByteSlice(b, lo, 7) \in Seq(Bits) /\ Len(ByteSlice(b, lo, 7)) = 7 - lo + 1
        /\ \A i \in 1 .. 7 - lo + 1 : ByteSlice(b, lo, 7)[i] = stack[8 * b + 7 - 7 + i - 1]
    BY <2>2, ByteSliceBits
  <2> QED BY <2>1, <2>2, <2>3, <2>4
<1> QED BY <1>1, <1>2

\* How the bits of a field are spread over a head, whole bytes and a rest.
LEMMA FieldParts ==
  ASSUME NEW r \in 0 .. 7, NEW w \in Nat \ {0}
  PROVE  LET head == HeadWidth(8 - r, w)
         IN /\ head \in 0 .. w
            /\ (w - head) \div 8 \in Nat /\ (w - head) % 8 \in 0 .. 7
            /\ w - head = 8 * ((w - head) \div 8) + ((w - head) % 8)
            /\ r = 0 => head = 0
            /\ r # 0 /\ w >= 8 - r => head = 8 - r
            /\ r # 0 /\ w < 8 - r => head = w /\ (w - head) \div 8 = 0 /\ (w - head) % 8 = 0
<1> DEFINE head == HeadWidth(8 - r, w)
<1>1. /\ head \in 0 .. w
      /\ r = 0 => head = 0
      /\ r # 0 /\ w >= 8 - r => head = 8 - r
      /\ r # 0 /\ w < 8 - r => head = w
  BY DEF HeadWidth
<1> HIDE DEF head
<1>2. w - head \in Nat
  BY <1>1
<1>3. /\ (w - head) \div 8 \in Nat /\ (w - head) % 8 \in 0 .. 7
      /\ w - head = 8 * ((w - head) \div 8) + ((w - head) % 8)
  BY <1>2, ByteAndBit
<1>4. r # 0 /\ w < 8 - r => (w - head) \div 8 = 0 /\ (w - head) % 8 = 0
  BY <1>1, <1>3
<1> QED BY <1>1, <1>3, <1>4 DEF head

\* An extracted field has as many bits as its type, and they are the bits of the stack from
\* its start on, unless it lies strictly inside a byte.
LEMMA ExtractedFieldBits ==
  ASSUME stack \in [Positions -> Bits], Bytes \in Nat, NEW start \in Nat, NEW w \in Nat \ {0},
         start + w <= 8 * Bytes
  PROVE  /\ ExtractedField(start, w) \in Seq(Bits)
         /\ Len(ExtractedField(start, w)) = w
         /\ start % 8 = 0 \/ w >= 8 - (start % 8) =>
              \A i \in 1 .. w : ExtractedField(start, w)[i] = stack[start + i - 1]
<1> DEFINE q == start \div 8
           r == start % 8
           head == HeadWidth(8 - r, w)
           b == q + (IF 8 - r = 8 THEN 0 ELSE 1)
           whole == (w - head) \div 8
           rest == (w - head) % 8
           s == HeadSlice(q, 8 - r, w)
           c == Concat(s, b, whole)[whole]
           t == TailSlice(b + whole, rest)
<1>1. q \in Nat /\ r \in 0 .. 7 /\ start = 8 * q + r
  BY ByteAndBit
<1>2. ExtractedField(start, w) = c \o t
  BY DEF ExtractedField
<1> HIDE DEF q, r
<1>3. /\ head \in 0 .. w /\ whole \in Nat /\ rest \in 0 .. 7
      /\ w - head = 8 * whole + rest
      /\ r = 0 => head = 0
      /\ r # 0 /\ w >= 8 - r => head = 8 - r
      /\ r # 0 /\ w < 8 - r => head = w /\ whole = 0 /\ rest = 0
  BY <1>1, FieldParts
<1> HIDE DEF head, whole, rest
<1>4. (8 * q + r) + w <= 8 * Bytes
  BY <1>1
<1>5. /\ s \in Seq(Bits) /\ Len(s) = head
      /\ r = 0 \/ w >= 8 - r => \A i \in 1 .. head : s[i] = stack[start + i - 1]
  BY <1>1, <1>4, HeadSliceBits DEF head
<1>6. b \in Nat
  BY <1>1
<1>7. CASE r = 0 \/ w >= 8 - r
  <2>1. 8 * b = start + head
    BY <1>1, <1>3, <1>7
  <2>2. 8 * (b + whole) <= 8 * Bytes /\ 8 * (b + whole) + rest <= 8 * Bytes /\ b + whole \in Nat
    BY <1>1, <1>3, <1>6, <2>1
  <2> HIDE DEF b, s
  <2>3. /\ c \in Seq(Bits) /\ Len(c) = Len(s) + 8 * whole
        /\ \A i \in 1 .. Len(s) + 8 * whole : c[i] = stack[start + i - 1]
    <3>1. s \in Seq(Bits) /\ BitsAt(s, start) /\ 8 * b = start + Len(s)
      BY <1>5, <1>7, <2>1 DEF BitsAt
    <3>2. c \in Seq(Bits) /\ Len(c) = Len(s) + 8 * whole /\ BitsAt(c, start)
      BY <1>3, <1>6, <2>2, <3>1, WholeBytesBits
    <3> HIDE DEF c
    <3> QED BY <3>2 DEF BitsAt
  <2>4. /\ t \in Seq(Bits) /\ Len(t) = rest
        /\ \A i \in 1 .. rest : t[i] = stack[8 * (b + whole) + i - 1]
    BY <1>3, <2>2, TailSliceBits
  <2> HIDE DEF c, t
  <2>5. 8 * (b + whole) = start + Len(c)
    <3>1. Len(c) = head + 8 * whole
      BY <1>5, <2>3
    <3>2. head \in Nat /\ whole \in Nat
      BY <1>3
    <3> HIDE DEF c, s
    <3>3. 8 * b + 8 * whole = start + (head + 8 * whole)
      BY <1>6, <2>1, <3>2
    <3> QED BY <1>6, <3>1, <3>2, <3>3
  <2>6. \A i \in 1 .. Len(c) : c[i] = stack[start + i - 1]
    BY <2>3
  <2>7. \A i \in 1 .. Len(t) : t[i] = stack[start + Len(c) + i - 1]
    BY <2>4, <2>5
  <2>8. /\ c \o t \in Seq(Bits) /\ Len(c \o t) = Len(c) + Len(t)
        /\ \A i \in 1 .. Len(c) + Len(t) : (c \o t)[i] = stack[start + i - 1]
    BY <2>3, <2>4, <2>6, <2>7, ConcatBits
  <2>9. Len(c) + Len(t) = w
    BY <1>3, <1>5, <2>3, <2>4
  <2> QED BY <1>2, <2>8, <2>9
<1>8. CASE r # 0 /\ w < 8 - r
  <2>1. c = s
    <3>1. s \in Seq(Bits) /\ whole = 0 /\ whole \in Nat
      BY <1>3, <1>5, <1>8
    <3> HIDE DEF b, s
    <3>2. Concat(s, b, whole)[0] = s
      BY <1>6, <3>1, ConcatDef
    <3> QED BY <3>1, <3>2
  <2>2. t = <<>>
    BY <1>3, <1>8 DEF TailSlice
  <2>3. s \o <<>> = s
    BY <1>5
  <2>4. ExtractedField(start, w) = s /\ Len(s) = w
    BY <1>2, <1>3, <1>5, <1>8, <2>1, <2>2, <2>3
  <2> QED BY <1>5, <1>8, <2>4 DEF r
<1> QED BY <1>1, <1>7, <1>8

----------------------------------------------------------------------------
(* Emitting a field. *)

\* The assignment wr is to position p.
Covers(wr, p) == 8 * wr.byte + 7 - p \in wr.lo .. wr.hi

\* The assignment wr puts the bits of a field of width w where they belong when the field
\* starts at start.
Places(wr, start, w) ==
  \A p \in Positions :
    Covers(wr, p) => w - (wr.from + (8 * wr.byte + 7 - p) - wr.lo) = p - start + 1

\* The assignment wr is to bits of the stack.
Inside(wr) == Targets(wr) \subseteq Positions

AllInside(writes) == \A j \in 1 .. Len(writes) : Inside(writes[j])

AllPlace(writes, start, w) == \A j \in 1 .. Len(writes) : Places(writes[j], start, w)

\* The stack s, with the bits of a field at start in the positions of its assignments.
Overwritten(s, writes, value, start) ==
  [p \in Positions |-> IF \E j \in 1 .. Len(writes) : Covers(writes[j], p)
                       THEN value[p - start + 1] ELSE s[p]]

IsWritten(s, writes, value, n, v) ==
  v = [i \in 0 .. n |-> IF i = 0 THEN s ELSE Write(v[i - 1], writes[i], value)]

LEMMA WrittenExists ==
  ASSUME NEW s, NEW writes, NEW value, NEW N \in Nat
  PROVE  \E v : IsWritten(s, writes, value, N, v)
<1> DEFINE T == {n \in Nat : \E v : IsWritten(s, writes, value, n, v)}
<1>1. 0 \in T
  <2> DEFINE v == [i \in 0 .. 0 |-> s]
  <2>1. IsWritten(s, writes, value, 0, v)
    BY DEF IsWritten
  <2> QED BY <2>1
<1>2. ASSUME NEW n \in Nat, n \in T PROVE n + 1 \in T
  <2>1. PICK v : IsWritten(s, writes, value, n, v)
    BY <1>2
  <2> DEFINE u == [i \in 0 .. n + 1 |->
                     IF i = n + 1 THEN Write(v[n], writes[n + 1], value) ELSE v[i]]
  <2>2. ASSUME NEW i \in 0 .. n + 1
        PROVE  u[i] = IF i = 0 THEN s ELSE Write(u[i - 1], writes[i], value)
    <3>1. CASE i = n + 1
      <4>1. u[i] = Write(v[n], writes[i], value) /\ i # 0 /\ u[i - 1] = v[n]
        BY <3>1
      <4> QED BY <4>1
    <3>2. CASE i # n + 1
      <4>1. i \in 0 .. n /\ (i # 0 => i - 1 \in 0 .. n)
        BY <3>2
      <4>2. v[i] = IF i = 0 THEN s ELSE Write(v[i - 1], writes[i], value)
        BY <2>1, <4>1 DEF IsWritten
      <4>3. u[i] = v[i] /\ (i # 0 => u[i - 1] = v[i - 1])
        BY <4>1
      <4> QED BY <4>2, <4>3
    <3> QED BY <3>1, <3>2
  <2>3. IsWritten(s, writes, value, n + 1, u)
    <3>1. u = [i \in 0 .. n + 1 |-> u[i]]
      OBVIOUS
    <3> HIDE DEF u
    <3> QED BY <2>2, <3>1 DEF IsWritten
  <2> QED BY <2>3
<1> HIDE DEF T
<1>3. N \in T
  BY <1>1, <1>2, NatSetInduction
<1> QED BY <1>3 DEF T

\* The stack after the assignments, when each of them is to bits of the stack and puts
\* its bits where they belong.
LEMMA WrittenBits ==
  ASSUME Bytes \in Nat, NEW s \in [Positions -> Bits], NEW value \in Seq(Bits), NEW writes,
         Len(writes) \in Nat, NEW start \in Nat,
         AllPlace(writes, start, Len(value)), AllInside(writes)
  PROVE  Written(s, writes, value)[Len(writes)] = Overwritten(s, writes, value, start)
<1> DEFINE n == Len(writes)
           v == Written(s, writes, value)
           After(i) == [p \in Positions |-> IF \E j \in 1 .. i : Covers(writes[j], p)
                                            THEN value[p - start + 1] ELSE s[p]]
           T == {i \in Nat : i <= n => v[i] = After(i)}
<1>1. n \in Nat
  OBVIOUS
<1>2. \E g : IsWritten(s, writes, value, n, g)
  BY <1>1, WrittenExists
<1>3. IsWritten(s, writes, value, n, v)
  BY <1>2 DEF IsWritten, Written
<1> HIDE DEF n, v
<1>4. v[0] = s
  BY <1>1, <1>3 DEF IsWritten
<1>5. ASSUME NEW i \in 1 .. n PROVE v[i] = Write(v[i - 1], writes[i], value)
  <2>1. i \in 0 .. n /\ i # 0
    BY <1>1
  <2> QED BY <1>3, <2>1 DEF IsWritten
<1>6. 0 \in T
  <2>1. After(0) = s
    OBVIOUS
  <2> QED BY <1>4, <2>1
<1> HIDE DEF After, T
<1>7. ASSUME NEW i \in Nat, i \in T PROVE i + 1 \in T
  <2> SUFFICES ASSUME i + 1 <= n PROVE v[i + 1] = After(i + 1)
    BY DEF T
  <2>9. i <= n => v[i] = After(i)
    BY <1>7 DEF T
  <2> USE DEF After
  <2> DEFINE wr == writes[i + 1]
  <2>1. i <= n /\ i + 1 \in 1 .. n /\ (i + 1) - 1 = i
    BY <1>1
  <2>2. v[i + 1] = Write(After(i), wr, value)
    <3> HIDE DEF After
    <3> QED BY <1>5, <2>1, <2>9
  <2>3. Places(wr, start, Len(value))
    BY <2>1 DEF AllPlace, n
  <2>7. Positions \cup Targets(wr) = Positions
    BY <2>1 DEF AllInside, Inside, n
  <2>8. DOMAIN After(i) = Positions
    OBVIOUS
  <2>4. ASSUME NEW p \in Positions
        PROVE  (\E j \in 1 .. i + 1 : Covers(writes[j], p))
                 <=> (Covers(wr, p) \/ \E j \in 1 .. i : Covers(writes[j], p))
    <3>1. 1 .. i + 1 = (1 .. i) \cup {i + 1}
      OBVIOUS
    <3> QED BY <3>1
  <2> HIDE DEF wr
  <2>5. ASSUME NEW p \in Positions
        PROVE  Write(After(i), wr, value)[p] = After(i + 1)[p]
    <3>1. Write(After(i), wr, value)[p] =
            IF Covers(wr, p) THEN value[Len(value) - (wr.from + (8 * wr.byte + 7 - p) - wr.lo)]
            ELSE After(i)[p]
      <4> HIDE DEF After
      <4> QED BY <2>7, <2>8 DEF Write, Covers
    <3>2. CASE Covers(wr, p)
      <4>1. Write(After(i), wr, value)[p] = value[p - start + 1]
        BY <2>3, <3>1, <3>2 DEF Places
      <4> QED BY <2>4, <3>2, <4>1
    <3>3. CASE ~Covers(wr, p)
      <4>1. Write(After(i), wr, value)[p] = After(i)[p]
        BY <3>1, <3>3
      <4> QED BY <2>4, <3>3, <4>1
    <3> QED BY <3>2, <3>3
  <2>6. Write(After(i), wr, value) = After(i + 1)
    <3>1. After(i + 1) = [p \in Positions |-> After(i + 1)[p]]
      OBVIOUS
    <3> HIDE DEF After
    <3>2. Write(After(i), wr, value) = [p \in Positions |-> Write(After(i), wr, value)[p]]
      BY <2>7, <2>8 DEF Write
    <3> QED BY <2>5, <3>1, <3>2
  <2> QED BY <2>2, <2>6
<1>8. \A i \in Nat : i \in T
  BY <1>6, <1>7, NatSetInduction
<1>9. v[n] = After(n)
  BY <1>1, <1>8 DEF T
<1> QED BY <1>9 DEF After, Overwritten, n, v

\* The assignments that emit a field are to its bits, each to the right one, and to no
\* other bit, in the stack or behind it.
LEMMA EmitWritesPlaces ==
  ASSUME Bytes \in Nat, NEW start \in Nat, NEW w \in Nat \ {0}, start + w <= 8 * Bytes
  PROVE  LET writes == EmitWrites(start, w)
         IN /\ Len(writes) \in Nat
            /\ AllPlace(writes, start, w)
            /\ AllInside(writes)
            /\ \A p \in Positions : (\E j \in 1 .. Len(writes) : Covers(writes[j], p))
                                      <=> p \in start .. start + w - 1
<1> DEFINE q == start \div 8
           r == start % 8
           bit == 8 - r
           head == HeadWidth(bit, w)
           b == q + (IF bit = 8 THEN 0 ELSE 1)
           left == w - head
           whole == left \div 8
           rest == left % 8
           first3 == [byte |-> q, lo |-> bit - head, hi |-> bit - 1, from |-> left]
           last3 == [byte |-> b + whole, lo |-> 8 - rest, hi |-> 7, from |-> 0]
           mid(k) == WholeByteWrite(b + k - 1, k, left)
           A == IF head = 0 THEN <<>> ELSE <<first3>>
           M == [k \in 1 .. whole |-> mid(k)]
           C == IF rest = 0 THEN <<>> ELSE <<last3>>
           writes == EmitWrites(start, w)
           a == IF head = 0 THEN 0 ELSE 1
           c == IF rest = 0 THEN 0 ELSE 1
<1>1. q \in Nat /\ r \in 0 .. 7 /\ start = 8 * q + r
  BY ByteAndBit
<1>2. writes = A \o M \o C
  BY DEF EmitWrites
<1> HIDE DEF q, r
<1>3. /\ head \in 0 .. w /\ whole \in Nat /\ rest \in 0 .. 7
      /\ w - head = 8 * whole + rest
      /\ r = 0 => head = 0
      /\ r # 0 /\ w >= 8 - r => head = 8 - r
      /\ r # 0 /\ w < 8 - r => head = w /\ whole = 0 /\ rest = 0
  BY <1>1, FieldParts
<1> HIDE DEF head, whole, rest
<1>5. /\ b \in Nat /\ left \in Nat
      /\ whole # 0 \/ rest # 0 => 8 * b = start + head
  BY <1>1, <1>3
<1>6. /\ Len(A) = a /\ (a = 1 => A[1] = first3)
      /\ Len(C) = c /\ (c = 1 => C[1] = last3)
      /\ a \in {0, 1} /\ c \in {0, 1}
  <2> HIDE DEF first3, last3
  <2> QED OBVIOUS
<1>7. whole \in Nat /\ Len(M) = whole /\ \A k \in 1 .. whole : M[k] = mid(k)
  <2> HIDE DEF mid
  <2> QED BY <1>3
<1>8. PICK S : A \in Seq(S) /\ M \in Seq(S) /\ C \in Seq(S)
  <2> DEFINE S == {first3, last3} \cup {mid(k) : k \in 1 .. whole}
  <2>1. first3 \in S /\ last3 \in S /\ \A k \in 1 .. whole : mid(k) \in S
    OBVIOUS
  <2> HIDE DEF first3, last3, mid, S
  <2>2. A \in Seq(S)
    <3>1. <<>> \in Seq(S) /\ <<first3>> \in Seq(S)
      BY <2>1
    <3> QED BY <3>1
  <2>3. C \in Seq(S)
    <3>1. <<>> \in Seq(S) /\ <<last3>> \in Seq(S)
      BY <2>1
    <3> QED BY <3>1
  <2>4. M \in [1 .. whole -> S]
    BY <2>1
  <2>5. M \in Seq(S)
    BY <1>7, <2>4
  <2> QED BY <2>2, <2>3, <2>5
<1>9. /\ Len(writes) = a + whole + c
      /\ a = 1 => writes[1] = first3
      /\ \A k \in 1 .. whole : writes[a + k] = mid(k)
      /\ c = 1 => writes[a + whole + 1] = last3
  <2> HIDE DEF A, M, C, a, c, first3, last3, mid, writes
  <2> DEFINE AM == A \o M
  <2>1. /\ AM \in Seq(S) /\ Len(AM) = a + whole
        /\ a = 1 => AM[1] = first3
        /\ \A k \in 1 .. whole : AM[a + k] = mid(k)
    <3>1. /\ AM \in Seq(S) /\ Len(AM) = Len(A) + Len(M)
          /\ \A i \in 1 .. Len(A) : AM[i] = A[i]
          /\ \A i \in 1 .. Len(M) : AM[Len(A) + i] = M[i]
      BY <1>8, ConcatElements
    <3> HIDE DEF AM
    <3> QED BY <1>6, <1>7, <3>1
  <2>2. writes = AM \o C
    BY <1>2
  <2> HIDE DEF AM
  <2>3. /\ Len(writes) = Len(AM) + Len(C)
        /\ \A i \in 1 .. Len(AM) : writes[i] = AM[i]
        /\ \A i \in 1 .. Len(C) : writes[Len(AM) + i] = C[i]
    <3>1. AM \in Seq(S) /\ C \in Seq(S)
      BY <1>8, <2>1
    <3> QED BY ONLY <2>2, <3>1, ConcatElements
  <2>4. Len(writes) = a + whole + c
    BY <1>6, <2>1, <2>3
  <2>5. a = 1 => writes[1] = first3
    BY <1>6, <1>7, <2>1, <2>3
  <2>6. ASSUME NEW k \in 1 .. whole PROVE writes[a + k] = mid(k)
    <3>1. a + k \in 1 .. a + whole
      BY <1>6, <1>7
    <3> QED BY <2>1, <2>3, <3>1
  <2>7. c = 1 => writes[a + whole + 1] = last3
    BY <1>6, <2>1, <2>3
  <2> QED BY <2>4, <2>5, <2>6, <2>7
<1> HIDE DEF writes
\* The head.
<1>10. a = 1 => /\ Places(first3, start, w)
                /\ \A p \in Positions : Covers(first3, p) <=> p \in start .. start + head - 1
  <2> SUFFICES ASSUME head # 0, NEW p \in Positions
               PROVE  /\ Covers(first3, p) <=> p \in start .. start + head - 1
                      /\ w - (left + (8 * q + 7 - p) - (bit - head)) = p - start + 1
    BY DEF Places
  <2>1. p \in Nat
    BY DEF Positions
  <2> QED BY <1>1, <1>3, <2>1 DEF Covers
\* The whole bytes.
<1>11. ASSUME NEW k \in 1 .. whole
       PROVE  /\ Places(mid(k), start, w)
              /\ \A p \in Positions : Covers(mid(k), p)
                   <=> p \in start + head + 8 * (k - 1) .. start + head + 8 * k - 1
  <2> SUFFICES ASSUME NEW p \in Positions
               PROVE  /\ Covers(mid(k), p)
                           <=> p \in start + head + 8 * (k - 1) .. start + head + 8 * k - 1
                      /\ w - ((left - 8 * k) + (8 * (b + k - 1) + 7 - p) - 0) = p - start + 1
    BY DEF Places, WholeByteWrite
  <2>1. p \in Nat
    BY DEF Positions
  <2>2. 8 * b = start + head
    BY <1>3, <1>5
  <2> HIDE DEF b
  <2> QED BY <1>3, <1>5, <2>1, <2>2 DEF Covers, WholeByteWrite
\* The rest.
<1>12. c = 1 => /\ Places(last3, start, w)
                /\ \A p \in Positions : Covers(last3, p)
                     <=> p \in start + head + 8 * whole .. start + w - 1
  <2> SUFFICES ASSUME rest # 0, NEW p \in Positions
               PROVE  /\ Covers(last3, p) <=> p \in start + head + 8 * whole .. start + w - 1
                      /\ w - (0 + (8 * (b + whole) + 7 - p) - (8 - rest)) = p - start + 1
    BY DEF Places
  <2>1. p \in Nat
    BY DEF Positions
  <2>2. 8 * b = start + head
    BY <1>5
  <2> HIDE DEF b
  <2> QED BY <1>3, <1>5, <2>1, <2>2 DEF Covers
\* None of them is to a bit behind the field.
<1>18. a = 1 => Inside(first3)
  <2> SUFFICES ASSUME head # 0, NEW i \in bit - head .. bit - 1
               PROVE  8 * q + 7 - i \in Positions
    BY DEF Inside, Targets, Position
  <2> QED BY <1>1, <1>3 DEF Positions
<1>19. ASSUME NEW k \in 1 .. whole PROVE Inside(mid(k))
  <2> SUFFICES ASSUME NEW i \in 0 .. 7 PROVE 8 * (b + k - 1) + 7 - i \in Positions
    BY DEF Inside, Targets, Position, WholeByteWrite
  <2>1. 8 * b = start + head
    BY <1>3, <1>5
  <2> HIDE DEF b
  <2> QED BY <1>3, <1>5, <2>1 DEF Positions
<1>20. c = 1 => Inside(last3)
  <2> SUFFICES ASSUME rest # 0, NEW i \in 8 - rest .. 7
               PROVE  8 * (b + whole) + 7 - i \in Positions
    BY DEF Inside, Targets, Position
  <2>1. 8 * b = start + head
    BY <1>5
  <2> HIDE DEF b
  <2> QED BY <1>3, <1>5, <2>1 DEF Positions
<1> HIDE DEF first3, last3, mid, left, b, bit, A, M, C
\* An assignment is the head, a whole byte or the rest.
<1>13. ASSUME NEW j \in 1 .. Len(writes)
       PROVE  \/ a = 1 /\ writes[j] = first3
              \/ \E k \in 1 .. whole : writes[j] = mid(k)
              \/ c = 1 /\ writes[j] = last3
  <2>1. j \in Nat /\ 1 <= j /\ j <= a + whole + c
    BY <1>3, <1>6, <1>9
  <2>2. CASE j <= a
    <3>1. a = 1 /\ j = 1
      BY <1>6, <2>1, <2>2
    <3> QED BY <1>9, <3>1
  <2>3. CASE a < j /\ j <= a + whole
    <3>1. j - a \in 1 .. whole /\ a + (j - a) = j
      BY <1>3, <1>6, <2>1, <2>3
    <3> QED BY <1>9, <3>1
  <2>4. CASE a + whole < j
    <3>1. c = 1 /\ j = a + whole + 1
      BY <1>3, <1>6, <2>1, <2>4
    <3> QED BY <1>9, <3>1
  <2> QED BY <1>3, <1>6, <2>1, <2>2, <2>3, <2>4
<1>14. Len(writes) \in Nat
  BY <1>3, <1>6, <1>9
<1>15. ASSUME NEW j \in 1 .. Len(writes) PROVE Places(writes[j], start, w)
  BY <1>10, <1>11, <1>12, <1>13
<1>16. ASSUME NEW p \in Positions, NEW j \in 1 .. Len(writes), Covers(writes[j], p)
       PROVE  p \in start .. start + w - 1
  <2>1. p \in Nat
    BY DEF Positions
  <2>2. CASE a = 1 /\ writes[j] = first3
    <3>1. p \in start .. start + head - 1
      BY <1>10, <1>16, <2>2
    <3> QED BY <1>3, <2>1, <3>1
  <2>3. ASSUME NEW k \in 1 .. whole, writes[j] = mid(k) PROVE p \in start .. start + w - 1
    <3>1. p \in start + head + 8 * (k - 1) .. start + head + 8 * k - 1
      BY <1>11, <1>16, <2>3
    <3> QED BY <1>3, <2>1, <3>1
  <2>4. CASE c = 1 /\ writes[j] = last3
    <3>1. p \in start + head + 8 * whole .. start + w - 1
      BY <1>12, <1>16, <2>4
    <3> QED BY <1>3, <2>1, <3>1
  <2> QED BY <1>13, <2>2, <2>3, <2>4
<1>17. ASSUME NEW p \in Positions, p \in start .. start + w - 1
       PROVE  \E j \in 1 .. Len(writes) : Covers(writes[j], p)
  <2>1. p \in Nat /\ start <= p /\ p <= start + w - 1
    BY <1>17 DEF Positions
  <2>2. CASE p < start + head
    <3>1. a = 1 /\ p \in start .. start + head - 1
      BY <1>3, <2>1, <2>2
    <3>2. 1 \in 1 .. Len(writes)
      BY <1>3, <1>6, <1>9, <3>1
    <3> QED BY <1>9, <1>10, <3>1, <3>2
  <2>3. CASE start + head <= p /\ p < start + head + 8 * whole
    <3> DEFINE d == p - (start + head)
               k == (d \div 8) + 1
    <3>1. d \in Nat /\ d < 8 * whole
      BY <1>3, <2>1, <2>3
    <3> HIDE DEF d
    <3>2. d \div 8 \in Nat /\ d % 8 \in 0 .. 7 /\ d = 8 * (d \div 8) + (d % 8)
      BY <3>1, ByteAndBit
    <3>3. k \in 1 .. whole
      BY <1>3, <3>1, <3>2
    <3>4. p \in start + head + 8 * (k - 1) .. start + head + 8 * k - 1
      BY <1>3, <2>1, <3>1, <3>2 DEF d
    <3> HIDE DEF k
    <3>5. Covers(writes[a + k], p)
      BY <1>9, <1>11, <3>3, <3>4
    <3>6. a + k \in 1 .. Len(writes)
      BY <1>3, <1>6, <1>9, <3>3
    <3> QED BY <3>5, <3>6
  <2>4. CASE start + head + 8 * whole <= p
    <3>1. c = 1 /\ p \in start + head + 8 * whole .. start + w - 1
      BY <1>3, <2>1, <2>4
    <3>2. a + whole + 1 \in 1 .. Len(writes)
      BY <1>3, <1>6, <1>9, <3>1
    <3> QED BY <1>9, <1>12, <3>1, <3>2
  <2> QED BY <1>3, <2>1, <2>2, <2>3, <2>4
<1>21. AllInside(writes)
  BY <1>13, <1>18, <1>19, <1>20 DEF AllInside
<1> QED BY <1>14, <1>15, <1>16, <1>17, <1>21 DEF AllPlace, writes

----------------------------------------------------------------------------
(* The behaviours. *)

\* The inductive invariant: until the fields are emitted the stack is the packet, and no
\* field is assigned or emitted before all of them are extracted.
SlicesInv ==
  /\ TypeOK /\ layout \in Layouts
  /\ phase = "extract" => /\ stack = [n \in Positions |-> PktBit(n)]
                          /\ assigned = {} /\ emitted = 0
  /\ phase = "emit" => Len(fields) = Len(layout)
  /\ FieldsExtracted /\ HeaderEmitted

\* The fields of a header lie side by side inside the stack.
LEMMA FieldInStack ==
  ASSUME SlicesInv, NEW k \in 1 .. Len(layout)
  PROVE  /\ layout \in Seq(Nat \ {0}) /\ first \in Nat /\ Bytes \in Nat
         /\ layout[k] \in Nat \ {0}
         /\ StartOf(k) \in Nat /\ StartOf(k + 1) \in Nat
         /\ StartOf(k + 1) = StartOf(k) + layout[k]
         /\ first <= StartOf(k)
         /\ StartOf(k + 1) <= 8 * Bytes
<1>1. layout \in Layouts /\ layout \in Seq(Nat \ {0}) /\ first \in Starts /\ first \in Nat /\ Bytes \in Nat
  BY FieldSlicesAssumption DEF SlicesInv, TypeOK
<1> DEFINE n == Len(layout)
<1>2. n \in Nat /\ DOMAIN layout = 1 .. n /\ layout[k] \in Nat \ {0}
  BY <1>1
<1>3. k \in 1 .. n + 1 /\ k + 1 \in 1 .. n + 1 /\ 1 \in 1 .. n + 1 /\ n + 1 \in 1 .. n + 1
      /\ 1 <= k /\ k + 1 <= n + 1
  BY <1>2
<1>4. /\ StartsOf(first, layout)[1] = first
      /\ StartsOf(first, layout)[k + 1] = StartsOf(first, layout)[k] + layout[k]
      /\ StartsOf(first, layout)[k] \in Nat /\ StartsOf(first, layout)[k + 1] \in Nat
      /\ StartsOf(first, layout)[n + 1] \in Nat
  <2>1. /\ StartsOf(first, layout)[1] = first
        /\ \A j \in DOMAIN layout :
             StartsOf(first, layout)[j + 1] = StartsOf(first, layout)[j] + layout[j]
        /\ \A j \in 1 .. Len(layout) + 1 : StartsOf(first, layout)[j] \in Nat
    BY <1>1, StartsDef
  <2> QED BY <1>2, <1>3, <2>1
<1>5. StartsOf(first, layout)[1] <= StartsOf(first, layout)[k]
  BY <1>1, <1>3, StartsGrow
<1>6. StartsOf(first, layout)[k + 1] <= StartsOf(first, layout)[n + 1]
  BY <1>1, <1>3, StartsGrow
<1>7. StartsOf(first, layout)[n + 1] <= 8 * Bytes
  BY <1>1, FieldSlicesAssumption
<1>8. 8 * Bytes \in Nat
  BY <1>1
<1>9. StartsOf(first, layout)[k + 1] <= 8 * Bytes
  BY <1>4, <1>6, <1>7, <1>8
<1> QED BY <1>1, <1>2, <1>4, <1>5, <1>9 DEF StartOf

LEMMA PktBitType == \A n \in Positions : PktBit(n) \in Bits
  BY DEF PktBit, Bits

LEMMA NewBitType == \A k \in Nat, i \in Nat : NewBit(k, i) \in Bits
  BY DEF NewBit, Bits

LEMMA InitSlicesInv == Init => SlicesInv
<1> SUFFICES ASSUME Init PROVE SlicesInv
  OBVIOUS
<1>1. /\ layout \in Layouts /\ first \in Starts /\ stack = [n \in Positions |-> PktBit(n)]
      /\ currOffset = first /\ fields = <<>> /\ assigned = {} /\ emitted = 0
      /\ phase = "extract"
  BY DEF Init
<1>2. layout \in Seq(Nat \ {0}) /\ first \in Nat
  BY <1>1, FieldSlicesAssumption
<1>3. stack \in [Positions -> Bits]
  BY <1>1, PktBitType
<1>4. fields \in Seq(Seq(Bits)) /\ Len(fields) = 0 /\ DOMAIN fields = {}
  BY <1>1
<1>5. TypeOK
  BY <1>1, <1>2, <1>3, <1>4 DEF TypeOK
<1>6. FieldsExtracted
  BY <1>4 DEF FieldsExtracted
<1>7. HeaderEmitted
  <2>1. StartOf(emitted + 1) = first
    BY <1>1, <1>2, StartsDef DEF StartOf
  <2>2. first .. first - 1 = {}
    BY <1>2
  <2> QED BY <1>1, <2>1, <2>2 DEF HeaderEmitted
<1> QED BY <1>1, <1>5, <1>6, <1>7 DEF SlicesInv

LEMMA ExtractFieldSlicesInv == ASSUME SlicesInv, ExtractField PROVE SlicesInv'
<1> DEFINE k == Len(fields) + 1
           start == StartOf(k)
           w == layout[k]
           value == ExtractedField(start, w)
<1>1. /\ phase = "extract" /\ phase' = phase /\ layout' = layout /\ first' = first
      /\ stack' = stack /\ assigned' = assigned /\ emitted' = emitted
      /\ Len(fields) < Len(layout)
      /\ fields' = Append(fields, value)
      /\ currOffset' = IF k = Len(layout) THEN start + w ELSE currOffset
  BY DEF ExtractField
<1>2. TypeOK /\ layout \in Layouts /\ FieldsExtracted /\ HeaderEmitted
  BY DEF SlicesInv
<1>3. /\ stack = [n \in Positions |-> PktBit(n)] /\ assigned = {} /\ emitted = 0
  BY <1>1 DEF SlicesInv
<1>4. /\ layout \in Seq(Nat \ {0}) /\ Len(layout) \in Nat /\ fields \in Seq(Seq(Bits))
      /\ Len(fields) \in Nat /\ stack \in [Positions -> Bits] /\ currOffset \in Nat
      /\ \A j \in DOMAIN fields : Len(fields[j]) = layout[j]
  BY <1>2 DEF TypeOK
<1>5. k \in 1 .. Len(layout)
  BY <1>1, <1>4
<1>6. /\ Bytes \in Nat /\ w \in Nat \ {0} /\ start \in Nat /\ start + w <= 8 * Bytes
  <2>1. Bytes \in Nat /\ w \in Nat \ {0} /\ start \in Nat /\ StartOf(k + 1) = start + w
        /\ StartOf(k + 1) <= 8 * Bytes
    BY <1>5, FieldInStack
  <2> QED BY <2>1
<1> HIDE DEF start, w
<1>7. /\ value \in Seq(Bits) /\ Len(value) = w
      /\ start % 8 = 0 \/ w >= 8 - (start % 8) =>
           \A i \in 1 .. w : value[i] = stack[start + i - 1]
  BY <1>4, <1>6, ExtractedFieldBits
<1> HIDE DEF value
<1>8. /\ fields' \in Seq(Seq(Bits)) /\ Len(fields') = k /\ DOMAIN fields' = 1 .. k
      /\ \A j \in 1 .. k : fields'[j] = IF j = k THEN value ELSE fields[j]
      /\ DOMAIN fields = 1 .. k - 1
  BY <1>1, <1>4, <1>7
<1> HIDE DEF k
<1>9. ASSUME NEW j \in DOMAIN fields' PROVE Len(fields'[j]) = layout[j]
  <2>1. CASE j = k
    BY <1>7, <1>8, <2>1 DEF w
  <2>2. CASE j # k
    <3>1. j \in 1 .. k - 1
      BY <1>5, <1>8, <2>2
    <3> QED BY <1>4, <1>8, <2>2, <3>1
  <2> QED BY <2>1, <2>2
<1>10. TypeOK'
  <2>1. currOffset' \in Nat
    BY <1>1, <1>4, <1>6
  <2>2. Len(fields') <= Len(layout)
    BY <1>4, <1>5, <1>8
  <2> QED BY <1>1, <1>2, <1>8, <1>9, <2>1, <2>2 DEF TypeOK
<1>11. FieldsExtracted'
  <2> SUFFICES ASSUME NEW j \in DOMAIN fields', ~InsideByte(j)
               PROVE  fields'[j] = FieldBits(j)
    BY <1>1 DEF FieldsExtracted, InsideByte, FieldBits, StartOf
  <2>1. CASE j = k
    <3>1. start % 8 = 0 \/ w >= 8 - (start % 8)
      BY <1>6, <2>1 DEF InsideByte, start, w
    <3>2. value \in [1 .. w -> Bits]
      BY <1>6, <1>7
    <3>3. ASSUME NEW i \in 1 .. w PROVE value[i] = PktBit(start + i - 1)
      <4>1. start + i - 1 \in Positions
        BY <1>6 DEF Positions
      <4> QED BY <1>3, <1>7, <3>1, <4>1
    <3>4. value = [i \in 1 .. w |-> PktBit(start + i - 1)]
      BY <3>2, <3>3
    <3> QED BY <1>8, <2>1, <3>4 DEF FieldBits, start, w
  <2>2. CASE j # k
    <3>1. j \in 1 .. k - 1
      BY <1>5, <1>8, <2>2
    <3> QED BY <1>2, <1>3, <1>8, <2>2, <3>1 DEF FieldsExtracted
  <2> QED BY <2>1, <2>2
<1>12. HeaderEmitted'
  <2>1. 1 .. emitted = {}
    BY <1>3
  <2> QED BY <1>1, <1>2, <2>1 DEF HeaderEmitted, StartOf
<1> QED BY <1>1, <1>2, <1>3, <1>10, <1>11, <1>12 DEF SlicesInv

LEMMA ControlSlicesInv == ASSUME SlicesInv, Control PROVE SlicesInv'
<1> DEFINE value(k) == [i \in 1 .. layout[k] |-> NewBit(k, i)]
<1>1. /\ phase = "extract" /\ phase' = "emit" /\ layout' = layout /\ first' = first
      /\ stack' = stack /\ emitted' = emitted /\ currOffset' = currOffset
      /\ Len(fields) = Len(layout)
      /\ assigned' \subseteq DOMAIN layout
      /\ fields' = [k \in DOMAIN layout |-> IF k \in assigned' THEN value(k) ELSE fields[k]]
  BY DEF Control
<1>2. TypeOK /\ layout \in Layouts /\ FieldsExtracted /\ HeaderEmitted
  BY DEF SlicesInv
<1>3. assigned = {} /\ emitted = 0
  BY <1>1 DEF SlicesInv
<1>4. /\ layout \in Seq(Nat \ {0}) /\ Len(layout) \in Nat /\ fields \in Seq(Seq(Bits))
      /\ DOMAIN layout = 1 .. Len(layout) /\ DOMAIN fields = 1 .. Len(layout)
      /\ \A k \in DOMAIN fields : Len(fields[k]) = layout[k]
  BY <1>1, <1>2 DEF TypeOK
<1>5. ASSUME NEW k \in 1 .. Len(layout)
      PROVE  value(k) \in Seq(Bits) /\ Len(value(k)) = layout[k]
  <2>1. k \in Nat /\ layout[k] \in Nat
    BY <1>4
  <2>2. value(k) \in [1 .. layout[k] -> Bits]
    BY <2>1, NewBitType
  <2> HIDE DEF value
  <2> QED BY <2>1, <2>2
<1> HIDE DEF value
<1>6. ASSUME NEW k \in 1 .. Len(layout)
      PROVE  /\ fields'[k] = IF k \in assigned' THEN value(k) ELSE fields[k]
             /\ fields'[k] \in Seq(Bits) /\ Len(fields'[k]) = layout[k]
  <2>1. fields'[k] = IF k \in assigned' THEN value(k) ELSE fields[k]
    BY <1>1, <1>4
  <2>2. fields[k] \in Seq(Bits) /\ Len(fields[k]) = layout[k]
    <3> DEFINE S == Seq(Bits)
    <3>1. fields \in Seq(S) /\ k \in 1 .. Len(fields)
      BY <1>1, <1>4
    <3> HIDE DEF S
    <3>2. fields[k] \in S
      BY <3>1
    <3> QED BY <1>4, <3>2 DEF S
  <2> QED BY <1>5, <2>1, <2>2
<1>7. /\ fields' \in Seq(Seq(Bits)) /\ Len(fields') = Len(layout)
      /\ DOMAIN fields' = 1 .. Len(layout)
  <2>1. fields' \in [1 .. Len(layout) -> Seq(Bits)]
    BY <1>1, <1>4, <1>6
  <2> DEFINE S == Seq(Bits)
             n == Len(layout)
  <2>2. fields' \in [1 .. n -> S] /\ n \in Nat
    BY <1>4, <2>1
  <2> HIDE DEF S, n
  <2>3. fields' \in Seq(S) /\ Len(fields') = n /\ DOMAIN fields' = 1 .. n
    BY <2>2
  <2> QED BY <2>3 DEF S, n
<1>8. TypeOK'
  BY <1>1, <1>2, <1>4, <1>6, <1>7 DEF TypeOK
<1>9. FieldsExtracted'
  <2> SUFFICES ASSUME NEW k \in 1 .. Len(layout), k \notin assigned', ~InsideByte(k)
               PROVE  fields'[k] = FieldBits(k)
    <3>1. \A j : InsideByte(j)' = InsideByte(j) /\ FieldBits(j)' = FieldBits(j)
      BY <1>1 DEF InsideByte, FieldBits, StartOf
    <3> QED BY <1>7, <3>1 DEF FieldsExtracted
  <2>1. fields[k] = FieldBits(k)
    BY <1>2, <1>3, <1>4 DEF FieldsExtracted
  <2> QED BY <1>6, <2>1
<1>10. HeaderEmitted'
  <2>1. 1 .. emitted = {}
    BY <1>3
  <2> QED BY <1>1, <1>2, <2>1 DEF HeaderEmitted, StartOf
<1> QED BY <1>1, <1>2, <1>7, <1>8, <1>9, <1>10 DEF SlicesInv

LEMMA EmitFieldSlicesInv == ASSUME SlicesInv, EmitField PROVE SlicesInv'
<1> DEFINE k == emitted + 1
           start == StartOf(k)
           w == layout[k]
           value == fields[k]
           writes == EmitWrites(start, w)
<1>1. /\ phase = "emit" /\ phase' = phase /\ layout' = layout /\ first' = first
      /\ fields' = fields /\ assigned' = assigned /\ currOffset' = currOffset
      /\ emitted < Len(layout) /\ emitted' = k
      /\ stack' = Written(stack, writes, value)[Len(writes)]
  BY DEF EmitField
<1>2. TypeOK /\ layout \in Layouts /\ FieldsExtracted /\ HeaderEmitted
  BY DEF SlicesInv
<1>3. Len(fields) = Len(layout)
  BY <1>1 DEF SlicesInv
<1>4. /\ layout \in Seq(Nat \ {0}) /\ Len(layout) \in Nat /\ fields \in Seq(Seq(Bits))
      /\ DOMAIN fields = 1 .. Len(layout) /\ stack \in [Positions -> Bits]
      /\ emitted \in Nat /\ emitted <= Len(layout)
      /\ \A j \in DOMAIN fields : Len(fields[j]) = layout[j]
  BY <1>2, <1>3 DEF TypeOK
<1>5. k \in 1 .. Len(layout)
  BY <1>1, <1>4
<1>6. /\ Bytes \in Nat /\ w \in Nat \ {0} /\ start \in Nat /\ StartOf(k + 1) \in Nat
      /\ first \in Nat /\ first <= start
      /\ StartOf(k + 1) = start + w /\ StartOf(k + 1) <= 8 * Bytes
  BY <1>5, FieldInStack
<1>7. value \in Seq(Bits) /\ Len(value) = w
  <2> DEFINE S == Seq(Bits)
  <2>1. fields \in Seq(S) /\ k \in 1 .. Len(fields)
    BY <1>3, <1>4, <1>5
  <2> HIDE DEF S, k
  <2>2. fields[k] \in S
    BY <2>1
  <2> QED BY <1>4, <1>5, <2>2 DEF S
<1> HIDE DEF start, w, value
<1>8. /\ Len(writes) \in Nat
      /\ AllPlace(writes, start, w)
      /\ AllInside(writes)
      /\ \A p \in Positions : (\E j \in 1 .. Len(writes) : Covers(writes[j], p))
                                <=> p \in start .. start + w - 1
  <2>1. start + w <= 8 * Bytes
    BY <1>6
  <2> QED BY <1>6, <2>1, EmitWritesPlaces
<1> HIDE DEF writes
<1>9. stack' = [p \in Positions |-> IF p \in start .. start + w - 1
                                    THEN value[p - start + 1] ELSE stack[p]]
  <2>1. stack' = [p \in Positions |-> IF \E j \in 1 .. Len(writes) : Covers(writes[j], p)
                                      THEN value[p - start + 1] ELSE stack[p]]
    <3>1. AllPlace(writes, start, Len(value))
      BY <1>7, <1>8
    <3>2. Written(stack, writes, value)[Len(writes)] = Overwritten(stack, writes, value, start)
      BY <1>4, <1>6, <1>7, <1>8, <3>1, WrittenBits, SMTT(30)
    <3> QED BY <1>1, <3>2 DEF Overwritten
  <2> QED BY <1>8, <2>1
<1>10. stack' \in [Positions -> Bits]
  <2>1. ASSUME NEW p \in Positions, p \in start .. start + w - 1
        PROVE  value[p - start + 1] \in Bits
    <3>1. p - start + 1 \in 1 .. w
      BY <1>6, <2>1 DEF Positions
    <3> QED BY <1>7, <3>1
  <2> QED BY <1>4, <1>9, <2>1
<1>11. TypeOK'
  BY <1>1, <1>2, <1>4, <1>5, <1>10 DEF TypeOK
<1>12. FieldsExtracted'
  BY <1>1, <1>2 DEF FieldsExtracted, InsideByte, FieldBits, StartOf
<1>13. HeaderEmitted'
  <2>1. StartOf(emitted + 1) = start /\ StartOf(k + 1) = start + w
    BY <1>6 DEF start
  <2>2. ASSUME NEW n \in Positions, n \in start .. start + w - 1
        PROVE  \E j \in 1 .. k : \E i \in 1 .. layout[j] :
                 n = StartOf(j) + i - 1 /\ stack'[n] = fields[j][i]
    <3> DEFINE i == n - start + 1
    <3>1. i \in 1 .. w /\ n = start + i - 1
      BY <1>6, <2>2 DEF Positions
    <3>2. stack'[n] = value[i]
      BY <1>9, <2>2
    <3>3. k \in 1 .. k
      BY <1>5
    <3> HIDE DEF i, k
    <3> QED BY <3>1, <3>2, <3>3 DEF start, w, value
  <2>3. ASSUME NEW n \in Positions, n \in first .. start - 1
        PROVE  \E j \in 1 .. k : \E i \in 1 .. layout[j] :
                 n = StartOf(j) + i - 1 /\ stack'[n] = fields[j][i]
    <3>1. PICK j \in 1 .. emitted : \E i \in 1 .. layout[j] :
            n = StartOf(j) + i - 1 /\ stack[n] = fields[j][i]
      BY <1>2, <2>1, <2>3 DEF HeaderEmitted
    <3>2. stack'[n] = stack[n]
      BY <1>6, <1>9, <2>3
    <3>3. j \in 1 .. k
      BY <1>4
    <3> QED BY <3>1, <3>2, <3>3
  <2>4. ASSUME NEW n \in Positions, n \notin first .. (start + w) - 1
        PROVE  stack'[n] = PktBit(n)
    <3>1. n \notin first .. start - 1 /\ n \notin start .. start + w - 1
      BY <1>6, <2>4 DEF Positions
    <3>2. stack[n] = PktBit(n)
      BY <1>2, <2>1, <3>1 DEF HeaderEmitted
    <3> QED BY <1>9, <3>1, <3>2
  <2>5. ASSUME NEW n \in Positions, n \in first .. (start + w) - 1
        PROVE  n \in first .. start - 1 \/ n \in start .. start + w - 1
    BY <1>6, <2>5 DEF Positions
  <2>6. ASSUME NEW n \in Positions
        PROVE  IF n \in first .. (start + w) - 1
               THEN \E j \in 1 .. k : \E i \in 1 .. layout[j] :
                      n = StartOf(j) + i - 1 /\ stack'[n] = fields[j][i]
               ELSE stack'[n] = PktBit(n)
    BY <2>2, <2>3, <2>4, <2>5
  <2>7. StartOf(emitted + 1)' = StartOf(k + 1) /\ \A j : StartOf(j)' = StartOf(j)
    BY <1>1 DEF StartOf
  <2>8. emitted' = k /\ layout' = layout /\ first' = first /\ fields' = fields
    BY <1>1
  <2> HIDE DEF k
  <2> QED BY <2>1, <2>6, <2>7, <2>8 DEF HeaderEmitted
<1> QED BY <1>1, <1>2, <1>3, <1>11, <1>12, <1>13 DEF SlicesInv

LEMMA NextSlicesInv == ASSUME SlicesInv, [Next]_vars PROVE SlicesInv'
<1>1. CASE UNCHANGED vars
  BY <1>1 DEF SlicesInv, TypeOK, FieldsExtracted, InsideByte, FieldBits, HeaderEmitted, StartOf, vars
<1>2. CASE Next
  BY <1>2, ExtractFieldSlicesInv, ControlSlicesInv, EmitFieldSlicesInv DEF Next
<1> QED BY <1>1, <1>2

\* The fields have the widths of their types (createPerFieldAssignmentStmts), and every
\* bit that emitting a field writes is one of the stack, which keeps its size
\* (createP4Action), for every layout and every offset.
THEOREM SlicesTypeCorrect == Spec => []TypeOK
<1>1. SlicesInv => TypeOK
  BY DEF SlicesInv
<1> QED BY <1>1, InitSlicesInv, NextSlicesInv, PTL DEF Spec

\* A field that does not lie strictly inside a byte is extracted bit by bit as the header
\* type places it, whatever the widths of the fields before it.
THEOREM FieldsAreExtracted == Spec => []FieldsExtracted
<1>1. SlicesInv => FieldsExtracted
  BY DEF SlicesInv
<1> QED BY <1>1, InitSlicesInv, NextSlicesInv, PTL DEF Spec

\* Emitting the fields one by one places each of them and changes no bit of the others or
\* of the packet around the header (createP4Action).
THEOREM HeaderIsEmitted == Spec => []HeaderEmitted
<1>1. SlicesInv => HeaderEmitted
  BY DEF SlicesInv
<1> QED BY <1>1, InitSlicesInv, NextSlicesInv, PTL DEF Spec
====
