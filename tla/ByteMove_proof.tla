---- MODULE ByteMove_proof ----
(***************************************************************************)
(* The synthesized byte moves are memmove, for stacks of any size, blocks  *)
(* of any length and shifts of any distance in either direction, and still *)
(* are after the Tofino backend has folded them to two-byte elements.      *)
(***************************************************************************)
EXTENDS ReplaceByteHdrStack, SequenceLemmas

LEMMA MoveInvInit == MoveInit => MoveInv
<1> SUFFICES ASSUME MoveInit PROVE MoveInv
  OBVIOUS
<1>1. /\ MoveArgs /\ packet \in Stack /\ stack \in Stack /\ stack = packet /\ pc = 1
      /\ code = CreateByteMove(moveInitIdx, moveOffset, moveBlockSize)
  BY DEF MoveInit
<1>2. moveBlockSize \in Nat /\ moveInitIdx \in Int /\ moveOffset \in Int
  BY <1>1, StackAssumption DEF MoveArgs
<1>3. ASSUME NEW j \in 0 .. StackSize - 1
      PROVE  ~Assigned(j)
  BY <1>1, <1>2, StackAssumption DEF Assigned, InBlock
<1> QED BY <1>1, <1>2, <1>3 DEF MoveInv

\* The assignment at pc, and where it reads and writes.
LEMMA MoveAssignment ==
  ASSUME MoveInv, pc <= Len(code)
  PROVE  /\ pc <= moveBlockSize
         /\ code[pc].hdr = "stack"
         /\ moveOffset > 0 => /\ code[pc].src = moveInitIdx + moveBlockSize - pc
                              /\ code[pc].dst = moveInitIdx + moveOffset + moveBlockSize - pc
         /\ ~(moveOffset > 0) => /\ code[pc].src = moveInitIdx + pc - 1
                                 /\ code[pc].dst = moveInitIdx + moveOffset + pc - 1
<1>1. /\ moveInitIdx \in Int /\ moveOffset \in Int /\ moveBlockSize \in Nat
      /\ pc \in 1 .. moveBlockSize + 1
  BY StackAssumption DEF MoveInv, MoveArgs
<1>2. code = CreateByteMove(moveInitIdx, moveOffset, moveBlockSize)
  BY DEF MoveInv
<1>3. Len(code) = moveBlockSize
  BY <1>1, <1>2 DEF CreateByteMove
<1>4. pc \in 1 .. moveBlockSize
  BY <1>1, <1>3
<1>5. code[pc] = LET i == IF moveOffset > 0 THEN moveBlockSize - pc ELSE pc - 1
                 IN CopyByte(moveInitIdx + moveOffset + i, moveInitIdx + i)
  BY <1>2, <1>4 DEF CreateByteMove
<1> QED BY <1>1, <1>4, <1>5 DEF CopyByte

LEMMA MoveInvStep ==
  ASSUME MoveInv, [MoveNext]_moveVars
  PROVE  MoveInv'
<1>1. CASE UNCHANGED moveVars
  BY <1>1 DEF MoveInv, MoveArgs, Assigned, InBlock, moveVars, moveArgs
<1>2. CASE MoveNext
  <2> DEFINE a == code[pc]
  <2>1. /\ pc <= Len(code) /\ pc' = pc + 1 /\ code' = code
        /\ moveInitIdx' = moveInitIdx /\ moveOffset' = moveOffset
        /\ moveBlockSize' = moveBlockSize /\ packet' = packet
        /\ stack' = [stack EXCEPT ![a.dst] = stack[a.src]]
    BY <1>2, MoveAssignment DEF MoveNext, Execute, moveArgs
  <2>2. PICK src, dst :
          /\ a.src = src /\ a.dst = dst
          /\ moveOffset > 0 => /\ src = moveInitIdx + moveBlockSize - pc
                               /\ dst = moveInitIdx + moveOffset + moveBlockSize - pc
          /\ ~(moveOffset > 0) => /\ src = moveInitIdx + pc - 1
                                  /\ dst = moveInitIdx + moveOffset + pc - 1
    BY <2>1, MoveAssignment
  <2>3. /\ MoveArgs /\ packet \in Stack /\ stack \in Stack
        /\ moveInitIdx \in Int /\ moveOffset \in Int /\ moveOffset # 0
        /\ moveBlockSize \in Nat /\ pc \in 1 .. moveBlockSize
    BY <2>1, MoveAssignment, StackAssumption DEF MoveInv, MoveArgs
  <2>4. /\ src \in 0 .. StackSize - 1 /\ dst \in 0 .. StackSize - 1
        /\ dst - moveOffset = src
    BY <2>2, <2>3, StackAssumption DEF MoveArgs
  <2>5. ~Assigned(src)
    BY <2>2, <2>3, <2>4 DEF Assigned, InBlock
  <2>6. ASSUME NEW j \in 0 .. StackSize - 1
        PROVE  Assigned(j)' <=> (Assigned(j) \/ j = dst)
    <3>1. j \in Int /\ pc \in Int /\ moveBlockSize \in Int /\ pc' = pc + 1
      BY <2>1, <2>3, StackAssumption
    <3>2. CASE moveOffset > 0
      <4>1. dst = moveInitIdx + moveOffset + moveBlockSize - pc
        BY <2>2, <3>2
      <4>2. Assigned(j) <=> InBlock(j, moveInitIdx + moveOffset + moveBlockSize - (pc - 1), pc - 1)
        BY <3>2 DEF Assigned
      <4>3. Assigned(j)' <=> InBlock(j, moveInitIdx + moveOffset + moveBlockSize - pc, pc)
        BY <2>1, <2>3, <3>1, <3>2 DEF Assigned, InBlock
      <4> QED BY <2>3, <3>1, <4>1, <4>2, <4>3 DEF InBlock
    <3>3. CASE ~(moveOffset > 0)
      <4>1. dst = moveInitIdx + moveOffset + pc - 1
        BY <2>2, <3>3
      <4>2. Assigned(j) <=> InBlock(j, moveInitIdx + moveOffset, pc - 1)
        BY <3>3 DEF Assigned
      <4>3. Assigned(j)' <=> InBlock(j, moveInitIdx + moveOffset, pc)
        BY <2>1, <2>3, <3>1, <3>3 DEF Assigned, InBlock
      <4> QED BY <2>3, <3>1, <4>1, <4>2, <4>3 DEF InBlock
    <3> QED BY <3>2, <3>3
  <2>7. stack' = [stack EXCEPT ![dst] = packet[src]]
    BY <2>1, <2>2, <2>4, <2>5 DEF MoveInv
  <2>8. packet[src] \in ByteValue
    BY <2>3, <2>4 DEF Stack
  <2>9. stack' \in Stack
    BY <2>3, <2>4, <2>7, <2>8 DEF Stack
  <2>10. ASSUME NEW j \in 0 .. StackSize - 1
         PROVE  stack'[j] = IF Assigned(j)' THEN packet[j - moveOffset] ELSE packet[j]
    <3>1. CASE j = dst
      BY <2>3, <2>4, <2>6, <2>7, <3>1 DEF Stack
    <3>2. CASE j # dst
      BY <2>3, <2>6, <2>7, <3>2 DEF Stack, MoveInv
    <3> QED BY <3>1, <3>2
  <2>11. MoveArgs' /\ pc' \in 1 .. moveBlockSize' + 1
    BY <2>1, <2>3 DEF MoveArgs
  <2>12. code' = CreateByteMove(moveInitIdx, moveOffset, moveBlockSize)'
    BY <2>1 DEF MoveInv, CreateByteMove, CopyByte
  <2> QED BY <2>1, <2>3, <2>9, <2>10, <2>11, <2>12 DEF MoveInv
<1> QED BY <1>1, <1>2

LEMMA MoveInvImplies == MoveInv => MoveIsCopy
<1> SUFFICES ASSUME MoveInv, pc > Len(code), NEW j \in 0 .. StackSize - 1
             PROVE  stack[j] = IF InBlock(j, moveInitIdx + moveOffset, moveBlockSize)
                               THEN packet[j - moveOffset] ELSE packet[j]
  BY DEF MoveIsCopy
<1>1. /\ moveInitIdx \in Int /\ moveOffset \in Int /\ moveBlockSize \in Nat
      /\ pc \in 1 .. moveBlockSize + 1
  BY StackAssumption DEF MoveInv, MoveArgs
<1>2. Len(code) = moveBlockSize
  BY <1>1 DEF MoveInv, CreateByteMove
<1>3. pc = moveBlockSize + 1
  BY <1>1, <1>2
<1>4. Assigned(j) <=> InBlock(j, moveInitIdx + moveOffset, moveBlockSize)
  BY <1>1, <1>3, StackAssumption DEF Assigned, InBlock
<1> QED BY <1>4 DEF MoveInv

\* Every byte move that DeparserConverter synthesizes copies its block as it was
\* before the action, whatever the overlap of the block with its new place.
THEOREM ByteMoveIsCopy == MoveSpec => []MoveIsCopy
<1>1. MoveInit => MoveInv
  BY MoveInvInit
<1>2. MoveInv /\ [MoveNext]_moveVars => MoveInv'
  BY MoveInvStep
<1>3. MoveInv => MoveIsCopy
  BY MoveInvImplies
<1> QED BY <1>1, <1>2, <1>3, PTL DEF MoveSpec

\* The invariant behind it: while a move runs, the bytes it has still to copy are as they were.
THEOREM ByteMoveKeepsRest == MoveSpec => []MoveInv
<1>1. MoveInit => MoveInv
  BY MoveInvInit
<1>2. MoveInv /\ [MoveNext]_moveVars => MoveInv'
  BY MoveInvStep
<1> QED BY <1>1, <1>2, PTL DEF MoveSpec

----------------------------------------------------------------------------
(* The elements. *)

\* The element of a byte of the packet, and the byte it holds.
LEMMA CellOf ==
  ASSUME NEW j \in Nat
  PROVE  LET e == j \div 2
         IN /\ e \in Nat /\ j = 2 * e + (j % 2) /\ (j % 2 = 0 \/ j % 2 = 1)
            /\ TranslateIndexAndSlice(j).stack = e \div stackSize
            /\ TranslateIndexAndSlice(j).index = e % stackSize
            /\ TranslateIndexAndSlice(j).l = IF j % 2 = 0 THEN 8 ELSE 0
            /\ TranslateIndexAndSlice(j).h = IF j % 2 = 0 THEN 15 ELSE 7
            /\ Cell(j) = <<e \div stackSize, e % stackSize, IF j % 2 = 0 THEN 8 ELSE 0>>
<1> DEFINE e == j \div 2
           p == j % 2
           l == (p * 8 + 8) % 16
<1>1. e \in Nat /\ j = 2 * e + p /\ (p = 0 \/ p = 1)
  OBVIOUS
<1>2. l = IF p = 0 THEN 8 ELSE 0
  <2>1. CASE p = 0
    BY <2>1
  <2>2. CASE p = 1
    BY <2>2
  <2> QED BY <1>1, <2>1, <2>2
<1> DEFINE t == TranslateIndexAndSlice(j)
<1>3. t.stack = e \div stackSize /\ t.index = e % stackSize /\ t.l = l /\ t.h = l + 7
  BY DEF TranslateIndexAndSlice
<1>4. Cell(j) = <<t.stack, t.index, t.l>>
  BY DEF Cell
<1> HIDE DEF t, l, p, e
<1>5. t.l = (IF p = 0 THEN 8 ELSE 0) /\ t.h = IF p = 0 THEN 15 ELSE 7
  BY <1>2, <1>3
<1> QED BY <1>1, <1>3, <1>4, <1>5 DEF t, p, e

\* An element's number from its stack and index.
LEMMA ElementNumber ==
  ASSUME NEW e \in Nat
  PROVE  stackSize * (e \div stackSize) + (e % stackSize) = e
BY ElementAssumption

\* The cell of a byte holds that byte on the wire.
LEMMA WireOfCell ==
  ASSUME NEW j \in Nat
  PROVE  Wire(Cell(j)) = j
<1> DEFINE e == j \div 2
           a == e \div stackSize
           b == e % stackSize
<1>1. /\ e \in Nat /\ j = 2 * e + (j % 2) /\ (j % 2 = 0 \/ j % 2 = 1)
      /\ Cell(j) = <<a, b, IF j % 2 = 0 THEN 8 ELSE 0>>
  BY CellOf
<1>2. stackSize * a + b = e
  BY <1>1, ElementNumber
<1>3. a * stackSize = stackSize * a
  <2>1. a \in Int /\ stackSize \in Int
    BY <1>1, ElementAssumption
  <2> HIDE DEF a
  <2> QED BY <2>1
<1> DEFINE c == Cell(j)
<1>4. c[1] = a /\ c[2] = b /\ c[3] = IF j % 2 = 0 THEN 8 ELSE 0
  BY <1>1
<1>5. Wire(c) = 2 * (c[1] * stackSize + c[2]) + (IF c[3] = 8 THEN 0 ELSE 1)
  BY DEF Wire
<1> HIDE DEF a, b, c, e
<1>6. Wire(c) = 2 * e + (IF j % 2 = 0 THEN 0 ELSE 1)
  BY <1>2, <1>3, <1>4, <1>5
<1> QED BY <1>1, <1>6 DEF c

\* Bytes are in one element exactly when stack and index agree.
LEMMA SameElement ==
  ASSUME NEW i \in Nat, NEW j \in Nat
  PROVE  Cell(i)[1] = Cell(j)[1] /\ Cell(i)[2] = Cell(j)[2] <=> i \div 2 = j \div 2
<1> DEFINE d == i \div 2
           e == j \div 2
<1>1. /\ d \in Nat /\ Cell(i)[1] = d \div stackSize /\ Cell(i)[2] = d % stackSize
      /\ e \in Nat /\ Cell(j)[1] = e \div stackSize /\ Cell(j)[2] = e % stackSize
  BY CellOf
<1> HIDE DEF d, e
<1>2. /\ stackSize * (d \div stackSize) + (d % stackSize) = d
      /\ stackSize * (e \div stackSize) + (e % stackSize) = e
  BY <1>1, ElementNumber
<1>3. Cell(i)[1] = Cell(j)[1] /\ Cell(i)[2] = Cell(j)[2] => d = e
  BY <1>1, <1>2
<1>4. d = e => Cell(i)[1] = Cell(j)[1] /\ Cell(i)[2] = Cell(j)[2]
  BY <1>1
<1> QED BY <1>3, <1>4 DEF d, e

----------------------------------------------------------------------------
(* What the folding makes of a move. *)

Statement == [stack : Int, index : Int, h : Int, right : Seq(Int)]

\* The byte in the upper half of the q-th element that the move assigns to.
UpperByte(q) ==
  LET lo == moveInitIdx + moveOffset
  IN IF moveOffset > 0 THEN lo + moveBlockSize - 2 * q ELSE lo + 2 * q - 2

To(j, h, right) ==
  [stack |-> (j \div 2) \div stackSize, index |-> (j \div 2) % stackSize, h |-> h, right |-> right]

\* The assignment to all of the q-th element, and to the half the move begins with.
Both(q) == To(UpperByte(q), 15, <<UpperByte(q) - moveOffset, UpperByte(q) + 1 - moveOffset>>)
Half(q) == IF moveOffset > 0 THEN To(UpperByte(q), 7, <<UpperByte(q) + 1 - moveOffset>>)
                             ELSE To(UpperByte(q), 15, <<UpperByte(q) - moveOffset>>)

MoveType ==
  /\ moveInitIdx \in Nat /\ moveOffset \in Int /\ moveOffset # 0 /\ moveBlockSize \in Nat
  /\ StackSize \in Nat /\ moveInitIdx + moveBlockSize <= StackSize
  /\ moveInitIdx + moveOffset >= 0 /\ moveInitIdx + moveOffset + moveBlockSize <= StackSize
  /\ code = CreateByteMove(moveInitIdx, moveOffset, moveBlockSize)
  /\ Len(code) = moveBlockSize

LEMMA MoveTyped ==
  ASSUME MoveInv
  PROVE  MoveType
<1>1. /\ moveInitIdx \in Nat /\ moveOffset \in Int /\ moveOffset # 0 /\ moveBlockSize \in Nat
      /\ StackSize \in Nat /\ moveInitIdx + moveBlockSize <= StackSize
      /\ moveInitIdx + moveOffset >= 0 /\ moveInitIdx + moveOffset + moveBlockSize <= StackSize
      /\ code = CreateByteMove(moveInitIdx, moveOffset, moveBlockSize)
  BY StackAssumption DEF MoveInv, MoveArgs
<1>2. Len(code) = moveBlockSize
  BY <1>1 DEF CreateByteMove
<1> QED BY <1>1, <1>2 DEF MoveType

\* The assignments of the move to the q-th element.
LEMMA ElementAssigned ==
  ASSUME MoveType, StartsAnElement, NEW q \in Nat \ {0}
  PROVE  LET u == UpperByte(q)
             v == u + 1
         IN /\ u \in Int /\ u % 2 = 0 /\ v % 2 = 1 /\ u \div 2 = v \div 2
            /\ 2 * q - 1 \in 1 .. moveBlockSize =>
                 /\ u \in 0 .. StackSize /\ code[2 * q - 1].dst = (IF moveOffset > 0 THEN v ELSE u)
                 /\ code[2 * q - 1].src = code[2 * q - 1].dst - moveOffset
            /\ 2 * q \in 1 .. moveBlockSize =>
                 /\ code[2 * q].dst = (IF moveOffset > 0 THEN u ELSE v)
                 /\ code[2 * q].src = code[2 * q].dst - moveOffset
<1> DEFINE lo == moveInitIdx + moveOffset
           u == UpperByte(q)
<1>1. /\ lo \in Nat /\ moveOffset \in Int /\ moveOffset # 0 /\ moveBlockSize \in Nat
      /\ StackSize \in Nat /\ lo + moveBlockSize <= StackSize
  BY DEF MoveType
<1>2. u = IF moveOffset > 0 THEN lo + moveBlockSize - 2 * q ELSE lo + 2 * q - 2
  BY DEF UpperByte
<1>3. IF moveOffset > 0 THEN (lo + moveBlockSize) % 2 = 0 ELSE lo % 2 = 0
  BY DEF StartsAnElement
<1>4. ASSUME NEW k \in 1 .. moveBlockSize
      PROVE  /\ code[k].dst = (IF moveOffset > 0 THEN lo + moveBlockSize - k ELSE lo + k - 1)
             /\ code[k].src = code[k].dst - moveOffset
  <2> DEFINE i == IF moveOffset > 0 THEN moveBlockSize - k ELSE k - 1
  <2>1. code[k] = CopyByte(moveInitIdx + moveOffset + i, moveInitIdx + i)
    BY DEF MoveType, CreateByteMove
  <2> DEFINE dst == moveInitIdx + moveOffset + i
             src == moveInitIdx + i
  <2>2. code[k].dst = dst /\ code[k].src = src
    BY <2>1 DEF CopyByte
  <2>3. moveInitIdx \in Int /\ i \in Int
    BY <1>1 DEF MoveType
  <2>4. src = dst - moveOffset
    <3> HIDE DEF i
    <3> QED BY <1>1, <2>3
  <2>5. dst = (IF moveOffset > 0 THEN lo + moveBlockSize - k ELSE lo + k - 1)
    BY <1>1, <2>3
  <2> HIDE DEF i, lo, src, dst
  <2> QED BY <2>2, <2>4, <2>5
<1> HIDE DEF u, lo
<1>5. u \in Int /\ u % 2 = 0
  BY <1>1, <1>2, <1>3
<1>6. (u + 1) % 2 = 1 /\ u \div 2 = (u + 1) \div 2
  BY <1>5
<1>7. ASSUME 2 * q - 1 \in 1 .. moveBlockSize
      PROVE  /\ u \in 0 .. StackSize
             /\ code[2 * q - 1].dst = (IF moveOffset > 0 THEN u + 1 ELSE u)
             /\ code[2 * q - 1].src = code[2 * q - 1].dst - moveOffset
  <2>1. code[2 * q - 1].dst = IF moveOffset > 0 THEN lo + moveBlockSize - (2 * q - 1)
                                                ELSE lo + (2 * q - 1) - 1
    BY <1>4, <1>7
  <2>2. code[2 * q - 1].src = code[2 * q - 1].dst - moveOffset
    BY <1>4, <1>7
  <2>3. u \in 0 .. StackSize
    BY <1>1, <1>2, <1>3, <1>5, <1>7
  <2> QED BY <1>1, <1>2, <2>1, <2>2, <2>3
<1>8. ASSUME 2 * q \in 1 .. moveBlockSize
      PROVE  /\ code[2 * q].dst = (IF moveOffset > 0 THEN u ELSE u + 1)
             /\ code[2 * q].src = code[2 * q].dst - moveOffset
  <2>1. code[2 * q].dst = IF moveOffset > 0 THEN lo + moveBlockSize - 2 * q ELSE lo + 2 * q - 1
    BY <1>4, <1>8
  <2>2. code[2 * q].src = code[2 * q].dst - moveOffset
    BY <1>4, <1>8
  <2> QED BY <1>1, <1>2, <2>1, <2>2
<1> QED BY <1>5, <1>6, <1>7, <1>8 DEF u

LEMMA FoldsExist ==
  ASSUME NEW block, NEW N \in Nat
  PROVE  \E v : v = [i \in 0 .. N |-> IF i = 0 THEN NothingPending
                                      ELSE FoldStatement(v[i - 1], block[i])]
<1> DEFINE Has(n) == \E v : v = [i \in 0 .. n |-> IF i = 0 THEN NothingPending
                                                  ELSE FoldStatement(v[i - 1], block[i])]
           T == {n \in Nat : Has(n)}
<1>1. 0 \in T
  <2> DEFINE v == [i \in 0 .. 0 |-> NothingPending]
  <2>1. v = [i \in 0 .. 0 |-> IF i = 0 THEN NothingPending ELSE FoldStatement(v[i - 1], block[i])]
    OBVIOUS
  <2> QED BY <2>1
<1>2. ASSUME NEW n \in Nat, n \in T PROVE n + 1 \in T
  <2>1. PICK v : v = [i \in 0 .. n |-> IF i = 0 THEN NothingPending
                                       ELSE FoldStatement(v[i - 1], block[i])]
    BY <1>2
  <2> DEFINE last == FoldStatement(v[n], block[n + 1])
             u == [i \in 0 .. n + 1 |-> IF i = n + 1 THEN last ELSE v[i]]
             Rest(i) == FoldStatement(u[i - 1], block[i])
  <2>2. ASSUME NEW i \in 0 .. n + 1
        PROVE  u[i] = IF i = 0 THEN NothingPending ELSE Rest(i)
    <3>1. CASE i = n + 1
      <4>1. u[i] = last /\ i # 0 /\ u[i - 1] = v[n]
        <5> HIDE DEF last
        <5> QED BY <3>1
      <4> HIDE DEF u
      <4> QED BY <3>1, <4>1
    <3>2. CASE i # n + 1
      <4>1. i \in 0 .. n /\ (i # 0 => i - 1 \in 0 .. n)
        BY <3>2
      <4>2. v[i] = IF i = 0 THEN NothingPending ELSE FoldStatement(v[i - 1], block[i])
        BY <2>1, <4>1
      <4>3. u[i] = v[i] /\ (i # 0 => u[i - 1] = v[i - 1])
        BY <4>1
      <4> HIDE DEF u
      <4> QED BY <4>2, <4>3
    <3> QED BY <3>1, <3>2
  <2>3. u = [i \in 0 .. n + 1 |-> u[i]]
    OBVIOUS
  <2> HIDE DEF u
  <2>4. u = [i \in 0 .. n + 1 |-> IF i = 0 THEN NothingPending
                                  ELSE FoldStatement(u[i - 1], block[i])]
    BY <2>2, <2>3
  <2> QED BY <2>4
<1> HIDE DEF T
<1>3. N \in T
  BY <1>1, <1>2, NatSetInduction
<1> QED BY <1>3 DEF T

LEMMA FoldsDef ==
  ASSUME NEW block, Len(block) \in Nat
  PROVE  /\ Folds(block)[0] = NothingPending
         /\ \A i \in 1 .. Len(block) : Folds(block)[i] = FoldStatement(Folds(block)[i - 1], block[i])
<1> DEFINE IsFold(v) == v = [i \in 0 .. Len(block) |-> IF i = 0 THEN NothingPending
                                                       ELSE FoldStatement(v[i - 1], block[i])]
           f == CHOOSE v : IsFold(v)
<1>1. Folds(block) = f
  BY DEF Folds
<1>2. \E v : IsFold(v)
  BY FoldsExist
<1>3. IsFold(f)
  <2> HIDE DEF IsFold
  <2> QED BY <1>2
<1> HIDE DEF f
<1>4. ASSUME NEW i \in 0 .. Len(block)
      PROVE  f[i] = IF i = 0 THEN NothingPending ELSE FoldStatement(f[i - 1], block[i])
  BY <1>3
<1> QED BY <1>1, <1>4

\* The folding has made the assignments to the first q elements, and no further slice
\* belongs to the last of them.
FoldedTo(f, q) ==
  /\ Flush(f) \in Seq(Statement) /\ Len(Flush(f)) = q
  /\ \A p \in 1 .. q : Flush(f)[p] = Both(p)
  /\ f.right # <<>> => f.h = 15 /\ f.l = 0

LEMMA ToType ==
  ASSUME NEW j \in Nat, NEW h \in Int, NEW right \in Seq(Int)
  PROVE  To(j, h, right) \in Statement
<1> DEFINE e == j \div 2
           a == e \div stackSize
           b == e % stackSize
<1>1. e \in Int /\ a \in Int /\ b \in Int
  BY ElementAssumption
<1>2. To(j, h, right) = [stack |-> a, index |-> b, h |-> h, right |-> right]
  BY DEF To
<1> HIDE DEF a, b
<1> QED BY <1>1, <1>2 DEF Statement

\* The first slice of an element begins a statement.
LEMMA FoldFirst ==
  ASSUME MoveType, StartsAnElement, NEW q \in Nat, 2 * q + 1 <= moveBlockSize,
         NEW f, FoldedTo(f, q)
  PROVE  LET d == code[2 * q + 1].dst
             g == Pending(Flush(f), TranslateIndexAndSlice(d), d - moveOffset)
         IN /\ FoldStatement(f, code[2 * q + 1]) = g
            /\ Flush(g) = Append(Flush(f), Half(q + 1))
            /\ Half(q + 1) \in Statement
<1> DEFINE r == q + 1
           u == UpperByte(r)
           a == code[2 * q + 1]
           t == TranslateIndexAndSlice(a.dst)
           g == Pending(Flush(f), t, a.dst - moveOffset)
<1>1. r \in Nat \ {0} /\ 2 * r - 1 = 2 * q + 1 /\ 2 * q + 1 \in 1 .. moveBlockSize
  BY DEF MoveType
<1>2. /\ u \in Int /\ u % 2 = 0 /\ (u + 1) % 2 = 1 /\ u \div 2 = (u + 1) \div 2
      /\ u \in 0 .. StackSize
      /\ a.dst = (IF moveOffset > 0 THEN u + 1 ELSE u)
      /\ a.src = a.dst - moveOffset
  BY <1>1, ElementAssigned
<1> HIDE DEF a, u
<1>3. u \in Nat /\ u + 1 \in Nat /\ a.dst \in Nat /\ StackSize \in Nat /\ moveOffset \in Int
  BY <1>2 DEF MoveType
<1>4. /\ t.stack = (u \div 2) \div stackSize /\ t.index = (u \div 2) % stackSize
      /\ t.l = (IF moveOffset > 0 THEN 0 ELSE 8) /\ t.h = (IF moveOffset > 0 THEN 7 ELSE 15)
  <2> DEFINE d == a.dst
             e == d \div 2
             p == d % 2
  <2>1. /\ t.stack = e \div stackSize /\ t.index = e % stackSize
        /\ t.l = (IF p = 0 THEN 8 ELSE 0) /\ t.h = (IF p = 0 THEN 15 ELSE 7)
    BY <1>3, CellOf
  <2>2. e = u \div 2 /\ p = IF moveOffset > 0 THEN 1 ELSE 0
    <3>1. d = IF moveOffset > 0 THEN u + 1 ELSE u
      BY <1>2
    <3> HIDE DEF d
    <3> QED BY <1>2, <3>1
  <2> HIDE DEF d, e, p
  <2> QED BY <2>1, <2>2
<1> HIDE DEF t
<1>5. ~Matches(f, t)
  <2>1. CASE f.right = <<>>
    BY <2>1 DEF Matches
  <2>2. CASE f.right # <<>>
    <3>1. f.h = 15 /\ f.l = 0
      BY <2>2 DEF FoldedTo
    <3> QED BY <1>4, <3>1 DEF Matches
  <2> QED BY <2>1, <2>2
<1>6. FoldStatement(f, a) = g
  BY <1>2, <1>5 DEF FoldStatement, t
<1> DEFINE s == [stack |-> t.stack, index |-> t.index, h |-> t.h, right |-> <<a.dst - moveOffset>>]
<1>7. Flush(g) = Append(Flush(f), s)
  <2>1. /\ g.done = Flush(f) /\ g.at = t /\ g.h = t.h /\ g.right = <<a.dst - moveOffset>>
        /\ g.right # <<>>
    BY DEF Pending
  <2> HIDE DEF g
  <2> QED BY <2>1 DEF Flush
<1>8. s = Half(r)
  <2> DEFINE e == u \div 2
             x == a.dst - moveOffset
  <2>1. x = IF moveOffset > 0 THEN u + 1 - moveOffset ELSE u - moveOffset
    <3>1. CASE moveOffset > 0
      <4>1. a.dst = u + 1
        BY <1>2, <3>1
      <4> DEFINE v == u + 1
      <4>2. x = v - moveOffset
        BY <4>1
      <4> HIDE DEF x
      <4> QED BY <1>3, <3>1, <4>2
    <3>2. CASE ~(moveOffset > 0)
      <4>1. a.dst = u
        BY <1>2, <3>2
      <4> QED BY <3>2, <4>1, Zenon
    <3> QED BY <3>1, <3>2
  <2>2. Half(r) = [stack |-> e \div stackSize, index |-> e % stackSize,
                   h |-> IF moveOffset > 0 THEN 7 ELSE 15, right |-> <<x>>]
    <3> HIDE DEF x
    <3>1. CASE moveOffset > 0
      BY <2>1, <3>1 DEF Half, To, u
    <3>2. CASE ~(moveOffset > 0)
      BY <2>1, <3>2 DEF Half, To, u
    <3> QED BY <3>1, <3>2
  <2> HIDE DEF x, e
  <2>3. t.stack = e \div stackSize /\ t.index = e % stackSize
    BY <1>4 DEF e
  <2>4. s = [stack |-> t.stack, index |-> t.index, h |-> t.h, right |-> <<x>>]
    BY DEF x
  <2> HIDE DEF s
  <2> QED BY <1>4, <2>2, <2>3, <2>4
<1>9. Half(r) \in Statement
  <2>1. u - moveOffset \in Int /\ u + 1 - moveOffset \in Int
    BY <1>3
  <2> DEFINE x == u - moveOffset
             y == u + 1 - moveOffset
  <2>2. Half(r) = IF moveOffset > 0 THEN To(u, 7, <<y>>) ELSE To(u, 15, <<x>>)
    BY DEF Half, u
  <2> HIDE DEF x, y
  <2>3. x \in Int /\ y \in Int
    BY <2>1 DEF x, y
  <2> DEFINE low == <<y>>
             high == <<x>>
  <2>4. low \in Seq(Int) /\ high \in Seq(Int) /\ 7 \in Int /\ 15 \in Int
    BY <2>3
  <2> HIDE DEF low, high
  <2>5. To(u, 7, low) \in Statement
    BY ONLY <1>3, <2>4, ToType
  <2>6. To(u, 15, high) \in Statement
    BY ONLY <1>3, <2>4, ToType
  <2> QED BY <2>2, <2>5, <2>6 DEF low, high
<1> HIDE DEF s, g
<1>10. FoldStatement(f, a) = g /\ Flush(g) = Append(Flush(f), Half(r)) /\ Half(r) \in Statement
  BY <1>6, <1>7, <1>8, <1>9
<1> QED BY <1>10 DEF g, t, a, r

\* A slice in front of, or behind, another.
LEMMA TwoSlices ==
  ASSUME NEW a \in Int, NEW b \in Int
  PROVE  <<a>> \o <<b>> = <<a, b>> /\ Append(<<a>>, b) = <<a, b>>
<1> DEFINE s == <<a>>
           t == <<b>>
           c == s \o t
           r == Append(s, b)
<1>1. s \in Seq(Int) /\ Len(s) = 1 /\ s[1] = a /\ t \in Seq(Int) /\ Len(t) = 1 /\ t[1] = b
  OBVIOUS
<1> HIDE DEF s, t
<1>2. c \in Seq(Int) /\ Len(c) = 2 /\ c[1] = a /\ c[1 + 1] = b
  BY <1>1, ConcatElements, SMTT(30)
<1>3. r \in Seq(Int) /\ Len(r) = 2 /\ r[1] = a /\ r[2] = b
  <2>1. r = Append(s, b) /\ s \in Seq(Int) /\ b \in Int
    BY <1>1
  <2> HIDE DEF r
  <2>2. /\ r \in Seq(Int) /\ Len(r) = Len(s) + 1 /\ r[Len(s) + 1] = b
        /\ \A i \in 1 .. Len(s) : r[i] = s[i]
    BY ONLY <2>1, AppendElements
  <2> QED BY <1>1, <2>2
<1> HIDE DEF c, r
<1>4. c = <<a, b>>
  BY <1>2
<1>5. r = <<a, b>>
  BY <1>3
<1> QED BY <1>4, <1>5 DEF c, r, s, t

\* The second slice completes the statement.
LEMMA FoldSecond ==
  ASSUME MoveType, StartsAnElement, NEW q \in Nat, 2 * q + 2 <= moveBlockSize,
         NEW f, FoldedTo(f, q)
  PROVE  FoldedTo(FoldStatement(FoldStatement(f, code[2 * q + 1]), code[2 * q + 2]), q + 1)
<1> DEFINE r == q + 1
           u == UpperByte(r)
           d == code[2 * q + 1].dst
           t == TranslateIndexAndSlice(d)
           g == Pending(Flush(f), t, d - moveOffset)
           b == code[2 * q + 2]
           w == TranslateIndexAndSlice(b.dst)
           x == u - moveOffset
           y == u + 1 - moveOffset
           both == <<x, y>>
           e == u \div 2
<1>1. /\ r \in Nat \ {0} /\ 2 * r - 1 = 2 * q + 1 /\ 2 * r = 2 * q + 2
      /\ 2 * q + 1 \in 1 .. moveBlockSize /\ 2 * q + 2 \in 1 .. moveBlockSize
      /\ 2 * q + 1 <= moveBlockSize
  BY DEF MoveType
<1>2. /\ u \in Int /\ u % 2 = 0 /\ (u + 1) % 2 = 1 /\ e = (u + 1) \div 2
      /\ u \in 0 .. StackSize
      /\ d = (IF moveOffset > 0 THEN u + 1 ELSE u)
      /\ b.dst = (IF moveOffset > 0 THEN u ELSE u + 1)
      /\ b.src = b.dst - moveOffset
  BY <1>1, ElementAssigned
<1>3. FoldStatement(f, code[2 * q + 1]) = g
  BY <1>1, FoldFirst
<1> HIDE DEF u, d, b
<1>4. /\ u \in Nat /\ u + 1 \in Nat /\ StackSize \in Nat /\ moveOffset \in Int
      /\ x \in Int /\ y \in Int
  BY <1>2 DEF MoveType
<1>5. /\ moveOffset > 0 => d - moveOffset = y /\ b.src = x
      /\ ~(moveOffset > 0) => d - moveOffset = x /\ b.src = y
  <2>1. CASE moveOffset > 0
    <3>1. d = u + 1 /\ b.dst = u
      BY <1>2, <2>1
    <3> QED BY <1>2, <1>4, <2>1, <3>1
  <2>2. CASE ~(moveOffset > 0)
    <3>1. d = u /\ b.dst = u + 1
      BY <1>2, <2>2
    <3> QED BY <1>2, <1>4, <2>2, <3>1
  <2> QED BY <2>1, <2>2
<1>6. ASSUME NEW j, j = u \/ j = u + 1
      PROVE  LET c == TranslateIndexAndSlice(j)
             IN /\ c.stack = e \div stackSize /\ c.index = e % stackSize
                /\ c.l = (IF j = u THEN 8 ELSE 0) /\ c.h = (IF j = u THEN 15 ELSE 7)
  <2> DEFINE c == TranslateIndexAndSlice(j)
             p == j % 2
             k == j \div 2
  <2>1. /\ c.stack = k \div stackSize /\ c.index = k % stackSize
        /\ c.l = (IF p = 0 THEN 8 ELSE 0) /\ c.h = (IF p = 0 THEN 15 ELSE 7)
    <3>1. j \in Nat
      BY <1>4, <1>6
    <3> QED BY <3>1, CellOf
  <2>2. k = e /\ p = IF j = u THEN 0 ELSE 1
    BY <1>2, <1>4, <1>6
  <2> HIDE DEF c, k, p, e
  <2> QED BY <2>1, <2>2 DEF c
<1>7. /\ t.stack = e \div stackSize /\ t.index = e % stackSize
      /\ moveOffset > 0 => t.l = 0 /\ t.h = 7 /\ w.l = 8 /\ w.h = 15
      /\ ~(moveOffset > 0) => t.l = 8 /\ t.h = 15 /\ w.l = 0 /\ w.h = 7
  <2>1. CASE moveOffset > 0
    <3>1. d = u + 1 /\ b.dst = u /\ u + 1 # u
      BY <1>2, <1>4, <2>1
    <3> QED BY <1>6, <2>1, <3>1
  <2>2. CASE ~(moveOffset > 0)
    <3>1. d = u /\ b.dst = u + 1 /\ u + 1 # u
      BY <1>2, <1>4, <2>2
    <3> QED BY <1>6, <2>2, <3>1
  <2> QED BY <2>1, <2>2
<1> DEFINE s == d - moveOffset
           z == FoldStatement(g, b)
<1>8. /\ g.done = Flush(f) /\ g.at = t /\ g.h = t.h /\ g.l = t.l /\ g.right = <<s>>
      /\ g.right # <<>>
      /\ g = [done |-> g.done, at |-> g.at, h |-> g.h, l |-> g.l, right |-> g.right]
  BY DEF Pending
<1>9. z = IF Matches(g, w) THEN Push(g, w, b.src) ELSE Pending(Flush(g), w, b.src)
  BY DEF FoldStatement
<1> HIDE DEF g, t, w, z, both, x, y, s
<1>10. z.done = Flush(f) /\ z.at = t /\ z.h = 15 /\ z.l = 0 /\ z.right = both
  <2>1. CASE moveOffset > 0
    <3>1. g.l = 0 /\ g.h = 7 /\ w.l = 8 /\ w.h = 15
      BY <1>7, <1>8, <2>1
    <3>2. z = Push(g, w, b.src)
      BY <1>8, <1>9, <3>1 DEF Matches
    <3>3. z = [g EXCEPT !.h = w.h, !.right = <<b.src>> \o g.right]
      BY <3>1, <3>2 DEF Push
    <3>4. <<b.src>> \o g.right = both
      <4>1. b.src = x /\ s = y
        BY <1>5, <2>1 DEF s
      <4>2. <<x>> \o <<y>> = both
        BY <1>4, TwoSlices DEF both
      <4> QED BY <1>8, <4>1, <4>2
    <3>5. z.done = g.done /\ z.at = g.at /\ z.h = w.h /\ z.l = g.l /\ z.right = both
      BY <1>8, <3>3, <3>4
    <3> QED BY <1>8, <3>1, <3>5
  <2>2. CASE ~(moveOffset > 0)
    <3>1. g.l = 8 /\ g.h = 15 /\ w.l = 0 /\ w.h = 7
      BY <1>7, <1>8, <2>2
    <3>2. z = Push(g, w, b.src)
      BY <1>8, <1>9, <3>1 DEF Matches
    <3>3. z = [g EXCEPT !.l = w.l, !.right = Append(g.right, b.src)]
      BY <3>1, <3>2 DEF Push
    <3>4. Append(g.right, b.src) = both
      <4>1. b.src = y /\ s = x
        BY <1>5, <2>2 DEF s
      <4>2. Append(<<x>>, y) = both
        BY <1>4, TwoSlices DEF both
      <4> QED BY <1>8, <4>1, <4>2
    <3>5. z.done = g.done /\ z.at = g.at /\ z.h = g.h /\ z.l = w.l /\ z.right = both
      BY <1>8, <3>3, <3>4
    <3> QED BY <1>8, <3>1, <3>5
  <2> QED BY <2>1, <2>2
<1>11. both # <<>> /\ both \in Seq(Int)
  BY <1>4 DEF both
<1>12. Flush(z) = Append(Flush(f), Both(r))
  <2>1. Flush(z) = Append(Flush(f), [stack |-> t.stack, index |-> t.index, h |-> 15, right |-> both])
    BY <1>10, <1>11 DEF Flush
  <2>2. Both(r) = To(u, 15, both)
    BY DEF Both, u, both, x, y
  <2>3. To(u, 15, both) = [stack |-> e \div stackSize, index |-> e % stackSize, h |-> 15, right |-> both]
    BY DEF To
  <2> HIDE DEF e
  <2> QED BY <1>7, <2>1, <2>2, <2>3
<1>13. Both(r) \in Statement
  <2>1. Both(r) = To(u, 15, both) /\ 15 \in Int
    BY DEF Both, u, both, x, y
  <2>2. To(u, 15, both) \in Statement
    BY ONLY <1>4, <1>11, <2>1, ToType
  <2> QED BY <2>1, <2>2
<1>14. FoldedTo(z, r)
  <2> DEFINE F == Flush(f)
             G == Flush(z)
  <2>1. F \in Seq(Statement) /\ Len(F) = q /\ \A p \in 1 .. q : F[p] = Both(p)
    BY DEF FoldedTo
  <2>2. G = Append(F, Both(r))
    BY <1>12
  <2> HIDE DEF F, G
  <2>3. /\ G \in Seq(Statement) /\ Len(G) = q + 1 /\ G[q + 1] = Both(r)
        /\ \A p \in 1 .. q : G[p] = F[p]
    BY <1>13, <2>1, <2>2, AppendElements
  <2>4. ASSUME NEW p \in 1 .. r PROVE G[p] = Both(p)
    <3>1. p = r \/ p \in 1 .. q
      OBVIOUS
    <3> QED BY <2>1, <2>3, <3>1
  <2> QED BY <1>10, <2>3, <2>4 DEF FoldedTo, G
<1>15. FoldStatement(FoldStatement(f, code[2 * q + 1]), code[2 * q + 2]) = z
  BY <1>3 DEF z, b
<1> QED BY <1>14, <1>15

\* What the move is folded to: one assignment for each element, the last one perhaps to a half.
MoveFolded(F) ==
  /\ F \in Seq(Statement)
  /\ 2 * Len(F) = moveBlockSize \/ 2 * Len(F) = moveBlockSize + 1
  /\ \A q \in 1 .. Len(F) : F[q] = IF 2 * q <= moveBlockSize THEN Both(q) ELSE Half(q)

LEMMA FoldOfMove ==
  ASSUME MoveType, StartsAnElement
  PROVE  MoveFolded(Fold(code))
<1> DEFINE f == Folds(code)
           n == moveBlockSize
           T == {q \in Nat : 2 * q <= n => FoldedTo(f[2 * q], q)}
<1>1. /\ n \in Nat /\ Len(code) = n /\ f[0] = NothingPending
      /\ \A i \in 1 .. n : f[i] = FoldStatement(f[i - 1], code[i])
  BY FoldsDef DEF MoveType
<1>2. Fold(code) = Flush(f[n])
  BY <1>1 DEF Fold
<1> HIDE DEF f
<1>3. 0 \in T
  <2>1. NothingPending.right = <<>> /\ NothingPending.done = <<>>
    BY DEF NothingPending
  <2>2. Flush(NothingPending) = <<>>
    BY <2>1 DEF Flush
  <2>3. FoldedTo(NothingPending, 0)
    BY <2>1, <2>2 DEF FoldedTo
  <2> QED BY <1>1, <2>3
<1>4. ASSUME NEW q \in Nat, q \in T PROVE q + 1 \in T
  <2> SUFFICES ASSUME 2 * (q + 1) <= n PROVE FoldedTo(f[2 * (q + 1)], q + 1)
    OBVIOUS
  <2>1. /\ 2 * q <= n /\ 2 * (q + 1) = 2 * q + 2 /\ 2 * q + 2 <= n
        /\ 2 * q + 1 \in 1 .. n /\ 2 * q + 2 \in 1 .. n
        /\ (2 * q + 1) - 1 = 2 * q /\ (2 * q + 2) - 1 = 2 * q + 1
    BY <1>1
  <2>2. FoldedTo(f[2 * q], q)
    BY <1>4, <2>1
  <2>3. f[2 * q + 1] = FoldStatement(f[2 * q], code[2 * q + 1])
    BY <1>1, <2>1
  <2>4. f[2 * q + 2] = FoldStatement(f[2 * q + 1], code[2 * q + 2])
    BY <1>1, <2>1
  <2>5. FoldedTo(FoldStatement(FoldStatement(f[2 * q], code[2 * q + 1]), code[2 * q + 2]), q + 1)
    BY <2>1, <2>2, FoldSecond
  <2> QED BY <2>1, <2>3, <2>4, <2>5
<1> HIDE DEF T
<1>5. \A q \in Nat : q \in T
  BY <1>3, <1>4, NatSetInduction
<1>6. PICK q \in Nat : n = 2 * q \/ n = 2 * q + 1
  <2>1. n \div 2 \in Nat /\ (n = 2 * (n \div 2) \/ n = 2 * (n \div 2) + 1)
    BY <1>1
  <2> QED BY <2>1
<1>7. FoldedTo(f[2 * q], q)
  BY <1>1, <1>5, <1>6 DEF T
<1> DEFINE F == Flush(f[2 * q])
<1>8. F \in Seq(Statement) /\ Len(F) = q /\ \A p \in 1 .. q : F[p] = Both(p)
  BY <1>7 DEF FoldedTo
<1>9. CASE n = 2 * q
  <2>1. Fold(code) = F
    BY <1>2, <1>9
  <2> HIDE DEF F
  <2>2. ASSUME NEW p \in 1 .. Len(F) PROVE F[p] = IF 2 * p <= n THEN Both(p) ELSE Half(p)
    <3>1. p \in 1 .. q /\ 2 * p <= n
      BY <1>8, <1>9
    <3> QED BY <1>8, <3>1
  <2> QED BY <1>8, <1>9, <2>1, <2>2 DEF MoveFolded
<1>10. CASE n = 2 * q + 1
  <2> DEFINE d == code[2 * q + 1].dst
             g == Pending(F, TranslateIndexAndSlice(d), d - moveOffset)
             G == Flush(g)
  <2>1. /\ FoldStatement(f[2 * q], code[2 * q + 1]) = g
        /\ G = Append(F, Half(q + 1)) /\ Half(q + 1) \in Statement
    BY <1>1, <1>7, <1>10, FoldFirst
  <2>2. f[n] = FoldStatement(f[2 * q], code[2 * q + 1])
    <3>1. n \in 1 .. n /\ n - 1 = 2 * q
      BY <1>10
    <3> QED BY <1>1, <1>10, <3>1
  <2>3. Fold(code) = G
    BY <1>2, <2>1, <2>2
  <2> HIDE DEF F, G
  <2>4. /\ G \in Seq(Statement) /\ Len(G) = q + 1 /\ G[q + 1] = Half(q + 1)
        /\ \A p \in 1 .. q : G[p] = F[p]
    BY <1>8, <2>1, AppendElements
  <2>5. ASSUME NEW p \in 1 .. Len(G) PROVE G[p] = IF 2 * p <= n THEN Both(p) ELSE Half(p)
    <3>1. CASE p = q + 1
      <4>1. ~(2 * p <= n)
        BY <1>10, <3>1
      <4> QED BY <2>4, <3>1, <4>1
    <3>2. CASE p # q + 1
      <4>1. p \in 1 .. q /\ 2 * p <= n
        BY <1>10, <2>4, <3>2
      <4> QED BY <1>8, <2>4, <4>1
    <3> QED BY <3>1, <3>2
  <2>6. 2 * Len(G) = n + 1
    BY <1>10, <2>4
  <2> QED BY <2>3, <2>4, <2>5, <2>6 DEF MoveFolded
<1> QED BY <1>6, <1>9, <1>10

----------------------------------------------------------------------------
(* The folded move. *)

\* The bytes that the q-th assignment writes.
Takes(q, j) ==
  IF 2 * q <= moveBlockSize THEN j = UpperByte(q) \/ j = UpperByte(q) + 1
  ELSE IF moveOffset > 0 THEN j = UpperByte(q) + 1 ELSE j = UpperByte(q)

\* The slice of the assignment a that the cell c gets.
SliceFor(a, c) == (a.h - 7 - c[3]) \div 8 + 1

Sets(a, c) == c[1] = a.stack /\ c[2] = a.index /\ SliceFor(a, c) \in DOMAIN a.right

\* The q-th assignment writes these bytes and no others, each from where the move takes it.
LEMMA AssignmentSets ==
  ASSUME MoveType, StartsAnElement, NEW q \in Nat \ {0}, 2 * q - 1 <= moveBlockSize,
         NEW a, a = IF 2 * q <= moveBlockSize THEN Both(q) ELSE Half(q),
         NEW j \in 0 .. StackSize - 1
  PROVE  /\ Sets(a, Cell(j)) <=> Takes(q, j)
         /\ Takes(q, j) => a.right[SliceFor(a, Cell(j))] = j - moveOffset
<1> DEFINE u == UpperByte(q)
           c == Cell(j)
           k == SliceFor(a, c)
           x == u - moveOffset
           y == u + 1 - moveOffset
<1>1. /\ u \in Nat /\ j \in Nat /\ moveOffset \in Int /\ u % 2 = 0 /\ (u + 1) % 2 = 1
      /\ u \div 2 = (u + 1) \div 2 /\ x \in Int /\ y \in Int
  <2>1. 2 * q - 1 \in 1 .. moveBlockSize
    BY DEF MoveType
  <2>2. u \in 0 .. StackSize /\ u \in Int /\ u % 2 = 0 /\ (u + 1) % 2 = 1 /\ u \div 2 = (u + 1) \div 2
    BY <2>1, ElementAssigned
  <2>3. StackSize \in Nat /\ moveOffset \in Int
    BY DEF MoveType
  <2> HIDE DEF u
  <2> QED BY <2>2, <2>3
<1>2. c[3] = IF j % 2 = 0 THEN 8 ELSE 0
  BY <1>1, CellOf
<1>3. /\ a.stack = Cell(u)[1] /\ a.index = Cell(u)[2]
      /\ a.h = (IF 2 * q <= moveBlockSize \/ ~(moveOffset > 0) THEN 15 ELSE 7)
      /\ a.right = (IF 2 * q <= moveBlockSize THEN <<x, y>>
                    ELSE IF moveOffset > 0 THEN <<y>> ELSE <<x>>)
  <2> DEFINE e == u \div 2
  <2>1. Cell(u)[1] = e \div stackSize /\ Cell(u)[2] = e % stackSize
    BY <1>1, CellOf
  <2>2. CASE 2 * q <= moveBlockSize
    <3>1. a = To(u, 15, <<x, y>>)
      BY <2>2 DEF Both
    <3> HIDE DEF u, x, y
    <3> QED BY <2>1, <2>2, <3>1 DEF To
  <2>3. CASE ~(2 * q <= moveBlockSize) /\ moveOffset > 0
    <3>1. a = To(u, 7, <<y>>)
      BY <2>3 DEF Half
    <3> HIDE DEF u, x, y
    <3> QED BY <2>1, <2>3, <3>1 DEF To
  <2>4. CASE ~(2 * q <= moveBlockSize) /\ ~(moveOffset > 0)
    <3>1. a = To(u, 15, <<x>>)
      BY <2>4 DEF Half
    <3> HIDE DEF u, x, y
    <3> QED BY <2>1, <2>4, <3>1 DEF To
  <2> QED BY <2>2, <2>3, <2>4
<1>4. c[1] = a.stack /\ c[2] = a.index <=> j = u \/ j = u + 1
  <2>1. c[1] = a.stack /\ c[2] = a.index <=> j \div 2 = u \div 2
    BY <1>1, <1>3, SameElement
  <2> HIDE DEF u, c
  <2>2. j \div 2 = u \div 2 <=> j = u \/ j = u + 1
    BY <1>1
  <2> QED BY <2>1, <2>2
<1>5. k = (a.h - 7 - c[3]) \div 8 + 1
  BY DEF SliceFor
<1>6. /\ j = u => c[3] = 8 /\ j - moveOffset = x
      /\ j = u + 1 => c[3] = 0 /\ j - moveOffset = y
  <2> HIDE DEF c, u
  <2> QED BY <1>1, <1>2
<1>7. Sets(a, c) <=> (j = u \/ j = u + 1) /\ k \in DOMAIN a.right
  BY <1>4 DEF Sets
<1>8. Takes(q, j) <=> IF 2 * q <= moveBlockSize THEN j = u \/ j = u + 1
                      ELSE IF moveOffset > 0 THEN j = u + 1 ELSE j = u
  BY DEF Takes
<1>9. u # u + 1
  BY <1>1
<1> HIDE DEF u, c, k, x, y
<1>10. CASE 2 * q <= moveBlockSize
  <2>1. a.h = 15 /\ a.right = <<x, y>>
    BY <1>3, <1>10
  <2>2. DOMAIN a.right = {1, 2} /\ a.right[1] = x /\ a.right[2] = y
    BY <2>1
  <2>3. j = u => k = 1
    BY <1>5, <1>6, <2>1
  <2>4. j = u + 1 => k = 2
    BY <1>5, <1>6, <2>1
  <2> QED BY <1>6, <1>7, <1>8, <1>10, <2>2, <2>3, <2>4 DEF c, k
<1>11. CASE ~(2 * q <= moveBlockSize) /\ moveOffset > 0
  <2>1. a.h = 7 /\ a.right = <<y>>
    BY <1>3, <1>11
  <2>2. DOMAIN a.right = {1} /\ a.right[1] = y
    BY <2>1
  <2>3. j = u => k = 0
    BY <1>5, <1>6, <2>1
  <2>4. j = u + 1 => k = 1
    BY <1>5, <1>6, <2>1
  <2> QED BY <1>6, <1>7, <1>8, <1>9, <1>11, <2>2, <2>3, <2>4 DEF c, k
<1>12. CASE ~(2 * q <= moveBlockSize) /\ ~(moveOffset > 0)
  <2>1. a.h = 15 /\ a.right = <<x>>
    BY <1>3, <1>12
  <2>2. DOMAIN a.right = {1} /\ a.right[1] = x
    BY <2>1
  <2>3. j = u => k = 1
    BY <1>5, <1>6, <2>1
  <2>4. j = u + 1 => k = 2
    BY <1>5, <1>6, <2>1
  <2> QED BY <1>6, <1>7, <1>8, <1>9, <1>12, <2>2, <2>3, <2>4 DEF c, k
<1> QED BY <1>10, <1>11, <1>12

\* The bytes that the first q assignments write.
Taken(q, j) ==
  LET lo == moveInitIdx + moveOffset
      n  == IF 2 * q <= moveBlockSize THEN 2 * q ELSE moveBlockSize
  IN IF moveOffset > 0 THEN InBlock(j, lo + moveBlockSize - n, n) ELSE InBlock(j, lo, n)

\* The next assignment reads what none has written yet.
LEMMA TakenMore ==
  ASSUME MoveType, StartsAnElement, NEW q \in Nat, 2 * q + 1 <= moveBlockSize,
         NEW j \in 0 .. StackSize - 1
  PROVE  /\ Taken(q + 1, j) <=> Taken(q, j) \/ Takes(q + 1, j)
         /\ Takes(q + 1, j) => j - moveOffset \in 0 .. StackSize - 1 /\ ~Taken(q, j - moveOffset)
<1> DEFINE lo == moveInitIdx + moveOffset
           n == moveBlockSize
           u == UpperByte(q + 1)
           i == j - moveOffset
<1>1. /\ moveInitIdx \in Nat /\ moveOffset \in Int /\ moveOffset # 0 /\ n \in Nat
      /\ StackSize \in Nat /\ moveInitIdx + n <= StackSize
      /\ lo \in Int /\ lo >= 0 /\ lo + n <= StackSize /\ lo = moveInitIdx + moveOffset
  BY DEF MoveType
<1>2. 2 * (q + 1) = 2 * q + 2 /\ 2 * q <= n
  BY <1>1
<1> DEFINE m == IF 2 * q + 2 <= n THEN 2 * q + 2 ELSE n
<1>3. CASE moveOffset > 0
  <2>1. u = lo + n - (2 * q + 2)
    BY <1>2, <1>3 DEF UpperByte
  <2>2. Taken(q, j) <=> lo + n - 2 * q <= j /\ j < lo + n
    BY <1>1, <1>2, <1>3 DEF Taken, InBlock
  <2>3. Taken(q + 1, j) <=> lo + n - m <= j /\ j < lo + n
    BY <1>1, <1>2, <1>3 DEF Taken, InBlock
  <2>4. Taken(q, i) <=> lo + n - 2 * q <= i /\ i < lo + n
    BY <1>1, <1>2, <1>3 DEF Taken, InBlock
  <2>5. Takes(q + 1, j) <=> IF 2 * q + 2 <= n THEN j = u \/ j = u + 1 ELSE j = u + 1
    BY <1>2, <1>3 DEF Takes
  <2> HIDE DEF lo, u
  <2> QED BY <1>1, <1>2, <1>3, <2>1, <2>2, <2>3, <2>4, <2>5
<1>4. CASE ~(moveOffset > 0)
  <2>1. u = lo + 2 * q
    BY <1>1, <1>2, <1>4 DEF UpperByte
  <2>2. Taken(q, j) <=> lo <= j /\ j < lo + 2 * q
    BY <1>1, <1>2, <1>4 DEF Taken, InBlock
  <2>3. Taken(q + 1, j) <=> lo <= j /\ j < lo + m
    BY <1>1, <1>2, <1>4 DEF Taken, InBlock
  <2>4. Taken(q, i) <=> lo <= i /\ i < lo + 2 * q
    BY <1>1, <1>2, <1>4 DEF Taken, InBlock
  <2>5. Takes(q + 1, j) <=> IF 2 * q + 2 <= n THEN j = u \/ j = u + 1 ELSE j = u
    BY <1>2, <1>4 DEF Takes
  <2> HIDE DEF lo, u
  <2> QED BY <1>1, <1>2, <1>4, <2>1, <2>2, <2>3, <2>4, <2>5
<1> QED BY <1>3, <1>4

\* The first q of the folded assignments F are done, and of the elements as much is moved.
FoldedAt(F, q) ==
  /\ MoveFolded(F) /\ q \in 0 .. Len(F)
  /\ folded \in Seq(Statement) /\ Len(folded) = Len(F) - q
  /\ \A i \in 1 .. Len(folded) : folded[i] = F[q + i]
  /\ \A j \in 0 .. StackSize - 1 :
       mem[Cell(j)] = IF Taken(q, j) THEN packet[j - moveOffset] ELSE packet[j]

FoldInv ==
  /\ MoveInv
  /\ DOMAIN mem = Cells
  /\ StartsAnElement => \E F, q : FoldedAt(F, q)

LEMMA CellsOfBytes ==
  ASSUME NEW j \in 0 .. StackSize - 1
  PROVE  j \in Nat /\ Cell(j) \in Cells /\ Wire(Cell(j)) = j
<1>1. j \in Nat
  BY StackAssumption
<1> QED BY <1>1, WireOfCell DEF Cells

LEMMA FoldInvInit == Init => FoldInv
<1> SUFFICES ASSUME Init PROVE FoldInv
  OBVIOUS
<1>1. /\ MoveInv /\ mem = [c \in Cells |-> packet[Wire(c)]] /\ folded = Fold(code)
  BY MoveInvInit DEF Init
<1>2. MoveType
  BY <1>1, MoveTyped
<1>3. ASSUME StartsAnElement PROVE FoldedAt(folded, 0)
  <2>1. MoveFolded(folded)
    BY <1>1, <1>2, <1>3, FoldOfMove
  <2>2. folded \in Seq(Statement)
    BY <2>1 DEF MoveFolded
  <2>3. Len(folded) \in Nat
    BY <2>2
  <2>4. ASSUME NEW i \in 1 .. Len(folded) PROVE folded[i] = folded[0 + i]
    BY <2>3
  <2>5. ASSUME NEW j \in 0 .. StackSize - 1 PROVE mem[Cell(j)] = packet[j] /\ ~Taken(0, j)
    <3>1. mem[Cell(j)] = packet[Wire(Cell(j))]
      BY <1>1, CellsOfBytes
    <3>2. /\ moveInitIdx \in Nat /\ moveOffset \in Int /\ moveBlockSize \in Nat /\ j \in Int
      BY <1>2 DEF MoveType
    <3>3. ~Taken(0, j)
      BY <3>2 DEF Taken, InBlock
    <3> QED BY <3>1, <3>3, CellsOfBytes
  <2> QED BY <2>1, <2>2, <2>3, <2>4, <2>5 DEF FoldedAt
<1> QED BY <1>1, <1>3 DEF FoldInv

LEMMA RunFoldedStep ==
  ASSUME FoldInv, RunFolded
  PROVE  FoldInv'
<1>1. MoveInv' /\ (StartsAnElement' <=> StartsAnElement)
  BY DEF FoldInv, RunFolded, moveVars, moveArgs, MoveInv, MoveArgs, Assigned, InBlock, StartsAnElement
<1> DEFINE a == Head(folded)
           new(c) == IF Sets(a, c) THEN mem[Cell(a.right[SliceFor(a, c)])] ELSE mem[c]
<1>2. folded # <<>> /\ mem' = [c \in DOMAIN mem |-> new(c)] /\ folded' = Tail(folded)
  BY DEF RunFolded, Sets, SliceFor
<1> HIDE DEF new
<1>3. DOMAIN mem' = Cells
  BY <1>2 DEF FoldInv
<1>4. ASSUME StartsAnElement PROVE \E F, q : FoldedAt(F, q)'
  <2>1. PICK F, q : FoldedAt(F, q)
    BY <1>4 DEF FoldInv
  <2>2. MoveType
    BY MoveTyped DEF FoldInv
  <2>3. /\ MoveFolded(F) /\ q \in 0 .. Len(F) /\ Len(F) \in Nat
        /\ folded \in Seq(Statement) /\ Len(folded) = Len(F) - q
        /\ \A i \in 1 .. Len(folded) : folded[i] = F[q + i]
    <3>1. F \in Seq(Statement)
      BY <2>1 DEF FoldedAt, MoveFolded
    <3> QED BY <2>1, <3>1 DEF FoldedAt
  <2>4. /\ folded' \in Seq(Statement) /\ Len(folded') = Len(folded) - 1 /\ Len(folded) \in Nat \ {0}
        /\ a = folded[1] /\ \A i \in 1 .. Len(folded') : folded'[i] = folded[i + 1]
    BY <1>2, <2>3
  <2>5. /\ q \in Nat /\ q + 1 \in 1 .. Len(F) /\ Len(folded') = Len(F) - (q + 1)
        /\ 2 * q + 1 <= moveBlockSize /\ 2 * (q + 1) - 1 <= moveBlockSize
    <3>1. q \in Nat /\ q + 1 \in 1 .. Len(F) /\ Len(folded') = Len(F) - (q + 1)
      BY <2>3, <2>4
    <3>2. 2 * Len(F) = moveBlockSize \/ 2 * Len(F) = moveBlockSize + 1
      BY <2>3 DEF MoveFolded
    <3>3. moveBlockSize \in Nat
      BY <2>2 DEF MoveType
    <3> QED BY <2>3, <3>1, <3>2, <3>3
  <2>6. a = IF 2 * (q + 1) <= moveBlockSize THEN Both(q + 1) ELSE Half(q + 1)
    <3>1. folded[1] = F[q + 1]
      BY <2>3, <2>4
    <3> QED BY <2>3, <2>4, <2>5, <3>1 DEF MoveFolded
  <2> HIDE DEF a
  <2>7. ASSUME NEW i \in 1 .. Len(folded') PROVE folded'[i] = F[(q + 1) + i]
    <3>1. i + 1 \in 1 .. Len(folded) /\ q + (i + 1) = (q + 1) + i
      BY <2>4, <2>5
    <3> QED BY <2>3, <2>4, <3>1
  <2>8. ASSUME NEW j \in 0 .. StackSize - 1
        PROVE  mem'[Cell(j)] = IF Taken(q + 1, j) THEN packet[j - moveOffset] ELSE packet[j]
    <3> DEFINE c == Cell(j)
               i == j - moveOffset
    <3>1. mem'[c] = new(c)
      BY <1>2, CellsOfBytes DEF FoldInv
    <3>2. ASSUME NEW l \in 0 .. StackSize - 1
          PROVE  mem[Cell(l)] = IF Taken(q, l) THEN packet[l - moveOffset] ELSE packet[l]
      BY <2>1 DEF FoldedAt
    <3>3. /\ Sets(a, c) <=> Takes(q + 1, j)
          /\ Takes(q + 1, j) => a.right[SliceFor(a, c)] = i
      <4>1. q + 1 \in Nat \ {0}
        BY <2>5
      <4> QED BY <1>4, <2>2, <2>5, <2>6, <4>1, AssignmentSets
    <3>4. /\ Taken(q + 1, j) <=> Taken(q, j) \/ Takes(q + 1, j)
          /\ Takes(q + 1, j) => i \in 0 .. StackSize - 1 /\ ~Taken(q, i)
      BY <1>4, <2>2, <2>5, TakenMore
    <3> HIDE DEF c, i
    <3>5. CASE Takes(q + 1, j)
      <4>1. new(c) = mem[Cell(i)]
        BY <3>3, <3>5 DEF new
      <4>2. mem[Cell(i)] = packet[i]
        BY <3>2, <3>4, <3>5
      <4> QED BY <3>1, <3>4, <3>5, <4>1, <4>2 DEF c, i
    <3>6. CASE ~Takes(q + 1, j)
      <4>1. new(c) = mem[Cell(j)]
        BY <3>3, <3>6 DEF new, c
      <4> QED BY <3>1, <3>2, <3>4, <3>6, <4>1 DEF c
    <3> QED BY <3>5, <3>6
  <2>9. /\ packet' = packet /\ moveInitIdx' = moveInitIdx /\ moveOffset' = moveOffset
        /\ moveBlockSize' = moveBlockSize
    BY DEF RunFolded, moveVars, moveArgs
  <2>10. MoveFolded(F)'
    BY <2>3, <2>9 DEF MoveFolded, Both, Half, To, UpperByte
  <2>11. ASSUME NEW j PROVE Taken(q + 1, j)' <=> Taken(q + 1, j)
    BY <2>9 DEF Taken, InBlock
  <2>12. ASSUME NEW j \in 0 .. StackSize - 1
         PROVE  mem'[Cell(j)] = IF Taken(q + 1, j)' THEN packet'[j - moveOffset'] ELSE packet'[j]
    BY <2>8, <2>9, <2>11
  <2>13. q + 1 \in 0 .. Len(F)
    BY <2>3, <2>5
  <2>14. FoldedAt(F, q + 1)'
    BY <2>4, <2>5, <2>7, <2>10, <2>12, <2>13 DEF FoldedAt
  <2> QED BY <2>14
<1> QED BY <1>1, <1>3, <1>4 DEF FoldInv

LEMMA FoldInvStep ==
  ASSUME FoldInv, [Next]_vars
  PROVE  FoldInv'
<1>1. CASE RunFolded
  BY <1>1, RunFoldedStep
<1>2. CASE RunBytes \/ UNCHANGED vars
  <2>1. /\ UNCHANGED <<moveArgs, mem, folded>>
        /\ [MoveNext]_moveVars
    BY <1>2 DEF RunBytes, MoveNext, vars, moveVars
  <2>2. MoveInv'
    BY <2>1, MoveInvStep DEF FoldInv
  <2>3. ASSUME NEW F, NEW q, FoldedAt(F, q) PROVE FoldedAt(F, q)'
    BY <2>1, <2>3 DEF FoldedAt, MoveFolded, Both, Half, To, UpperByte, Taken, InBlock, moveArgs
  <2>4. StartsAnElement' <=> StartsAnElement
    BY <2>1 DEF StartsAnElement, moveArgs
  <2> QED BY <2>1, <2>2, <2>3, <2>4 DEF FoldInv
<1> QED BY <1>1, <1>2 DEF Next

LEMMA FoldInvImplies == FoldInv => FoldedMoveAgrees
<1> SUFFICES ASSUME FoldInv, pc > Len(code), folded = <<>>, StartsAnElement,
                    NEW c \in Cells
             PROVE  mem[c] = stack[Wire(c)]
  BY DEF FoldedMoveAgrees
<1>1. PICK j \in 0 .. StackSize - 1 : c = Cell(j)
  BY DEF Cells
<1>2. Wire(c) = j
  BY <1>1, CellsOfBytes
<1>3. PICK F, q : FoldedAt(F, q)
  BY DEF FoldInv
<1>4. mem[c] = IF Taken(q, j) THEN packet[j - moveOffset] ELSE packet[j]
  BY <1>1, <1>3 DEF FoldedAt
<1>5. stack[j] = IF InBlock(j, moveInitIdx + moveOffset, moveBlockSize)
                 THEN packet[j - moveOffset] ELSE packet[j]
  BY MoveInvImplies DEF FoldInv, MoveIsCopy
<1>6. Taken(q, j) <=> InBlock(j, moveInitIdx + moveOffset, moveBlockSize)
  <2>1. MoveType
    BY MoveTyped DEF FoldInv
  <2>2. /\ moveInitIdx \in Nat /\ moveOffset \in Int /\ moveBlockSize \in Nat /\ j \in Int
    BY <2>1 DEF MoveType
  <2>3. F \in Seq(Statement) /\ Len(folded) = 0 /\ Len(folded) = Len(F) - q /\ q \in 0 .. Len(F)
        /\ (2 * Len(F) = moveBlockSize \/ 2 * Len(F) = moveBlockSize + 1)
    BY <1>3 DEF FoldedAt, MoveFolded
  <2>4. q \in Nat /\ 2 * q >= moveBlockSize
    <3>1. Len(F) \in Nat
      BY <2>3
    <3> QED BY <2>2, <2>3, <3>1
  <2> QED BY <2>2, <2>4 DEF Taken, InBlock
<1> QED BY <1>2, <1>4, <1>5, <1>6

\* Rewriting a byte move for two-byte elements and folding its slices does not change what it
\* does, for stacks of any size, elements in any number of stacks, and moves of any distance
\* and length that begin with the first two bytes of one element.
THEOREM FoldedMoveIsMove == Spec => []FoldedMoveAgrees
<1>1. Init => FoldInv
  BY FoldInvInit
<1>2. FoldInv /\ [Next]_vars => FoldInv'
  BY FoldInvStep
<1>3. FoldInv => FoldedMoveAgrees
  BY FoldInvImplies
<1> QED BY <1>1, <1>2, <1>3, PTL DEF Spec
====
