---- MODULE ReplaceByteHdrStack ----
(***************************************************************************)
(* The Tofino backend's ReplaceByteHdrStack and FoldLExpSlicesInAsStmts:   *)
(* the byte stack becomes stacks of two-byte elements, an access to a byte *)
(* a slice of an element, and assignments to the two slices of an element  *)
(* one assignment.  The module executes a byte move on the byte stack and  *)
(* then, translated and folded, on the elements.                           *)
(***************************************************************************)
EXTENDS ByteMove

CONSTANT stackSize    \* elements of one of the new stacks

ASSUME ElementAssumption == stackSize \in Nat \ {0} /\ StackSize % 2 = 0

VARIABLES
  mem,          \* the bytes of the elements, by stack, index and lowest bit
  folded        \* the translated assignments that are still to be executed

vars == <<moveVars, mem, folded>>

----------------------------------------------------------------------------
\* translateIndexAndSlice(in, 7, 0)
TranslateIndexAndSlice(in) ==
  LET offset == ((in % 2) * 8 + 8) % 16
  IN [stack |-> (in \div 2) \div stackSize, index |-> (in \div 2) % stackSize,
      h |-> offset + 7, l |-> offset]

Cell(in) == LET t == TranslateIndexAndSlice(in) IN <<t.stack, t.index, t.l>>

\* Folding in progress: the statements that are done, and lExpMember's element with
\* the bits assigned to so far and rightExprVec.
Pending(done, t, src) == [done |-> done, at |-> t, h |-> t.h, l |-> t.l, right |-> <<src>>]
NothingPending == [done |-> <<>>, right |-> <<>>]

Flush(f) ==
  IF f.right = <<>> THEN f.done
  ELSE Append(f.done, [stack |-> f.at.stack, index |-> f.at.index, h |-> f.h, right |-> f.right])

\* Mutant: every slice is taken to follow.
PushBack(f, t, src) ==
  [f EXCEPT !.h = IF f.h + 1 = t.l THEN t.h ELSE @, !.l = IF f.h + 1 = t.l THEN @ ELSE t.l,
            !.right = Append(@, src)]

\* The next slice is below those folded so far, or above them.
Push(f, t, src) ==
  IF f.h + 1 = t.l THEN [f EXCEPT !.h = t.h, !.right = <<src>> \o @]
  ELSE [f EXCEPT !.l = t.l, !.right = Append(@, src)]

\* matchLExpSliceIndices.  preorder(ArrayIndex) compares the element with itself, so that
\* slices of different elements match.
Matches(f, t) == f.right # <<>> /\ (f.l = t.h + 1 \/ f.h + 1 = t.l)

\* preorder(AssignmentStatement)
FoldStatement(f, a) ==
  LET t == TranslateIndexAndSlice(a.dst)
  IN IF Matches(f, t) THEN Push(f, t, a.src) ELSE Pending(Flush(f), t, a.src)

\* The folding after each of the statements of a block.
Folds(block) ==
  LET fold[i \in 0 .. Len(block)] ==
        IF i = 0 THEN NothingPending ELSE FoldStatement(fold[i - 1], block[i])
  IN fold

\* preorder(BlockStatement), of a byte move's action.
Fold(block) == Flush(Folds(block)[Len(block)])

----------------------------------------------------------------------------
\* The byte of the packet that the target's parser extracts to a cell.
Wire(c) == 2 * (c[1] * stackSize + c[2]) + (IF c[3] = 8 THEN 0 ELSE 1)

Cells == {Cell(j) : j \in 0 .. StackSize - 1}

Init ==
  /\ MoveInit
  /\ mem = [c \in Cells |-> packet[Wire(c)]]
  /\ folded = Fold(code)

RunBytes == MoveNext /\ UNCHANGED <<mem, folded>>

\* A folded assignment reads all its bytes before it writes them.
RunFolded ==
  /\ pc > Len(code) /\ folded # <<>>
  /\ LET a == Head(folded)
         k(c) == (a.h - 7 - c[3]) \div 8 + 1
     IN mem' = [c \in DOMAIN mem |->
                  IF c[1] = a.stack /\ c[2] = a.index /\ k(c) \in DOMAIN a.right
                  THEN mem[Cell(a.right[k(c)])] ELSE mem[c]]
  /\ folded' = Tail(folded)
  /\ UNCHANGED moveVars

Next == RunBytes \/ RunFolded

Spec == Init /\ [][Next]_vars

----------------------------------------------------------------------------
\* The move assigns the slices of an element one after the other.
StartsAnElement ==
  IF moveOffset > 0 THEN (moveInitIdx + moveOffset + moveBlockSize) % 2 = 0
                    ELSE (moveInitIdx + moveOffset) % 2 = 0

\* Translating and folding an action does not change what it does: where the first two bytes it
\* assigns are of one element, the elements hold afterwards, byte for byte, what the byte stack does.
FoldedMoveAgrees ==
  pc > Len(code) /\ folded = <<>> /\ StartsAnElement =>
    \A c \in Cells : mem[c] = stack[Wire(c)]

====
