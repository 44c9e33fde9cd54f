---- MODULE ByteStack ----
(***************************************************************************)
(* The byte stack of the compiled program (p.msa_hdr_stack_s0, an array of *)
(* one-byte headers) and the actions that DeparserConverter synthesizes on *)
(* it: straight-line sequences of byte assignments.  An assignment copies  *)
(* to byte dst either byte src of the stack or byte src of a header that   *)
(* lives in the header struct.  A machine executes one assignment a step.  *)
(***************************************************************************)
EXTENDS Integers, Sequences

CONSTANTS
  StackSize,    \* *byteStackSize / 8
  ByteValue     \* what a byte of the stack may hold

ASSUME StackAssumption == StackSize \in Nat

VARIABLES
  stack,        \* the bytes
  code,         \* the action being executed
  pc            \* its next assignment

Stack == [0 .. StackSize - 1 -> ByteValue]

CopyByte(d, s) == [dst |-> d, hdr |-> "stack", src |-> s]
WriteByte(d, h, s) == [dst |-> d, hdr |-> h, src |-> s]

\* Mutants: never reversed, resp. reversed when the block moves down.
CreateAscendingMove(moveInitIdx, moveOffset, moveBlockSize) ==
  [k \in 1 .. moveBlockSize |->
     CopyByte(moveInitIdx + moveOffset + k - 1, moveInitIdx + k - 1)]
CreateReversedMove(moveInitIdx, moveOffset, moveBlockSize) ==
  [k \in 1 .. moveBlockSize |->
     LET i == IF moveOffset < 0 THEN moveBlockSize - k ELSE k - 1
     IN CopyByte(moveInitIdx + moveOffset + i, moveInitIdx + i)]

\* createByteMoveP4Action(moveInitIdx, moveOffset, moveBlockSize): the bytes of a
\* block, in increasing order, reversed when the block moves up.
CreateByteMove(moveInitIdx, moveOffset, moveBlockSize) ==
  [k \in 1 .. moveBlockSize |->
     LET i == IF moveOffset > 0 THEN moveBlockSize - k ELSE k - 1
     IN CopyByte(moveInitIdx + moveOffset + i, moveInitIdx + i)]

HdrByte(h, s) == <<h, s>>

\* One assignment.
Execute ==
  /\ pc <= Len(code)
  /\ LET a == code[pc]
     IN stack' = [stack EXCEPT ![a.dst] =
                    IF a.hdr = "stack" THEN stack[a.src] ELSE HdrByte(a.hdr, a.src)]
  /\ pc' = pc + 1
  /\ UNCHANGED code

====
