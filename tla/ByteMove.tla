---- MODULE ByteMove ----
(***************************************************************************)
(* One action of DeparserConverter::createByteMoveP4Action, executed: it   *)
(* shifts a block of the byte stack in place, and the block and its new    *)
(* place overlap whenever the shift is shorter than the block.             *)
(***************************************************************************)
EXTENDS ByteStack

VARIABLES
  moveInitIdx, moveOffset, moveBlockSize,   \* the arguments, in bytes
  packet                                    \* the stack before the action

moveArgs == <<moveInitIdx, moveOffset, moveBlockSize, packet>>
moveVars == <<stack, code, pc, moveArgs>>

\* extendEntry cuts a block so that neither it nor its new place leaves the
\* stack, and calls for no move by 0.
MoveArgs ==
  /\ moveInitIdx \in 0 .. StackSize
  /\ moveOffset \in (-StackSize .. StackSize) \ {0}
  /\ moveBlockSize \in 0 .. StackSize
  /\ moveInitIdx + moveBlockSize <= StackSize
  /\ moveInitIdx + moveOffset >= 0
  /\ moveInitIdx + moveOffset + moveBlockSize <= StackSize

MoveInit ==
  /\ MoveArgs
  /\ packet \in Stack
  /\ stack = packet
  /\ code = CreateByteMove(moveInitIdx, moveOffset, moveBlockSize)
  /\ pc = 1

MoveNext == Execute /\ UNCHANGED moveArgs

MoveSpec == MoveInit /\ [][MoveNext]_moveVars

----------------------------------------------------------------------------
InBlock(j, lo, n) == lo <= j /\ j < lo + n

\* The bytes the action has already assigned.
Assigned(j) ==
  LET lo == moveInitIdx + moveOffset
      n  == moveBlockSize
  IN IF moveOffset > 0 THEN InBlock(j, lo + n - (pc - 1), pc - 1)
                       ELSE InBlock(j, lo, pc - 1)

\* The comment on createByteMoveP4Action: it copies [moveInitIdx, moveInitIdx +
\* moveBlockSize) as it was before the action to the same indices shifted by
\* moveOffset, overlap or not, and touches nothing else.
MoveIsCopy ==
  pc > Len(code) =>
    \A j \in 0 .. StackSize - 1 :
      stack[j] = IF InBlock(j, moveInitIdx + moveOffset, moveBlockSize)
                 THEN packet[j - moveOffset] ELSE packet[j]

\* Why: what an assignment reads has not been assigned yet.
MoveInv ==
  /\ MoveArgs /\ packet \in Stack /\ stack \in Stack
  /\ code = CreateByteMove(moveInitIdx, moveOffset, moveBlockSize)
  /\ pc \in 1 .. moveBlockSize + 1
  /\ \A j \in 0 .. StackSize - 1 :
       stack[j] = IF Assigned(j) THEN packet[j - moveOffset] ELSE packet[j]

====
