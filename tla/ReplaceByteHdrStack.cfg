SPECIFICATION Spec
CONSTANTS
  StackSize = 6
  ByteValue = {0, 1}
  stackSize = 2
INVARIANTS MoveIsCopy MoveInv FoldedMoveAgrees
CHECK_DEADLOCK FALSE
