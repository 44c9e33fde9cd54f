SPECIFICATION Spec
CONSTANTS
  Packages = {m, a, b, c}
  Main = m
  AcceptChoices <- MCAccepts
  Restoring = {m, a, b}
  MaxCalls = 3
INVARIANTS EntriesCover OffsetsAgree ConvInv
CHECK_DEADLOCK FALSE
