SPECIFICATION Spec
CONSTANTS
  Headers = {"x", "h", "y", "z"}
  Width <- MCWidth
  Emits <- MCEmits
  XoredHeaderSets <- MCXored
  ParsedHeaders = {"x", "h", "y", "z"}
  Accepts <- MCAccepts
  StackSize = 12
  ByteValue <- MCBytes
  Arguments <- MCArguments
INVARIANTS TypeOK Aligned PacketsHit Deparsed OffsetRestoredWithoutOps
CHECK_DEADLOCK FALSE
