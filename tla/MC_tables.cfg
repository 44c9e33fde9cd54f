SPECIFICATION Spec
CONSTANTS
  Headers = {"e", "a", "b", "c"}
  Width <- MCWidth
  Parsers <- MCParsers
  OffsetChoices <- MCOffsets
  PacketLength = 6
  Values = {0, 1}
INVARIANTS TableParses EntriesAligned
