SPECIFICATION Spec
CONSTANTS
  Headers = {"e", "a", "b", "c"}
  Width <- MCWidth
  Parsers <- MCMpls
  OffsetChoices <- MCOne
  PacketLength = 6
  Values = {0, 1}
INVARIANT AcceptedHeadersExtracted
