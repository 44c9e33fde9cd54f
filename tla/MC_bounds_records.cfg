SPECIFICATION Spec
CONSTANTS
  Headers = {h1, h2}
  Packages = {p1}
  Width <- MCWidth
  PkgExt <- MCPkgExt
  PkgIncr <- MCPkgIncr
  PkgDecr <- MCPkgDecr
  Shapes = {}
  MaxAlts = 2
  MaxDepth = 1
  MaxNodes = 4
  ParserMaxOffset = 1
INVARIANTS OperationsRecorded RecordsInv
CHECK_DEADLOCK FALSE
