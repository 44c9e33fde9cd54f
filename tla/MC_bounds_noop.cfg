SPECIFICATION Spec
CONSTANTS
  Headers = {h1}
  Packages = {p1, p2}
  Width <- MCWidth
  PkgExt <- MCPkgExt
  PkgIncr <- MCPkgIncr
  PkgDecr <- MCPkgDecr
  Shapes = {}
  MaxAlts = 2
  MaxDepth = 2
  MaxNodes = 4
  ParserMaxOffset = 1
INVARIANT NoOperationRecorded
CHECK_DEADLOCK FALSE
