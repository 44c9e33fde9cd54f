SPECIFICATION Spec
CONSTANTS
  Headers = {h1}
  Packages = {p1, p2}
  Width <- MCWidth
  PkgExt <- MCPkgExt
  PkgIncr <- MCPkgIncr
  PkgDecr <- MCPkgDecr
  Shapes = {"nested", "trailing", "opposite", "noMatch"}
  MaxAlts = 2
  MaxDepth = 2
  MaxNodes = 4
  ParserMaxOffset = 1
INVARIANTS TypeOK BoundsSound StackSuffices IInv
CHECK_DEADLOCK FALSE
