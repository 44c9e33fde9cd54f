SPECIFICATION Spec
CONSTANTS
  Headers = {"eth", "mpls0", "mpls1"}
  Records <- MCRecords
  ReadInvalidated = FALSE
INVARIANT FlagInv
PROPERTY ImplementsHeaderValidity
