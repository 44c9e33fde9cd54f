SPECIFICATION Spec
CONSTANTS
  Controls <- MCControls
  Conds = {"c", "q"}
  MaxPartitions = 8
INVARIANTS OrderKept ConstraintsMet HeadersCarried PartitionsBounded
