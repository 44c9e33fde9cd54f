SPECIFICATION FairSpec
CONSTANTS
  States = {"start", "a", "b", "c"}
  Headers = {"a", "b", "c"}
  Width <- MCWidth
  NextChoices <- MCAcyclic
  ExtractChoices <- MCAny
INVARIANTS TypeOK ExclusiveLevels PeelInv OffsetsSound OffsetsInv ParsedHeadersComplete
PROPERTY Terminates
CHECK_DEADLOCK FALSE
