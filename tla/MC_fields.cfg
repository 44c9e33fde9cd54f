SPECIFICATION Spec
CONSTANTS
  Bytes = 4
  Starts = {0, 8}
  Layouts <- MCLayouts
INVARIANTS TypeOK FieldsExtracted HeaderEmitted
CHECK_DEADLOCK FALSE
