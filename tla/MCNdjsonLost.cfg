SPECIFICATION Spec
CONSTANTS
  Inputs <- MCInputs
  MaxLines = 3
  Limits = {0}
  Capacity = 2
INVARIANTS
  RowsWritten
CHECK_DEADLOCK FALSE
