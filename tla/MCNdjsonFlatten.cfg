SPECIFICATION Spec
CONSTANTS
  Inputs <- MCInputs
  MaxLines = 3
  Limits = {0, 1, 2}
  Capacity = 2
INVARIANTS
  TypeOK
  SuccessIsComplete
  CountsAreTrue
CHECK_DEADLOCK FALSE
