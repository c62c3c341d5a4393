SPECIFICATION Spec
CONSTANTS
  RecursionLimit = 25
  FilterOn = TRUE
  MaxSteps = 2
  MaxTries = 5
INVARIANTS
  SuccessMeansDone
CHECK_DEADLOCK FALSE
