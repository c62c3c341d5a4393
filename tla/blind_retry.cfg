SPECIFICATION Spec
CONSTANTS
  RecursionLimit = 25
  FilterOn = TRUE
  MaxSteps = 2
  MaxTries = 5
PROPERTIES
  NoBlindRetry
CHECK_DEADLOCK FALSE
