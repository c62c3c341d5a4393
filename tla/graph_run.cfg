SPECIFICATION Spec
CONSTANTS
  RecursionLimit = 25
  FilterOn = TRUE
  MaxSteps = 2
  MaxTries = 5
INVARIANTS
  TypeOK
  SuccessIsLast
  FilteredPlansOnly
  AnswerTellsPaused
  PausedAnswerIsResumable
PROPERTIES
  DecidedForThisPlan
  RunIsAnswered
  WithinBudget
CHECK_DEADLOCK FALSE
