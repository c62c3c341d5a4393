\* Two tasks share a bus that only the calls to the model delay.
SPECIFICATION Spec
CONSTANTS
  Tasks = {t1, t2}
  Kinds <- PairKinds
  NoEvent = NoEvent
  SlowListeners = FALSE
  MaxResponses = 1
SYMMETRY Perms
INVARIANTS HighRiskNeedsAllow OnePrompt RunsOnce
CHECK_DEADLOCK FALSE
