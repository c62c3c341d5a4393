\* One task; nothing but the model delays the bus.
SPECIFICATION Spec
CONSTANTS
  Tasks = {t1}
  Kinds <- AllKinds
  NoEvent = NoEvent
  SlowListeners = FALSE
  MaxResponses = 1
INVARIANT ForbiddenNeverRuns
CHECK_DEADLOCK FALSE
