\* One task; the execution it gets.
SPECIFICATION Spec
CONSTANTS
  Tasks = {t1}
  Kinds <- AllKinds
  NoEvent = NoEvent
  SlowListeners = FALSE
  MaxResponses = 1
PROPERTY RunIsReported
CHECK_DEADLOCK FALSE
