\* One task; a slow listener of the bus lets the 100 ms timer win.
SPECIFICATION Spec
CONSTANTS
  Tasks = {t1}
  Kinds <- AllKinds
  NoEvent = NoEvent
  SlowListeners = TRUE
  MaxResponses = 1
INVARIANT HighRiskNeedsAllow
CHECK_DEADLOCK FALSE
