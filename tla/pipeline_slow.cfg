\* One task of any kind; listeners and timers interleave freely.
SPECIFICATION FairSpec
CONSTANTS
  Tasks = {t1}
  Kinds <- AllKinds
  NoEvent = NoEvent
  SlowListeners = TRUE
  MaxResponses = 2
INVARIANTS TypeOK AtMostOneRun SeenMeansBusy NoClearanceNoRun
PROPERTIES ImplementsRunSlots HeldIsResolved AllowedRuns ClearedRuns
CHECK_DEADLOCK FALSE
