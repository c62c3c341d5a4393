\* One task; the human answers in the panel.
SPECIFICATION Spec
CONSTANTS
  Tasks = {t1}
  Kinds <- AllKinds
  NoEvent = NoEvent
  SlowListeners = FALSE
  MaxResponses = 1
PROPERTY PanelAnswerCounts
CHECK_DEADLOCK FALSE
