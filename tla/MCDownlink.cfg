SPECIFICATION Spec
CONSTANTS
  kLinkSettle = 6
  StatusPeriod = 3
  Parts = 4
  LockTime = 9
  FrameTime <- MCFrameTime
  Unit = 1
  TxQueue = 16
  MaxFramesQueued = 4
  Levels <- MCLevels
  Nothing <- MCNothing
  Smoothing = 5
  Modcods <- MCModcods
  Threshold <- MCThreshold
  Margin = 0
  Hysteresis = 1
  UpHold = 2
  Backlog = 4
  Events = 1
  Patience = 10
INVARIANTS SettledLink PromptAgain
PROPERTY DroppedInFade
CHECK_DEADLOCK FALSE
