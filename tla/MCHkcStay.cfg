SPECIFICATION MainSpec
CONSTANTS
  Wrap = 7
  Periods = {1, 2}
  Default = 2
  WdtTime = 2
  Frames <- MCFrames
  Traffic = 1
  Faults = 0
  None = None
  Clocks <- MCClocks
  Rates <- MCRates
PROPERTIES StaysInBootloader
CHECK_DEADLOCK FALSE
