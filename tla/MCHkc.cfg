SPECIFICATION MainSpec
CONSTANTS
  Wrap = 7
  Periods = {1, 2}
  Default = 2
  WdtTime = 2
  Frames <- MCFrames
  Traffic = 3
  Faults = 1
  None = None
  Clocks <- MCClocks
  Rates <- MCRates
INVARIANTS PeriodKept
PROPERTIES TimingRight LossReported Recovers
CHECK_DEADLOCK FALSE
