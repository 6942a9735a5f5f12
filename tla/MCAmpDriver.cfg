CONSTANTS
  Callers = {c1}
  Readers = {r1}
  AutoRestart = TRUE
  LoadFails = TRUE
  Stall = 1
  Capacity = 1
  MaxBoots = 2
  Word = 8
  ElfHeader = 2
  HeaderSize = 1
  FwBase = 3
  FwSize = 4
  DmaBase = 7
  DmaSize = 1
SPECIFICATION FairSpec
INVARIANTS OfflineHeld RingsOfThisBoot
PROPERTIES SegmentsInside OnlyDeadCrash DeathNoticed SleeperReturns StopReturns
