SPECIFICATION Spec
CONSTANTS
  Stations = {earth, bench}
  Modcods <- MCModcods
  Loops = {"analog", "software"}
  Channels = {"clear", "fade"}
  Sids = {1}
  Options <- MCOptions
  Functions <- MCFunctions
  Capacity = 2
  Telecommands = 2
  Boots = 2
  None = None
SYMMETRY Anyone
INVARIANTS DoneIsDone ConfigAgrees OnlyCommanders
CHECK_DEADLOCK FALSE
