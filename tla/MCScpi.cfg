SPECIFICATION Spec
CONSTANTS
  Clients = {c1, c2}
  Lines <- MCLines
  Options <- MCOptions
  Top = 1
  kQueueSize = 2
  kMaxClients = 1
  Room = 1
  Messages = 3
  Received = 1
  Boots = 2
  None = None
SYMMETRY ClientSymmetry
INVARIANTS ErrorsAccounted EventsKept AnswersWhole WindowKept
CHECK_DEADLOCK FALSE
