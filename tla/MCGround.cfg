CONSTANTS
  Counts = 2
  Uses <- MCUses
  Events = 3
SPECIFICATION GroundSpec
INVARIANTS OutcomeTrue RowsTrue NumbersArrive
CHECK_DEADLOCK FALSE
