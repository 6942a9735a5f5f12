CONSTANTS
  Size = 8
  IndexMod = 16
  MaxPayload = 4
  MaxSends = 5
  MaxLayouts = 1
  Messages <- MCMessages
  Caps <- MCCaps
  Stale <- MCStale
SPECIFICATION FairSpec
INVARIANTS EmptyRingAccepts UsedMeansReadable
PROPERTIES QueueSpec OldestLeaves
