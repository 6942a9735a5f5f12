CONSTANTS
  i1 = i1
  i2 = i2
  Images <- MCImages
  Chunks <- MCChunks
  Window = 3
  SeqMod = 2
  Retries = 1
  UseAbort = TRUE
  OwnSocket = FALSE
  MaxFaults = 3
SPECIFICATION FairSpec
INVARIANTS OnlyWholeImages FlashedIsSent
PROPERTY Reflashable
