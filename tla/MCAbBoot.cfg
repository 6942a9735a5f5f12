CONSTANTS
  BootLimit = 3
  MaxCuts = 4
  MaxUpdates = 3
SPECIFICATION FairSpec
INVARIANTS ConfirmedBoots FallbackKept PredictionHolds
PROPERTY TrialResolves
