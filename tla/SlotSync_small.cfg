CONSTANTS
  FetchBatch = 2
  BatchSize = 4
  MaxLag = 0
  InitialNodes = 2
  MaxNodes = 2
  MaxVersion = 1
  MaxCrashes = 0
  Faults = {}
  AlertCapacity = 1
SPECIFICATION FairSpec
PROPERTY EverySlotIsCached
