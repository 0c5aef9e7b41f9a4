CONSTANTS
  FetchBatch = 2
  BatchSize = 2
  MaxLag = 0
  InitialNodes = 1
  MaxNodes = 2
  MaxVersion = 2
  MaxCrashes = 1
  Faults = {"node"}
  AlertCapacity = 1
SPECIFICATION FairSpec
PROPERTIES MirrorsInOrder EverySlotIsCached
