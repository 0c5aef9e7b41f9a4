CONSTANTS
  FetchBatch = 2
  BatchSize = 2
  MaxLag = 1
  InitialNodes = 1
  MaxNodes = 2
  MaxVersion = 1
  MaxCrashes = 1
  Faults = {"redis"}
  AlertCapacity = 0
SPECIFICATION Spec
INVARIANTS TypeOK PassIsComplete OnlyTheRaceForgets BufferBound IndexedSlotsAreStored
PROPERTY MirrorsContract
