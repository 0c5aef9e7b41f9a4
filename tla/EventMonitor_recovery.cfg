CONSTANTS
  m1 = m1
  m2 = m2
  w1 = w1
  w2 = w2
  Markets = {m1, m2}
  DataMarketAddresses <- Checksummed
  Workers = {w1, w2}
  AlertCapacity = 0
  Faults = {"latest", "block", "nil", "logs", "parse", "redis"}
  BlockOffset = 1
  MaxReorg = 1
  MaxLag = 1
  InitialHead = 0
  Mineable <- UpToTwoEvents
  MaxBlock = 3
  MaxForks = 1
  MaxCrashes = 1
SPECIFICATION Spec
SYMMETRY AnyWorker
INVARIANTS TypeOK DispatchedIsCanonical CachedEpochIsFinal StartsOnFresh EventsAccounted
PROPERTY MirrorsContract
