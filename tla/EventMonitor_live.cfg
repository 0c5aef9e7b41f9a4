CONSTANTS
  m1 = m1
  m2 = m2
  w1 = w1
  w2 = w2
  Markets = {m1}
  DataMarketAddresses <- Checksummed
  Workers = {w1}
  AlertCapacity = 1
  Faults = {"latest", "block", "nil", "logs", "redis"}
  BlockOffset = 0
  MaxReorg = 0
  MaxLag = 1
  InitialHead = 3
  Mineable <- AtMostOneEvent
  MaxBlock = 6
  MaxForks = 0
  MaxCrashes = 0
SPECIFICATION FairSpec
PROPERTY Progress
INVARIANT NoSilentSkip
