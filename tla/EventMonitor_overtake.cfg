CONSTANTS
  m1 = m1
  m2 = m2
  w1 = w1
  w2 = w2
  Markets = {m1}
  DataMarketAddresses <- Checksummed
  Workers = {w1, w2}
  AlertCapacity = 1
  Faults = {}
  BlockOffset = 0
  MaxReorg = 0
  MaxLag = 0
  InitialHead = 2
  Mineable <- AtMostOneEvent
  MaxBlock = 4
  MaxForks = 0
  MaxCrashes = 0
SPECIFICATION Spec
INVARIANT SettledEpochIsCurrent
