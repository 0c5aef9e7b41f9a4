CONSTANTS
  DataMarketContractAddresses <- OneMarket
  PollingStaticStateVariables = TRUE
  MaxLag = 1
  MaxVersion = 1
  MaxChanges = 1
  MaxCrashes = 1
  Faults = {"call", "redis"}
  AlertCapacity = 0
SPECIFICATION FairSpec
INVARIANT TypeOK
PROPERTIES MirrorsContract MirrorsInOrder Converges
