--------------------------- MODULE StateVariables ---------------------------
(***************************************************************************)
(* The state variables of the contract that are kept in Redis, each under  *)
(* a key of its own (pkgs/redis/keys.go), and the order in which a round   *)
(* reads them (pkgs/prost/contract.go).                                    *)
(***************************************************************************)
EXTENDS Naturals, Sequences

CONSTANT DataMarketContractAddresses   \* the configured data markets, in order

Markets == {DataMarketContractAddresses[n] : n \in DOMAIN DataMarketContractAddresses}

ASSUME StateVariablesAssumption == DataMarketContractAddresses \in Seq(Markets)
-----------------------------------------------------------------------------
\* A variable is a pair: its name and its market, which a global one lacks.
Static == <<"epochsInADay", "EPOCH_SIZE", "SOURCE_CHAIN_BLOCK_TIME">>

TotalNodes == <<"totalNodesCount", "all">>

DayCounterOf(market) == <<"dayCounter", market>>

QuotaOf(market) == <<"dailySnapshotQuota", market>>

\* The rounds: the variables in the order in which they are read.
StaticStateVariables ==
  [n \in 1..(3 * Len(DataMarketContractAddresses)) |->
     <<Static[((n - 1) % 3) + 1], DataMarketContractAddresses[((n - 1) \div 3) + 1]>>]

DayCounters ==
  [n \in DOMAIN DataMarketContractAddresses |-> DayCounterOf(DataMarketContractAddresses[n])]

Quotas ==
  [n \in DOMAIN DataMarketContractAddresses |-> QuotaOf(DataMarketContractAddresses[n])]

DynamicStateVariables == <<TotalNodes>> \o DayCounters \o Quotas

StaticKeys == {Static[n] : n \in DOMAIN Static} \X Markets

DynamicKeys == {TotalNodes} \union {DayCounterOf(m) : m \in Markets}
                            \union {QuotaOf(m) : m \in Markets}

Keys == StaticKeys \union DynamicKeys
=============================================================================
