----------------------------- MODULE DataMarkets -----------------------------
(***************************************************************************)
(* The data markets the process is configured with (config/settings.go)    *)
(* and the test that decides whether an event belongs to one of them       *)
(* (isValidDataMarketAddress in pkgs/prost/contract.go).                   *)
(*                                                                         *)
(* An address is a member of Markets.  The same address has several        *)
(* spellings: the checksummed mixed-case one that common.Address.Hex()     *)
(* prints, and whatever the operator wrote in DATA_MARKET_ADDRESSES.       *)
(***************************************************************************)
CONSTANTS
  Markets,                   \* the addresses of the data markets on chain
  DataMarketAddresses        \* the spellings listed in the configuration

Spellings == [addr : Markets, spelling : {"checksum", "lower"}]

ASSUME DataMarketsAssumption ==
  /\ DataMarketAddresses \subseteq Spellings
  /\ DataMarketAddresses # {}

Hex(market) == [addr |-> market, spelling |-> "checksum"]

\* common.HexToAddress parses any spelling.
HexToAddress(s) == s.addr

\* The addresses that StaticStateVariables and DynamicStateVariables poll.
DataMarketContractAddresses == {HexToAddress(s) : s \in DataMarketAddresses}

AcceptAnyMarket(s) == TRUE                                         \* mutation

\* The comparison is between strings, not between addresses.
isValidDataMarketAddress(s) == s \in DataMarketAddresses
=============================================================================
