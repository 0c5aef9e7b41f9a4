----------------------- MODULE SnapshotterStateEvents ------------------------
(***************************************************************************)
(* The events of pkgs/snapshotterStateContract.  A row is read from the    *)
(* code generated for one event X: the name that FilterX, WatchX and       *)
(* ParseX use; the indexed parameters and the others, as the ABI and the   *)
(* struct of X have them; then the parameters whose rules FilterX passes   *)
(* on, and those whose rules WatchX passes on, each in the order in which  *)
(* the function does.  What WatchX does then is the same for all events,   *)
(* and translated once, in EventWatch.                                     *)
(***************************************************************************)
EXTENDS EventBindings

Event(name, indexed, data, filter, watch) ==
  Binding("SnapshotterStateContract", name, indexed, data, filter, watch)

AdminsUpdated ==
  Event("AdminsUpdated", <<>>, <<"adminAddress", "allowed">>,
        <<>>, <<>>)
ApprovalForAll ==
  Event("ApprovalForAll", <<"account", "operator">>, <<"approved">>,
        <<"account", "operator">>, <<"account", "operator">>)
ConfigurationUpdated ==
  Event("ConfigurationUpdated", <<>>, <<"paramName", "newValue">>,
        <<>>, <<>>)
Deposit == Event("Deposit", <<"from">>, <<"amount">>, <<"from">>, <<"from">>)
EmergencyWithdraw ==
  Event("EmergencyWithdraw", <<"owner">>, <<"amount">>,
        <<"owner">>, <<"owner">>)
Initialized == Event("Initialized", <<>>, <<"version">>, <<>>, <<>>)
LegacyNodeTokensClaimed ==
  Event("LegacyNodeTokensClaimed", <<"claimer">>, <<"nodeId", "amount">>,
        <<"claimer">>, <<"claimer">>)
NameUpdated == Event("NameUpdated", <<>>, <<"newName">>, <<>>, <<>>)
NodeBurned == Event("NodeBurned", <<"from">>, <<"nodeId">>, <<"from">>, <<"from">>)
NodeMinted == Event("NodeMinted", <<"to">>, <<"nodeId">>, <<"to">>, <<"to">>)
OwnershipTransferStarted ==
  Event("OwnershipTransferStarted", <<"previousOwner", "newOwner">>, <<>>,
        <<"previousOwner", "newOwner">>, <<"previousOwner", "newOwner">>)
OwnershipTransferred ==
  Event("OwnershipTransferred", <<"previousOwner", "newOwner">>, <<>>,
        <<"previousOwner", "newOwner">>, <<"previousOwner", "newOwner">>)
Paused == Event("Paused", <<>>, <<"account">>, <<>>, <<>>)
SnapshotterAddressChanged ==
  Event("SnapshotterAddressChanged", <<>>,
        <<"nodeId", "oldSnapshotter", "newSnapshotter">>,
        <<>>, <<>>)
SnapshotterStateUpdated ==
  Event("SnapshotterStateUpdated", <<"newSnapshotterState">>, <<>>,
        <<"newSnapshotterState">>, <<"newSnapshotterState">>)
SnapshotterTokensClaimed ==
  Event("SnapshotterTokensClaimed", <<"claimer">>, <<"nodeId", "amount">>,
        <<"claimer">>, <<"claimer">>)
TransferBatch ==
  Event("TransferBatch", <<"operator", "from", "to">>, <<"ids", "values">>,
        <<"operator", "from", "to">>, <<"operator", "from", "to">>)
TransferSingle ==
  Event("TransferSingle", <<"operator", "from", "to">>, <<"id", "value">>,
        <<"operator", "from", "to">>, <<"operator", "from", "to">>)
URI == Event("URI", <<"id">>, <<"value">>, <<"id">>, <<"id">>)
URIUpdated == Event("URIUpdated", <<>>, <<"newUri">>, <<>>, <<>>)
Unpaused == Event("Unpaused", <<>>, <<"account">>, <<>>, <<>>)
Upgraded ==
  Event("Upgraded", <<"implementation">>, <<>>,
        <<"implementation">>, <<"implementation">>)
AllSnapshottersUpdated ==
  Event("allSnapshottersUpdated", <<>>, <<"snapshotterAddress", "allowed">>,
        <<>>, <<>>)

Events ==
  {AdminsUpdated, ApprovalForAll, ConfigurationUpdated, Deposit,
   EmergencyWithdraw, Initialized, LegacyNodeTokensClaimed, NameUpdated,
   NodeBurned, NodeMinted, OwnershipTransferStarted, OwnershipTransferred,
   Paused, SnapshotterAddressChanged, SnapshotterStateUpdated,
   SnapshotterTokensClaimed, TransferBatch, TransferSingle, URI, URIUpdated,
   Unpaused, Upgraded, AllSnapshottersUpdated}
==============================================================================
