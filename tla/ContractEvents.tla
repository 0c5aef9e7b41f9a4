--------------------------- MODULE ContractEvents ----------------------------
(***************************************************************************)
(* The events of pkgs/contract.  A row is read from the                    *)
(* code generated for one event X: the name that FilterX, WatchX and       *)
(* ParseX use; the indexed parameters and the others, as the ABI and the   *)
(* struct of X have them; then the parameters whose rules FilterX passes   *)
(* on, and those whose rules WatchX passes on, each in the order in which  *)
(* the function does.  What WatchX does then is the same for all events,   *)
(* and translated once, in EventWatch.                                     *)
(***************************************************************************)
EXTENDS EventBindings

Event(name, indexed, data, filter, watch) ==
  Binding("Contract", name, indexed, data, filter, watch)

AdminsUpdated ==
  Event("AdminsUpdated", <<"dataMarketAddress">>, <<"adminAddress", "allowed">>,
        <<"dataMarketAddress">>, <<"dataMarketAddress">>)
BatchSubmissionsCompleted ==
  Event("BatchSubmissionsCompleted", <<"dataMarketAddress", "epochId">>,
        <<"timestamp">>,
        <<"dataMarketAddress", "epochId">>, <<"dataMarketAddress", "epochId">>)
DailyTaskCompletedEvent ==
  Event("DailyTaskCompletedEvent", <<"dataMarketAddress">>,
        <<"snapshotterAddress", "slotId", "dayId", "timestamp">>,
        <<"dataMarketAddress">>, <<"dataMarketAddress">>)
DataMarketCreated ==
  Event("DataMarketCreated", <<"ownerAddress">>,
        <<"epochSize", "sourceChainId", "sourceChainBlockTime", "useBlockNumberAsEpochId",
          "protocolState", "dataMarketAddress">>,
        <<"ownerAddress">>, <<"ownerAddress">>)
DayStartedEvent ==
  Event("DayStartedEvent", <<"dataMarketAddress">>, <<"dayId", "timestamp">>,
        <<"dataMarketAddress">>, <<"dataMarketAddress">>)
DelayedAttestationSubmitted ==
  Event("DelayedAttestationSubmitted", <<"dataMarketAddress", "epochId", "validatorAddr">>,
        <<"batchCid", "timestamp">>,
        <<"dataMarketAddress", "epochId", "validatorAddr">>,
        <<"dataMarketAddress", "epochId", "validatorAddr">>)
DelayedBatchSubmitted ==
  Event("DelayedBatchSubmitted", <<"dataMarketAddress", "epochId">>,
        <<"batchCid", "timestamp">>,
        <<"dataMarketAddress", "epochId">>, <<"dataMarketAddress", "epochId">>)
DelayedSnapshotSubmitted ==
  Event("DelayedSnapshotSubmitted", <<"dataMarketAddress", "snapshotterAddr", "epochId">>,
        <<"slotId", "snapshotCid", "projectId", "timestamp">>,
        <<"dataMarketAddress", "snapshotterAddr", "epochId">>,
        <<"dataMarketAddress", "snapshotterAddr", "epochId">>)
EmergencyWithdraw ==
  Event("EmergencyWithdraw", <<"owner">>, <<"amount">>,
        <<"owner">>, <<"owner">>)
EpochReleased ==
  Event("EpochReleased", <<"dataMarketAddress", "epochId">>,
        <<"begin", "end", "timestamp">>,
        <<"dataMarketAddress", "epochId">>, <<"dataMarketAddress", "epochId">>)
Initialized == Event("Initialized", <<>>, <<"version">>, <<>>, <<>>)
OwnershipTransferStarted ==
  Event("OwnershipTransferStarted", <<"previousOwner", "newOwner">>, <<>>,
        <<"previousOwner", "newOwner">>, <<"previousOwner", "newOwner">>)
OwnershipTransferred ==
  Event("OwnershipTransferred", <<"previousOwner", "newOwner">>, <<>>,
        <<"previousOwner", "newOwner">>, <<"previousOwner", "newOwner">>)
RewardsClaimed ==
  Event("RewardsClaimed", <<"user">>, <<"amount", "timestamp">>,
        <<"user">>, <<"user">>)
RewardsDistributedEvent ==
  Event("RewardsDistributedEvent", <<"dataMarketAddress">>,
        <<"snapshotterAddress", "slotId", "dayId", "rewardPoints", "timestamp">>,
        <<"dataMarketAddress">>, <<"dataMarketAddress">>)
SequencersUpdated ==
  Event("SequencersUpdated", <<"dataMarketAddress">>,
        <<"sequencerAddress", "allowed">>,
        <<"dataMarketAddress">>, <<"dataMarketAddress">>)
SnapshotBatchAttestationSubmitted ==
  Event("SnapshotBatchAttestationSubmitted", <<"dataMarketAddress", "epochId", "validatorAddr">>,
        <<"batchCid", "timestamp">>,
        <<"dataMarketAddress", "epochId", "validatorAddr">>,
        <<"dataMarketAddress", "epochId", "validatorAddr">>)
SnapshotBatchFinalized ==
  Event("SnapshotBatchFinalized", <<"dataMarketAddress", "epochId", "batchCid">>,
        <<"timestamp">>,
        <<"dataMarketAddress", "epochId", "batchCid">>,
        <<"dataMarketAddress", "epochId", "batchCid">>)
SnapshotBatchSubmitted ==
  Event("SnapshotBatchSubmitted", <<"dataMarketAddress", "epochId">>,
        <<"batchCid", "timestamp">>,
        <<"dataMarketAddress", "epochId">>, <<"dataMarketAddress", "epochId">>)
SnapshotFinalized ==
  Event("SnapshotFinalized", <<"dataMarketAddress", "epochId">>,
        <<"epochEnd", "projectId", "snapshotCid", "timestamp">>,
        <<"dataMarketAddress", "epochId">>, <<"dataMarketAddress", "epochId">>)
TriggerBatchResubmission ==
  Event("TriggerBatchResubmission", <<"dataMarketAddress", "epochId", "batchCid">>,
        <<"timestamp">>,
        <<"dataMarketAddress", "epochId", "batchCid">>,
        <<"dataMarketAddress", "epochId", "batchCid">>)
Upgraded ==
  Event("Upgraded", <<"implementation">>, <<>>,
        <<"implementation">>, <<"implementation">>)
ValidatorAttestationsInvalidated ==
  Event("ValidatorAttestationsInvalidated", <<"dataMarketAddress", "epochId", "batchCid">>,
        <<"validator", "timestamp">>,
        <<"dataMarketAddress", "epochId", "batchCid">>,
        <<"dataMarketAddress", "epochId", "batchCid">>)
ValidatorsUpdated ==
  Event("ValidatorsUpdated", <<"dataMarketAddress">>,
        <<"validatorAddress", "allowed">>,
        <<"dataMarketAddress">>, <<"dataMarketAddress">>)

Events ==
  {AdminsUpdated, BatchSubmissionsCompleted, DailyTaskCompletedEvent,
   DataMarketCreated, DayStartedEvent, DelayedAttestationSubmitted,
   DelayedBatchSubmitted, DelayedSnapshotSubmitted, EmergencyWithdraw,
   EpochReleased, Initialized, OwnershipTransferStarted,
   OwnershipTransferred, RewardsClaimed, RewardsDistributedEvent,
   SequencersUpdated, SnapshotBatchAttestationSubmitted,
   SnapshotBatchFinalized, SnapshotBatchSubmitted, SnapshotFinalized,
   TriggerBatchResubmission, Upgraded, ValidatorAttestationsInvalidated,
   ValidatorsUpdated}
==============================================================================
