------------------------------ MODULE Reporting ------------------------------
(***************************************************************************)
(* pkgs/reporting/alerts.go: the buffered Go channel of failure alerts.    *)
(*                                                                         *)
(* Every component reports a failure with SendFailureNotification, which   *)
(* never blocks: when the channel is full the alert is dropped.  Nothing   *)
(* in this program receives from the channel, so no action below ever      *)
(* shortens it.                                                            *)
(***************************************************************************)
EXTENDS Naturals, Sequences

CONSTANT AlertCapacity       \* the channel's buffer: 10000 in the code

ASSUME AlertCapacityAssumption == AlertCapacity \in Nat

VARIABLE alerts              \* SequencerAlertsChannel: its buffered alerts,
                             \* each kept as the name of its process

ProcessNames == {"PersistState", "MonitorEvents", "ProcessProtocolStateEvents"}

AlertsTypeOK == alerts \in Seq(ProcessNames)

SendFailureNotification(processName) ==
  \/ Len(alerts) < AlertCapacity /\ alerts' = Append(alerts, processName)
  \/ Len(alerts) >= AlertCapacity /\ UNCHANGED alerts
=============================================================================
