-------------------------------- MODULE Redis --------------------------------
(***************************************************************************)
(* What the program needs of the Redis server: pkgs/redis/client.go's Set  *)
(* as PersistState (pkgs/prost/contract.go) uses it.                       *)
(*                                                                         *)
(* A family of keys is a function from the family's index (a data market,  *)
(* a slot) to the number last written, or Absent.  A SET that returns an   *)
(* error may or may not have been executed: the client's 200ms read and    *)
(* write timeouts cut it off at any point.                                 *)
(***************************************************************************)
EXTENDS Integers, Reporting

CONSTANT Faults              \* the calls that may fail in this model

Absent == -1                 \* the key does not exist

\* The result of a successful SET on the key family "store".
Stored(store, key, value) == [store EXCEPT ![key] = value]

\* PersistState hides the error of Set from its caller and raises an alert.
PersistState(store, key, value) ==
  \/ /\ store' = Stored(store, key, value)
     /\ UNCHANGED alerts
  \/ /\ "redis" \in Faults
     /\ store' \in {store, Stored(store, key, value)}
     /\ SendFailureNotification("PersistState")
=============================================================================
