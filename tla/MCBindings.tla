----------------------------- MODULE MCBindings -----------------------------
(***************************************************************************)
(* All events of both contracts, and for each of them a few emissions: two *)
(* that agree in every parameter, one that differs in each indexed one,    *)
(* one that cannot be decoded, and one of another event.                   *)
(***************************************************************************)
EXTENDS EventBindings

ProtocolState == INSTANCE ContractEvents

SnapshotterState == INSTANCE SnapshotterStateEvents

AllBindings == ProtocolState!Events \union SnapshotterState!Events

\* Data parameters have their names for values, so that none passes for another.
Usual(event) ==
  [p \in Parameters(event) |-> IF p \in ToSet(event.indexed) THEN "a" ELSE p]

EmissionsOf(event) ==
  {[kind |-> k, args |-> Usual(event)] : k \in {"sound", "unsound", "other"}}
    \union {[kind |-> "sound", args |-> [Usual(event) EXCEPT ![p] = "b"]] :
              p \in ToSet(event.indexed)}

\* No parameter, one, or all of them: any value, or "a" only.
QueriesOf(event) ==
  {[p \in ToSet(event.indexed) |-> IF p \in chosen THEN {"a"} ELSE {}] :
     chosen \in {{}, ToSet(event.indexed)} \union {{p} : p \in ToSet(event.indexed)}}
=============================================================================
