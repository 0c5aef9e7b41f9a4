--------------------------- MODULE ContractMirror ---------------------------
(***************************************************************************)
(* What a cache of contract state promises, whatever component fills it:   *)
(* a cached value is one the contract really had ("Caches                  *)
(* PowerloomProtocolState contract state values to redis", README.md:2).   *)
(*                                                                         *)
(* Spec allows a refresh to store any published value, an older one too.   *)
(* OrderedSpec adds that a refresh never replaces a value by an older one. *)
(* Values are numbered in the order in which the contract takes them.      *)
(***************************************************************************)
EXTENDS Integers

CONSTANT Keys

VARIABLES
  published,                 \* published[k]: the values k has had so far
  cache                      \* cache[k]: the cached one, or Missing

Missing == -1

Init ==
  /\ published \in [Keys -> SUBSET Nat]
  /\ cache = [k \in Keys |-> Missing]

\* The contract takes new values; what it had before stays published.
Publish ==
  /\ published' \in [Keys -> SUBSET Nat]
  /\ \A k \in Keys : published[k] \subseteq published'[k]
  /\ UNCHANGED cache

Refresh(k, v) ==
  /\ v \in published[k]
  /\ cache' = [cache EXCEPT ![k] = v]
  /\ UNCHANGED published

Next == Publish \/ \E k \in Keys : \E v \in published[k] : Refresh(k, v)

OrderedNext ==
  \/ Publish
  \/ \E k \in Keys : \E v \in published[k] : v >= cache[k] /\ Refresh(k, v)

Spec == Init /\ [][Next]_<<published, cache>>

OrderedSpec == Init /\ [][OrderedNext]_<<published, cache>>
=============================================================================
