----------------------------- MODULE LogDelivery -----------------------------
(***************************************************************************)
(* What a caller of the bindings is promised: the wanted events, in their  *)
(* order and without gaps, until the delivery ends.  It ends "complete"    *)
(* when none is left, "failed", or because the caller "closed" it; only    *)
(* after the caller's own end may events still arrive.                     *)
(***************************************************************************)
EXTENDS Sequences, SequencesExt

VARIABLES wanted, delivered, outcome

vars == <<wanted, delivered, outcome>>

Init == wanted = <<>> /\ delivered = <<>> /\ outcome = "open"

\* The contract emits events that are wanted.
Emit ==
  /\ IsPrefix(wanted, wanted')
  /\ UNCHANGED <<delivered, outcome>>

Deliver ==
  /\ outcome \in {"open", "closed"}
  /\ Len(delivered) < Len(wanted)
  /\ delivered' = Append(delivered, wanted[Len(delivered) + 1])
  /\ UNCHANGED <<wanted, outcome>>

End ==
  /\ \/ outcome = "open" /\ outcome' = "complete" /\ delivered = wanted
     \/ outcome # "failed" /\ outcome' \in {"failed", "closed"}
  /\ UNCHANGED <<wanted, delivered>>

Spec == Init /\ [][Emit \/ Deliver \/ End]_vars
=============================================================================
