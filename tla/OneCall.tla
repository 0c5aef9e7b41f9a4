------------------------------ MODULE OneCall ------------------------------
(***************************************************************************)
(* A call of a node as the other modules take it: one read at some moment  *)
(* between the call and its return, or an error and no value.              *)
(***************************************************************************)
CONSTANTS Values, Nil

VARIABLES world, open, answer, result

vars == <<world, open, answer, result>>

Init ==
  /\ world \in Values
  /\ open = FALSE
  /\ answer = Nil
  /\ result = [val |-> Nil, err |-> FALSE]

Change ==
  /\ world' \in Values
  /\ UNCHANGED <<open, answer, result>>

Begin ==
  /\ ~open
  /\ open' = TRUE
  /\ UNCHANGED <<world, answer, result>>

Read ==
  /\ open
  /\ answer = Nil
  /\ answer' = world
  /\ UNCHANGED <<world, open, result>>

Return ==
  /\ open
  /\ open' = FALSE
  /\ answer' = Nil
  /\ result' = [val |-> answer, err |-> answer = Nil]
  /\ UNCHANGED world

Spec == Init /\ [][Change \/ Begin \/ Read \/ Return]_vars
=============================================================================
