-------------------------------- MODULE Retry --------------------------------
(***************************************************************************)
(* backoff.Retry as the program uses it: in fetchBlock and in              *)
(* ProcessProtocolStateEvents (pkgs/prost/processor.go), a constant delay  *)
(* and three retries; in MustQuery (pkgs/prost/contract.go), growing       *)
(* delays for a minute and the caller's context.  The operation leaves its *)
(* answer in a variable of the function around it, which the function      *)
(* reads when Retry returns.                                               *)
(*                                                                         *)
(* The node's state changes between the attempts.  One activation is       *)
(* followed at a time: activations share no variable.                      *)
(***************************************************************************)
EXTENDS Naturals

CONSTANTS Values, Nil        \* what a node can answer; the zero value, which is none

VARIABLES
  world,                     \* what a node would answer now
  caller,                    \* the function that retries
  pc,                        \* "idle", "attempt", "asked" or "wait"
  tries,                     \* the attempts made
  reply,                     \* the answer on its way
  captured,                  \* block, logs, val: set by the operation
  expired,                   \* less is left of MaxElapsedTime than the next delay
  cancelled,                 \* the context given to MustQuery is done
  result,                    \* what the function returned last
  late                       \* history: attempts begun after the context was done

vars == <<world, caller, pc, tries, reply, captured, expired, cancelled, result, late>>

Callers == {"fetchBlock", "ProcessProtocolStateEvents", "MustQuery"}

MaxRetries == 3

\* Bound: attempts are counted this far only, and those in "late" up to two.
MostTries(f) == IF f = "MustQuery" THEN MaxRetries + 1 ELSE MaxRetries + 2

Reply == [val : Values \union {Nil}, err : BOOLEAN]

None == [val |-> Nil, err |-> FALSE]
-----------------------------------------------------------------------------
Init ==
  /\ world \in Values
  /\ caller \in Callers
  /\ pc = "idle"
  /\ tries = 0
  /\ reply = None
  /\ captured = Nil
  /\ expired = FALSE
  /\ cancelled = FALSE
  /\ result = None
  /\ late = 0

Change ==
  /\ world' \in Values \ {world}
  /\ UNCHANGED <<caller, pc, tries, reply, captured, expired, cancelled, result, late>>

\* Only MustQuery is given a context, which may be done already.
Begin(f) ==
  /\ pc = "idle"
  /\ caller' = f
  /\ cancelled' \in (IF f = "MustQuery" THEN BOOLEAN ELSE {FALSE})
  /\ pc' = "attempt"
  /\ tries' = 0
  /\ captured' = Nil
  /\ expired' = FALSE
  /\ late' = 0
  /\ UNCHANGED <<world, reply, result>>

Cancel ==
  /\ pc # "idle"
  /\ caller = "MustQuery"
  /\ cancelled' = TRUE
  /\ UNCHANGED <<world, caller, pc, tries, reply, captured, expired, result, late>>

\* backoff/v4 stops when the next delay would end after MaxElapsedTime, a
\* delay before the minute is over.
Expire ==
  /\ pc # "idle"
  /\ expired' = TRUE
  /\ UNCHANGED <<world, caller, pc, tries, reply, captured, cancelled, result, late>>

\* An attempt: the node reads its state.  The answer may be lost or come with
\* an error, and a value next to an error means nothing.
Ask ==
  /\ pc = "attempt"
  /\ \/ reply' = [val |-> world, err |-> FALSE]
     \/ reply' \in {[val |-> v, err |-> TRUE] : v \in {world, Nil}}
  /\ tries' = IF tries < MostTries(caller) THEN tries + 1 ELSE tries
  /\ late' = IF cancelled /\ late < 2 THEN late + 1 ELSE late
  /\ pc' = "asked"
  /\ UNCHANGED <<world, caller, captured, expired, cancelled, result>>
-----------------------------------------------------------------------------
ElapsedOnly ==                                                     \* mutation
  IF caller = "MustQuery" THEN expired ELSE tries > MaxRetries

TriesInAll ==                                                      \* mutation
  IF caller = "MustQuery" THEN expired \/ cancelled ELSE tries >= MaxRetries

OneMoreRetry ==                                                    \* mutation
  IF caller = "MustQuery" THEN expired \/ cancelled ELSE tries > MaxRetries + 1

DelayOnly == caller = "MustQuery" /\ (expired \/ cancelled)        \* mutation

\* NextBackOff answers Stop.
Stop == IF caller = "MustQuery" THEN expired \/ cancelled ELSE tries > MaxRetries

Captured == result' = [val |-> captured', err |-> TRUE]            \* mutation

\* Every caller returns a zero value with the error, or nothing but the error.
ReturnError == result' = [val |-> Nil, err |-> TRUE]

\* The operation returns: Retry ends with success, gives up, or waits.
Answered ==
  /\ pc = "asked"
  /\ captured' = reply.val
  /\ reply' = None
  /\ \/ ~reply.err /\ pc' = "idle" /\ result' = [val |-> captured', err |-> FALSE]
     \/ reply.err /\ Stop /\ pc' = "idle" /\ ReturnError
     \/ reply.err /\ ~Stop /\ pc' = "wait" /\ UNCHANGED result
  /\ UNCHANGED <<world, caller, tries, expired, cancelled, late>>

\* The delay is over.  When the context is done too, select takes either case.
Again ==
  /\ pc = "wait"
  /\ pc' = "attempt"
  /\ UNCHANGED <<world, caller, tries, reply, captured, expired, cancelled, result, late>>

GiveUp ==
  /\ pc = "wait"
  /\ cancelled
  /\ pc' = "idle"
  /\ UNCHANGED captured
  /\ ReturnError
  /\ UNCHANGED <<world, caller, tries, reply, expired, cancelled, late>>

Step == Ask \/ Answered \/ Again \/ GiveUp

Next == Change \/ Cancel \/ Expire \/ Step \/ \E f \in Callers : Begin(f)

Spec == Init /\ [][Next]_vars

\* Time passes, delays end, and every attempt is answered, if only by a timeout.
FairSpec == Spec /\ WF_vars(Step) /\ WF_vars(Expire)
-----------------------------------------------------------------------------
TypeOK ==
  /\ world \in Values
  /\ caller \in Callers
  /\ pc \in {"idle", "attempt", "asked", "wait"}
  /\ tries \in 0..(MaxRetries + 1)
  /\ reply \in Reply
  /\ captured \in Values \union {Nil}
  /\ expired \in BOOLEAN
  /\ cancelled \in BOOLEAN
  /\ result \in Reply
  /\ late \in Nat

(***************************************************************************)
(* An error means that the node was really given its chances: all four     *)
(* attempts failed, or the minute has no room for one more delay, or the   *)
(* caller's patience was over.                                             *)
(***************************************************************************)
NoEarlyFailure ==
  pc = "idle" /\ result.err =>
    IF caller = "MustQuery" THEN expired \/ cancelled ELSE tries = MaxRetries + 1

(***************************************************************************)
(* MustQuery lets go when its caller's context is done: at most one more   *)
(* attempt begins, although the context is not passed to the call and a    *)
(* delay that ends just then may win the select.                           *)
(***************************************************************************)
CancelStops == late <= 1

(***************************************************************************)
(* A call that retries returns, even when every attempt fails.             *)
(***************************************************************************)
CallReturns == pc # "idle" ~> pc = "idle"

Atomic == INSTANCE OneCall
            WITH open <- pc # "idle",
                 answer <- IF reply.err THEN Nil ELSE reply.val

(***************************************************************************)
(* All the attempts together are one read of the node at one moment of the *)
(* call, or an error without a value: an answer of a failed attempt or of  *)
(* an earlier call is never returned, though variables captured by the     *)
(* operation outlive the attempts.                                         *)
(***************************************************************************)
IsOneCall == Atomic!Spec
=============================================================================
