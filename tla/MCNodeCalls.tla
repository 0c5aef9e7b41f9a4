----------------------------- MODULE MCNodeCalls -----------------------------
(***************************************************************************)
(* The three ways to get something from a node, one per behaviour: iterate *)
(* over past events, watch new ones, or retry a call.  They share no       *)
(* state, and the two that are not taken stay as they are.                 *)
(***************************************************************************)
EXTENDS EventIterator, MCBindings

CONSTANTS Values, Nil

VARIABLES
  way,                       \* "iterate", "watch" or "retry"
  later, pushed, unsent, connected, handled, watchPc, quit, err, received,
  world, caller, retryPc, tries, reply, captured, expired, cancelled, result, late

watching == <<later, pushed, unsent, connected, handled, watchPc, quit, err, received>>
retrying == <<world, caller, retryPc, tries, reply, captured, expired, cancelled, result, late>>

all == <<way, vars, watching, retrying>>

Watch == INSTANCE EventWatch
           WITH emitted <- later, taken <- handled, pc <- watchPc

Call == INSTANCE Retry WITH pc <- retryPc

ASSUME NilAssumption == Nil \notin Values

MCInit ==
  /\ Init /\ Watch!Init /\ Call!Init
  /\ \/ way = "iterate"
     \/ way = "watch" /\ emitted = <<>>
     \/ /\ way = "retry" /\ emitted = <<>>
        /\ event.name = "EpochReleased" /\ \A p \in DOMAIN asked : asked[p] = {}
  /\ way # "retry" => caller = "fetchBlock" /\ world = CHOOSE v \in Values : TRUE

Iterating(A) == way = "iterate" /\ A /\ UNCHANGED <<way, watching, retrying>>

Watching(A) == way = "watch" /\ A /\ UNCHANGED <<way, emitted, logs, sent, producer,
  closing, done, fail, returned, taken, delivered, retrying>>

Retrying(A) == way = "retry" /\ A /\ UNCHANGED <<way, vars, watching>>

MCNext == Iterating(Next) \/ Watching(Watch!Next) \/ Retrying(Call!Next)

\* The fairness of the three.
MCSpec ==
  /\ MCInit /\ [][MCNext]_all
  /\ WF_all(Iterating(Send)) /\ WF_all(Iterating(ProducerEnds))
  /\ WF_all(Iterating(CallNext))
  /\ WF_all(Watching(Watch!Push)) /\ WF_all(Watching(Watch!Goroutine))
  /\ WF_all(Watching(Watch!Quit))
  /\ WF_all(Retrying(Call!Step)) /\ WF_all(Retrying(Call!Expire))

(***************************************************************************)
(* What the three modules state, under the names that the run uses.        *)
(***************************************************************************)
AllTypesOK == TypeOK /\ Watch!TypeOK /\ Call!TypeOK

\* EventWatch: no event is lost on its way to the sink.
NothingLost == Watch!NothingLost

\* EventWatch: the events reach the sink in order, until a failure.
WatchDeliversInOrder == Watch!DeliversInOrder

\* EventWatch: an event the caller asked for arrives, or the watch ends.
EventsArrive == Watch!EventsArrive

\* EventWatch: Unsubscribe returns.
UnsubscribeReturns == Watch!UnsubscribeReturns

\* Retry: an error only after every chance the policy gives.
NoEarlyFailure == Call!NoEarlyFailure

\* Retry: at most one attempt begins after the context was done.
CancelStops == Call!CancelStops

\* Retry: every call returns.
CallReturns == Call!CallReturns

\* Retry: all attempts together are one read of the node, or an error.
IsOneCall == Call!IsOneCall
=============================================================================
