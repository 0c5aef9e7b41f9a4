----------------------------- MODULE EventWatch -----------------------------
(***************************************************************************)
(* WatchX, for any event X of the bindings: a node pushes the logs of X    *)
(* into a channel, and a goroutine unpacks each and hands it to the        *)
(* caller's sink, until the connection fails, a log cannot be unpacked, or *)
(* the caller unsubscribes.  The caller stops receiving when it does.      *)
(* The channel holds the logs from taken + 1 of those pushed.              *)
(***************************************************************************)
EXTENDS EventCalls

VARIABLES
  event,                     \* the event X
  asked,                     \* the arguments of WatchX
  emitted,                   \* what the contract emitted since the call
  pushed,                    \* the logs the node has pushed
  unsent,                    \* those it has still to push
  connected,                 \* the subscription's Err() has nothing to say
  taken,                     \* how many logs the goroutine received
  pc,                        \* the goroutine: "select", "forward" or "ended"
  quit,                      \* the caller has called Unsubscribe
  err,                       \* why it ended: "nil", "unpack" or "connection"
  received                   \* the events the sink's receiver got

node == <<emitted, pushed, unsent, connected>>
vars == <<event, asked, node, taken, pc, quit, err, received>>

Init ==
  /\ event \in Bindings
  /\ asked \in Queries(event)
  /\ emitted = <<>>
  /\ pushed = <<>>
  /\ unsent = <<>>
  /\ connected = TRUE
  /\ taken = 0
  /\ pc = "select"
  /\ quit = FALSE
  /\ err = "nil"
  /\ received = <<>>
-----------------------------------------------------------------------------
(***************************************************************************)
(* The contract and the node.                                              *)
(***************************************************************************)
Emit ==
  /\ Len(emitted) < MaxEmitted
  /\ connected
  /\ \E e \in Emissions(event) :
       /\ emitted' = Append(emitted, e)
       /\ unsent' = IF Selects(event, Rules(event.watch, asked), Log(event, e))
                    THEN Append(unsent, Log(event, e)) ELSE unsent
  /\ UNCHANGED <<event, asked, pushed, connected, taken, pc, quit, err, received>>

Push ==
  /\ connected
  /\ unsent # <<>>
  /\ Len(pushed) - taken < Capacity
  /\ pushed' = Append(pushed, Head(unsent))
  /\ unsent' = Tail(unsent)
  /\ UNCHANGED <<event, asked, emitted, connected, taken, pc, quit, err, received>>

\* The logs already in the channel stay there.
Disconnect ==
  /\ connected
  /\ connected' = FALSE
  /\ UNCHANGED <<event, asked, emitted, pushed, unsent, taken, pc, quit, err, received>>
-----------------------------------------------------------------------------
(***************************************************************************)
(* The goroutine of WatchX.                                                *)
(***************************************************************************)
SkipUndecodable ==                                                 \* mutation
  /\ pc = "select"
  /\ taken < Len(pushed)
  /\ taken' = taken + 1
  /\ pc' = IF Unpacks(event, pushed[taken']) THEN "forward" ELSE "select"
  /\ UNCHANGED <<event, asked, node, quit, err, received>>

\* A log arrives: unpack it, or give up.
TakeLog ==
  /\ pc = "select"
  /\ taken < Len(pushed)
  /\ taken' = taken + 1
  /\ IF Unpacks(event, pushed[taken'])
     THEN pc' = "forward" /\ UNCHANGED err
     ELSE pc' = "ended" /\ err' = "unpack"
  /\ UNCHANGED <<event, asked, node, quit, received>>

ForwardOrDrop ==                                                   \* mutation
  /\ pc = "forward"
  /\ received' \in {received, Append(received, UnpackLog(event, pushed[taken]))}
  /\ pc' = "select"
  /\ UNCHANGED <<event, asked, node, taken, quit, err>>

ForwardAgain ==                                                    \* mutation
  /\ pc = "forward"
  /\ Len(received) <= taken
  /\ received' = Append(received, UnpackLog(event, pushed[taken]))
  /\ UNCHANGED <<event, asked, node, taken, pc, quit, err>>

\* The caller receives the event from its sink.
Forward ==
  /\ pc = "forward"
  /\ ~quit
  /\ received' = Append(received, UnpackLog(event, pushed[taken]))
  /\ pc' = "select"
  /\ UNCHANGED <<event, asked, node, taken, quit, err>>

\* Both selects end the goroutine on an error of the subscription ...
SubErr ==
  /\ pc \in {"select", "forward"}
  /\ ~connected
  /\ pc' = "ended"
  /\ err' = "connection"
  /\ UNCHANGED <<event, asked, node, taken, quit, received>>

QuitBetweenLogs ==                                                 \* mutation
  /\ pc = "select"
  /\ quit
  /\ pc' = "ended"
  /\ UNCHANGED <<event, asked, node, taken, quit, err, received>>

\* ... and when the caller has unsubscribed.
Quit ==
  /\ pc \in {"select", "forward"}
  /\ quit
  /\ pc' = "ended"
  /\ UNCHANGED <<event, asked, node, taken, quit, err, received>>

Goroutine == TakeLog \/ Forward \/ SubErr \/ Quit

\* Unsubscribe returns when the goroutine has ended.
Unsubscribe ==
  /\ ~quit
  /\ quit' = TRUE
  /\ UNCHANGED <<event, asked, node, taken, pc, err, received>>

Next ==
  \/ Emit \/ Push \/ Disconnect \/ Unsubscribe
  \/ TakeLog \/ Forward \/ SubErr \/ Quit

Spec == Init /\ [][Next]_vars

\* The node pushes while it is connected, the goroutine is scheduled, and the
\* caller receives until it unsubscribes.  A select that can always quit
\* does in the end: Go chooses between the ready cases at random.
FairSpec == Spec /\ WF_vars(Push) /\ WF_vars(Goroutine) /\ WF_vars(Quit)
-----------------------------------------------------------------------------
TypeOK ==
  /\ Len(emitted) <= MaxEmitted
  /\ connected \in BOOLEAN
  /\ taken \in 0..Len(pushed)
  /\ Len(pushed) - taken \in 0..Capacity
  /\ pc \in {"select", "forward", "ended"}
  /\ quit \in BOOLEAN
  /\ err \in {"nil", "unpack", "connection"}
  /\ Len(received) \in 0..taken

(***************************************************************************)
(* While the watch runs no event is lost, doubled or out of place: what    *)
(* the caller got, the event in the goroutine's hands, the channel and the *)
(* node's queue are together, one by one and in order, all that the caller *)
(* asked for by the parameters' names.                                     *)
(***************************************************************************)
Wanted == WantedOf(event, asked, emitted)

\* The i-th log, in the channel or before it.
LogAt(i) == IF i <= Len(pushed) THEN pushed[i] ELSE unsent[i - Len(pushed)]

NothingLost ==
  pc # "ended" =>
    /\ Len(received) = IF pc = "forward" THEN taken - 1 ELSE taken
    /\ LET wanted == Wanted
       IN  /\ Len(wanted) = Len(pushed) + Len(unsent)
           /\ \A i \in 1..Len(wanted) :
                IF i <= Len(received)
                THEN wanted[i] = [sound |-> TRUE, fields |-> received[i]]
                ELSE Reads(event, LogAt(i), wanted[i])

(***************************************************************************)
(* The events reach the sink in the order of the chain and without gaps,   *)
(* and a log that cannot be unpacked ends the watch with an error.         *)
(***************************************************************************)
Delivery ==
  INSTANCE LogDelivery WITH
    wanted    <- Wanted,
    delivered <- Got(received),
    outcome   <- IF pc # "ended" THEN "open"
                 ELSE IF err = "nil" THEN "closed" ELSE "failed"

DeliversInOrder == Delivery!Spec

\* An event the caller asked for arrives, or the watch has ended.
EventsArrive ==
  \A n \in 1..MaxEmitted :
    Len(Wanted) >= n ~> Len(received) >= n \/ pc = "ended" \/ quit

(***************************************************************************)
(* Unsubscribe, which waits for the goroutine, returns: even when an event *)
(* is in the goroutine's hands and nobody receives from the sink any more. *)
(***************************************************************************)
UnsubscribeReturns == quit ~> pc = "ended"
=============================================================================
