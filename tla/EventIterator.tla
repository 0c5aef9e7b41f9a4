---------------------------- MODULE EventIterator ----------------------------
(***************************************************************************)
(* FilterX and the iterator it returns, for any event X of the bindings:   *)
(* go-ethereum asks a node for the logs, and a goroutine (the producer)    *)
(* sends them one by one through a bounded channel to the caller of Next.  *)
(* The caller may call Next for ever, and Close from another goroutine.    *)
(* The channel holds the logs from taken + 1 to sent of the answer.        *)
(*                                                                         *)
(* Simplification: the node answers with the logs the contract has emitted *)
(* so far; what it emits later has no part in the iteration.               *)
(***************************************************************************)
EXTENDS EventCalls

VARIABLES
  event,                     \* the event X
  asked,                     \* the arguments of FilterX
  emitted,                   \* the contract's emissions
  logs,                      \* the node's answer
  sent,                      \* how many of it the producer sent
  taken,                     \* how many of it Next received
  producer,                  \* "none", "running" or "ended": Err() is closed
  closing,                   \* Close: "no", "waiting" or "returned"
  done,                      \* it.done
  fail,                      \* it.fail is not nil
  returned,                  \* what Next returned last
  delivered                  \* history: the events it delivered

query == <<event, asked, emitted>>
iterator == <<done, fail, returned, taken, delivered>>
vars == <<query, logs, sent, producer, closing, iterator>>

Init ==
  /\ event \in Bindings
  /\ asked \in Queries(event)
  /\ emitted \in BoundedSeq(Emissions(event), MaxEmitted)
  /\ logs = <<>>
  /\ sent = 0
  /\ taken = 0
  /\ producer = "none"
  /\ closing = "no"
  /\ done = FALSE
  /\ fail = FALSE
  /\ returned = TRUE
  /\ delivered = <<>>

\* FilterX.  When the node's answer is an error it returns no iterator, and
\* the caller may try again.
Filter ==
  /\ producer = "none"
  /\ logs' = Selected(event, Rules(event.filter, asked), emitted)
  /\ producer' = "running"
  /\ UNCHANGED <<query, sent, closing, iterator>>

\* The producer sends a log when there is room.
Send ==
  /\ producer = "running"
  /\ sent < Len(logs)
  /\ sent - taken < Capacity
  /\ sent' = sent + 1
  /\ UNCHANGED <<query, logs, producer, closing, iterator>>

\* It ends after the last log, or, with logs left, when it is unsubscribed.
ProducerEnds ==
  /\ producer = "running"
  /\ sent = Len(logs) \/ closing = "waiting"
  /\ producer' = "ended"
  /\ UNCHANGED <<query, logs, sent, closing, iterator>>
-----------------------------------------------------------------------------
(***************************************************************************)
(* Next.                                                                   *)
(***************************************************************************)

\* Receive a log and unpack it.
Receive ==
  /\ taken' = taken + 1
  /\ \/ /\ Unpacks(event, logs[taken'])
        /\ delivered' = Append(delivered, UnpackLog(event, logs[taken']))
        /\ returned' = TRUE
        /\ UNCHANGED fail
     \/ /\ ~Unpacks(event, logs[taken'])
        /\ fail' = TRUE
        /\ returned' = FALSE
        /\ UNCHANGED delivered

StopAtErr ==                                                       \* mutation
  /\ returned' = FALSE
  /\ UNCHANGED <<taken, delivered, fail>>

\* The select with a default: a log that is there, or the end.
Drain ==
  \/ taken < sent /\ Receive
  \/ /\ taken = sent
     /\ returned' = FALSE
     /\ UNCHANGED <<taken, delivered, fail>>

RetryAfterFailure ==                                               \* mutation
  /\ fail
  /\ Drain
  /\ UNCHANGED <<query, logs, sent, producer, closing, done>>

NextFailed ==
  /\ fail
  /\ returned' = FALSE
  /\ UNCHANGED <<query, logs, sent, producer, closing, done, fail, taken, delivered>>

NextDone ==
  /\ ~fail /\ done
  /\ Drain
  /\ UNCHANGED <<query, logs, sent, producer, closing, done>>

\* In progress: wait for a log ...
NextLog ==
  /\ producer # "none" /\ ~fail /\ ~done
  /\ taken < sent
  /\ Receive
  /\ UNCHANGED <<query, logs, sent, producer, closing, done>>

NeverErr == FALSE /\ UNCHANGED vars                                \* mutation

\* ... or for the end of the subscription, whose error is always nil.  Both
\* may be there, and either is taken.
NextErr ==
  /\ ~fail /\ ~done
  /\ producer = "ended"
  /\ done' = TRUE
  /\ Drain
  /\ UNCHANGED <<query, logs, sent, producer, closing>>

CallNext == NextFailed \/ NextDone \/ NextLog \/ NextErr
-----------------------------------------------------------------------------
\* Close unsubscribes, and waits until the producer has ended.
Close ==
  /\ producer # "none"
  /\ closing = "no"
  /\ closing' = "waiting"
  /\ UNCHANGED <<query, logs, sent, producer, iterator>>

CloseReturns ==
  /\ closing = "waiting"
  /\ producer = "ended"
  /\ closing' = "returned"
  /\ UNCHANGED <<query, logs, sent, producer, iterator>>

Next ==
  \/ Filter \/ Send \/ ProducerEnds
  \/ NextFailed \/ NextDone \/ NextLog \/ NextErr
  \/ Close \/ CloseReturns

Spec == Init /\ [][Next]_vars

\* The producer is scheduled, and the caller goes on calling Next.
FairSpec == Spec /\ WF_vars(Send) /\ WF_vars(ProducerEnds) /\ WF_vars(CallNext)
-----------------------------------------------------------------------------
TypeOK ==
  /\ \A i \in DOMAIN logs : logs[i].sound \in BOOLEAN
  /\ sent \in 0..Len(logs)
  /\ taken \in 0..sent
  /\ producer \in {"none", "running", "ended"}
  /\ closing \in {"no", "waiting", "returned"}
  /\ done \in BOOLEAN
  /\ fail \in BOOLEAN
  /\ returned \in BOOLEAN
  /\ Len(delivered) \in 0..taken

(***************************************************************************)
(* When Next has returned false, Error() is nil and nobody called Close,   *)
(* the caller has got every event of the node's answer: the end of the     *)
(* subscription, which races the last logs in the select of Next, never    *)
(* hides logs that are still in the channel.                               *)
(***************************************************************************)
CleanEndIsComplete ==
  ~returned /\ ~fail /\ closing = "no"
    => delivered = [i \in DOMAIN logs |-> UnpackLog(event, logs[i])]

(***************************************************************************)
(* The caller gets the events it asked for by the names of the parameters, *)
(* in the order of the chain and without gaps, before a failure or a       *)
(* Close, or all of them.  The bindings pass the arguments by position.    *)
(***************************************************************************)
Wanted == IF producer = "none" THEN <<>> ELSE WantedOf(event, asked, emitted)

Delivery ==
  INSTANCE LogDelivery WITH
    wanted    <- Wanted,
    delivered <- Got(delivered),
    outcome   <- IF fail THEN "failed" ELSE IF closing # "no" THEN "closed"
                 ELSE IF returned THEN "open" ELSE "complete"

DeliversInOrder == Delivery!Spec

(***************************************************************************)
(* A caller who goes on calling Next is told that the iteration is over.   *)
(***************************************************************************)
IterationEnds == producer = "running" ~> ~returned
=============================================================================
