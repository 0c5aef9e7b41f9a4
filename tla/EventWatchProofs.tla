-------------------------- MODULE EventWatchProofs --------------------------
(***************************************************************************)
(* Theorems about EventWatch, for every set of events, every channel size  *)
(* and everything a contract emits.                                        *)
(***************************************************************************)
EXTENDS EventWatch, EventCallsProofs

Unpacked == {UnpackLog(event, log) : log \in Logs(event)}

TypeInv ==
  /\ event \in Bindings
  /\ emitted \in Seq(Emissions(event))
  /\ Len(emitted) <= MaxEmitted
  /\ pushed \in Seq(Logs(event))
  /\ unsent \in Seq(Logs(event))
  /\ received \in Seq(Unpacked)
  /\ connected \in BOOLEAN
  /\ taken \in Nat
  /\ taken <= Len(pushed)
  /\ Len(pushed) <= taken + Capacity
  /\ pc \in {"select", "forward", "ended"}
  /\ quit \in BOOLEAN
  /\ err \in {"nil", "unpack", "connection"}

\* The logs on their way are what the caller asked for, in order.
QueueInv ==
  /\ Len(Wanted) = Len(pushed) + Len(unsent)
  /\ \A i \in 1..Len(pushed) : Reads(event, pushed[i], Wanted[i])
  /\ \A i \in 1..Len(unsent) : Reads(event, unsent[i], Wanted[Len(pushed) + i])

\* The sink's receiver has every log that was taken, but the one in hand.
SinkInv ==
  /\ Len(received) <= taken
  /\ pc = "select" => Len(received) = taken
  /\ pc = "forward" => Len(received) + 1 = taken /\ Unpacks(event, pushed[taken])
  /\ pc # "ended" => err = "nil"

\* What it got are the events asked for, one by one.
ReceivedInv ==
  \A i \in 1..Len(received) : Wanted[i] = [sound |-> TRUE, fields |-> received[i]]

Inv == TypeInv /\ QueueInv /\ SinkInv /\ ReceivedInv
-----------------------------------------------------------------------------
LEMMA Lengths ==
  ASSUME TypeInv
  PROVE  /\ Len(emitted) \in Nat /\ Len(pushed) \in Nat /\ Len(unsent) \in Nat
         /\ Len(received) \in Nat
         /\ Capacity \in Nat \ {0} /\ MaxEmitted \in Nat
         /\ Wanted \in Seq(Meanings(event)) /\ Len(Wanted) \in Nat
<1>1. Wanted \in Seq(Meanings(event))
  BY WantedType DEF TypeInv, Wanted
<1> QED  BY <1>1, EventCallsAssumption, LenProperties DEF TypeInv

LEMMA InitInv == Init => Inv
<1> SUFFICES ASSUME Init PROVE Inv
  OBVIOUS
<1>1. /\ emitted = <<>> /\ pushed = <<>> /\ unsent = <<>> /\ received = <<>>
      /\ \A T : <<>> \in Seq(T)
      /\ Len(<<>>) = 0
  BY EmptySeq DEF Init
<1>2. 0 <= MaxEmitted /\ 0 <= 0 + Capacity /\ 0 \in Nat /\ 0 <= 0
  BY EventCallsAssumption
<1>3. TypeInv
  BY <1>1, <1>2, Zenon DEF Init, TypeInv
<1>4. Len(Wanted) = 0
  <2>1. AskedFor(event, asked, emitted) = {}
    <3>1. DOMAIN emitted = 1..0
      BY <1>1, LenProperties
    <3> QED  BY <3>1 DEF AskedFor
  <2>2. Cardinality(AskedFor(event, asked, emitted)) = 0
    BY <2>1, FS_EmptySet
  <2> QED  BY <2>2, <1>3, WantedType DEF TypeInv, Wanted
<1>5. QueueInv
  BY <1>1, <1>4 DEF QueueInv
<1>6. SinkInv /\ ReceivedInv
  BY <1>1 DEF Init, SinkInv, ReceivedInv
<1> QED  BY <1>3, <1>5, <1>6 DEF Inv

\* The node selects an emission exactly if the caller asked for it.
LEMMA WatchSelectsByName ==
  ASSUME event \in Bindings, NEW e
  PROVE  Selects(event, Rules(event.watch, asked), Log(event, e)) <=> Asks(event, asked, e)
<1>1. /\ event.indexed \in Seq(Parameters(event)) /\ event.name # "other"
      /\ event.watch = event.indexed
  BY EventCallsAssumption, RulesFollowTopics
<1>2. Len(event.indexed) \in Nat /\ DOMAIN event.indexed = 1..Len(event.indexed)
  BY <1>1, LenProperties
<1> QED  BY <1>1, <1>2, SelectsByName

\* The event in the goroutine's hands is the next one asked for.
LEMMA InHand ==
  ASSUME Inv, pc = "forward"
  PROVE  /\ taken \in 1..Len(pushed) /\ taken \in 1..Len(Wanted)
         /\ Len(received) + 1 = taken
         /\ UnpackLog(event, pushed[taken]) \in Unpacked
         /\ Wanted[taken] = [sound |-> TRUE, fields |-> UnpackLog(event, pushed[taken])]
<1>1. /\ taken \in 1..Len(pushed) /\ taken \in 1..Len(Wanted)
      /\ Len(received) + 1 = taken /\ Unpacks(event, pushed[taken])
  BY Lengths DEF Inv, TypeInv, SinkInv, QueueInv
<1>2. Reads(event, pushed[taken], Wanted[taken])
  BY <1>1 DEF Inv, QueueInv
<1>3. UnpackLog(event, pushed[taken]) \in Unpacked
  <2>1. pushed[taken] \in Logs(event)
    BY <1>1, ElementOfSeq DEF Inv, TypeInv
  <2> QED  BY <2>1 DEF Unpacked
<1>4. Wanted[taken] = [sound |-> TRUE, fields |-> UnpackLog(event, pushed[taken])]
  <2>1. Wanted[taken] \in Meanings(event)
    BY <1>1, Lengths, ElementOfSeq DEF Inv
  <2>2. /\ Wanted[taken] = [sound |-> Wanted[taken].sound, fields |-> Wanted[taken].fields]
        /\ Wanted[taken].sound \in BOOLEAN
    BY <2>1, MeaningIsRecord
  <2>3. Wanted[taken].sound = TRUE
    BY <1>1, <1>2, <2>2 DEF Reads
  <2> QED  BY <1>2, <2>2, <2>3 DEF Reads
<1> QED  BY <1>1, <1>3, <1>4

\* An emission is wanted if and only if the node sends its log.
LEMMA EmitStep ==
  ASSUME Inv, NEW e \in Emissions(event),
         Len(emitted) < MaxEmitted,
         emitted' = Append(emitted, e),
         unsent' = IF Selects(event, Rules(event.watch, asked), Log(event, e))
                   THEN Append(unsent, Log(event, e)) ELSE unsent,
         UNCHANGED <<event, asked, pushed, connected, taken, pc, quit, err, received>>
  PROVE  /\ Inv'
         /\ Wanted' = Wanted \/ Wanted' = Append(Wanted, Meaning(event, e))
<1>1. /\ event \in Bindings /\ emitted \in Seq(Emissions(event)) /\ unsent \in Seq(Logs(event))
      /\ Len(emitted) \in Nat /\ Len(pushed) \in Nat /\ Len(unsent) \in Nat
      /\ Wanted \in Seq(Meanings(event)) /\ Len(Wanted) \in Nat /\ MaxEmitted \in Nat
  BY Lengths DEF Inv, TypeInv
<1>2. /\ Append(emitted, e) \in Seq(Emissions(event))
      /\ Len(Append(emitted, e)) = Len(emitted) + 1
  BY <1>1, AppendProperties
<1>3. Wanted' = IF Asks(event, asked, e) THEN Append(Wanted, Meaning(event, e)) ELSE Wanted
  <2>1. Wanted' = WantedOf(event, asked, Append(emitted, e))
    BY DEF Wanted
  <2> QED  BY <1>1, <2>1, WantedAppend DEF Wanted
<1>4. CASE ~Asks(event, asked, e)
  <2>1. Wanted' = Wanted /\ unsent' = unsent
    BY <1>1, <1>3, <1>4, WatchSelectsByName
  <2>2. TypeInv'
    BY <1>1, <1>2, <2>1 DEF Inv, TypeInv, Unpacked
  <2>3. QueueInv'
    BY <2>1 DEF Inv, QueueInv
  <2>4. SinkInv' /\ ReceivedInv'
    BY <2>1 DEF Inv, SinkInv, ReceivedInv
  <2> QED  BY <2>1, <2>2, <2>3, <2>4 DEF Inv
<1>5. CASE Asks(event, asked, e)
  <2> DEFINE l == Log(event, e)
             m == Meaning(event, e)
  <2>1. Wanted' = Append(Wanted, m) /\ unsent' = Append(unsent, l)
    BY <1>1, <1>3, <1>5, WatchSelectsByName
  <2>2. l \in Logs(event) /\ m \in Meanings(event)
    BY DEF Logs, Meanings
  <2>3. Reads(event, l, m)
    BY <1>1, <1>5, UnpacksMeaning DEF Asks
  <2> HIDE DEF l, m
  <2>4. /\ unsent' \in Seq(Logs(event)) /\ Len(unsent') = Len(unsent) + 1
        /\ \A i \in 1..Len(unsent) : unsent'[i] = unsent[i]
        /\ unsent'[Len(unsent) + 1] = l
    BY <1>1, <2>1, <2>2, AppendProperties
  <2>5. /\ Len(Wanted') = Len(Wanted) + 1
        /\ \A i \in 1..Len(Wanted) : Wanted'[i] = Wanted[i]
        /\ Wanted'[Len(Wanted) + 1] = m
    BY <1>1, <2>1, <2>2, AppendProperties
  <2>6. TypeInv'
    BY <1>1, <1>2, <2>4 DEF Inv, TypeInv, Unpacked
  <2>7. QueueInv'
    <3>1. Len(Wanted) = Len(pushed) + Len(unsent)
      BY DEF Inv, QueueInv
    <3>2. ASSUME NEW i \in 1..Len(pushed) PROVE Reads(event, pushed[i], Wanted'[i])
      <4>1. i \in 1..Len(Wanted)
        BY <1>1, <3>1
      <4> QED  BY <2>5, <4>1 DEF Inv, QueueInv
    <3>3. ASSUME NEW i \in 1..Len(unsent') PROVE Reads(event, unsent'[i], Wanted'[Len(pushed) + i])
      <4>1. CASE i = Len(unsent) + 1
        BY <1>1, <2>3, <2>4, <2>5, <3>1, <4>1
      <4>2. CASE i # Len(unsent) + 1
        <5>1. i \in 1..Len(unsent) /\ Len(pushed) + i \in 1..Len(Wanted)
          BY <1>1, <2>4, <3>1, <4>2
        <5> QED  BY <2>4, <2>5, <5>1 DEF Inv, QueueInv
      <4> QED  BY <4>1, <4>2
    <3>4. Len(Wanted') = Len(pushed) + Len(unsent')
      BY <1>1, <2>4, <2>5, <3>1
    <3> QED  BY <3>2, <3>3, <3>4 DEF QueueInv
  <2>8. SinkInv'
    BY DEF Inv, SinkInv
  <2>9. ReceivedInv'
    <3>1. ASSUME NEW i \in 1..Len(received) PROVE Wanted'[i] = Wanted[i]
      <4>1. Len(received) <= Len(Wanted) /\ Len(received) \in Nat
        BY Lengths DEF Inv, TypeInv, SinkInv, QueueInv
      <4>2. i \in 1..Len(Wanted)
        BY <1>1, <4>1
      <4> QED  BY <2>5, <4>2
    <3> QED  BY <3>1 DEF Inv, ReceivedInv
  <2> QED  BY <2>1, <2>6, <2>7, <2>8, <2>9 DEF Inv, m
<1> QED  BY <1>4, <1>5

LEMMA PushStep ==
  ASSUME Inv, Push
  PROVE  Inv'
<1>1. /\ unsent \in Seq(Logs(event)) /\ unsent # <<>> /\ pushed \in Seq(Logs(event))
      /\ Len(pushed) \in Nat /\ Len(unsent) \in Nat /\ Capacity \in Nat
      /\ taken \in Nat /\ taken <= Len(pushed) /\ Len(pushed) - taken < Capacity
  BY Lengths DEF Inv, TypeInv, Push
<1>2. /\ UNCHANGED <<event, asked, emitted, connected, taken, pc, quit, err, received, Wanted>>
      /\ pushed' = Append(pushed, Head(unsent)) /\ unsent' = Tail(unsent)
  BY DEF Push, Wanted
<1>3. /\ Head(unsent) \in Logs(event) /\ Tail(unsent) \in Seq(Logs(event))
      /\ Len(Tail(unsent)) = Len(unsent) - 1
      /\ \A i \in 1..Len(Tail(unsent)) : Tail(unsent)[i] = unsent[i + 1]
      /\ Head(unsent) = unsent[1] /\ Len(unsent) >= 1
  <2>1. Len(unsent) >= 1
    BY <1>1, EmptySeq
  <2> QED  BY <1>1, <2>1, HeadTailProperties
<1>4. /\ pushed' \in Seq(Logs(event)) /\ Len(pushed') = Len(pushed) + 1
      /\ \A i \in 1..Len(pushed) : pushed'[i] = pushed[i]
      /\ pushed'[Len(pushed) + 1] = unsent[1]
  BY <1>1, <1>2, <1>3, AppendProperties
<1>5. TypeInv'
  <2>1. taken <= Len(pushed') /\ Len(pushed') <= taken + Capacity
    BY <1>1, <1>4
  <2> QED  BY <1>2, <1>3, <1>4, <2>1 DEF Inv, TypeInv, Unpacked
<1>6. QueueInv'
  <2>1. Len(Wanted) = Len(pushed') + Len(unsent')
    BY <1>1, <1>2, <1>3, <1>4 DEF Inv, QueueInv
  <2>2. ASSUME NEW i \in 1..Len(pushed') PROVE Reads(event, pushed'[i], Wanted[i])
    <3>1. CASE i = Len(pushed) + 1
      <4>1. 1 \in 1..Len(unsent)
        BY <1>1, <1>3
      <4>2. Reads(event, unsent[1], Wanted[Len(pushed) + 1])
        BY <4>1 DEF Inv, QueueInv
      <4> QED  BY <1>4, <3>1, <4>2
    <3>2. CASE i # Len(pushed) + 1
      <4>1. i \in 1..Len(pushed)
        BY <1>1, <1>4, <3>2
      <4> QED  BY <1>4, <4>1 DEF Inv, QueueInv
    <3> QED  BY <3>1, <3>2
  <2>3. ASSUME NEW i \in 1..Len(unsent')
        PROVE  Reads(event, unsent'[i], Wanted[Len(pushed') + i])
    <3>1. i + 1 \in 1..Len(unsent) /\ Len(pushed') + i = Len(pushed) + (i + 1)
      BY <1>1, <1>2, <1>3, <1>4
    <3>2. Reads(event, unsent[i + 1], Wanted[Len(pushed) + (i + 1)])
      BY <3>1 DEF Inv, QueueInv
    <3> QED  BY <1>2, <1>3, <3>1, <3>2
  <2> QED  BY <1>2, <2>1, <2>2, <2>3 DEF QueueInv
<1>7. SinkInv'
  <2>1. pc = "forward" => taken \in 1..Len(pushed)
    BY <1>1, Lengths DEF Inv, SinkInv
  <2> QED  BY <1>2, <1>4, <2>1 DEF Inv, SinkInv
<1>8. ReceivedInv'
  BY <1>2 DEF Inv, ReceivedInv
<1> QED  BY <1>5, <1>6, <1>7, <1>8 DEF Inv

LEMMA ForwardStep ==
  ASSUME Inv, Forward
  PROVE  Inv'
<1>1. /\ pc = "forward" /\ pc' = "select"
      /\ received' = Append(received, UnpackLog(event, pushed[taken]))
      /\ UNCHANGED <<event, asked, emitted, pushed, unsent, connected, taken, quit, err, Wanted>>
  BY DEF Forward, node, Wanted
<1> DEFINE x == UnpackLog(event, pushed[taken])
<1>3. /\ x \in Unpacked /\ Len(received) + 1 = taken /\ Len(received) \in Nat
      /\ Wanted[taken] = [sound |-> TRUE, fields |-> x]
  BY <1>1, InHand, Lengths DEF Inv
<1>4. /\ received' \in Seq(Unpacked) /\ Len(received') = Len(received) + 1
      /\ \A i \in 1..Len(received) : received'[i] = received[i]
      /\ received'[Len(received) + 1] = x
  BY <1>1, <1>3, AppendProperties DEF Inv, TypeInv
<1> HIDE DEF x
<1>5. TypeInv'
  BY <1>1, <1>4 DEF Inv, TypeInv, Unpacked
<1>6. QueueInv'
  BY <1>1 DEF Inv, QueueInv
<1>7. SinkInv'
  BY <1>1, <1>3, <1>4 DEF Inv, SinkInv, TypeInv
<1>8. ReceivedInv'
  <2>1. ASSUME NEW i \in 1..Len(received')
        PROVE  Wanted[i] = [sound |-> TRUE, fields |-> received'[i]]
    <3>1. CASE i = Len(received) + 1
      BY <1>3, <1>4, <3>1
    <3>2. CASE i # Len(received) + 1
      <4>1. i \in 1..Len(received)
        BY <1>3, <1>4, <3>2
      <4> QED  BY <1>4, <4>1 DEF Inv, ReceivedInv
    <3> QED  BY <3>1, <3>2
  <2> QED  BY <1>1, <2>1 DEF ReceivedInv
<1> QED  BY <1>5, <1>6, <1>7, <1>8 DEF Inv

LEMMA TakeLogStep ==
  ASSUME Inv, TakeLog
  PROVE  Inv'
<1>1. /\ pc = "select" /\ taken < Len(pushed) /\ taken' = taken + 1
      /\ UNCHANGED <<event, asked, emitted, pushed, unsent, connected, quit, received, Wanted>>
  BY DEF TakeLog, node, Wanted
<1>2. \/ Unpacks(event, pushed[taken + 1]) /\ pc' = "forward" /\ err' = err
      \/ pc' = "ended" /\ err' = "unpack"
  BY <1>1 DEF TakeLog
<1>3. TypeInv'
  <2>1. /\ taken + 1 \in Nat /\ taken + 1 <= Len(pushed)
        /\ Len(pushed) <= taken + 1 + Capacity
    BY <1>1, Lengths DEF Inv, TypeInv
  <2> QED  BY <1>1, <1>2, <2>1 DEF Inv, TypeInv, Unpacked
<1>4. QueueInv'
  BY <1>1 DEF Inv, QueueInv
<1>5. SinkInv'
  BY <1>1, <1>2, Lengths DEF Inv, SinkInv, TypeInv
<1>6. ReceivedInv'
  BY <1>1 DEF Inv, ReceivedInv
<1> QED  BY <1>3, <1>4, <1>5, <1>6 DEF Inv

LEMMA NextInv == Inv /\ [Next]_vars => Inv'
<1> SUFFICES ASSUME Inv, [Next]_vars PROVE Inv'
  OBVIOUS
<1> USE DEF Inv, TypeInv, QueueInv, SinkInv, ReceivedInv, Unpacked, Wanted, node
<1>1. CASE Emit
  <2>1. PICK e \in Emissions(event) :
          /\ emitted' = Append(emitted, e)
          /\ unsent' = IF Selects(event, Rules(event.watch, asked), Log(event, e))
                       THEN Append(unsent, Log(event, e)) ELSE unsent
    BY <1>1 DEF Emit
  <2>2. /\ Len(emitted) < MaxEmitted
        /\ UNCHANGED <<event, asked, pushed, connected, taken, pc, quit, err, received>>
    BY <1>1 DEF Emit
  <2> QED  BY <2>1, <2>2, EmitStep
<1>2. CASE Disconnect
  BY <1>2 DEF Disconnect
<1>3. CASE Unsubscribe
  BY <1>3 DEF Unsubscribe
<1>4. CASE SubErr
  BY <1>4 DEF SubErr
<1>5. CASE Quit
  BY <1>5 DEF Quit
<1>6. CASE UNCHANGED vars
  BY <1>6 DEF vars
<1> QED  BY <1>1, <1>2, <1>3, <1>4, <1>5, <1>6, PushStep, TakeLogStep, ForwardStep DEF Next
-----------------------------------------------------------------------------
\* Every variable keeps its type: the channel never holds more than its size,
\* and the sink gets no event that was not taken from it.
THEOREM TypeCorrect == Spec => []TypeOK
<1>1. Inv => TypeOK
  BY Lengths DEF Inv, TypeInv, SinkInv, TypeOK
<1> QED  BY <1>1, InitInv, NextInv, PTL DEF Spec

\* While a watch runs, whatever the order of emissions, pushes, a lost
\* connection and an Unsubscribe, what the caller got, the event in hand, the
\* channel and the node's queue are one by one what the caller asked for.
THEOREM LosesNothing == Spec => []NothingLost
<1>1. Inv => NothingLost
  <2> SUFFICES ASSUME Inv, pc # "ended"
               PROVE  /\ Len(received) = IF pc = "forward" THEN taken - 1 ELSE taken
                      /\ Len(Wanted) = Len(pushed) + Len(unsent)
                      /\ \A i \in 1..Len(Wanted) :
                           IF i <= Len(received)
                           THEN Wanted[i] = [sound |-> TRUE, fields |-> received[i]]
                           ELSE Reads(event, LogAt(i), Wanted[i])
    BY DEF NothingLost
  <2>1. /\ Len(received) = IF pc = "forward" THEN taken - 1 ELSE taken
        /\ Len(Wanted) = Len(pushed) + Len(unsent)
    BY Lengths DEF Inv, TypeInv, SinkInv, QueueInv
  <2>2. ASSUME NEW i \in 1..Len(Wanted), i <= Len(received)
        PROVE  Wanted[i] = [sound |-> TRUE, fields |-> received[i]]
    <3>1. i \in 1..Len(received)
      BY <2>2, Lengths DEF Inv
    <3> QED  BY <3>1 DEF Inv, ReceivedInv
  <2>3. ASSUME NEW i \in 1..Len(Wanted) PROVE Reads(event, LogAt(i), Wanted[i])
    <3>1. CASE i <= Len(pushed)
      <4>1. i \in 1..Len(pushed) /\ LogAt(i) = pushed[i]
        BY <3>1, Lengths DEF Inv, LogAt
      <4> QED  BY <4>1 DEF Inv, QueueInv
    <3>2. CASE ~(i <= Len(pushed))
      <4> DEFINE j == i - Len(pushed)
      <4>1. /\ j \in 1..Len(unsent) /\ i = Len(pushed) + j
            /\ LogAt(i) = unsent[j]
        BY <2>1, <3>2, Lengths DEF Inv, LogAt
      <4> HIDE DEF j
      <4> QED  BY <4>1 DEF Inv, QueueInv
    <3> QED  BY <3>1, <3>2
  <2> QED  BY <2>1, <2>2, <2>3
<1> QED  BY <1>1, InitInv, NextInv, PTL DEF Spec
-----------------------------------------------------------------------------
(***************************************************************************)
(* The refinement: the sink's receiver takes the next wanted event, or the *)
(* watch ends.                                                             *)
(***************************************************************************)
outcome == IF pc # "ended" THEN "open" ELSE IF err = "nil" THEN "closed" ELSE "failed"

abstract == <<Wanted, Got(received), outcome>>

LEMMA InitDelivery == Init => Delivery!Init
<1> SUFFICES ASSUME Init PROVE Delivery!Init
  OBVIOUS
<1>1. DOMAIN received = {} /\ pc = "select"
  BY DEF Init
<1>2. Got(received) = <<>>
  BY <1>1 DEF Got
<1>3. Wanted \in Seq(Meanings(event)) /\ Len(Wanted) = 0
  BY InitInv, Lengths, EmptySeq DEF Init, Inv, QueueInv
<1>4. Wanted = <<>>
  BY <1>3, EmptySeq
<1> QED  BY <1>1, <1>2, <1>4 DEF Delivery!Init

LEMMA ForwardDelivers ==
  ASSUME Inv, Forward
  PROVE  Delivery!Deliver
<1>1. /\ pc = "forward" /\ pc' = "select"
      /\ received' = Append(received, UnpackLog(event, pushed[taken]))
      /\ Wanted' = Wanted
  BY DEF Forward, node, Wanted
<1>2. /\ taken \in 1..Len(Wanted) /\ Len(received) + 1 = taken
      /\ received \in Seq(Unpacked)
  BY <1>1, InHand DEF Inv, TypeInv
<1>3. Wanted[taken] = [sound |-> TRUE, fields |-> UnpackLog(event, pushed[taken])]
  BY <1>1, InHand
<1>4. UnpackLog(event, pushed[taken]) \in Unpacked
  BY <1>1, InHand
<1>5. Got(received') = Append(Got(received), Wanted[taken])
  BY <1>1, <1>2, <1>3, <1>4, GotAppend
<1>6. Len(Got(received)) = Len(received)
  BY <1>2, GotType
<1>7. /\ Len(Got(received)) < Len(Wanted)
      /\ Wanted[taken] = Wanted[Len(Got(received)) + 1]
  BY <1>2, <1>6, Lengths DEF Inv
<1>8. outcome = "open" /\ outcome' = "open"
  BY <1>1 DEF outcome
<1> QED  BY <1>1, <1>5, <1>7, <1>8 DEF Delivery!Deliver, outcome

LEMMA NextDelivery ==
  ASSUME Inv, [Next]_vars
  PROVE  [Delivery!Emit \/ Delivery!Deliver \/ Delivery!End]_(Delivery!vars)
<1> SUFFICES Delivery!Emit \/ Delivery!Deliver \/ Delivery!End \/ UNCHANGED abstract
  BY DEF Delivery!vars, abstract, outcome
<1>0. UNCHANGED <<event, asked, emitted, received, outcome>> => UNCHANGED abstract
  BY DEF abstract, Wanted, Got
<1>1. CASE Emit
  <2>1. PICK e \in Emissions(event) :
          /\ emitted' = Append(emitted, e)
          /\ unsent' = IF Selects(event, Rules(event.watch, asked), Log(event, e))
                       THEN Append(unsent, Log(event, e)) ELSE unsent
    BY <1>1 DEF Emit
  <2>2. /\ Len(emitted) < MaxEmitted
        /\ UNCHANGED <<event, asked, pushed, connected, taken, pc, quit, err, received>>
    BY <1>1 DEF Emit
  <2>3. Wanted' = Wanted \/ Wanted' = Append(Wanted, Meaning(event, e))
    BY <2>1, <2>2, EmitStep
  <2>4. Got(received)' = Got(received) /\ outcome' = outcome
    BY <2>2 DEF Got, outcome
  <2>5. CASE Wanted' = Wanted
    BY <2>4, <2>5 DEF abstract
  <2>6. CASE Wanted' = Append(Wanted, Meaning(event, e))
    <3>1. Meaning(event, e) \in Meanings(event)
      BY DEF Meanings
    <3>2. IsPrefix(Wanted, Wanted')
      BY <2>6, <3>1, Lengths, AppendIsPrefix DEF Inv
    <3>3. Delivery!IsPrefix(Wanted, Wanted')
      BY <3>2 DEF IsPrefix, Delivery!IsPrefix
    <3> QED  BY <2>4, <3>3 DEF Delivery!Emit, outcome
  <2> QED  BY <2>3, <2>5, <2>6
<1>2. CASE Push
  BY <1>0, <1>2 DEF Push, outcome
<1>3. CASE Disconnect
  BY <1>0, <1>3 DEF Disconnect, outcome
<1>4. CASE Unsubscribe
  BY <1>0, <1>4 DEF Unsubscribe, outcome, node
<1>5. CASE TakeLog
  <2>1. pc = "select" /\ Wanted' = Wanted /\ Got(received)' = Got(received)
    BY <1>5 DEF TakeLog, Wanted, node, Got
  <2>3. pc' = "forward" \/ (pc' = "ended" /\ err' = "unpack")
    BY <1>5 DEF TakeLog
  <2>2. outcome = "open" /\ outcome' \in {"open", "failed"}
    BY <2>1, <2>3 DEF outcome
  <2> QED  BY <2>1, <2>2 DEF Delivery!End, abstract, outcome
<1>6. CASE Forward
  BY <1>6, ForwardDelivers
<1>7. CASE SubErr
  <2>1. /\ pc # "ended" /\ Wanted' = Wanted /\ Got(received)' = Got(received)
        /\ pc' = "ended" /\ err' = "connection"
    BY <1>7 DEF SubErr, Wanted, node, Got
  <2>2. outcome = "open" /\ outcome' = "failed"
    BY <2>1 DEF outcome
  <2> QED  BY <2>1, <2>2 DEF Delivery!End, outcome
<1>8. CASE Quit
  <2>1. /\ pc # "ended" /\ Wanted' = Wanted /\ Got(received)' = Got(received)
        /\ pc' = "ended" /\ err = "nil" /\ err' = err
    BY <1>8 DEF Quit, Inv, SinkInv, Wanted, node, Got
  <2>2. outcome = "open" /\ outcome' = "closed"
    BY <2>1 DEF outcome
  <2> QED  BY <2>1, <2>2 DEF Delivery!End, outcome
<1>9. CASE UNCHANGED vars
  BY <1>0, <1>9 DEF vars, node, outcome
<1> QED  BY <1>1, <1>2, <1>3, <1>4, <1>5, <1>6, <1>7, <1>8, <1>9 DEF Next

\* The events asked for by the parameters' names reach the sink in the order
\* of the chain and without gaps, until the watch fails or is unsubscribed.
THEOREM ImplementsLogDelivery == Spec => DeliversInOrder
<1>1. Inv /\ [Next]_vars
        => [Delivery!Emit \/ Delivery!Deliver \/ Delivery!End]_(Delivery!vars)
  BY NextDelivery
<1> QED  BY <1>1, InitDelivery, InitInv, NextInv, PTL DEF Spec, DeliversInOrder, Delivery!Spec
=============================================================================
