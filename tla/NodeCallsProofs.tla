-------------------------- MODULE NodeCallsProofs --------------------------
(***************************************************************************)
(* Theorems about the three ways to get something from a node, for every   *)
(* set of events, every channel size and everything a contract emits:      *)
(* first about EventIterator, then about the three together, by the        *)
(* theorems of EventWatchProofs and RetryProofs.                           *)
(***************************************************************************)
EXTENDS MCNodeCalls, EventCallsProofs

Unpacked == {UnpackLog(event, logs[i]) : i \in DOMAIN logs}

\* How many logs were received and unpacked.
Good == IF fail THEN taken - 1 ELSE taken

TypeInv ==
  /\ event \in Bindings
  /\ emitted \in Seq(Emissions(event))
  /\ logs \in Seq(Logs(event))
  /\ Len(logs) \in Nat
  /\ DOMAIN logs = 1..Len(logs)
  /\ sent \in Nat
  /\ taken \in Nat
  /\ taken <= sent
  /\ sent <= Len(logs)
  /\ fail => taken >= 1
  /\ producer \in {"none", "running", "ended"}
  /\ closing \in {"no", "waiting", "returned"}
  /\ done \in BOOLEAN
  /\ fail \in BOOLEAN
  /\ returned \in BOOLEAN

\* The node's answer is what the caller asked for.
AnswerInv ==
  producer # "none" =>
    LET wanted == WantedOf(event, asked, emitted)
    IN  /\ Len(logs) = Len(wanted)
        /\ \A i \in 1..Len(wanted) : Reads(event, logs[i], wanted[i])

\* What was delivered is the unpacked beginning of the answer.
DeliveredInv ==
  /\ delivered = [i \in 1..Good |-> UnpackLog(event, logs[i])]
  /\ \A i \in 1..Good : Unpacks(event, logs[i])

\* When Next may stop: after the producer, with the channel empty.
EndInv ==
  /\ producer = "none" => closing = "no" /\ ~fail /\ ~done /\ returned
  /\ producer = "none" => sent = 0
  /\ producer = "ended" => sent = Len(logs) \/ closing # "no"
  /\ done => producer = "ended"
  /\ ~returned /\ ~fail => done /\ taken = sent

Inv == TypeInv /\ AnswerInv /\ DeliveredInv /\ EndInv
-----------------------------------------------------------------------------
(***************************************************************************)
(* The tables of generated functions.                                      *)
(***************************************************************************)
\* The tables index up to three parameters of an event.
LEMMA ShortSequences ==
  \A a, b, c :
    \A s \in {<<>>, <<a>>, <<a, b>>, <<a, b, c>>} : Len(s) \in Nat /\ DOMAIN s = 1..Len(s)
BY EmptySeq

LEMMA RulesOfContract ==
  \A ev \in ProtocolState!Events :
    /\ ev.filter = ev.indexed /\ ev.watch = ev.indexed
    /\ ev.name # "other"
    /\ Len(ev.indexed) \in Nat /\ DOMAIN ev.indexed = 1..Len(ev.indexed)
BY ShortSequences DEF ProtocolState!Events, ProtocolState!Event, ProtocolState!Binding,
        ProtocolState!AdminsUpdated, ProtocolState!BatchSubmissionsCompleted,
        ProtocolState!DailyTaskCompletedEvent, ProtocolState!DataMarketCreated,
        ProtocolState!DayStartedEvent, ProtocolState!DelayedAttestationSubmitted,
        ProtocolState!DelayedBatchSubmitted, ProtocolState!DelayedSnapshotSubmitted,
        ProtocolState!EmergencyWithdraw, ProtocolState!EpochReleased,
        ProtocolState!Initialized, ProtocolState!OwnershipTransferStarted,
        ProtocolState!OwnershipTransferred, ProtocolState!RewardsClaimed,
        ProtocolState!RewardsDistributedEvent, ProtocolState!SequencersUpdated,
        ProtocolState!SnapshotBatchAttestationSubmitted,
        ProtocolState!SnapshotBatchFinalized, ProtocolState!SnapshotBatchSubmitted,
        ProtocolState!SnapshotFinalized, ProtocolState!TriggerBatchResubmission,
        ProtocolState!Upgraded, ProtocolState!ValidatorAttestationsInvalidated,
        ProtocolState!ValidatorsUpdated

LEMMA RulesOfSnapshotterState ==
  \A ev \in SnapshotterState!Events :
    /\ ev.filter = ev.indexed /\ ev.watch = ev.indexed
    /\ ev.name # "other"
    /\ Len(ev.indexed) \in Nat /\ DOMAIN ev.indexed = 1..Len(ev.indexed)
BY ShortSequences DEF SnapshotterState!Events, SnapshotterState!Event, SnapshotterState!Binding,
        SnapshotterState!AdminsUpdated, SnapshotterState!ApprovalForAll,
        SnapshotterState!ConfigurationUpdated, SnapshotterState!Deposit,
        SnapshotterState!EmergencyWithdraw, SnapshotterState!Initialized,
        SnapshotterState!LegacyNodeTokensClaimed, SnapshotterState!NameUpdated,
        SnapshotterState!NodeBurned, SnapshotterState!NodeMinted,
        SnapshotterState!OwnershipTransferStarted,
        SnapshotterState!OwnershipTransferred, SnapshotterState!Paused,
        SnapshotterState!SnapshotterAddressChanged,
        SnapshotterState!SnapshotterStateUpdated,
        SnapshotterState!SnapshotterTokensClaimed, SnapshotterState!TransferBatch,
        SnapshotterState!TransferSingle, SnapshotterState!URI,
        SnapshotterState!URIUpdated, SnapshotterState!Unpaused,
        SnapshotterState!Upgraded, SnapshotterState!AllSnapshottersUpdated

\* For every one of the generated events, and whatever values the caller asks
\* for: a node that compares topics by position with the rules that FilterX,
\* or WatchX, passes on selects a log exactly if the caller asked for it by the
\* parameters' names.
THEOREM GeneratedRulesSelectByName ==
  ASSUME NEW ev \in AllBindings, NEW values, NEW e
  PROVE  /\ Selects(ev, Rules(ev.filter, values), Log(ev, e)) <=> Asks(ev, values, e)
         /\ Selects(ev, Rules(ev.watch, values), Log(ev, e)) <=> Asks(ev, values, e)
<1>1. /\ ev.filter = ev.indexed /\ ev.watch = ev.indexed
      /\ Len(ev.indexed) \in Nat /\ DOMAIN ev.indexed = 1..Len(ev.indexed)
      /\ ev.name # "other"
  BY RulesOfContract, RulesOfSnapshotterState DEF AllBindings
<1> QED  BY <1>1, SelectsByName
-----------------------------------------------------------------------------
\* Receiving a log that is there keeps what was delivered a beginning.
LEMMA ReceiveStep ==
  ASSUME Inv, ~fail, taken < sent, Receive,
         UNCHANGED <<query, logs, sent, producer, closing>>, done' \in BOOLEAN
  PROVE  TypeInv' /\ DeliveredInv' /\ (returned' \/ fail')
<1>1. TypeInv'
  <2>1. fail' \in BOOLEAN /\ returned' \in BOOLEAN /\ taken' = taken + 1
    BY DEF Receive, Inv, TypeInv
  <2> QED  BY <2>1 DEF Inv, TypeInv, query
<1>2. DeliveredInv' /\ (returned' \/ fail')
  <2>1. CASE ~Unpacks(event, logs[taken'])
    <3>1. fail' /\ delivered' = delivered /\ taken' = taken + 1
      BY <2>1 DEF Receive
    <3>2. Good' = taken /\ Good = taken
      BY <3>1 DEF Good, Inv, TypeInv
    <3> QED  BY <3>1, <3>2 DEF Inv, DeliveredInv, query
  <2>2. CASE Unpacks(event, logs[taken'])
    <3> DEFINE x == UnpackLog(event, logs[taken + 1])
    <3>1. /\ ~fail' /\ returned'
          /\ taken' = taken + 1
          /\ delivered' = Append(delivered, x)
      BY <2>2 DEF Receive
    <3>2. Good' = taken + 1 /\ Good = taken /\ taken \in Nat /\ taken + 1 \in DOMAIN logs
      BY <3>1 DEF Good, Inv, TypeInv
    <3>3. delivered \in Seq(Unpacked) /\ Len(delivered) = taken /\ x \in Unpacked
      <4>1. delivered = [i \in 1..taken |-> UnpackLog(event, logs[i])]
        BY <3>2 DEF Inv, DeliveredInv
      <4>2. \A i \in 1..taken : UnpackLog(event, logs[i]) \in Unpacked
        BY <3>2 DEF Inv, TypeInv, Unpacked
      <4>3. delivered \in Seq(Unpacked)
        BY <3>2, <4>1, <4>2, IsASeq
      <4>4. x \in Unpacked
        BY <3>2 DEF Unpacked
      <4> QED  BY <3>2, <4>1, <4>3, <4>4, LenProperties
    <3>4. delivered' = [i \in 1..(taken + 1) |-> UnpackLog(event, logs[i])]
      <4> DEFINE d == Append(delivered, x)
      <4>1. /\ d \in Seq(Unpacked)
            /\ Len(d) = taken + 1
            /\ \A i \in 1..taken : d[i] = delivered[i]
            /\ d[taken + 1] = x
        BY <3>3, AppendProperties
      <4>2. \A i \in 1..(taken + 1) : d[i] = UnpackLog(event, logs[i])
        <5>1. \A i \in 1..taken : delivered[i] = UnpackLog(event, logs[i])
          BY <3>2 DEF Inv, DeliveredInv
        <5>2. \A i \in 1..(taken + 1) : i \in 1..taken \/ i = taken + 1
          BY <3>2
        <5> HIDE DEF d
        <5> QED  BY <4>1, <5>1, <5>2
      <4>3. d = [i \in 1..Len(d) |-> d[i]]
        BY <4>1, LenProperties
      <4> HIDE DEF d
      <4>4. d = [i \in 1..(taken + 1) |-> UnpackLog(event, logs[i])]
        BY <4>1, <4>2, <4>3
      <4> QED  BY <3>1, <4>4 DEF d
    <3>5. \A i \in 1..(taken + 1) : Unpacks(event, logs[i])
      <4>1. \A i \in 1..(taken + 1) : i \in 1..taken \/ i = taken + 1
        BY <3>2
      <4> QED  BY <2>2, <3>1, <3>2, <4>1 DEF Inv, DeliveredInv
    <3> QED  BY <3>1, <3>2, <3>4, <3>5 DEF DeliveredInv, query
  <2> QED  BY <2>1, <2>2
<1> QED  BY <1>1, <1>2

LEMMA InitInv == Init => Inv
<1> SUFFICES ASSUME Init PROVE Inv
  OBVIOUS
<1>1. TypeInv
  <2>1. logs \in Seq(Logs(event)) /\ Len(logs) = 0 /\ DOMAIN logs = 1..0
    BY EmptySeq DEF Init
  <2>2. emitted \in Seq(Emissions(event))
    BY BoundedSeqIsSeq DEF Init
  <2>3. 0 \in Nat /\ 0 <= 0
    OBVIOUS
  <2> QED  BY <2>1, <2>2, <2>3 DEF Init, TypeInv
<1>2. DeliveredInv
  BY DEF Init, DeliveredInv, Good
<1>3. EndInv /\ AnswerInv
  BY DEF Init, EndInv, AnswerInv
<1> QED  BY <1>1, <1>2, <1>3 DEF Inv

\* The two ways a select with a default goes on.
LEMMA DrainStep ==
  ASSUME Inv, ~fail, producer = "ended", Drain, done' = TRUE,
         UNCHANGED <<query, logs, sent, producer, closing>>
  PROVE  Inv'
<1>0. AnswerInv'
  BY DEF Inv, AnswerInv, query
<1>1. CASE taken < sent /\ Receive
  <2>1. TypeInv' /\ DeliveredInv' /\ (returned' \/ fail')
    BY <1>1, ReceiveStep
  <2> QED  BY <1>0, <2>1 DEF Inv, EndInv
<1>2. CASE /\ taken = sent
           /\ returned' = FALSE
           /\ UNCHANGED <<taken, delivered, fail>>
  <2>1. TypeInv' /\ DeliveredInv'
    BY <1>2 DEF Inv, TypeInv, DeliveredInv, Good, query
  <2> QED  BY <1>0, <1>2, <2>1 DEF Inv, EndInv
<1> QED  BY <1>1, <1>2 DEF Drain

LEMMA NextInv == Inv /\ [Next]_vars => Inv'
<1> SUFFICES ASSUME Inv, [Next]_vars PROVE Inv'
  OBVIOUS
<1> USE DEF Inv
<1>1. CASE Filter
  <2>1. /\ logs' = Selected(event, Rules(event.filter, asked), emitted)
        /\ taken = 0 /\ sent = 0
        /\ event.filter = event.indexed
    BY <1>1, RulesFollowTopics DEF Filter, TypeInv, EndInv
  <2>2. TypeInv'
    <3>1. logs' \in Seq(Logs(event))
      BY <2>1, SelectedIsWanted DEF TypeInv
    <3>2. Len(logs') \in Nat /\ DOMAIN logs' = 1..Len(logs')
      BY <3>1, LenProperties
    <3> QED  BY <1>1, <2>1, <3>1, <3>2 DEF Filter, TypeInv, EndInv, query, iterator
  <2>5. AnswerInv'
    BY <1>1, <2>1, SelectedIsWanted DEF Filter, TypeInv, AnswerInv, query
  <2>3. DeliveredInv'
    <3>1. Good = 0 /\ Good' = 0 /\ delivered' = delivered
      BY <1>1, <2>1 DEF Filter, EndInv, Good, iterator
    <3>2. delivered = [i \in 1..0 |-> UnpackLog(event, logs[i])]
      BY <3>1 DEF DeliveredInv
    <3>3. delivered' = [i \in 1..0 |-> UnpackLog(event', logs'[i])]
      BY <3>1, <3>2
    <3> QED  BY <3>1, <3>3 DEF DeliveredInv
  <2>4. EndInv'
    BY <1>1 DEF Filter, EndInv, iterator
  <2> QED  BY <2>2, <2>3, <2>4, <2>5
<1>2. CASE Send
  <2>1. TypeInv'
    BY <1>2 DEF Send, TypeInv, query, iterator
  <2>2. DeliveredInv'
    BY <1>2 DEF Send, DeliveredInv, Good, query, iterator
  <2>3. EndInv'
    BY <1>2 DEF Send, EndInv, iterator
  <2>4. AnswerInv'
    BY <1>2 DEF Send, AnswerInv, query
  <2> QED  BY <2>1, <2>2, <2>3, <2>4
<1>3. CASE ProducerEnds
  BY <1>3 DEF ProducerEnds, TypeInv, AnswerInv, DeliveredInv, EndInv, Good, query, iterator
<1>4. CASE NextFailed
  BY <1>4 DEF NextFailed, TypeInv, AnswerInv, DeliveredInv, EndInv, Good, query
<1>5. CASE NextDone
  BY <1>5, DrainStep DEF NextDone, EndInv, TypeInv
<1>6. CASE NextLog
  <2>1. TypeInv' /\ DeliveredInv' /\ (returned' \/ fail')
    BY <1>6, ReceiveStep DEF NextLog, TypeInv
  <2>2. AnswerInv'
    BY <1>6 DEF NextLog, AnswerInv, query
  <2> QED  BY <1>6, <2>1, <2>2 DEF NextLog, EndInv
<1>7. CASE NextErr
  BY <1>7, DrainStep DEF NextErr
<1>8. CASE Close
  BY <1>8 DEF Close, TypeInv, AnswerInv, DeliveredInv, EndInv, Good, query, iterator
<1>9. CASE CloseReturns
  BY <1>9 DEF CloseReturns, TypeInv, AnswerInv, DeliveredInv, EndInv, Good, query, iterator
<1>10. CASE UNCHANGED vars
  BY <1>10 DEF vars, TypeInv, AnswerInv, DeliveredInv, EndInv, Good, query, iterator
<1> QED  BY <1>1, <1>2, <1>3, <1>4, <1>5, <1>6, <1>7, <1>8, <1>9, <1>10 DEF Next

\* An iteration that ends by itself, without an error, has delivered the whole
\* answer of the node, whatever the size of the channel and whichever case
\* the select of Next prefers.
THEOREM CleanEnd == Spec => []CleanEndIsComplete
<1>1. Inv => CleanEndIsComplete
  <2> SUFFICES ASSUME Inv, ~returned, ~fail, closing = "no"
               PROVE  delivered = [i \in DOMAIN logs |-> UnpackLog(event, logs[i])]
    BY DEF CleanEndIsComplete
  <2>1. Good = Len(logs) /\ DOMAIN logs = 1..Len(logs)
    BY DEF Inv, TypeInv, EndInv, Good
  <2> QED  BY <2>1 DEF Inv, DeliveredInv
<1> QED  BY <1>1, InitInv, NextInv, PTL DEF Spec
-----------------------------------------------------------------------------
\* What was delivered, as a sequence of fields that are wanted.
LEMMA DeliveredType ==
  ASSUME Inv
  PROVE  /\ Good \in 0..taken /\ Good <= Len(logs)
         /\ delivered \in Seq(Unpacked)
         /\ Len(delivered) = Good
<1>1. Good \in 0..taken /\ Good <= Len(logs) /\ Good \in Nat
  BY DEF Good, Inv, TypeInv
<1>2. delivered \in [1..Good -> Unpacked]
  <2>1. \A i \in 1..Good : UnpackLog(event, logs[i]) \in Unpacked
    BY <1>1 DEF Inv, TypeInv, Unpacked
  <2> QED  BY <2>1 DEF Inv, DeliveredInv
<1> QED  BY <1>1, <1>2, FunctionIsSeq

\* Every variable of an iteration keeps its type: the producer is never behind
\* Next, and no event is delivered that was not received.
LEMMA IterationTypes == Spec => []TypeOK
<1>1. Inv => TypeOK
  <2> SUFFICES ASSUME Inv PROVE TypeOK
    OBVIOUS
  <2>1. \A i \in DOMAIN logs : logs[i].sound \in BOOLEAN
    <3> SUFFICES ASSUME NEW i \in DOMAIN logs PROVE logs[i].sound \in BOOLEAN
      OBVIOUS
    <3>1. logs[i] \in Logs(event)
      BY ElementOfSeq DEF Inv, TypeInv
    <3>2. PICK e \in Emissions(event) : logs[i] = Log(event, e)
      BY <3>1 DEF Logs
    <3> QED  BY <3>2, SoundIsBoolean
  <2>2. Len(delivered) \in 0..taken
    BY DeliveredType
  <2>3. sent \in 0..Len(logs) /\ taken \in 0..sent
    BY DEF Inv, TypeInv
  <2> QED  BY <2>1, <2>2, <2>3 DEF TypeOK, Inv, TypeInv
<1> QED  BY <1>1, InitInv, NextInv, PTL DEF Spec
-----------------------------------------------------------------------------
(***************************************************************************)
(* The refinement: FilterX shows all that is wanted, a log that is         *)
(* received and unpacked is a delivery, everything else an end or a        *)
(* stutter.                                                                *)
(***************************************************************************)
outcome ==
  IF fail THEN "failed" ELSE IF closing # "no" THEN "closed"
  ELSE IF returned THEN "open" ELSE "complete"

wanted == WantedOf(event, asked, emitted)

abstract == <<Wanted, Got(delivered), outcome>>

LEMMA InitDelivery == Init => Delivery!Init
<1> SUFFICES ASSUME Init PROVE Delivery!Init
  OBVIOUS
<1>1. Got(delivered) = <<>>
  <2>1. DOMAIN delivered = {}
    BY DEF Init
  <2> QED  BY <2>1 DEF Got
<1> QED  BY <1>1 DEF Init, Delivery!Init, Wanted

LEMMA WantedSeq ==
  ASSUME Inv
  PROVE  wanted \in Seq(Meanings(event)) /\ Len(wanted) \in Nat
<1>1. wanted \in Seq(Meanings(event))
  BY WantedType DEF Inv, TypeInv, wanted
<1> QED  BY <1>1, LenProperties

\* Receiving a log delivers the next wanted event or fails.
LEMMA ReceiveDelivers ==
  ASSUME Inv, producer # "none", ~fail, returned, taken < sent, Receive,
         UNCHANGED <<query, logs, sent, producer, closing>>
  PROVE  Delivery!Deliver \/ Delivery!End
<1> DEFINE k == taken + 1
<1>1. Wanted = wanted /\ Wanted' = wanted
  BY DEF Wanted, wanted, query
<1>2. /\ taken \in Nat /\ k \in 1..Len(logs) /\ k \in 1..Len(wanted)
      /\ Reads(event, logs[k], wanted[k])
  BY DEF Inv, TypeInv, AnswerInv, wanted
<1>3. Good = taken
  BY DEF Good
<1>4. delivered \in Seq(Unpacked) /\ Len(delivered) = taken
  BY <1>3, DeliveredType
<1>5. Got(delivered) \in Seq([sound : BOOLEAN, fields : Unpacked]) /\ Len(Got(delivered)) = taken
  BY <1>4, GotType
<1>6. CASE Unpacks(event, logs[k])
  <2>1. /\ delivered' = Append(delivered, UnpackLog(event, logs[k]))
        /\ returned' /\ ~fail'
    BY <1>6 DEF Receive
  <2>2. wanted[k].sound = TRUE /\ wanted[k].fields = UnpackLog(event, logs[k])
    <3>1. wanted[k] \in Meanings(event)
      BY <1>2, WantedSeq, ElementOfSeq
    <3>2. wanted[k].sound \in BOOLEAN
      BY <3>1, MeaningIsRecord
    <3> QED  BY <1>2, <1>6, <3>2 DEF Reads
  <2>3. wanted[k] = [sound |-> TRUE, fields |-> UnpackLog(event, logs[k])]
    <3>1. wanted[k] \in Meanings(event)
      BY <1>2, WantedSeq, ElementOfSeq
    <3>2. wanted[k] = [sound |-> wanted[k].sound, fields |-> wanted[k].fields]
      BY <3>1, MeaningIsRecord
    <3> QED  BY <2>2, <3>2
  <2>4. UnpackLog(event, logs[k]) \in Unpacked
    BY <1>2 DEF Unpacked, Inv, TypeInv
  <2>5. Got(delivered') = Append(Got(delivered), wanted[k])
    BY <1>4, <2>1, <2>3, <2>4, GotAppend
  <2>6. outcome \in {"open", "closed"} /\ outcome' = outcome
    BY <2>1 DEF outcome
  <2>7. Len(Got(delivered)) < Len(Wanted) /\ wanted[k] = Wanted[Len(Got(delivered)) + 1]
    BY <1>1, <1>2, <1>5, WantedSeq
  <2> QED  BY <1>1, <2>5, <2>6, <2>7 DEF Delivery!Deliver, outcome
<1>7. CASE ~Unpacks(event, logs[k])
  <2>1. fail' /\ delivered' = delivered
    BY <1>7 DEF Receive
  <2>2. outcome # "failed" /\ outcome' = "failed"
    BY <2>1 DEF outcome
  <2> QED  BY <1>1, <2>1, <2>2 DEF Delivery!End, outcome, Got
<1> QED  BY <1>6, <1>7

\* The two ways a select with a default goes on.
LEMMA DrainDelivers ==
  ASSUME Inv, Inv', ~fail, producer = "ended", Drain, done' = TRUE,
         UNCHANGED <<query, logs, sent, producer, closing>>
  PROVE  Delivery!Deliver \/ Delivery!End \/ UNCHANGED abstract
<1>1. CASE taken < sent /\ Receive
  <2>1. taken \in Nat /\ sent \in Nat /\ (~returned => taken = sent)
    BY Zenon DEF Inv, EndInv, TypeInv
  <2>2. producer # "none" /\ taken < sent /\ Receive /\ returned
    BY <1>1, <2>1
  <2> QED  BY <2>2, ReceiveDelivers
<1>2. CASE taken = sent /\ returned' = FALSE /\ UNCHANGED <<taken, delivered, fail>>
  <2>1. Wanted = wanted /\ Wanted' = Wanted /\ Got(delivered)' = Got(delivered)
    BY <1>2 DEF Wanted, wanted, query, Got
  <2>2. CASE closing # "no"
    <3>1. outcome' = outcome
      BY <1>2, <2>2 DEF outcome
    <3> QED  BY <2>1, <3>1 DEF abstract
  <2>3. CASE closing = "no" /\ ~returned
    <3>1. outcome' = outcome
      BY <1>2, <2>3 DEF outcome
    <3> QED  BY <2>1, <3>1 DEF abstract
  <2>4. CASE closing = "no" /\ returned
    <3>1. outcome = "open" /\ outcome' = "complete"
      BY <1>2, <2>4 DEF outcome
    <3>2. taken = Len(logs) /\ Good = taken /\ Len(logs) = Len(wanted)
      BY <1>2, <2>4 DEF Inv, EndInv, AnswerInv, Good, wanted
    <3>3. delivered \in Seq(Unpacked) /\ Len(delivered) = Len(wanted) /\ Len(wanted) \in Nat
      BY <3>2, DeliveredType, WantedSeq
    <3>4. /\ Got(delivered) \in Seq([sound : BOOLEAN, fields : Unpacked])
          /\ Len(Got(delivered)) = Len(wanted)
          /\ DOMAIN delivered = 1..Len(wanted)
      BY <3>3, GotType, LenProperties
    <3>5. ASSUME NEW i \in 1..Len(wanted) PROVE Got(delivered)[i] = wanted[i]
      <4>1. wanted[i] \in Meanings(event)
        BY WantedSeq, ElementOfSeq
      <4>2. /\ wanted[i] = [sound |-> wanted[i].sound, fields |-> wanted[i].fields]
            /\ wanted[i].sound \in BOOLEAN
        BY <4>1, MeaningIsRecord
      <4>3. Reads(event, logs[i], wanted[i]) /\ i \in 1..Good
        BY <3>2 DEF Inv, AnswerInv, wanted
      <4>4. Unpacks(event, logs[i])
        BY <4>3 DEF Inv, DeliveredInv
      <4>5. wanted[i].sound = TRUE /\ wanted[i].fields = delivered[i]
        BY <4>2, <4>3, <4>4 DEF Reads, Inv, DeliveredInv
      <4> QED  BY <3>4, <4>2, <4>5 DEF Got
    <3>6. Got(delivered) = wanted
      <4> DEFINE R == [sound : BOOLEAN, fields : Unpacked] \union Meanings(event)
      <4>1. Got(delivered) \in Seq(R) /\ wanted \in Seq(R)
        BY <3>4, WantedSeq, SeqMonotonic
      <4> HIDE DEF R
      <4> QED  BY <3>4, <3>5, <4>1, SeqEqual
    <3> QED  BY <2>1, <3>1, <3>6 DEF Delivery!End, outcome
  <2> QED  BY <2>2, <2>3, <2>4
<1> QED  BY <1>1, <1>2 DEF Drain

LEMMA NextDelivery ==
  ASSUME Inv, Inv', [Next]_vars
  PROVE  [Delivery!Emit \/ Delivery!Deliver \/ Delivery!End]_(Delivery!vars)
<1> SUFFICES Delivery!Emit \/ Delivery!Deliver \/ Delivery!End \/ UNCHANGED abstract
  BY DEF Delivery!vars, abstract, outcome
<1>0. UNCHANGED <<query, producer, delivered, outcome>> => UNCHANGED abstract
  BY DEF abstract, Wanted, Got, query
<1>1. CASE Filter
  <2>1. Wanted = <<>> /\ Wanted' = wanted
    BY <1>1 DEF Filter, Wanted, wanted, query
  <2>2. IsPrefix(<<>>, wanted)
    BY EmptyIsPrefix, WantedSeq
  <2>3. Got(delivered)' = Got(delivered) /\ outcome' = outcome
    BY <1>1 DEF Filter, iterator, Got, outcome
  <2>4. Delivery!IsPrefix(Wanted, Wanted')
    BY <2>1, <2>2 DEF IsPrefix, Delivery!IsPrefix
  <2> QED  BY <2>3, <2>4 DEF Delivery!Emit, outcome
<1>2. CASE Send
  BY <1>0, <1>2 DEF Send, iterator, outcome
<1>3. CASE ProducerEnds
  <2>1. Wanted' = Wanted
    BY <1>3 DEF ProducerEnds, Wanted, query
  <2> QED  BY <1>3, <2>1 DEF ProducerEnds, iterator, outcome, abstract, Got
<1>4. CASE NextFailed
  BY <1>0, <1>4 DEF NextFailed, outcome
<1>5. CASE NextDone
  BY <1>5, DrainDelivers DEF NextDone, Inv, EndInv, TypeInv
<1>6. CASE NextLog
  <2>1. returned
    BY <1>6 DEF NextLog, Inv, EndInv, TypeInv
  <2> QED  BY <1>6, <2>1, ReceiveDelivers DEF NextLog
<1>7. CASE NextErr
  BY <1>7, DrainDelivers DEF NextErr
<1>8. CASE Close
  <2>1. Wanted' = Wanted /\ Got(delivered)' = Got(delivered) /\ closing' # "no" /\ fail' = fail
    BY <1>8 DEF Close, Wanted, query, iterator, Got
  <2>2. CASE fail
    <3>1. outcome' = outcome
      BY <2>1, <2>2 DEF outcome
    <3> QED  BY <2>1, <3>1 DEF abstract
  <2>3. CASE ~fail
    <3>1. outcome # "failed" /\ outcome' = "closed"
      BY <2>1, <2>3 DEF outcome
    <3> QED  BY <2>1, <3>1 DEF Delivery!End, outcome
  <2> QED  BY <2>2, <2>3
<1>9. CASE CloseReturns
  <2>1. outcome' = outcome
    BY <1>9 DEF CloseReturns, outcome, iterator
  <2> QED  BY <1>0, <1>9, <2>1 DEF CloseReturns, iterator
<1>10. CASE UNCHANGED vars
  BY <1>0, <1>10 DEF vars, iterator, outcome
<1> QED  BY <1>1, <1>2, <1>3, <1>4, <1>5, <1>6, <1>7, <1>8, <1>9, <1>10 DEF Next

\* The caller gets what it asked for by the parameters' names, in the order of
\* the chain and without gaps, until a failure or a Close, or all of it.
THEOREM ImplementsLogDelivery == Spec => DeliversInOrder
<1>1. Inv /\ Inv' /\ [Next]_vars
        => [Delivery!Emit \/ Delivery!Deliver \/ Delivery!End]_(Delivery!vars)
  BY NextDelivery
<1> QED  BY <1>1, InitDelivery, InitInv, NextInv, PTL DEF Spec, DeliversInOrder, Delivery!Spec

-----------------------------------------------------------------------------
(***************************************************************************)
(* The three together.  A behaviour of MCSpec is one of each of the three  *)
(* specifications; the theorems about watching and retrying are those of   *)
(* EventWatchProofs and RetryProofs with this module's variables.          *)
(***************************************************************************)
WatchProofs == INSTANCE EventWatchProofs
                 WITH emitted <- later, taken <- handled, pc <- watchPc

CallProofs == INSTANCE RetryProofs WITH pc <- retryPc

\* The instances that the theorems are about step like those of MCNodeCalls.
LEMMA SameCall ==
  /\ Call!Init => CallProofs!Init
  /\ Call!Next => CallProofs!Next
<1> USE DEF CallProofs!None, Call!None
<1>1. Call!Init => CallProofs!Init
  BY DEF CallProofs!Init, Call!Init, CallProofs!Callers, Call!Callers
<1>2. Call!Change => CallProofs!Change
  BY DEF Call!Change, CallProofs!Change
<1>3. Call!Cancel => CallProofs!Cancel
  BY DEF Call!Cancel, CallProofs!Cancel
<1>4. Call!Expire => CallProofs!Expire
  BY DEF Call!Expire, CallProofs!Expire
<1>5. Call!Ask => CallProofs!Ask
  BY DEF Call!Ask, CallProofs!Ask, Call!MostTries, CallProofs!MostTries, Call!MaxRetries,
     CallProofs!MaxRetries
<1>6. Call!Answered => CallProofs!Answered
  BY DEF Call!Answered, CallProofs!Answered, Call!Stop, CallProofs!Stop, Call!MaxRetries,
     CallProofs!MaxRetries, Call!ReturnError, CallProofs!ReturnError
<1>7. Call!Again => CallProofs!Again
  BY DEF Call!Again, CallProofs!Again
<1>8. Call!GiveUp => CallProofs!GiveUp
  BY DEF Call!GiveUp, CallProofs!GiveUp, Call!ReturnError, CallProofs!ReturnError
<1>9. (\E f \in Call!Callers : Call!Begin(f)) => \E f \in CallProofs!Callers : CallProofs!Begin(f)
  BY DEF Call!Begin, CallProofs!Begin, CallProofs!Callers, Call!Callers
<1>10. Call!Next => CallProofs!Next
  BY <1>2, <1>3, <1>4, <1>5, <1>6, <1>7, <1>8, <1>9
     DEF CallProofs!Next, Call!Next, CallProofs!Step, Call!Step
<1> QED  BY <1>1, <1>10

\* What both have of EventCalls.
LEMMA SameEvents ==
  /\ \A ev, r, l : WatchProofs!Selects(ev, r, l) = Watch!Selects(ev, r, l)
  /\ \A o, a : WatchProofs!Rules(o, a) = Watch!Rules(o, a)
  /\ \A ev, e : WatchProofs!Log(ev, e) = Watch!Log(ev, e)
  /\ \A ev, l : WatchProofs!Unpacks(ev, l) = Watch!Unpacks(ev, l)
  /\ \A ev, l : WatchProofs!UnpackLog(ev, l) = Watch!UnpackLog(ev, l)
  /\ \A ev, a, c : WatchProofs!WantedOf(ev, a, c) = Watch!WantedOf(ev, a, c)
  /\ \A es : WatchProofs!Got(es) = Watch!Got(es)
  /\ \A ev, l, m : WatchProofs!Reads(ev, l, m) = Watch!Reads(ev, l, m)
<1>1. \A p, v : WatchProofs!Topic(p, v) = Watch!Topic(p, v)
  BY DEF WatchProofs!Topic, Watch!Topic
<1>2. \A ev : WatchProofs!Parameters(ev) = Watch!Parameters(ev)
  BY DEF WatchProofs!Parameters, Watch!Parameters, WatchProofs!ToSet, Watch!ToSet
<1>3. \A ev, r, l : WatchProofs!Selects(ev, r, l) = Watch!Selects(ev, r, l)
  BY DEF WatchProofs!Selects, Watch!Selects
<1>4. \A o, a : WatchProofs!Rules(o, a) = Watch!Rules(o, a)
  BY <1>1 DEF WatchProofs!Rules, Watch!Rules
<1>5. \A ev, e : WatchProofs!Log(ev, e) = Watch!Log(ev, e)
  BY <1>1 DEF WatchProofs!Log, Watch!Log, WatchProofs!LogOf, Watch!LogOf
<1>6. \A ev, l : WatchProofs!Unpacks(ev, l) = Watch!Unpacks(ev, l)
  BY DEF WatchProofs!Unpacks, Watch!Unpacks
<1>7. \A ev, l : WatchProofs!UnpackLog(ev, l) = Watch!UnpackLog(ev, l)
  BY <1>2 DEF WatchProofs!UnpackLog, Watch!UnpackLog
<1>8. \A ev, a, e : WatchProofs!Asks(ev, a, e) = Watch!Asks(ev, a, e)
  BY DEF WatchProofs!Asks, Watch!Asks, WatchProofs!Expected, Watch!Expected,
     WatchProofs!ToSet, Watch!ToSet
<1>9. \A ev, e : WatchProofs!Meaning(ev, e) = Watch!Meaning(ev, e)
  BY <1>1, <1>2 DEF WatchProofs!Meaning, Watch!Meaning, WatchProofs!Fields, Watch!Fields,
     WatchProofs!ToSet, Watch!ToSet
<1>10. \A S : WatchProofs!Ascending(S) = Watch!Ascending(S)
  BY Zenon DEF WatchProofs!Ascending, Watch!Ascending, WatchProofs!Cardinality, Watch!Cardinality
<1>11. \A ev, a, c : WatchProofs!WantedOf(ev, a, c) = Watch!WantedOf(ev, a, c)
  BY <1>8, <1>9, <1>10 DEF WatchProofs!WantedOf, Watch!WantedOf
<1>12. \A es : WatchProofs!Got(es) = Watch!Got(es)
  BY DEF WatchProofs!Got, Watch!Got
<1>13. \A ev, l, m : WatchProofs!Reads(ev, l, m) = Watch!Reads(ev, l, m)
  BY <1>6, <1>7 DEF WatchProofs!Reads, Watch!Reads
<1> QED  BY <1>3, <1>4, <1>5, <1>6, <1>7, <1>11, <1>12, <1>13

LEMMA SameWatch ==
  /\ Watch!Init => WatchProofs!Init
  /\ Watch!Next => WatchProofs!Next
<1> USE DEF Watch!node, WatchProofs!node
<1>1. Watch!Init => WatchProofs!Init
  BY DEF Watch!Init, WatchProofs!Init
<1>2. Watch!Emit => WatchProofs!Emit
  BY SameEvents DEF Watch!Emit, WatchProofs!Emit
<1>3. Watch!Push => WatchProofs!Push
  BY DEF Watch!Push, WatchProofs!Push
<1>4. Watch!Disconnect => WatchProofs!Disconnect
  BY DEF Watch!Disconnect, WatchProofs!Disconnect
<1>5. Watch!TakeLog => WatchProofs!TakeLog
  BY SameEvents DEF Watch!TakeLog, WatchProofs!TakeLog
<1>6. Watch!Forward => WatchProofs!Forward
  BY SameEvents DEF Watch!Forward, WatchProofs!Forward
<1>7. Watch!SubErr => WatchProofs!SubErr
  BY DEF Watch!SubErr, WatchProofs!SubErr
<1>8. Watch!Quit => WatchProofs!Quit
  BY DEF Watch!Quit, WatchProofs!Quit
<1>9. Watch!Unsubscribe => WatchProofs!Unsubscribe
  BY DEF Watch!Unsubscribe, WatchProofs!Unsubscribe
<1> QED
  BY <1>1, <1>2, <1>3, <1>4, <1>5, <1>6, <1>7, <1>8, <1>9 DEF Watch!Next, WatchProofs!Next

\* A step of the instance is a step of one of the three.
LEMMA IteratorKeepsQuery == Next => UNCHANGED <<event, asked>>
BY DEF Next, Filter, Send, ProducerEnds, NextFailed, NextDone, NextLog, NextErr, Close,
   CloseReturns, query

LEMMA Steps ==
  ASSUME [MCNext]_all
  PROVE  /\ [Next]_vars
         /\ [WatchProofs!Next]_(WatchProofs!vars)
         /\ [CallProofs!Next]_(CallProofs!vars)
<1> USE DEF query, iterator, watching, retrying
<1>1. [Next]_vars
  <2>1. Watch!Next => UNCHANGED <<event, asked>>
    BY DEF Watch!Next, Watch!Emit, Watch!Push, Watch!Disconnect, Watch!Unsubscribe,
       Watch!TakeLog, Watch!Forward, Watch!SubErr, Watch!Quit
  <2> QED  BY <2>1 DEF MCNext, Iterating, Watching, Retrying, all, vars
<1>2. [WatchProofs!Next]_(WatchProofs!vars)
  BY SameWatch, IteratorKeepsQuery
     DEF MCNext, Iterating, Watching, Retrying, all, vars, WatchProofs!vars, WatchProofs!node
<1>3. [CallProofs!Next]_(CallProofs!vars)
  BY SameCall DEF MCNext, Iterating, Watching, Retrying, all, CallProofs!vars
<1> QED  BY <1>1, <1>2, <1>3

\* A behaviour of the three is a behaviour of each: they share no state, and
\* each stays as it is in the steps of the others.
THEOREM ThreeInOne == MCSpec => Spec /\ WatchProofs!Spec /\ CallProofs!Spec
<1>1. MCInit => Init /\ WatchProofs!Init /\ CallProofs!Init
  BY SameWatch, SameCall DEF MCInit
<1>2. [MCNext]_all => [Next]_vars /\ [WatchProofs!Next]_(WatchProofs!vars)
                        /\ [CallProofs!Next]_(CallProofs!vars)
  BY Steps
<1> QED  BY <1>1, <1>2, PTL DEF MCSpec, Spec, WatchProofs!Spec, CallProofs!Spec

\* The theorems of the other modules, with their assumptions discharged.
LEMMA SameAssumption == WatchProofs!EventCallsAssumption /\ WatchProofs!RulesFollowTopics
<1>1. \A ev : WatchProofs!Parameters(ev) = Parameters(ev)
  BY DEF WatchProofs!Parameters, Parameters, WatchProofs!ToSet, ToSet
<1> QED  BY <1>1, EventCallsAssumption, RulesFollowTopics

LEMMA WatchTypes == WatchProofs!Spec => []WatchProofs!TypeOK
BY WatchProofs!TypeCorrect, SameAssumption

LEMMA WatchKeepsAll == WatchProofs!Spec => []WatchProofs!NothingLost
BY WatchProofs!LosesNothing, SameAssumption

LEMMA WatchDelivers == WatchProofs!Spec => WatchProofs!DeliversInOrder
BY WatchProofs!ImplementsLogDelivery, SameAssumption

LEMMA CallIsOne == CallProofs!Spec => CallProofs!IsOneCall
BY CallProofs!ImplementsOneCall, NilAssumption
-----------------------------------------------------------------------------
\* Whatever way is taken, every variable keeps its type: no log is received
\* before it was sent, and no event reaches the caller before its log.
THEOREM AllTypesCorrect == MCSpec => []AllTypesOK
<1>1. TypeOK /\ WatchProofs!TypeOK /\ CallProofs!TypeOK => AllTypesOK
  BY DEF AllTypesOK, Watch!TypeOK, WatchProofs!TypeOK, Call!TypeOK, CallProofs!TypeOK,
     Call!Callers, CallProofs!Callers, Call!Reply, CallProofs!Reply, Call!MaxRetries,
     CallProofs!MaxRetries
<1> QED  BY <1>1, ThreeInOne, IterationTypes, WatchTypes, CallProofs!TypeCorrect, PTL

\* While a watch runs, what the caller got, the event in the goroutine's hands,
\* the channel and the node's queue are one by one what the caller asked for.
THEOREM WatchLosesNothing == MCSpec => []NothingLost
<1>1. \A i : WatchProofs!LogAt(i) = Watch!LogAt(i)
  BY DEF WatchProofs!LogAt, Watch!LogAt
<1>2. WatchProofs!NothingLost => NothingLost
  BY <1>1, SameEvents DEF NothingLost, WatchProofs!NothingLost, Watch!NothingLost,
     Watch!Wanted, WatchProofs!Wanted
<1> QED  BY <1>2, ThreeInOne, WatchKeepsAll, PTL

\* The events reach the sink of a watch in the order of the chain and without
\* gaps, and a log that cannot be unpacked ends the watch with an error.
THEOREM WatchImplementsLogDelivery == MCSpec => WatchDeliversInOrder
<1> USE SameEvents DEF Watch!Wanted, WatchProofs!Wanted
<1>1. WatchProofs!Delivery!Init => Watch!Delivery!Init
  BY DEF WatchProofs!Delivery!Init, Watch!Delivery!Init
<1>2. WatchProofs!Delivery!Emit => Watch!Delivery!Emit
  BY DEF WatchProofs!Delivery!Emit, Watch!Delivery!Emit, WatchProofs!Delivery!IsPrefix,
     Watch!Delivery!IsPrefix
<1>3. WatchProofs!Delivery!Deliver => Watch!Delivery!Deliver
  BY DEF WatchProofs!Delivery!Deliver, Watch!Delivery!Deliver
<1>4. WatchProofs!Delivery!End => Watch!Delivery!End
  BY DEF WatchProofs!Delivery!End, Watch!Delivery!End
<1>5. UNCHANGED WatchProofs!Delivery!vars => UNCHANGED Watch!Delivery!vars
  BY DEF WatchProofs!Delivery!vars, Watch!Delivery!vars
<1> QED
  BY <1>1, <1>2, <1>3, <1>4, <1>5, ThreeInOne, WatchDelivers, PTL
     DEF WatchProofs!DeliversInOrder, WatchProofs!Delivery!Spec, WatchDeliversInOrder,
         Watch!DeliversInOrder, Watch!Delivery!Spec

\* backoff.Retry returns an error only after every chance its policy gives.
THEOREM RetryFailsLate == MCSpec => []NoEarlyFailure
<1>1. CallProofs!NoEarlyFailure => NoEarlyFailure
  BY DEF NoEarlyFailure, CallProofs!NoEarlyFailure, Call!NoEarlyFailure, Call!MaxRetries,
     CallProofs!MaxRetries
<1> QED  BY <1>1, ThreeInOne, CallProofs!FailsLate, PTL

\* Once its caller's context is done, MustQuery begins at most one attempt.
THEOREM RetryLetsGo == MCSpec => []CancelStops
<1>1. CallProofs!CancelStops => CancelStops
  BY DEF CancelStops, CallProofs!CancelStops, Call!CancelStops
<1> QED  BY <1>1, ThreeInOne, CallProofs!LetsGo, PTL

\* All the attempts of a call that retries are together one read of the node,
\* at one moment of the call, or an error without a value.
THEOREM RetryIsOneCall == MCSpec => IsOneCall
<1>1. CallProofs!Atomic!Init => Call!Atomic!Init
  BY DEF CallProofs!Atomic!Init, Call!Atomic!Init
<1>2. CallProofs!Atomic!Change => Call!Atomic!Change
  BY DEF CallProofs!Atomic!Change, Call!Atomic!Change
<1>3. CallProofs!Atomic!Begin => Call!Atomic!Begin
  BY DEF CallProofs!Atomic!Begin, Call!Atomic!Begin
<1>4. CallProofs!Atomic!Read => Call!Atomic!Read
  BY DEF CallProofs!Atomic!Read, Call!Atomic!Read
<1>5. CallProofs!Atomic!Return => Call!Atomic!Return
  BY DEF CallProofs!Atomic!Return, Call!Atomic!Return
<1>6. UNCHANGED CallProofs!Atomic!vars => UNCHANGED Call!Atomic!vars
  BY DEF CallProofs!Atomic!vars, Call!Atomic!vars
<1> QED
  BY <1>1, <1>2, <1>3, <1>4, <1>5, <1>6, ThreeInOne, CallIsOne, PTL
     DEF CallProofs!IsOneCall, CallProofs!Atomic!Spec, IsOneCall, Call!IsOneCall,
         Call!Atomic!Spec

\* The iteration, as the run states it: a clean end is complete ...
THEOREM IterationComplete == MCSpec => []CleanEndIsComplete
BY ThreeInOne, CleanEnd, PTL

\* ... and events are delivered in the chain's order and without gaps.
THEOREM IterationDelivers == MCSpec => DeliversInOrder
BY ThreeInOne, ImplementsLogDelivery, PTL
=============================================================================
