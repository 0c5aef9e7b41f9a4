---------------------------- MODULE RetryProofs ----------------------------
(***************************************************************************)
(* Theorems about Retry, for every set of answers a node can give: what    *)
(* the callers of backoff.Retry get back, and that all attempts together   *)
(* are one call in the sense of OneCall.                                   *)
(***************************************************************************)
EXTENDS Retry, TLAPS

\* An answer is on its way between an attempt and the operation's return.
ReplyInv ==
  /\ pc # "asked" => reply = None
  /\ pc = "asked" => reply.err \/ reply.val \in Values

\* Only MustQuery can be cancelled, and the others stop counting in time.
PolicyInv ==
  /\ cancelled => caller = "MustQuery"
  /\ caller # "MustQuery" => tries <= MaxRetries + (IF pc \in {"attempt", "wait"} THEN 0 ELSE 1)

\* After an attempt that began too late the operation's return ends it all.
LateInv ==
  /\ pc \in {"attempt", "wait"} => late = 0
  /\ pc = "asked" /\ late > 0 => cancelled
  /\ late <= 1

Inv == TypeOK /\ ReplyInv /\ PolicyInv /\ LateInv /\ NoEarlyFailure
-----------------------------------------------------------------------------
LEMMA ReplyTypes ==
  /\ None \in Reply /\ None.err = FALSE /\ None.val = Nil
  /\ \A v \in Values \union {Nil}, b \in BOOLEAN : [val |-> v, err |-> b] \in Reply
BY DEF None, Reply

LEMMA InitInv == Init => Inv
<1> SUFFICES ASSUME Init PROVE Inv
  OBVIOUS
<1>1. TypeOK
  <2>1. 0 \in 0..(MaxRetries + 1) /\ 0 \in Nat
    BY DEF MaxRetries
  <2> QED  BY <2>1, ReplyTypes, Zenon DEF Init, TypeOK
<1>2. ReplyInv /\ NoEarlyFailure
  BY ReplyTypes DEF Init, ReplyInv, NoEarlyFailure
<1>3. PolicyInv /\ LateInv
  BY DEF Init, PolicyInv, LateInv, MaxRetries
<1> QED  BY <1>1, <1>2, <1>3 DEF Inv

LEMMA AskStep ==
  ASSUME Inv, Ask
  PROVE  Inv'
<1>1. /\ pc = "attempt" /\ pc' = "asked"
      /\ UNCHANGED <<world, caller, captured, expired, cancelled, result>>
  BY DEF Ask
<1>2. tries' = IF tries < MostTries(caller) THEN tries + 1 ELSE tries
  BY DEF Ask
<1>3. tries \in 0..4 /\ tries' \in 0..4 /\ (caller # "MustQuery" => tries' <= 4)
  BY <1>1, <1>2 DEF MostTries, MaxRetries, Inv, TypeOK, PolicyInv
<1>4. reply' \in Reply /\ (reply'.err \/ reply'.val \in Values)
  <2>1. CASE reply' = [val |-> world, err |-> FALSE]
    BY <2>1, ReplyTypes DEF Inv, TypeOK
  <2>2. CASE reply' \in {[val |-> v, err |-> TRUE] : v \in {world, Nil}}
    <3>1. PICK v \in {world, Nil} : reply' = [val |-> v, err |-> TRUE]
      BY <2>2
    <3> QED  BY <3>1, ReplyTypes DEF Inv, TypeOK
  <2> QED  BY <2>1, <2>2 DEF Ask
<1>5. late' \in Nat /\ late' <= 1 /\ (late' > 0 => cancelled)
  BY <1>1 DEF Ask, Inv, TypeOK, LateInv
<1>6. TypeOK'
  BY <1>1, <1>3, <1>4, <1>5 DEF Inv, TypeOK, MaxRetries
<1>7. ReplyInv' /\ NoEarlyFailure'
  BY <1>1, <1>4 DEF ReplyInv, NoEarlyFailure
<1>8. PolicyInv' /\ LateInv'
  BY <1>1, <1>3, <1>5 DEF Inv, PolicyInv, LateInv, MaxRetries
<1> QED  BY <1>6, <1>7, <1>8 DEF Inv

LEMMA AnsweredStep ==
  ASSUME Inv, Answered
  PROVE  Inv'
<1>1. /\ pc = "asked" /\ reply \in Reply /\ reply' = None /\ captured' = reply.val
      /\ UNCHANGED <<world, caller, tries, expired, cancelled, late>>
  BY DEF Answered, Inv, TypeOK
<1>2. reply.val \in Values \union {Nil} /\ reply.err \in BOOLEAN
  BY <1>1 DEF Reply
<1>3. \/ ~reply.err /\ pc' = "idle" /\ result' = [val |-> reply.val, err |-> FALSE]
      \/ reply.err /\ Stop /\ pc' = "idle" /\ result' = [val |-> Nil, err |-> TRUE]
      \/ reply.err /\ ~Stop /\ pc' = "wait" /\ result' = result
  BY <1>1 DEF Answered, ReturnError
<1>4. result' \in Reply
  BY <1>2, <1>3, ReplyTypes DEF Inv, TypeOK
<1>5. TypeOK'
  BY <1>1, <1>2, <1>3, <1>4, ReplyTypes DEF Inv, TypeOK
<1>6. ReplyInv'
  BY <1>1, <1>3 DEF ReplyInv
<1>7. pc' = "wait" => late = 0 /\ (caller # "MustQuery" => tries <= MaxRetries)
  <2>1. pc' = "wait" => ~Stop /\ (cancelled => caller = "MustQuery")
    BY <1>3 DEF Inv, PolicyInv
  <2>2. /\ tries \in 0..4
        /\ late \in Nat /\ (late > 0 => cancelled)
    BY <1>1 DEF Inv, TypeOK, LateInv, MaxRetries
  <2> QED  BY <2>1, <2>2 DEF Stop, MaxRetries
<1>8. PolicyInv' /\ LateInv'
  BY <1>1, <1>3, <1>7 DEF Inv, TypeOK, PolicyInv, LateInv, MaxRetries
<1>9. NoEarlyFailure'
  <2> SUFFICES ASSUME pc' = "idle", result'.err
               PROVE  IF caller = "MustQuery" THEN expired \/ cancelled
                                              ELSE tries = MaxRetries + 1
    BY <1>1 DEF NoEarlyFailure
  <2>1. Stop
    BY <1>3
  <2>2. caller # "MustQuery" => tries <= MaxRetries + 1
    BY <1>1 DEF Inv, PolicyInv, MaxRetries
  <2> QED  BY <2>1, <2>2 DEF Stop, MaxRetries, Inv, TypeOK
<1> QED  BY <1>5, <1>6, <1>8, <1>9 DEF Inv

LEMMA NextInv == Inv /\ [Next]_vars => Inv'
<1> SUFFICES ASSUME Inv, [Next]_vars PROVE Inv'
  OBVIOUS
<1>0. 0 \in 0..(MaxRetries + 1) /\ 0 \in Nat
  BY DEF MaxRetries
<1> USE DEF Inv, TypeOK, ReplyInv, PolicyInv, LateInv, NoEarlyFailure, MaxRetries
<1>1. CASE Change
  BY <1>1 DEF Change
<1>2. ASSUME NEW f \in Callers, Begin(f) PROVE Inv'
  <2>1. cancelled' \in BOOLEAN /\ (cancelled' => f = "MustQuery")
    BY <1>2 DEF Begin
  <2>2. pc' = "attempt" /\ tries' = 0 /\ late' = 0 /\ caller' = f
    BY <1>2 DEF Begin
  <2>3. TypeOK'
    BY <1>0, <1>2, <2>1, <2>2, Zenon DEF Begin
  <2>4. ReplyInv' /\ NoEarlyFailure'
    BY <1>2 DEF Begin
  <2>5. PolicyInv' /\ LateInv'
    BY <2>1, <2>2
  <2> QED  BY <2>3, <2>4, <2>5
<1>3. CASE Cancel
  BY <1>3 DEF Cancel
<1>4. CASE Expire
  BY <1>4 DEF Expire
<1>5. CASE Again
  BY <1>5 DEF Again
<1>6. CASE GiveUp
  BY <1>6, ReplyTypes DEF GiveUp, ReturnError
<1>7. CASE UNCHANGED vars
  BY <1>7 DEF vars
<1> QED  BY <1>1, <1>2, <1>3, <1>4, <1>5, <1>6, <1>7, AskStep, AnsweredStep DEF Next, Step
-----------------------------------------------------------------------------
\* Every variable keeps its type.
THEOREM TypeCorrect == Spec => []TypeOK
<1>1. Inv => TypeOK
  BY DEF Inv
<1> QED  BY <1>1, InitInv, NextInv, PTL DEF Spec

\* Whatever the node answers and whenever it changes, a caller is given an
\* error only after its policy's last chance.
THEOREM FailsLate == Spec => []NoEarlyFailure
<1>1. Inv => NoEarlyFailure
  BY DEF Inv
<1> QED  BY <1>1, InitInv, NextInv, PTL DEF Spec

\* MustQuery begins at most one attempt after its context is done, in every
\* order of the delay's end, the cancellation and the answer.
THEOREM LetsGo == Spec => []CancelStops
<1>1. Inv => CancelStops
  BY DEF Inv, LateInv, CancelStops
<1> QED  BY <1>1, InitInv, NextInv, PTL DEF Spec
-----------------------------------------------------------------------------
(***************************************************************************)
(* The refinement: a successful Ask is the read of the node, a failing one *)
(* and everything between two attempts a stutter.                          *)
(***************************************************************************)
LEMMA InitOneCall == Init => Atomic!Init
BY ReplyTypes DEF Init, Atomic!Init, None

LEMMA NextOneCall ==
  ASSUME Nil \notin Values, Inv, [Next]_vars
  PROVE  [Atomic!Change \/ Atomic!Begin \/ Atomic!Read \/ Atomic!Return]_(Atomic!vars)
<1> USE DEF Inv, TypeOK, ReplyInv
<1>1. CASE Change
  BY <1>1 DEF Change, Atomic!Change
<1>2. ASSUME NEW f \in Callers, Begin(f) PROVE Atomic!Begin
  BY <1>2 DEF Begin, Atomic!Begin
<1>3. CASE Cancel
  BY <1>3 DEF Cancel, Atomic!vars
<1>4. CASE Expire
  BY <1>4 DEF Expire, Atomic!vars
<1>5. CASE Ask
  <2>1. pc = "attempt" /\ pc' = "asked" /\ world' = world /\ result' = result
    BY <1>5 DEF Ask
  <2>2. ~reply.err /\ reply.val = Nil
    BY <2>1, ReplyTypes
  <2>3. CASE reply' = [val |-> world, err |-> FALSE]
    <3>1. Atomic!Read
      BY <2>1, <2>2, <2>3 DEF Atomic!Read
    <3> QED  BY <3>1
  <2>4. CASE reply' \in {[val |-> v, err |-> TRUE] : v \in {world, Nil}}
    <3>1. reply'.err
      BY <2>4
    <3> QED  BY <2>1, <2>2, <3>1 DEF Atomic!vars
  <2> QED  BY <1>5, <2>3, <2>4 DEF Ask
<1>6. CASE Answered
  <2>1. /\ pc = "asked" /\ reply' = None /\ world' = world
        /\ captured' = reply.val
        /\ ~None.err /\ None.val = Nil
    BY <1>6, ReplyTypes DEF Answered
  <2>2. CASE ~reply.err
    <3>1. pc' = "idle" /\ result' = [val |-> reply.val, err |-> FALSE]
      BY <1>6, <2>1, <2>2 DEF Answered
    <3>2. reply.val # Nil
      BY <2>1, <2>2
    <3> QED  BY <2>1, <2>2, <3>1, <3>2 DEF Atomic!Return
  <2>3. CASE reply.err /\ pc' = "idle"
    <3>1. result' = [val |-> Nil, err |-> TRUE]
      BY <1>6, <2>1, <2>3 DEF Answered, ReturnError
    <3> QED  BY <2>1, <2>3, <3>1 DEF Atomic!Return
  <2>4. CASE reply.err /\ pc' # "idle"
    <3>1. pc' = "wait" /\ result' = result
      BY <1>6, <2>4 DEF Answered
    <3> QED  BY <2>1, <2>4, <3>1 DEF Atomic!vars
  <2> QED  BY <2>2, <2>3, <2>4
<1>7. CASE Again
  BY <1>7 DEF Again, Atomic!vars
<1>8. CASE GiveUp
  <2>1. reply = None /\ reply' = reply /\ pc = "wait" /\ pc' = "idle"
        /\ result' = [val |-> Nil, err |-> TRUE] /\ world' = world
    BY <1>8 DEF GiveUp, ReturnError
  <2> QED  BY <2>1, ReplyTypes DEF Atomic!Return
<1>9. CASE UNCHANGED vars
  BY <1>9 DEF vars, Atomic!vars
<1> QED  BY <1>1, <1>2, <1>3, <1>4, <1>5, <1>6, <1>7, <1>8, <1>9 DEF Next, Step

\* All the attempts of a call together are one read of the node at a moment of
\* the call, or an error without a value.  A zero value that a node could
\* answer would be taken for none, so it is not among the values.
THEOREM ImplementsOneCall == ASSUME Nil \notin Values PROVE Spec => IsOneCall
<1>1. Inv /\ [Next]_vars
        => [Atomic!Change \/ Atomic!Begin \/ Atomic!Read \/ Atomic!Return]_(Atomic!vars)
  BY NextOneCall
<1> QED  BY <1>1, InitOneCall, InitInv, NextInv, PTL DEF Spec, IsOneCall, Atomic!Spec
=============================================================================
