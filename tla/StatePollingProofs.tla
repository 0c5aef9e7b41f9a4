------------------------- MODULE StatePollingProofs -------------------------
(***************************************************************************)
(* Theorems about StatePolling, for every list of data markets, every lag  *)
(* of the RPC nodes and any number of changes, failures and crashes.       *)
(***************************************************************************)
EXTENDS StatePolling, SequenceTheorems, TLAPS

(***************************************************************************)
(* The rounds of the state pollers, for every list of data markets.        *)
(***************************************************************************)

LEMMA MarketsType ==
  /\ Len(DataMarketContractAddresses) \in Nat
  /\ DOMAIN DataMarketContractAddresses = 1..Len(DataMarketContractAddresses)
  /\ \A i \in 1..Len(DataMarketContractAddresses) :
       DataMarketContractAddresses[i] \in Markets
BY StateVariablesAssumption, LenProperties

\* Position n of the static round is about market (n - 1) \div 3 + 1.
LEMMA StaticPosition ==
  ASSUME NEW n \in 1..(3 * Len(DataMarketContractAddresses))
  PROVE  /\ ((n - 1) % 3) + 1 \in 1..3
         /\ ((n - 1) \div 3) + 1 \in 1..Len(DataMarketContractAddresses)
BY MarketsType

LEMMA StaticRoundType ==
  /\ StaticStateVariables \in Seq(StaticKeys)
  /\ Len(StaticStateVariables) = 3 * Len(DataMarketContractAddresses)
<1> DEFINE L == 3 * Len(DataMarketContractAddresses)
           Read(n) == <<Static[((n - 1) % 3) + 1],
                        DataMarketContractAddresses[((n - 1) \div 3) + 1]>>
<1>1. L \in Nat
  BY MarketsType
<1>2. ASSUME NEW n \in 1..L PROVE Read(n) \in StaticKeys
  <2>1. Static[((n - 1) % 3) + 1] \in {Static[i] : i \in DOMAIN Static}
    BY StaticPosition DEF Static
  <2>2. DataMarketContractAddresses[((n - 1) \div 3) + 1] \in Markets
    BY StaticPosition, MarketsType
  <2> QED  BY <2>1, <2>2 DEF StaticKeys
<1>3. StaticStateVariables = [n \in 1..L |-> Read(n)]
  BY DEF StaticStateVariables
<1>4. StaticStateVariables \in Seq(StaticKeys) /\ Len(StaticStateVariables) = L
  <2> HIDE DEF L, Read
  <2> QED  BY <1>1, <1>2, <1>3
<1> QED  BY <1>4

LEMMA DynamicRoundType ==
  /\ DynamicStateVariables \in Seq(DynamicKeys)
  /\ Len(DynamicStateVariables) = 1 + 2 * Len(DataMarketContractAddresses)
<1> DEFINE L == Len(DataMarketContractAddresses)
<1>1. DayCounters = [n \in 1..L |-> DayCounterOf(DataMarketContractAddresses[n])]
  BY MarketsType DEF DayCounters
<1>2. Quotas = [n \in 1..L |-> QuotaOf(DataMarketContractAddresses[n])]
  BY MarketsType DEF Quotas
<1>3. DayCounters \in Seq(DynamicKeys) /\ Len(DayCounters) = L
  <2>1. \A n \in 1..L : DayCounterOf(DataMarketContractAddresses[n]) \in DynamicKeys
    BY MarketsType DEF DynamicKeys
  <2> QED  BY <1>1, <2>1, MarketsType
<1>4. Quotas \in Seq(DynamicKeys) /\ Len(Quotas) = L
  <2>1. \A n \in 1..L : QuotaOf(DataMarketContractAddresses[n]) \in DynamicKeys
    BY MarketsType DEF DynamicKeys
  <2> QED  BY <1>2, <2>1, MarketsType
<1>5. <<TotalNodes>> \in Seq(DynamicKeys) /\ Len(<<TotalNodes>>) = 1
  BY DEF DynamicKeys
<1>6. /\ <<TotalNodes>> \o DayCounters \in Seq(DynamicKeys)
      /\ Len(<<TotalNodes>> \o DayCounters) = 1 + L
  BY <1>3, <1>5, ConcatProperties
<1>7. /\ (<<TotalNodes>> \o DayCounters) \o Quotas \in Seq(DynamicKeys)
      /\ Len((<<TotalNodes>> \o DayCounters) \o Quotas) = (1 + L) + L
  BY <1>4, <1>6, ConcatProperties
<1>8. DynamicStateVariables = (<<TotalNodes>> \o DayCounters) \o Quotas
  BY DEF DynamicStateVariables
<1> QED  BY <1>7, <1>8, MarketsType

\* A static variable is not a dynamic one.
LEMMA KeysDisjoint == StaticKeys \cap DynamicKeys = {}
<1>1. \A k \in StaticKeys : k[1] \in {"epochsInADay", "EPOCH_SIZE", "SOURCE_CHAIN_BLOCK_TIME"}
  BY DEF StaticKeys, Static
<1>2. \A k \in DynamicKeys : k[1] \in {"totalNodesCount", "dayCounter", "dailySnapshotQuota"}
  BY DEF DynamicKeys, TotalNodes, DayCounterOf, QuotaOf
<1> QED  BY <1>1, <1>2

-----------------------------------------------------------------------------

\* The answer that a poller holds came from the variable it is at.
PendingInv ==
  \A p \in Callers : poller[p].val # Absent =>
    InRound(p) /\ poller[p].val \in 0..contract[Variable(p)]

StoreInv ==
  \A k \in Keys : store[k] # Absent => store[k] \in 0..contract[k]

\* With RPC nodes that are up to date it is no older than what Redis holds.
OrderInv ==
  lag = 0 => \A p \in Callers : poller[p].val # Absent =>
    store[Variable(p)] <= poller[p].val

Inv == TypeOK /\ PendingInv /\ StoreInv /\ OrderInv
-----------------------------------------------------------------------------
LEMMA RoundType ==
  ASSUME NEW p \in Callers
  PROVE  /\ Len(Round(p)) \in Nat
         /\ DOMAIN Round(p) = 1..Len(Round(p))
         /\ \A n \in DOMAIN Round(p) : Round(p)[n] \in Keys
<1>1. /\ Len(StaticStateVariables) \in Nat
      /\ DOMAIN StaticStateVariables = 1..Len(StaticStateVariables)
      /\ \A n \in DOMAIN StaticStateVariables : StaticStateVariables[n] \in StaticKeys
  BY StaticRoundType, LenProperties
<1>2. /\ Len(DynamicStateVariables) \in Nat
      /\ DOMAIN DynamicStateVariables = 1..Len(DynamicStateVariables)
      /\ \A n \in DOMAIN DynamicStateVariables : DynamicStateVariables[n] \in DynamicKeys
  BY DynamicRoundType, LenProperties
<1> QED  BY <1>1, <1>2 DEF Round, Keys

\* Two pollers at work are at different variables.
LEMMA OnePollerPerKey ==
  ASSUME TypeOK, NEW p \in Callers, NEW q \in Callers, p # q, InRound(p), InRound(q)
  PROVE  Variable(p) # Variable(q)
<1>1. poller[p].pos # 0 /\ poller[q].pos # 0
  BY RoundType DEF InRound, TypeOK
<1>2. \/ p = "DynamicStateSync" /\ q = "StaticStateSync"
      \/ p = "StaticStateSync" /\ q = "DynamicStateSync"
  BY <1>1 DEF TypeOK, Callers
<1>3. \A n \in DOMAIN StaticStateVariables : StaticStateVariables[n] \in StaticKeys
  BY StaticRoundType, LenProperties
<1>4. \A n \in DOMAIN DynamicStateVariables : DynamicStateVariables[n] \in DynamicKeys
  BY DynamicRoundType, LenProperties
<1> QED  BY <1>2, <1>3, <1>4, KeysDisjoint DEF Variable, InRound, Round

LEMMA SendType ==
  ASSUME AlertsTypeOK, NEW name \in ProcessNames, SendFailureNotification(name)
  PROVE  AlertsTypeOK'
BY DEF AlertsTypeOK, SendFailureNotification

\* A write changes the one key the answer is for, or nothing.
LEMMA StoreEffect ==
  ASSUME AlertsTypeOK, NEW p \in Callers, Store(p)
  PROVE  /\ AlertsTypeOK'
         /\ \/ store' = store
            \/ store' = [store EXCEPT ![Variable(p)] = poller[p].val]
<1>1. CASE HSet(KeyFor(p), poller[p].val)
  BY <1>1 DEF HSet, KeyFor, Stored, AlertsTypeOK
<1>2. CASE PersistState(store, KeyFor(p), poller[p].val)
  <2>1. CASE store' = Stored(store, KeyFor(p), poller[p].val) /\ UNCHANGED alerts
    BY <2>1 DEF KeyFor, Stored, AlertsTypeOK
  <2>2. CASE /\ store' \in {store, Stored(store, KeyFor(p), poller[p].val)}
             /\ SendFailureNotification("PersistState")
    BY <2>2, SendType DEF KeyFor, Stored, ProcessNames
  <2> QED  BY <1>2, <2>1, <2>2 DEF PersistState
<1> QED  BY <1>1, <1>2 DEF Store
-----------------------------------------------------------------------------
LEMMA InitInv == Init => Inv
<1> SUFFICES ASSUME Init PROVE Inv
  OBVIOUS
<1>1. \A p \in Callers : poller[p] \in [pos : Nat, val : Nat \union {Absent}]
                         /\ poller[p].val = Absent /\ poller[p].pos \in {0, 1}
                         /\ (poller[p].pos # 0 <=> p = "main")
  BY DEF Init, Waiting, Absent
<1>2. TypeOK
  <2>1. \A p \in Callers : poller[p].pos <= Len(Round(p)) + 1
    BY <1>1, RoundType
  <2>2. AlertsTypeOK
    BY DEF Init, AlertsTypeOK
  <2>3. poller \in [Callers -> [pos : Nat, val : Nat \union {Absent}]]
    BY <1>1 DEF Init
  <2>4. \A p \in Callers : poller[p].pos # 0 => (started <=> p # "main")
    BY <1>1 DEF Init
  <2>5. /\ contract \in [Keys -> Nat]
        /\ store \in [Keys -> Nat \union {Absent}]
        /\ started \in BOOLEAN
        /\ crashes \in Nat
    BY DEF Init
  <2>6. lag \in Nat
    BY StatePollingAssumption DEF Init
  <2> QED
    BY <2>1, <2>2, <2>3, <2>4, <2>5, <2>6 DEF TypeOK
<1> QED  BY <1>1, <1>2 DEF Inv, PendingInv, StoreInv, OrderInv, Init

LEMMA ChangeStep ==
  ASSUME Inv, NEW k \in Keys, Change(k)
  PROVE  Inv'
<1>1. /\ contract' = [contract EXCEPT ![k] = @ + 1]
      /\ UNCHANGED <<store, poller, started, alerts, crashes, lag>>
  BY DEF Change
<1>2. /\ contract' \in [Keys -> Nat]
      /\ \A j \in Keys : contract[j] \in Nat /\ contract[j] <= contract'[j]
  BY <1>1 DEF Inv, TypeOK
<1>3. TypeOK'
  BY <1>1, <1>2 DEF Inv, TypeOK, AlertsTypeOK
<1>4. \A p \in Callers : InRound(p) => Variable(p) \in Keys
  BY RoundType DEF InRound, Variable
<1>5. PendingInv' /\ StoreInv'
  BY <1>1, <1>2, <1>4 DEF Inv, PendingInv, StoreInv, InRound, Variable, TypeOK
<1>6. OrderInv'
  BY <1>1 DEF Inv, OrderInv, Variable
<1> QED  BY <1>3, <1>5, <1>6 DEF Inv

LEMMA CrashStep ==
  ASSUME Inv, Crash
  PROVE  Inv'
<1>1. \A p \in Callers : poller'[p] \in [pos : Nat, val : Nat \union {Absent}]
                         /\ poller'[p].val = Absent /\ poller'[p].pos \in {0, 1}
                         /\ (poller'[p].pos # 0 <=> p = "main")
  BY DEF Crash, Waiting, Absent
<1>2. \A p \in Callers : poller'[p].pos <= Len(Round(p)) + 1
  BY <1>1, RoundType
<1>3. AlertsTypeOK'
  BY DEF Crash, AlertsTypeOK
<1>4. TypeOK'
  <2>1. poller' \in [Callers -> [pos : Nat, val : Nat \union {Absent}]]
    BY <1>1 DEF Crash
  <2>2. \A p \in Callers : poller'[p].pos # 0 => (started' <=> p # "main")
    BY <1>1 DEF Crash
  <2>3. /\ contract' \in [Keys -> Nat]
        /\ store' \in [Keys -> Nat \union {Absent}]
        /\ crashes' \in Nat
        /\ lag' \in Nat
    BY DEF Inv, Crash, TypeOK
  <2>4. started' \in BOOLEAN
    BY DEF Crash
  <2> QED
    BY <1>2, <1>3, <2>1, <2>2, <2>3, <2>4 DEF TypeOK
<1> QED  BY <1>1, <1>4 DEF Inv, PendingInv, StoreInv, OrderInv, Crash

Pollers == [Callers -> [pos : Nat, val : Nat \union {Absent}]]

\* A step of p that leaves Redis alone, and p without an answer.
LEMMA PollerStep ==
  ASSUME Inv, NEW p \in Callers,
         poller' \in Pollers,
         \A q \in Callers : q # p => poller'[q] = poller[q],
         poller'[p].val = Absent,
         poller'[p].pos <= Len(Round(p)) + 1,
         poller'[p].pos # 0 => (started <=> p # "main"),
         \A q \in Callers : q # p /\ poller[q].pos # 0 => (started' <=> q # "main"),
         poller'[p].pos # 0 => started' = started,
         started' \in BOOLEAN,
         UNCHANGED <<contract, store, alerts, crashes, lag>>
  PROVE  Inv'
<1>1. TypeOK'
  <2>1. \A q \in Callers : poller'[q].pos <= Len(Round(q)) + 1
    BY DEF Inv, TypeOK
  <2>2. \A q \in Callers : poller'[q].pos # 0 => (started' <=> q # "main")
    BY DEF Inv, TypeOK
  <2> QED  BY <2>1, <2>2 DEF Inv, TypeOK, AlertsTypeOK, Pollers
<1>2. PendingInv' /\ OrderInv'
  BY DEF Inv, PendingInv, OrderInv, InRound, Variable
<1> QED  BY <1>1, <1>2 DEF Inv, StoreInv

LEMMA TickStep ==
  ASSUME Inv, NEW p \in Callers, Tick(p)
  PROVE  Inv'
<1>1. poller[p].pos = 0 /\ poller[p].val = Absent
  <2>1. 0 \notin DOMAIN Round(p)
    BY RoundType
  <2> QED  BY <2>1 DEF Tick, Inv, PendingInv, InRound
<1>2. /\ poller' \in Pollers
      /\ \A q \in Callers : q # p => poller'[q] = poller[q]
      /\ poller'[p].pos = 1 /\ poller'[p].val = Absent
  BY <1>1 DEF Tick, Inv, TypeOK, Pollers
<1>3. started /\ p # "main"
  BY DEF Tick, Ticking
<1>4. 1 <= Len(Round(p)) + 1
  BY RoundType
<1> QED  BY <1>2, <1>3, <1>4, PollerStep DEF Tick, Inv, TypeOK

LEMMA CallStep ==
  ASSUME Inv, NEW p \in Callers, Call(p)
  PROVE  Inv'
<1> DEFINE k == Variable(p)
<1>1. /\ InRound(p) /\ poller[p].val = Absent
      /\ UNCHANGED <<contract, store, started, alerts, crashes, lag>>
  BY DEF Call
<1>2. /\ k \in Keys /\ contract[k] \in Nat
      /\ poller[p].pos \in Nat \ {0} /\ poller[p].pos <= Len(Round(p))
      /\ started <=> p # "main"
  BY <1>1, RoundType DEF InRound, Variable, Inv, TypeOK
<1>3. CASE poller' = [poller EXCEPT ![p].pos = @ + 1]
  <2>1. /\ poller' \in Pollers
        /\ \A q \in Callers : q # p => poller'[q] = poller[q]
        /\ poller'[p].pos = poller[p].pos + 1 /\ poller'[p].val = Absent
    BY <1>1, <1>2, <1>3 DEF Inv, TypeOK, Pollers
  <2>2. poller[p].pos + 1 <= Len(Round(p)) + 1 /\ poller[p].pos + 1 \in Nat
    BY <1>2, RoundType
  <2> QED  BY <1>1, <1>2, <2>1, <2>2, PollerStep DEF Inv, TypeOK
<1>4. ASSUME NEW v \in Answers(k), poller' = [poller EXCEPT ![p].val = v]
      PROVE  Inv'
  <2>1. v \in 0..contract[k] /\ (lag = 0 => v = contract[k])
    BY <1>2, <1>4 DEF Inv, TypeOK, Answers
  <2>2. \A q \in Callers :
          poller'[q] = IF q = p THEN [pos |-> poller[p].pos, val |-> v] ELSE poller[q]
    BY <1>4 DEF Inv, TypeOK
  <2>3. poller' \in [Callers -> [pos : Nat, val : Nat \union {Absent}]]
    BY <1>2, <1>4, <2>1 DEF Inv, TypeOK
  <2>4. TypeOK'
    <3>1. \A q \in Callers : poller'[q].pos = poller[q].pos
      BY <2>2
    <3> QED  BY <1>1, <2>3, <3>1 DEF Inv, TypeOK, AlertsTypeOK
  <2>5. \A q \in Callers : InRound(q)' = InRound(q) /\ Variable(q)' = Variable(q)
    BY <2>2 DEF InRound, Variable
  <2>6. PendingInv'
    BY <1>1, <2>1, <2>2, <2>5 DEF Inv, PendingInv
  <2>7. lag = 0 => store[k] <= v
    BY <1>2, <2>1 DEF Inv, StoreInv, Absent, TypeOK
  <2>8. OrderInv'
    BY <1>1, <2>2, <2>5, <2>7 DEF Inv, OrderInv
  <2> QED  BY <1>1, <2>4, <2>6, <2>8 DEF Inv, StoreInv
<1> QED  BY <1>3, <1>4 DEF Call

LEMMA StoreStep ==
  ASSUME Inv, NEW p \in Callers, Store(p)
  PROVE  Inv'
<1> DEFINE k == Variable(p)
           v == poller[p].val
<1>1. /\ InRound(p) /\ v # Absent
      /\ poller' = [poller EXCEPT ![p] = [pos |-> poller[p].pos + 1, val |-> Absent]]
      /\ UNCHANGED <<contract, started, crashes, lag>>
  BY DEF Store, Inv, TypeOK
<1>2. /\ k \in Keys /\ v \in 0..contract[k] /\ contract[k] \in Nat
      /\ poller[p].pos \in Nat \ {0} /\ poller[p].pos <= Len(Round(p))
      /\ started <=> p # "main"
  BY <1>1, RoundType DEF InRound, Variable, Inv, TypeOK, PendingInv
<1>3. AlertsTypeOK' /\ (store' = store \/ store' = [store EXCEPT ![k] = v])
  BY StoreEffect DEF Inv, TypeOK
<1>4. \A q \in Callers :
        poller'[q] = IF q = p THEN [pos |-> poller[p].pos + 1, val |-> Absent]
                              ELSE poller[q]
  BY <1>1 DEF Inv, TypeOK
<1>5. TypeOK'
  <2>1. poller' \in [Callers -> [pos : Nat, val : Nat \union {Absent}]]
    BY <1>1, <1>2 DEF Inv, TypeOK
  <2>2. store' \in [Keys -> Nat \union {Absent}]
    BY <1>2, <1>3 DEF Inv, TypeOK
  <2>3. \A q \in Callers : poller'[q].pos <= Len(Round(q)) + 1
    BY <1>2, <1>4, RoundType DEF Inv, TypeOK
  <2>4. \A q \in Callers : poller'[q].pos # 0 => (started' <=> q # "main")
    BY <1>1, <1>2, <1>4 DEF Inv, TypeOK
  <2> QED  BY <1>1, <1>3, <2>1, <2>2, <2>3, <2>4 DEF Inv, TypeOK
<1>6. \A q \in Callers : q # p => InRound(q)' = InRound(q) /\ Variable(q)' = Variable(q)
  BY <1>4 DEF InRound, Variable
<1>7. PendingInv'
  BY <1>1, <1>4, <1>6 DEF Inv, PendingInv
<1>8. StoreInv'
  BY <1>1, <1>2, <1>3 DEF Inv, StoreInv, TypeOK
<1>9. OrderInv'
  <2>1. \A q \in Callers : q # p /\ poller[q].val # Absent =>
          Variable(q) # k /\ Variable(q) \in Keys
    BY <1>1, OnePollerPerKey, RoundType DEF Inv, PendingInv, InRound, Variable
  <2>2. \A q \in Callers : q # p /\ poller[q].val # Absent =>
          store'[Variable(q)] = store[Variable(q)]
    BY <1>3, <2>1 DEF Inv, TypeOK
  <2> QED  BY <1>1, <1>4, <1>6, <2>2 DEF Inv, OrderInv
<1> QED  BY <1>5, <1>7, <1>8, <1>9 DEF Inv

LEMMA RoundEndsStep ==
  ASSUME Inv, NEW p \in Callers, RoundEnds(p)
  PROVE  Inv'
<1>1. poller[p].pos # 0
  BY RoundType DEF RoundEnds, Inv, TypeOK
<1>2. /\ poller' \in Pollers
      /\ \A q \in Callers : q # p => poller'[q] = poller[q]
      /\ poller'[p].pos = 0 /\ poller'[p].val = Absent
  BY DEF RoundEnds, Waiting, Inv, TypeOK, Pollers
<1>3. \A q \in Callers : q # p /\ poller[q].pos # 0 => (started' <=> q # "main")
  BY <1>1 DEF RoundEnds, Inv, TypeOK
<1>4. started' \in BOOLEAN
  BY DEF RoundEnds
<1>5. 0 <= Len(Round(p)) + 1
  BY RoundType
<1> QED  BY <1>2, <1>3, <1>4, <1>5, PollerStep DEF RoundEnds

LEMMA NextInv == Inv /\ [Next]_vars => Inv'
<1> SUFFICES ASSUME Inv, [Next]_vars PROVE Inv'
  OBVIOUS
<1>1. CASE Next
  BY <1>1, ChangeStep, CrashStep, TickStep, CallStep, StoreStep, RoundEndsStep
     DEF Next, Step
<1>2. CASE UNCHANGED vars
  BY <1>2 DEF vars, Inv, TypeOK, AlertsTypeOK, PendingInv, StoreInv, OrderInv,
              InRound, Variable
<1> QED  BY <1>1, <1>2
-----------------------------------------------------------------------------
(***************************************************************************)
(* Only main is at work before the tickers are, and every key holds a      *)
(* number or is absent.                                                    *)
(***************************************************************************)
THEOREM TypeCorrect == Spec => []TypeOK
<1>1. Inv => TypeOK
  BY DEF Inv
<1> QED  BY <1>1, InitInv, NextInv, PTL DEF Spec
\* How a step changes Redis: by an answer that one poller holds, or not at all;
\* the contract does not change at the same time.
LEMMA StepEffect ==
  ASSUME Inv, [Next]_vars
  PROVE  /\ lag' = lag
         /\ \/ store' = store
            \/ /\ contract' = contract
               /\ \E p \in Callers :
                    /\ poller[p].val # Absent /\ Variable(p) \in Keys
                    /\ store' = [store EXCEPT ![Variable(p)] = poller[p].val]
<1>1. CASE \E k \in Keys : Change(k)
  BY <1>1 DEF Change
<1>2. CASE Crash
  BY <1>2 DEF Crash
<1>3. ASSUME NEW p \in Callers, Step(p)
      PROVE  /\ lag' = lag
             /\ \/ store' = store
                \/ /\ contract' = contract
                   /\ poller[p].val # Absent /\ Variable(p) \in Keys
                   /\ store' = [store EXCEPT ![Variable(p)] = poller[p].val]
  <2>1. CASE Store(p)
    <3>1. lag' = lag /\ contract' = contract /\ poller[p].val # Absent /\ InRound(p)
      BY <2>1 DEF Store
    <3>2. Variable(p) \in Keys
      BY <3>1, RoundType DEF InRound, Variable
    <3>3. \/ store' = store
          \/ store' = [store EXCEPT ![Variable(p)] = poller[p].val]
      BY <2>1, StoreEffect DEF Inv, TypeOK
    <3> QED  BY <3>1, <3>2, <3>3
  <2>2. CASE Tick(p) \/ Call(p) \/ RoundEnds(p)
    BY <2>2 DEF Tick, Call, RoundEnds
  <2> QED  BY <1>3, <2>1, <2>2 DEF Step
<1>4. CASE UNCHANGED vars
  BY <1>4 DEF vars
<1> QED  BY <1>1, <1>2, <1>3, <1>4 DEF Next

Published == [k \in Keys |-> 0..contract[k]]

\* What the contract had before stays published.
LEMMA PublishedGrows ==
  ASSUME Inv, Inv', [Next]_vars
  PROVE  /\ Published' \in [Keys -> SUBSET Nat]
         /\ \A k \in Keys : Published[k] \subseteq Published'[k]
<1>1. \A k \in Keys : contract[k] \in Nat /\ contract'[k] \in Nat
  BY DEF Inv, TypeOK
<1>2. \A k \in Keys : contract[k] <= contract'[k]
  <2>1. ASSUME NEW j \in Keys, Change(j)
        PROVE  \A k \in Keys : contract[k] <= contract'[k]
    <3>1. contract' = [contract EXCEPT ![j] = @ + 1]
      BY <2>1 DEF Change
    <3> QED  BY <3>1, <1>1 DEF Inv, TypeOK
  <2>2. CASE contract' = contract
    BY <2>2, <1>1
  <2>3. (\E j \in Keys : Change(j)) \/ contract' = contract
    BY DEF Next, Crash, Step, Tick, Call, Store, RoundEnds, vars
  <2> QED  BY <2>1, <2>2, <2>3
<1> QED  BY <1>1, <1>2 DEF Published

(***************************************************************************)
(* The pollers implement a cache of contract state, for any lag of the RPC *)
(* nodes, any failures and any crashes.                                    *)
(***************************************************************************)
THEOREM PollersMirrorContract == Spec => MirrorsContract
<1>1. Init => Mirror!Init
  <2> SUFFICES ASSUME Init PROVE Mirror!Init
    OBVIOUS
  <2>1. Published \in [Keys -> SUBSET Nat]
    BY DEF Init, Published
  <2> QED  BY <2>1 DEF Init, Mirror!Init, Mirror!Missing, Absent, Published
<1>2. Inv /\ Inv' /\ [Next]_vars => [Mirror!Next]_<<Published, store>>
  <2> SUFFICES ASSUME Inv, Inv', [Next]_vars
               PROVE  [Mirror!Next]_<<Published, store>>
    OBVIOUS
  <2>1. CASE store' = store
    BY <2>1, PublishedGrows DEF Mirror!Next, Mirror!Publish, Published
  <2>2. ASSUME contract' = contract, NEW p \in Callers,
               poller[p].val # Absent, Variable(p) \in Keys,
               store' = [store EXCEPT ![Variable(p)] = poller[p].val]
        PROVE  Mirror!Next
    <3>1. poller[p].val \in Published[Variable(p)] /\ Published' = Published
      BY <2>2 DEF Inv, PendingInv, Published
    <3> QED  BY <2>2, <3>1 DEF Mirror!Next, Mirror!Refresh, Published
  <2> QED  BY <2>1, <2>2, StepEffect
<1>3. Spec => []Inv
  BY InitInv, NextInv, PTL DEF Spec
<1> QED  BY <1>1, <1>2, <1>3, PTL DEF Spec, MirrorsContract, Mirror!Spec, Published

(***************************************************************************)
(* When RPC nodes are up to date, no variable in Redis goes back to an     *)
(* older value, whichever of the three callers writes it.                  *)
(***************************************************************************)
THEOREM PollersMirrorInOrder == Spec => MirrorsInOrder
<1> DEFINE Shown == IF lag = 0 THEN store ELSE [k \in Keys |-> Absent]
<1>1. Init => UpToDate!Init
  <2> SUFFICES ASSUME Init PROVE UpToDate!Init
    OBVIOUS
  <2>1. Published \in [Keys -> SUBSET Nat]
    BY DEF Init, Published
  <2> QED  BY <2>1 DEF Init, UpToDate!Init, UpToDate!Missing, Absent, Published
<1>2. Inv /\ Inv' /\ [Next]_vars => [UpToDate!OrderedNext]_<<Published, Shown>>
  <2> SUFFICES ASSUME Inv, Inv', [Next]_vars
               PROVE  [UpToDate!OrderedNext]_<<Published, Shown>>
    OBVIOUS
  <2>1. lag' = lag
    BY StepEffect
  <2>2. CASE Shown' = Shown
    BY <2>2, PublishedGrows DEF UpToDate!OrderedNext, UpToDate!Publish, Published
  <2>3. ASSUME lag = 0, contract' = contract, NEW p \in Callers,
               poller[p].val # Absent, Variable(p) \in Keys,
               store' = [store EXCEPT ![Variable(p)] = poller[p].val]
        PROVE  UpToDate!OrderedNext
    <3>1. /\ poller[p].val \in Published[Variable(p)] /\ Published' = Published
          /\ poller[p].val >= store[Variable(p)]
      BY <2>3 DEF Inv, PendingInv, OrderInv, Published, TypeOK, Absent
    <3>2. Shown = store /\ Shown' = store'
      BY <2>1, <2>3
    <3> QED
      BY <2>3, <3>1, <3>2 DEF UpToDate!OrderedNext, UpToDate!Refresh, Published
  <2> QED  BY <2>1, <2>2, <2>3, StepEffect
<1>3. Spec => []Inv
  BY InitInv, NextInv, PTL DEF Spec
<1> QED
  BY <1>1, <1>2, <1>3, PTL DEF Spec, MirrorsInOrder, UpToDate!OrderedSpec, Published
=============================================================================
