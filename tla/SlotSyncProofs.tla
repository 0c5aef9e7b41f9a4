--------------------------- MODULE SlotSyncProofs ---------------------------
(***************************************************************************)
(* Theorems about SlotSync, for every size of the batches and of the flush,*)
(* any number of slots, versions and crashes, and any lag of the nodes.    *)
(***************************************************************************)
EXTENDS SlotSync, FiniteSetTheorems, TLAPS

Goroutines == [SlotIds -> Goroutine]

\* Goroutines are at work on the current batch only, and the slots before it
\* have been visited.
PassInv ==
  /\ \A s \in SlotIds : gor[s] # Gone => pc = "wait" /\ i <= s /\ s < i + FetchBatch
  /\ pc = "loop" => visited = {j \in 0..count : j < i}
  /\ pc = "wait" => visited = {j \in 0..count : j < i + FetchBatch}

\* Past its test of slotManager a goroutine finds one, and the manager that a
\* goroutine is about to make is nobody's yet.
ManagerInv ==
  \A s \in SlotIds :
    /\ gor[s].st \in {"query", "manager", "add", "flush"} => slotManager # Nil
    /\ gor[s].st \notin {"add", "flush"} => gor[s].mgr = Nil
    /\ gor[s].st \in {"add", "flush"} => gor[s].mgr # Nil
    /\ gor[s].st = "create" =>
         slotManager # s /\ \A t \in SlotIds : gor[t].mgr # s

Settled(k) == k \in lost \/ slotInfo[k] # Absent

\* One goroutine flushes a manager, and what it has been through is settled.
FlushInv ==
  \A s \in SlotIds : gor[s].st = "flush" =>
    /\ \A t \in SlotIds : gor[t].st = "flush" /\ gor[t].mgr = gor[s].mgr => t = s
    /\ gor[s].todo \subseteq Pending(buffer[gor[s].mgr])
    /\ \A k \in Pending(buffer[gor[s].mgr]) \ gor[s].todo : Settled(k)

\* Every version on its way to Redis is one that the slot has had.
VersionInv ==
  /\ \A s \in SlotIds : gor[s].ver # Absent => gor[s].ver \in 0..nodeInfo[s]
  /\ \A m, s \in SlotIds : buffer[m][s] # Absent => buffer[m][s] \in 0..nodeInfo[s]
  /\ \A s \in SlotIds : slotInfo[s] # Absent => slotInfo[s] \in 0..nodeInfo[s]

\* The slots above nodeCount are not minted yet.
MintInv == \A s \in SlotIds : s > nodeCount => nodeInfo[s] = 0

Inv ==
  /\ TypeOK /\ MintInv /\ PassInv /\ ManagerInv /\ FlushInv /\ VersionInv
  /\ BufferBound /\ IndexedSlotsAreStored
-----------------------------------------------------------------------------
LEMMA GoneType ==
  /\ Gone \in Goroutine /\ Gone.st = "none" /\ Gone.mgr = Nil
  /\ Gone.ver = Absent /\ Gone.todo = {}
BY DEF Gone, Goroutine

LEMMA EmptyType ==
  EmptyBuffer \in Versions /\ Pending(EmptyBuffer) = {}
BY DEF EmptyBuffer, Versions, Pending, Absent

LEMMA SlotIdsFinite == IsFiniteSet(SlotIds) /\ \A S \in SUBSET SlotIds : IsFiniteSet(S)
<1>1. 0 \in Int /\ MaxNodes \in Int
  BY SlotSyncAssumption
<1>2. IsFiniteSet(SlotIds)
  BY <1>1, FS_Interval DEF SlotIds
<1> QED  BY <1>2, FS_Subset

LEMMA AlertType ==
  ASSUME AlertsTypeOK, NEW name \in ProcessNames, SendFailureNotification(name)
  PROVE  AlertsTypeOK'
BY DEF AlertsTypeOK, SendFailureNotification

LEMMA InitInv == Init => Inv
<1> SUFFICES ASSUME Init PROVE Inv
  OBVIOUS
<1> USE GoneType, EmptyType, SlotSyncAssumption
<1>1. TypeOK
  <2>1. AlertsTypeOK
    BY DEF Init, AlertsTypeOK
  <2>2. /\ nodeInfo \in [SlotIds -> Nat]
        /\ nodeCount \in 0..MaxNodes /\ count \in 0..MaxNodes
    BY DEF Init
  <2>3. \A s \in SlotIds : gor[s].st \in {"add", "flush"} => gor[s].mgr # Nil
    BY DEF Init
  <2>4. /\ slotInfo \in Versions /\ handed \in Versions
        /\ via \in [SlotIds -> SlotIds \union {Nil}]
    BY DEF Init, Versions
  <2>5. gor \in [SlotIds -> Goroutine] /\ buffer \in [SlotIds -> Versions]
    BY DEF Init
  <2> QED
    BY <2>1, <2>2, <2>3, <2>4, <2>5 DEF Init, TypeOK
<1>2. PassInv /\ ManagerInv /\ FlushInv
  BY DEF Init, PassInv, ManagerInv, FlushInv
<1>3. VersionInv
  BY DEF Init, VersionInv, EmptyBuffer
<1>4. BufferBound /\ IndexedSlotsAreStored
  BY DEF Init, BufferBound, IndexedSlotsAreStored
<1>5. MintInv
  BY DEF Init, MintInv, SlotIds
<1> QED  BY <1>1, <1>2, <1>3, <1>4, <1>5 DEF Inv
-----------------------------------------------------------------------------
(***************************************************************************)
(* The contract, the loop of FetchAllSlots, and crashes.                   *)
(***************************************************************************)
\* No slot goes back to an older version.
LEMMA ContractGrows ==
  ASSUME Inv, Mint \/ \E s \in SlotIds : Update(s)
  PROVE  /\ nodeInfo' \in [SlotIds -> Nat]
         /\ nodeCount' \in 0..MaxNodes
         /\ \A s \in SlotIds : nodeInfo[s] <= nodeInfo'[s]
         /\ MintInv'
         /\ UNCHANGED <<crashes, passVars, gor, slotManager, buffer, redisVars,
                        alerts, history>>
<1> USE SlotSyncAssumption
<1>1. CASE Mint
  <2>1. nodeCount' = nodeCount + 1 /\ nodeCount' \in SlotIds /\ nodeCount' > nodeCount
    BY <1>1 DEF Mint, Inv, TypeOK, SlotIds
  <2>2. nodeInfo' = [nodeInfo EXCEPT ![nodeCount'] = 1] /\ nodeInfo[nodeCount'] = 0
    BY <1>1, <2>1 DEF Mint, Inv, MintInv
  <2>3. MintInv'
    BY <2>1, <2>2 DEF Inv, MintInv, TypeOK, SlotIds
  <2> QED  BY <1>1, <2>1, <2>2, <2>3 DEF Mint, Inv, TypeOK, SlotIds
<1>2. ASSUME NEW s \in SlotIds, Update(s)
      PROVE  /\ nodeInfo' = [nodeInfo EXCEPT ![s] = nodeInfo[s] + 1] /\ nodeInfo[s] >= 1
             /\ nodeCount' = nodeCount
             /\ UNCHANGED <<crashes, passVars, gor, slotManager, buffer, redisVars,
                            alerts, history>>
  BY <1>2 DEF Update, Inv, TypeOK
<1>3. CASE \E s \in SlotIds : Update(s)
  <2>1. PICK s \in SlotIds : Update(s)
    BY <1>3
  <2>2. MintInv'
    BY <1>2, <2>1 DEF Inv, MintInv, TypeOK
  <2> QED  BY <1>2, <2>1, <2>2 DEF Inv, TypeOK
<1> QED  BY <1>1, <1>3

LEMMA ContractStep ==
  ASSUME Inv, Mint \/ \E s \in SlotIds : Update(s)
  PROVE  Inv'
<1>1. UNCHANGED <<crashes, pc, count, i, gor, slotManager, buffer, slotInfo,
                  allSlots, alerts, visited, handed, via, lost>>
  BY ContractGrows DEF passVars, redisVars, history
<1>2. TypeOK'
  BY <1>1, ContractGrows DEF Inv, TypeOK, AlertsTypeOK
<1>3. PassInv' /\ ManagerInv'
  BY <1>1 DEF Inv, PassInv, ManagerInv
<1>4. FlushInv'
  BY <1>1 DEF Inv, FlushInv, Settled
<1>5. VersionInv'
  <2>1. ASSUME NEW s \in SlotIds, NEW v, v # Absent => v \in 0..nodeInfo[s], v # Absent
        PROVE  v \in 0..nodeInfo'[s]
    BY <2>1, ContractGrows DEF Inv, TypeOK
  <2> QED  BY <1>1, <2>1 DEF Inv, VersionInv
<1>6. BufferBound' /\ IndexedSlotsAreStored'
  BY <1>1 DEF Inv, BufferBound, Locked, IndexedSlotsAreStored
<1> QED  BY <1>2, <1>3, <1>4, <1>5, <1>6, ContractGrows DEF Inv

\* What a step of the loop may change.
LEMMA LoopKeeps ==
  ASSUME Inv, FetchNodeCount \/ WaitBatch \/ PassEnds
  PROVE  /\ UNCHANGED <<contractVars, crashes, gor, slotManager, buffer, slotInfo,
                        allSlots, alerts, handed, via, lost>>
         /\ MintInv' /\ ManagerInv' /\ FlushInv' /\ VersionInv'
         /\ BufferBound' /\ IndexedSlotsAreStored'
<1>1. UNCHANGED <<nodeInfo, nodeCount, crashes, gor, slotManager, buffer, slotInfo,
                  allSlots, alerts, handed, via, lost>>
  BY DEF FetchNodeCount, WaitBatch, PassEnds, contractVars, redisVars, history
<1>2. MintInv' /\ ManagerInv' /\ VersionInv'
  BY <1>1 DEF Inv, MintInv, ManagerInv, VersionInv
<1>3. FlushInv'
  BY <1>1 DEF Inv, FlushInv, Settled
<1>4. BufferBound' /\ IndexedSlotsAreStored'
  BY <1>1 DEF Inv, BufferBound, Locked, IndexedSlotsAreStored
<1> QED  BY <1>1, <1>2, <1>3, <1>4 DEF contractVars

LEMMA LoopStep ==
  ASSUME Inv, FetchNodeCount \/ WaitBatch \/ PassEnds
  PROVE  Inv'
<1> USE SlotSyncAssumption
<1>1. /\ TypeOK /\ UNCHANGED <<nodeInfo, nodeCount, crashes, gor, slotManager, buffer,
                  slotInfo, allSlots, alerts, handed, via, lost>>
  BY LoopKeeps DEF contractVars, Inv
<1>2. CASE FetchNodeCount
  <2>1. \E n \in (nodeCount - MaxLag)..nodeCount : n >= 0 /\ count' = n
    BY <1>2 DEF FetchNodeCount
  <2>2. count' \in 0..MaxNodes /\ i' = 0 /\ pc' = "loop" /\ visited' = {}
    BY <1>2, <2>1 DEF FetchNodeCount, Inv, TypeOK
  <2>3. TypeOK'
    BY <1>1, <2>2 DEF TypeOK, AlertsTypeOK
  <2>4. \A s \in SlotIds : gor'[s] = Gone
    BY <1>1, <1>2 DEF FetchNodeCount, Inv, PassInv
  <2>5. PassInv'
    BY <2>2, <2>4 DEF PassInv
  <2> QED  BY <2>3, <2>5, LoopKeeps DEF Inv
<1>3. CASE WaitBatch
  <2>1. /\ pc = "wait" /\ pc' = "loop" /\ i' = i + FetchBatch
        /\ UNCHANGED <<count, visited>>
        /\ \A s \in SlotIds : gor[s] = Gone
    BY <1>3 DEF WaitBatch, history
  <2>2. TypeOK'
    BY <1>1, <2>1 DEF TypeOK, AlertsTypeOK
  <2>3. PassInv'
    BY <1>1, <2>1 DEF Inv, PassInv
  <2> QED  BY <2>2, <2>3, LoopKeeps DEF Inv
<1>4. CASE PassEnds
  <2>1. pc = "loop" /\ pc' = "tick" /\ UNCHANGED <<count, i, visited>>
    BY <1>4 DEF PassEnds, history
  <2>2. TypeOK'
    BY <1>1, <2>1 DEF TypeOK, AlertsTypeOK
  <2>3. PassInv'
    BY <1>1, <2>1 DEF Inv, PassInv
  <2> QED  BY <2>2, <2>3, LoopKeeps DEF Inv
<1> QED  BY <1>2, <1>3, <1>4

LEMMA StartBatchStep ==
  ASSUME Inv, StartBatch
  PROVE  Inv'
<1> USE SlotSyncAssumption
<1> DEFINE started == [Gone EXCEPT !.st = "check"]
<1>1. /\ pc = "loop" /\ pc' = "wait" /\ i <= count
      /\ visited' = visited \union Batch
      /\ UNCHANGED <<nodeInfo, nodeCount, crashes, count, i, slotManager, buffer,
                     slotInfo, allSlots, alerts, handed, via, lost>>
  BY DEF StartBatch, contractVars, redisVars
<1>2. /\ started \in Goroutine /\ started.st = "check" /\ started.mgr = Nil
      /\ started.ver = Absent
  BY GoneType DEF Goroutine, Gone
<1> HIDE DEF started
<1>3. \A s \in SlotIds : gor[s] = Gone
  BY <1>1 DEF Inv, PassInv
<1>4. gor' = [s \in SlotIds |-> IF s \in Batch THEN started ELSE Gone]
  BY <1>3 DEF StartBatch, started
<1>5. \A s \in SlotIds : /\ gor'[s].st \in {"none", "check"} /\ gor'[s].mgr = Nil
                         /\ gor'[s].ver = Absent
  BY <1>2, <1>4, GoneType
<1>6. Batch \subseteq SlotIds
  BY DEF Batch
<1>7. TypeOK'
  <2>1. gor' \in [SlotIds -> Goroutine]
    BY <1>2, <1>4, GoneType
  <2> QED  BY <1>1, <1>5, <1>6, <2>1 DEF Inv, TypeOK, AlertsTypeOK
<1>8. PassInv'
  <2>1. visited' = {j \in 0..count' : j < i' + FetchBatch}
    <3>1. visited = {j \in 0..count : j < i}
      BY <1>1 DEF Inv, PassInv
    <3>2. Batch = {j \in 0..count : i <= j /\ j < i + FetchBatch}
      BY DEF Batch, SlotIds, Inv, TypeOK
    <3> QED  BY <1>1, <3>1, <3>2 DEF Inv, TypeOK
  <2>2. \A s \in SlotIds : gor'[s] # Gone => s \in Batch
    BY <1>4
  <2> QED  BY <1>1, <2>1, <2>2 DEF PassInv, Batch
<1>9. ManagerInv' /\ FlushInv'
  BY <1>5 DEF ManagerInv, FlushInv
<1>10. VersionInv' /\ MintInv' /\ IndexedSlotsAreStored'
  BY <1>1, <1>5 DEF Inv, VersionInv, MintInv, IndexedSlotsAreStored
<1>11. BufferBound'
  <2>1. \A m \in SlotIds : ~Locked(m)
    BY <1>3, GoneType DEF Locked
  <2> QED  BY <1>1, <2>1 DEF Inv, BufferBound
<1> QED  BY <1>7, <1>8, <1>9, <1>10, <1>11 DEF Inv

LEMMA CrashStep ==
  ASSUME Inv, Crash
  PROVE  Inv'
<1> USE GoneType, EmptyType, SlotSyncAssumption
<1>1. /\ pc' = "tick" /\ count' = 0 /\ i' = 0 /\ slotManager' = Nil
      /\ alerts' = <<>> /\ visited' = {} /\ crashes' = crashes + 1
      /\ UNCHANGED <<nodeInfo, nodeCount, slotInfo, allSlots, lost>>
  BY DEF Crash, contractVars, redisVars
<1>2. /\ gor' \in [SlotIds -> Goroutine] /\ \A s \in SlotIds : gor'[s] = Gone
      /\ buffer' \in [SlotIds -> Versions] /\ \A m \in SlotIds : buffer'[m] = EmptyBuffer
      /\ handed' \in Versions /\ via' \in [SlotIds -> SlotIds \union {Nil}]
  BY DEF Crash, Versions
<1>3. TypeOK'
  <2>1. AlertsTypeOK'
    BY <1>1 DEF AlertsTypeOK
  <2> QED  BY <1>1, <1>2, <2>1 DEF Inv, TypeOK
<1>4. PassInv' /\ ManagerInv' /\ FlushInv'
  BY <1>1, <1>2 DEF PassInv, ManagerInv, FlushInv
<1>5. VersionInv' /\ MintInv' /\ IndexedSlotsAreStored'
  BY <1>1, <1>2 DEF Inv, VersionInv, MintInv, IndexedSlotsAreStored, EmptyBuffer
<1>6. BufferBound'
  BY <1>2 DEF BufferBound
<1> QED  BY <1>3, <1>4, <1>5, <1>6 DEF Inv
-----------------------------------------------------------------------------
(***************************************************************************)
(* The goroutine of a slot.                                                *)
(***************************************************************************)
\* Only its own record changes, and none of the loop's variables.
OwnStep(s) ==
  /\ gor[s].st # "none"
  /\ gor' \in Goroutines
  /\ \A t \in SlotIds : t # s => gor'[t] = gor[t]
  /\ UNCHANGED <<nodeInfo, nodeCount, crashes, pc, count, i, visited>>

LEMMA OwnStepInv ==
  ASSUME Inv, NEW s \in SlotIds, OwnStep(s)
  PROVE  MintInv' /\ PassInv'
<1>1. gor[s] # Gone
  BY GoneType DEF OwnStep
<1>2. \A t \in SlotIds : gor'[t] # Gone => gor[t] # Gone
  BY <1>1 DEF OwnStep
<1> QED  BY <1>2 DEF OwnStep, Inv, MintInv, PassInv

\* The steps before AddSlot: no SlotManager, no key of Redis changes, and the
\* version is one that the slot has had.
EarlyStep(s) ==
  /\ OwnStep(s)
  /\ gor[s].st \notin {"add", "flush"} /\ gor'[s].st # "flush"
  /\ gor'[s].ver # Absent => gor'[s].ver \in 0..nodeInfo[s]
  /\ \A m \in SlotIds : buffer'[m] = buffer[m] \/ (m = s /\ buffer'[m] = EmptyBuffer)
  /\ UNCHANGED <<slotInfo, allSlots, alerts, handed, via, lost>>

LEMMA EarlyStepInv ==
  ASSUME Inv, NEW s \in SlotIds, EarlyStep(s), ManagerInv',
         slotManager' \in SlotIds \union {Nil}, buffer' \in [SlotIds -> Versions],
         \A t \in SlotIds : gor[t].mgr = s => buffer'[s] = buffer[s]
  PROVE  Inv'
<1>1. TypeOK'
  BY DEF EarlyStep, OwnStep, Inv, TypeOK, AlertsTypeOK, ManagerInv, Goroutines
<1>2. \A t \in SlotIds : gor'[t].st = "flush" =>
        t # s /\ gor'[t] = gor[t] /\ buffer'[gor[t].mgr] = buffer[gor[t].mgr]
  <2>1. ASSUME NEW t \in SlotIds, gor'[t].st = "flush"
        PROVE  t # s /\ gor'[t] = gor[t] /\ buffer'[gor[t].mgr] = buffer[gor[t].mgr]
    <3>1. t # s /\ gor'[t] = gor[t]
      BY <2>1 DEF EarlyStep, OwnStep
    <3>2. gor[t].mgr \in SlotIds
      BY <2>1, <3>1 DEF Inv, TypeOK, Goroutine
    <3> QED  BY <3>1, <3>2 DEF EarlyStep
  <2> QED  BY <2>1
<1>3. FlushInv'
  BY <1>2 DEF EarlyStep, Inv, FlushInv, Settled
<1>4. VersionInv'
  <2>1. \A t \in SlotIds : gor'[t].ver # Absent => gor'[t].ver \in 0..nodeInfo'[t]
    BY DEF EarlyStep, OwnStep, Inv, VersionInv
  <2>2. \A m, t \in SlotIds :
          buffer'[m][t] # Absent => buffer'[m][t] \in 0..nodeInfo'[t]
    BY DEF EarlyStep, OwnStep, Inv, VersionInv, EmptyBuffer
  <2> QED  BY <2>1, <2>2 DEF EarlyStep, OwnStep, Inv, VersionInv
<1>5. BufferBound'
  <2>1. \A m \in SlotIds : Locked(m) => Locked(m)'
    BY DEF EarlyStep, OwnStep, Locked
  <2> QED  BY <2>1, EmptyType DEF EarlyStep, Inv, BufferBound
<1>6. IndexedSlotsAreStored'
  BY DEF EarlyStep, Inv, IndexedSlotsAreStored
<1> QED  BY <1>1, <1>3, <1>4, <1>5, <1>6, OwnStepInv DEF Inv, EarlyStep

LEMMA CheckManagerStep ==
  ASSUME Inv, NEW s \in SlotIds, CheckManager(s)
  PROVE  Inv'
<1>1. /\ gor[s].st = "check" /\ gor[s].mgr = Nil
      /\ UNCHANGED <<nodeInfo, nodeCount, crashes, pc, count, i, slotManager, buffer,
                     slotInfo, allSlots, alerts, visited, handed, via, lost>>
  BY DEF CheckManager, contractVars, passVars, redisVars, history, Inv, ManagerInv
<1>2. /\ gor' \in Goroutines
      /\ \A t \in SlotIds : t # s => gor'[t] = gor[t]
      /\ gor'[s].st = (IF slotManager = Nil THEN "create" ELSE "query")
      /\ gor'[s].mgr = Nil /\ gor'[s].ver = gor[s].ver
  BY <1>1 DEF CheckManager, Inv, TypeOK, Goroutines, Goroutine
<1>3. EarlyStep(s)
  <2>1. OwnStep(s)
    BY <1>1, <1>2 DEF OwnStep
  <2>2. gor'[s].ver # Absent => gor'[s].ver \in 0..nodeInfo[s]
    BY <1>2 DEF Inv, VersionInv
  <2>3. gor[s].st \notin {"add", "flush"} /\ gor'[s].st # "flush"
    BY <1>1, <1>2
  <2> QED  BY <1>1, <2>1, <2>2, <2>3 DEF EarlyStep
<1>4. ManagerInv'
  <2>1. slotManager = Nil => \A t \in SlotIds : gor[t].mgr = Nil
    BY DEF Inv, ManagerInv
  <2>2. s # Nil
    BY DEF SlotIds, Nil
  <2> QED  BY <1>1, <1>2, <2>1, <2>2 DEF Inv, ManagerInv
<1> QED  BY <1>1, <1>3, <1>4, EarlyStepInv DEF Inv, TypeOK

LEMMA CreateManagerStep ==
  ASSUME Inv, NEW s \in SlotIds, CreateManager(s)
  PROVE  Inv'
<1>1. /\ gor[s].st = "create" /\ gor[s].mgr = Nil
      /\ slotManager' = s /\ buffer' = [buffer EXCEPT ![s] = EmptyBuffer]
      /\ UNCHANGED <<nodeInfo, nodeCount, crashes, pc, count, i,
                     slotInfo, allSlots, alerts, visited, handed, via, lost>>
  BY DEF CreateManager, contractVars, passVars, redisVars, history, Inv, ManagerInv
<1>2. /\ gor' \in Goroutines
      /\ \A t \in SlotIds : t # s => gor'[t] = gor[t]
      /\ gor'[s].st = "query" /\ gor'[s].mgr = Nil /\ gor'[s].ver = gor[s].ver
  <2>1. gor' = [gor EXCEPT ![s] = [gor[s] EXCEPT !.st = "query"]]
    BY DEF CreateManager
  <2>2. gor \in Goroutines /\ gor[s] \in Goroutine
    BY DEF Inv, TypeOK, Goroutines
  <2> QED  BY <1>1, <2>1, <2>2 DEF Goroutines, Goroutine
<1>3. /\ buffer' \in [SlotIds -> Versions]
      /\ \A m \in SlotIds : buffer'[m] = buffer[m] \/ (m = s /\ buffer'[m] = EmptyBuffer)
  BY <1>1, EmptyType DEF Inv, TypeOK
<1>4. EarlyStep(s)
  <2>1. OwnStep(s)
    BY <1>1, <1>2 DEF OwnStep
  <2>2. gor'[s].ver # Absent => gor'[s].ver \in 0..nodeInfo[s]
    BY <1>2 DEF Inv, VersionInv
  <2>3. gor[s].st \notin {"add", "flush"} /\ gor'[s].st # "flush"
    BY <1>1, <1>2
  <2> QED  BY <1>1, <1>3, <2>1, <2>2, <2>3 DEF EarlyStep
<1>5. ManagerInv'
  <2>1. s # Nil
    BY DEF SlotIds, Nil
  <2> QED  BY <1>1, <1>2, <2>1 DEF Inv, ManagerInv
<1>6. \A t \in SlotIds : gor[t].mgr # s
  BY <1>1 DEF Inv, ManagerInv
<1> QED  BY <1>1, <1>3, <1>4, <1>5, <1>6, EarlyStepInv

LEMMA QueryStep ==
  ASSUME Inv, NEW s \in SlotIds, NodeInfo(s) \/ NodeInfoFails(s) \/ ReadManager(s)
  PROVE  Inv'
<1>1. /\ gor[s].st \in {"query", "manager"} /\ gor[s].mgr = Nil /\ slotManager # Nil
      /\ UNCHANGED <<nodeInfo, nodeCount, crashes, pc, count, i, slotManager, buffer,
                     slotInfo, allSlots, alerts, visited, handed, via, lost>>
  BY DEF NodeInfo, NodeInfoFails, ReadManager, contractVars, passVars, redisVars,
         history, Inv, ManagerInv
<1>2. /\ gor' \in Goroutines
      /\ \A t \in SlotIds : t # s => gor'[t] = gor[t]
      /\ gor'[s].st \in {"manager", "add", "none"}
      /\ gor'[s].mgr = IF gor'[s].st = "add" THEN slotManager ELSE Nil
      /\ gor'[s].ver # Absent => gor'[s].ver \in 0..nodeInfo[s]
  <2>1. CASE NodeInfo(s)
    <3>1. PICK v \in (nodeInfo[s] - MaxLag)..nodeInfo[s] :
            v >= 0 /\ gor' = [gor EXCEPT ![s].st = "manager", ![s].ver = v]
      BY <2>1 DEF NodeInfo
    <3>2. v \in 0..nodeInfo[s] /\ v \in Nat
      BY <3>1, SlotSyncAssumption DEF Inv, TypeOK
    <3>3. gor' = [gor EXCEPT ![s] = [gor[s] EXCEPT !.st = "manager", !.ver = v]]
      BY <3>1
    <3>4. /\ gor \in Goroutines
          /\ gor[s] \in Goroutine
      BY DEF Inv, TypeOK, Goroutines
    <3>5. /\ [gor[s] EXCEPT !.st = "manager", !.ver = v] \in Goroutine
          /\ [gor[s] EXCEPT !.st = "manager", !.ver = v].st = "manager"
          /\ [gor[s] EXCEPT !.st = "manager", !.ver = v].mgr = Nil
          /\ [gor[s] EXCEPT !.st = "manager", !.ver = v].ver = v
      BY <1>1, <3>2, <3>4 DEF Goroutine
    <3> QED  BY <3>2, <3>3, <3>4, <3>5 DEF Goroutines
  <2>2. CASE NodeInfoFails(s)
    BY <2>2, GoneType DEF NodeInfoFails, Inv, TypeOK, Goroutines
  <2>3. CASE ReadManager(s)
    BY <1>1, <2>3 DEF ReadManager, Inv, TypeOK, VersionInv, Goroutines, Goroutine
  <2> QED  BY <2>1, <2>2, <2>3
<1>3. EarlyStep(s)
  <2>1. OwnStep(s)
    BY <1>1, <1>2 DEF OwnStep
  <2>2. gor[s].st \notin {"add", "flush"} /\ gor'[s].st # "flush"
    BY <1>1, <1>2
  <2> QED  BY <1>1, <1>2, <2>1, <2>2 DEF EarlyStep
<1>4. ManagerInv'
  BY <1>1, <1>2 DEF Inv, ManagerInv
<1> QED  BY <1>1, <1>3, <1>4, EarlyStepInv DEF Inv, TypeOK

LEMMA AddSlotEffect ==
  ASSUME Inv, NEW s \in SlotIds, AddSlot(s), NEW m \in SlotIds, m = gor[s].mgr
  PROVE  /\ gor[s].st = "add" /\ ~Locked(m) /\ slotManager # Nil
         /\ UNCHANGED <<nodeInfo, nodeCount, crashes, pc, count, i, slotManager,
                        slotInfo, allSlots, alerts, visited, lost>>
         /\ buffer' \in [SlotIds -> Versions] /\ handed' \in Versions
         /\ via' \in [SlotIds -> SlotIds \union {Nil}]
         /\ \A n \in SlotIds : n # m => buffer'[n] = buffer[n]
         /\ \A t \in SlotIds :
              /\ buffer'[m][t] = IF t = s THEN gor[s].ver ELSE buffer[m][t]
              /\ handed'[t] = IF t = s THEN gor[s].ver ELSE handed[t]
              /\ via'[t] = IF t = s THEN m ELSE via[t]
         /\ gor' \in Goroutines
         /\ \A t \in SlotIds : t # s => gor'[t] = gor[t]
         /\ \/ /\ FlushDue(buffer'[m])
               /\ gor'[s].st = "flush" /\ gor'[s].mgr = m /\ gor'[s].ver = gor[s].ver
               /\ gor'[s].todo = Pending(buffer'[m])
            \/ ~FlushDue(buffer'[m]) /\ gor'[s] = Gone
<1> DEFINE slots == buffer'[m]
<1>1. /\ gor[s].st = "add" /\ ~Locked(m) /\ slotManager # Nil
      /\ UNCHANGED <<nodeInfo, nodeCount, crashes, pc, count, i, slotManager,
                     slotInfo, allSlots, alerts, visited, lost>>
  BY DEF AddSlot, CanLock, contractVars, passVars, redisVars, Inv, ManagerInv
<1>2. /\ buffer' \in [SlotIds -> Versions] /\ handed' \in Versions
      /\ via' \in [SlotIds -> SlotIds \union {Nil}]
      /\ \A n \in SlotIds : n # m => buffer'[n] = buffer[n]
      /\ \A t \in SlotIds : /\ slots[t] = IF t = s THEN gor[s].ver ELSE buffer[m][t]
                            /\ handed'[t] = IF t = s THEN gor[s].ver ELSE handed[t]
                            /\ via'[t] = IF t = s THEN m ELSE via[t]
  BY <1>1 DEF AddSlot, Inv, TypeOK, Versions, Goroutine
<1> HIDE DEF slots
<1>3. Pending(slots) \subseteq SlotIds
  BY DEF Pending
<1>4. /\ gor' \in Goroutines
      /\ \A t \in SlotIds : t # s => gor'[t] = gor[t]
      /\ \/ /\ FlushDue(slots)
            /\ gor'[s].st = "flush" /\ gor'[s].mgr = m /\ gor'[s].ver = gor[s].ver
            /\ gor'[s].todo = Pending(slots)
         \/ ~FlushDue(slots) /\ gor'[s] = Gone
  <2>1. CASE FlushDue(slots) /\ gor' = [gor EXCEPT ![s].st = "flush", ![s].todo = Pending(slots)]
    <3> DEFINE g == [gor[s] EXCEPT !.st = "flush", !.todo = Pending(slots)]
    <3>1. gor' = [gor EXCEPT ![s] = g]
      BY <2>1
    <3>2. gor \in Goroutines /\ gor[s] \in Goroutine
      BY DEF Inv, TypeOK, Goroutines
    <3>3. /\ g \in Goroutine /\ g.st = "flush" /\ g.mgr = m /\ g.ver = gor[s].ver
          /\ g.todo = Pending(slots)
      BY <1>3, <3>2 DEF Goroutine
    <3> HIDE DEF g
    <3> QED  BY <2>1, <3>1, <3>2, <3>3 DEF Goroutines
  <2>2. CASE ~FlushDue(slots) /\ gor' = [gor EXCEPT ![s] = Gone]
    BY <2>2, GoneType DEF Inv, TypeOK, Goroutines
  <2> QED  BY <2>1, <2>2 DEF AddSlot, slots
<1> QED  BY <1>1, <1>2, <1>4 DEF slots

LEMMA AddSlotStep ==
  ASSUME Inv, NEW s \in SlotIds, AddSlot(s)
  PROVE  Inv'
<1>0. PICK m \in SlotIds : m = gor[s].mgr
  BY DEF AddSlot, Inv, ManagerInv, TypeOK, Goroutine
<1> DEFINE slots == buffer'[m]
<1>1. /\ gor[s].st = "add" /\ m = gor[s].mgr /\ ~Locked(m) /\ slotManager # Nil
      /\ UNCHANGED <<nodeInfo, nodeCount, crashes, pc, count, i, slotManager,
                     slotInfo, allSlots, alerts, visited, lost>>
  BY <1>0, AddSlotEffect
<1>2. /\ buffer' \in [SlotIds -> Versions] /\ handed' \in Versions
      /\ via' \in [SlotIds -> SlotIds \union {Nil}]
      /\ \A n \in SlotIds : n # m => buffer'[n] = buffer[n]
      /\ \A t \in SlotIds : slots[t] = IF t = s THEN gor[s].ver ELSE buffer[m][t]
  BY <1>0, AddSlotEffect
<1>4. /\ gor' \in Goroutines
      /\ \A t \in SlotIds : t # s => gor'[t] = gor[t]
      /\ \/ /\ FlushDue(slots)
            /\ gor'[s].st = "flush" /\ gor'[s].mgr = m /\ gor'[s].ver = gor[s].ver
            /\ gor'[s].todo = Pending(slots)
         \/ ~FlushDue(slots) /\ gor'[s] = Gone
  BY <1>0, AddSlotEffect
<1> HIDE DEF slots
<1>3. Pending(slots) \subseteq SlotIds
  BY DEF Pending
<1>5. OwnStep(s)
  BY <1>1, <1>4 DEF OwnStep
<1>6. ManagerInv'
  BY <1>1, <1>4, GoneType DEF Inv, ManagerInv
<1>7. TypeOK'
  BY <1>1, <1>2, <1>4, <1>6 DEF Inv, TypeOK, AlertsTypeOK, Goroutines, ManagerInv
<1>8. FlushInv'
  <2>1. \A t \in SlotIds : t # s /\ gor[t].st = "flush" =>
          gor[t].mgr # m /\ gor[t].mgr \in SlotIds /\ buffer'[gor[t].mgr] = buffer[gor[t].mgr]
    BY <1>1, <1>2 DEF Locked, Inv, TypeOK, Goroutine
  <2>2. ASSUME NEW t \in SlotIds, t # s, gor'[t].st = "flush"
        PROVE  /\ \A u \in SlotIds :
                    gor'[u].st = "flush" /\ gor'[u].mgr = gor'[t].mgr => u = t
               /\ gor'[t].todo \subseteq Pending(buffer'[gor'[t].mgr])
               /\ \A k \in Pending(buffer'[gor'[t].mgr]) \ gor'[t].todo : Settled(k)'
    BY <1>1, <1>4, <2>1, <2>2, GoneType DEF Inv, FlushInv, Settled
  <2>3. ASSUME gor'[s].st = "flush"
        PROVE  /\ \A u \in SlotIds :
                    gor'[u].st = "flush" /\ gor'[u].mgr = gor'[s].mgr => u = s
               /\ gor'[s].todo \subseteq Pending(buffer'[gor'[s].mgr])
               /\ \A k \in Pending(buffer'[gor'[s].mgr]) \ gor'[s].todo : Settled(k)'
    BY <1>4, <2>1, <2>3, GoneType DEF slots
  <2> QED  BY <2>2, <2>3 DEF FlushInv
<1>9. VersionInv'
  <2>1. \A t \in SlotIds : gor'[t].ver # Absent => gor'[t].ver \in 0..nodeInfo'[t]
    BY <1>1, <1>4, GoneType DEF Inv, VersionInv
  <2>2. \A n, t \in SlotIds :
          buffer'[n][t] # Absent => buffer'[n][t] \in 0..nodeInfo'[t]
    BY <1>1, <1>2 DEF Inv, VersionInv, slots
  <2> QED  BY <1>1, <2>1, <2>2 DEF Inv, VersionInv
<1>10. BufferBound'
  <2>1. ASSUME NEW n \in SlotIds, n # m
        PROVE  Locked(n)' \/ Pending(buffer'[n]) = {} \/ Cardinality(Pending(buffer'[n])) < BatchSize
    <3>1. Locked(n) => Locked(n)'
      BY <1>1, <1>4 DEF Locked
    <3> QED  BY <1>2, <2>1, <3>1 DEF Inv, BufferBound
  <2>2. FlushDue(slots) => Locked(m)'
    BY <1>1, <1>4, GoneType DEF Locked
  <2>3. ~FlushDue(slots) => Cardinality(Pending(slots)) < BatchSize
    <3>1. Cardinality(Pending(slots)) \in Nat
      BY <1>3, SlotIdsFinite, FS_CardinalityType
    <3>2. BatchSize \in Int
      BY SlotSyncAssumption
    <3> DEFINE c == Cardinality(Pending(slots))
    <3>3. ~FlushDue(slots) => ~(c >= BatchSize)
      BY DEF FlushDue
    <3> HIDE DEF c
    <3>4. ~FlushDue(slots) => c < BatchSize
      BY <3>1, <3>2, <3>3 DEF c
    <3> QED  BY <3>4 DEF c
  <2> QED  BY <2>1, <2>2, <2>3 DEF BufferBound, slots
<1>11. IndexedSlotsAreStored'
  BY <1>1 DEF Inv, IndexedSlotsAreStored
<1> QED  BY <1>5, <1>6, <1>7, <1>8, <1>9, <1>10, <1>11, OwnStepInv DEF Inv

\* A SET of a flush stores the answer for k, or nothing, and reports that.
LEMMA FlushSlotEffect ==
  ASSUME Inv, NEW s \in SlotIds, NEW k \in SlotIds, FlushSlot(s, k),
         NEW m \in SlotIds, m = gor[s].mgr
  PROVE  /\ gor[s].st = "flush" /\ k \in gor[s].todo /\ slotManager # Nil
         /\ UNCHANGED <<nodeInfo, nodeCount, crashes, pc, count, i, slotManager,
                        buffer, allSlots, visited, handed, via>>
         /\ lost' = IF slotInfo'[k] = buffer[m][k] THEN lost \ {k} ELSE lost \union {k}
         /\ buffer[m][k] \in Nat /\ buffer[m][k] # Absent
         /\ buffer[m][k] \in 0..nodeInfo[k]
         /\ AlertsTypeOK' /\ slotInfo' \in {slotInfo, [slotInfo EXCEPT ![k] = buffer[m][k]]}
         /\ gor' \in Goroutines
         /\ \A t \in SlotIds : t # s => gor'[t] = gor[t]
         /\ gor'[s].st = "flush" /\ gor'[s].mgr = m /\ gor'[s].ver = gor[s].ver
         /\ gor'[s].todo = gor[s].todo \ {k}
<1> DEFINE data == buffer[m][k]
<1>1. /\ gor[s].st = "flush" /\ k \in gor[s].todo /\ slotManager # Nil
      /\ UNCHANGED <<nodeInfo, nodeCount, crashes, pc, count, i, slotManager,
                     buffer, allSlots, visited, handed, via>>
      /\ lost' = IF slotInfo'[k] = data THEN lost \ {k} ELSE lost \union {k}
  BY DEF FlushSlot, contractVars, passVars, Inv, ManagerInv
<1>2. data \in Nat /\ data # Absent /\ data \in 0..nodeInfo[k]
  <2>1. k \in Pending(buffer[m])
    BY <1>1 DEF Inv, FlushInv
  <2> QED  BY <2>1 DEF Pending, Inv, TypeOK, Versions, VersionInv
<1>3. AlertsTypeOK' /\ slotInfo' \in {slotInfo, [slotInfo EXCEPT ![k] = data]}
  <2>1. PersistState(slotInfo, k, data)
    BY DEF FlushSlot, SlotKey
  <2>2. CASE slotInfo' = Stored(slotInfo, k, data) /\ UNCHANGED alerts
    BY <2>2 DEF Stored, Inv, TypeOK, AlertsTypeOK
  <2>3. CASE /\ slotInfo' \in {slotInfo, Stored(slotInfo, k, data)}
             /\ SendFailureNotification("PersistState")
    BY <2>3, AlertType DEF Stored, Inv, TypeOK, ProcessNames
  <2> QED  BY <2>1, <2>2, <2>3 DEF PersistState
<1> HIDE DEF data
<1>4. /\ gor' \in Goroutines
      /\ \A t \in SlotIds : t # s => gor'[t] = gor[t]
      /\ gor'[s].st = "flush" /\ gor'[s].mgr = m /\ gor'[s].ver = gor[s].ver
      /\ gor'[s].todo = gor[s].todo \ {k}
  <2>1. gor' = [gor EXCEPT ![s] = [gor[s] EXCEPT !.todo = gor[s].todo \ {k}]]
    BY DEF FlushSlot
  <2>2. gor \in Goroutines /\ gor[s] \in Goroutine
    BY DEF Inv, TypeOK, Goroutines
  <2> DEFINE g == [gor[s] EXCEPT !.todo = gor[s].todo \ {k}]
  <2>3. /\ g \in Goroutine /\ g.st = "flush" /\ g.mgr = m /\ g.ver = gor[s].ver
        /\ g.todo = gor[s].todo \ {k}
    BY <1>1, <2>2 DEF Goroutine
  <2>4. gor' = [gor EXCEPT ![s] = g]
    BY <2>1
  <2> HIDE DEF g
  <2> QED  BY <2>2, <2>3, <2>4 DEF Goroutines
<1> QED  BY <1>1, <1>2, <1>3, <1>4 DEF data

LEMMA FlushSlotStep ==
  ASSUME Inv, NEW s \in SlotIds, NEW k \in SlotIds, FlushSlot(s, k)
  PROVE  Inv'
<1>0. PICK m \in SlotIds : m = gor[s].mgr
  BY DEF FlushSlot, Inv, ManagerInv, TypeOK, Goroutine
<1> DEFINE data == buffer[m][k]
<1>1. /\ gor[s].st = "flush" /\ k \in gor[s].todo /\ slotManager # Nil
      /\ UNCHANGED <<nodeInfo, nodeCount, crashes, pc, count, i, slotManager,
                     buffer, allSlots, visited, handed, via>>
      /\ lost' = IF slotInfo'[k] = data THEN lost \ {k} ELSE lost \union {k}
  BY <1>0, FlushSlotEffect
<1>2. data \in Nat /\ data # Absent /\ data \in 0..nodeInfo[k]
  BY <1>0, FlushSlotEffect
<1>3. AlertsTypeOK' /\ slotInfo' \in {slotInfo, [slotInfo EXCEPT ![k] = data]}
  BY <1>0, FlushSlotEffect
<1>4. /\ gor' \in Goroutines
      /\ \A t \in SlotIds : t # s => gor'[t] = gor[t]
      /\ gor'[s].st = "flush" /\ gor'[s].mgr = m /\ gor'[s].ver = gor[s].ver
      /\ gor'[s].todo = gor[s].todo \ {k}
  BY <1>0, FlushSlotEffect
<1> HIDE DEF data
<1>5. OwnStep(s)
  BY <1>1, <1>4 DEF OwnStep
<1>6. ManagerInv'
  BY <1>0, <1>1, <1>4 DEF Inv, ManagerInv
<1>7. slotInfo' \in Versions /\ lost' \subseteq SlotIds
  BY <1>1, <1>2, <1>3 DEF Inv, TypeOK, Versions
<1>8. TypeOK'
  BY <1>1, <1>3, <1>4, <1>6, <1>7 DEF Inv, TypeOK, Goroutines, ManagerInv
<1>9. Settled(k)' /\ \A j \in SlotIds : Settled(j) => Settled(j)'
  <2>1. slotInfo \in [SlotIds -> Nat \union {Absent}]
    BY DEF Inv, TypeOK, Versions
  <2>2. \A j \in SlotIds : j # k =>
          slotInfo'[j] = slotInfo[j] /\ (j \in lost' <=> j \in lost)
    BY <1>1, <1>3, <2>1
  <2>3. k \in lost' \/ slotInfo'[k] # Absent
    BY <1>1, <1>2
  <2> QED  BY <2>2, <2>3 DEF Settled
<1>10. FlushInv'
  <2>1. ASSUME NEW t \in SlotIds, gor'[t].st = "flush"
        PROVE  /\ \A u \in SlotIds :
                    gor'[u].st = "flush" /\ gor'[u].mgr = gor'[t].mgr => u = t
               /\ gor'[t].todo \subseteq Pending(buffer'[gor'[t].mgr])
               /\ \A j \in Pending(buffer'[gor'[t].mgr]) \ gor'[t].todo : Settled(j)'
    <3>1. gor[t].st = "flush" /\ gor'[t].mgr = gor[t].mgr
          /\ gor'[t].todo \subseteq gor[t].todo
          /\ gor[t].todo \subseteq gor'[t].todo \union {k}
      BY <1>0, <1>1, <1>4, <2>1
    <3>2. \A u \in SlotIds : gor'[u].st = "flush" =>
            gor[u].st = "flush" /\ gor'[u].mgr = gor[u].mgr
      BY <1>0, <1>1, <1>4
    <3>3. \A j \in Pending(buffer'[gor'[t].mgr]) : j \in SlotIds
      BY DEF Pending
    <3> QED  BY <1>1, <1>9, <3>1, <3>2, <3>3 DEF Inv, FlushInv
  <2> QED  BY <2>1 DEF FlushInv
<1>11. VersionInv'
  <2>1. \A j \in SlotIds : slotInfo'[j] # Absent => slotInfo'[j] \in 0..nodeInfo[j]
    BY <1>2, <1>3 DEF Inv, VersionInv, TypeOK, Versions
  <2>2. \A t \in SlotIds : gor'[t].ver = gor[t].ver
    BY <1>4
  <2> QED  BY <1>1, <2>1, <2>2 DEF Inv, VersionInv
<1>12. BufferBound'
  <2>1. \A n \in SlotIds : Locked(n) => Locked(n)'
    BY <1>0, <1>4 DEF Locked
  <2> QED  BY <1>1, <2>1 DEF Inv, BufferBound
<1>13. IndexedSlotsAreStored'
  BY <1>1, <1>9 DEF Inv, IndexedSlotsAreStored, Settled, TypeOK
<1> QED  BY <1>5, <1>6, <1>8, <1>10, <1>11, <1>12, <1>13, OwnStepInv DEF Inv

LEMMA FlushEndsStep ==
  ASSUME Inv, NEW s \in SlotIds, FlushEnds(s)
  PROVE  Inv'
<1>0. PICK m \in SlotIds : m = gor[s].mgr
  BY DEF FlushEnds, Inv, ManagerInv, TypeOK, Goroutine
<1>1. /\ gor[s].st = "flush" /\ gor[s].todo = {} /\ slotManager # Nil
      /\ UNCHANGED <<nodeInfo, nodeCount, crashes, pc, count, i, slotManager,
                     slotInfo, alerts, visited, handed, via, lost>>
      /\ allSlots' = allSlots \/ allSlots' = allSlots \union Pending(buffer[m])
      /\ buffer' = [buffer EXCEPT ![m] = EmptyBuffer]
      /\ gor' = [gor EXCEPT ![s] = Gone]
  BY <1>0 DEF FlushEnds, contractVars, passVars, history, Inv, ManagerInv
<1>2. /\ gor' \in Goroutines /\ gor'[s] = Gone
      /\ \A t \in SlotIds : t # s => gor'[t] = gor[t]
  BY <1>1, GoneType DEF Inv, TypeOK, Goroutines
<1>3. /\ buffer' \in [SlotIds -> Versions] /\ buffer'[m] = EmptyBuffer
      /\ \A n \in SlotIds : n # m => buffer'[n] = buffer[n]
  BY <1>1, EmptyType DEF Inv, TypeOK
<1>4. OwnStep(s)
  BY <1>1, <1>2 DEF OwnStep
<1>5. ManagerInv'
  BY <1>1, <1>2, GoneType DEF Inv, ManagerInv
<1>6. allSlots' \subseteq SlotIds
  BY <1>1 DEF Inv, TypeOK, Pending
<1>7. TypeOK'
  BY <1>1, <1>2, <1>3, <1>5, <1>6 DEF Inv, TypeOK, AlertsTypeOK, Goroutines, ManagerInv
<1>8. \A t \in SlotIds : gor'[t].st = "flush" =>
        /\ t # s /\ gor'[t] = gor[t] /\ gor[t].mgr # m
        /\ gor[t].mgr \in SlotIds /\ buffer'[gor[t].mgr] = buffer[gor[t].mgr]
  <2>1. ASSUME NEW t \in SlotIds, gor'[t].st = "flush"
        PROVE  /\ t # s /\ gor'[t] = gor[t] /\ gor[t].mgr # m
               /\ gor[t].mgr \in SlotIds /\ buffer'[gor[t].mgr] = buffer[gor[t].mgr]
    <3>1. t # s /\ gor'[t] = gor[t]
      BY <1>2, <2>1, GoneType
    <3>2. gor[t].mgr # m
      BY <1>0, <1>1, <2>1, <3>1 DEF Inv, FlushInv
    <3>3. gor[t].mgr \in SlotIds
      BY <2>1, <3>1 DEF Inv, ManagerInv, TypeOK, Goroutine
    <3> QED  BY <1>3, <3>1, <3>2, <3>3
  <2> QED  BY <2>1
<1>9. FlushInv'
  BY <1>1, <1>8 DEF Inv, FlushInv, Settled
<1>10. VersionInv'
  <2>1. \A n, t \in SlotIds :
          buffer'[n][t] # Absent => buffer'[n][t] \in 0..nodeInfo[t]
    BY <1>3 DEF Inv, VersionInv, EmptyBuffer
  <2>2. \A t \in SlotIds : gor'[t].ver # Absent => gor'[t].ver \in 0..nodeInfo[t]
    BY <1>2, GoneType DEF Inv, VersionInv
  <2> QED  BY <1>1, <2>1, <2>2 DEF Inv, VersionInv
<1>11. BufferBound'
  <2>1. ASSUME NEW n \in SlotIds, n # m
        PROVE  Locked(n) => Locked(n)'
    BY <1>0, <1>2, <2>1 DEF Locked
  <2> QED  BY <1>3, <2>1, EmptyType DEF Inv, BufferBound
<1>12. IndexedSlotsAreStored'
  <2>1. \A j \in Pending(buffer[m]) : Settled(j)
    BY <1>0, <1>1 DEF Inv, FlushInv
  <2> QED  BY <1>1, <2>1 DEF Inv, IndexedSlotsAreStored, Settled
<1> QED  BY <1>4, <1>5, <1>7, <1>9, <1>10, <1>11, <1>12, OwnStepInv DEF Inv

LEMMA NextInv == Inv /\ [Next]_vars => Inv'
<1> SUFFICES ASSUME Inv, [Next]_vars PROVE Inv'
  OBVIOUS
<1>1. CASE Mint \/ \E s \in SlotIds : Update(s)
  BY <1>1, ContractStep
<1>2. CASE Crash
  BY <1>2, CrashStep
<1>3. CASE FetchAllSlots
  BY <1>3, LoopStep, StartBatchStep DEF FetchAllSlots
<1>4. CASE \E s \in SlotIds : AddSlotInfo(s)
  BY <1>4, CheckManagerStep, CreateManagerStep, QueryStep, AddSlotStep, FlushSlotStep,
     FlushEndsStep DEF AddSlotInfo
<1>5. CASE UNCHANGED vars
  <2>1. UNCHANGED <<nodeInfo, nodeCount, crashes, pc, count, i, gor, slotManager, buffer,
                    slotInfo, allSlots, alerts, visited, handed, via, lost>>
    BY <1>5 DEF vars, contractVars, passVars, redisVars, history
  <2>2. TypeOK' /\ MintInv' /\ PassInv' /\ ManagerInv'
    BY <2>1 DEF Inv, TypeOK, AlertsTypeOK, MintInv, PassInv, ManagerInv
  <2>3. FlushInv' /\ VersionInv'
    BY <2>1 DEF Inv, FlushInv, Settled, VersionInv
  <2>4. BufferBound' /\ IndexedSlotsAreStored'
    BY <2>1 DEF Inv, BufferBound, Locked, IndexedSlotsAreStored
  <2> QED  BY <2>2, <2>3, <2>4 DEF Inv
<1> QED  BY <1>1, <1>2, <1>3, <1>4, <1>5 DEF Next
-----------------------------------------------------------------------------
(***************************************************************************)
(* The safety properties of the pipeline.                                  *)
(***************************************************************************)
LEMMA Invariance == Spec => []Inv
BY InitInv, NextInv, PTL DEF Spec

(***************************************************************************)
(* Every variable keeps its type, and AddSlot is never called on a nil     *)
(* SlotManager although nothing synchronises the test with the assignment. *)
(***************************************************************************)
THEOREM TypeCorrect == Spec => []TypeOK
<1>1. Inv => TypeOK
  BY DEF Inv
<1> QED  BY <1>1, Invariance, PTL

(***************************************************************************)
(* A pass reads every slot up to the count it started with, in batches of  *)
(* at most FetchBatch goroutines, whatever the count and the batch size.   *)
(***************************************************************************)
THEOREM PassesAreComplete == Spec => []PassIsComplete
<1>1. Inv => PassIsComplete
  <2> SUFFICES ASSUME Inv PROVE PassIsComplete
    OBVIOUS
  <2> DEFINE working == {s \in SlotIds : gor[s] # Gone}
             batch == i..(i + FetchBatch - 1)
  <2>1. i \in Nat /\ count \in Nat /\ FetchBatch \in Nat \ {0}
    BY SlotSyncAssumption DEF Inv, TypeOK
  <2>2. ASSUME pc = "loop", i > count PROVE visited = 0..count
    <3>1. visited = {j \in 0..count : j < i}
      BY <2>2 DEF Inv, PassInv
    <3>2. \A j \in 0..count : j < i
      BY <2>1, <2>2
    <3> QED  BY <3>1, <3>2
  <2>3. working \subseteq batch
    BY <2>1 DEF Inv, PassInv, SlotIds
  <2>4. IsFiniteSet(batch) /\ Cardinality(batch) = FetchBatch
    <3>1. i \in Int /\ i + FetchBatch - 1 \in Int /\ i <= i + FetchBatch - 1
      BY <2>1
    <3>2. IsFiniteSet(batch) /\ Cardinality(batch) = (i + FetchBatch - 1) - i + 1
      BY <3>1, FS_Interval
    <3> QED  BY <2>1, <3>2
  <2>5. Cardinality(working) <= Cardinality(batch)
    BY <2>3, <2>4, FS_Subset
  <2> QED  BY <2>2, <2>4, <2>5 DEF PassIsComplete
<1> QED  BY <1>1, Invariance, PTL

(***************************************************************************)
(* A SlotManager that nobody flushes holds fewer than BatchSize slots.     *)
(***************************************************************************)
THEOREM BuffersAreBounded == Spec => []BufferBound
<1>1. Inv => BufferBound
  BY DEF Inv
<1> QED  BY <1>1, Invariance, PTL

(***************************************************************************)
(* A slot in the index has its key, across failed SETs, the race on        *)
(* slotManager and crashes at any point.                                   *)
(***************************************************************************)
THEOREM IndexFollowsSlots == Spec => []IndexedSlotsAreStored
<1>1. Inv => IndexedSlotsAreStored
  BY DEF Inv
<1> QED  BY <1>1, Invariance, PTL

\* The one kind of step that changes a slot's key.
LEMMA SlotInfoStep ==
  ASSUME Inv, [Next]_vars
  PROVE  \/ slotInfo' = slotInfo
         \/ /\ nodeInfo' = nodeInfo
            /\ \E k \in SlotIds : \E v \in 0..nodeInfo[k] :
                 slotInfo' = [slotInfo EXCEPT ![k] = v]
<1>1. ASSUME NEW s \in SlotIds, NEW k \in SlotIds, FlushSlot(s, k)
      PROVE  \/ slotInfo' = slotInfo
             \/ /\ nodeInfo' = nodeInfo
                /\ \E v \in 0..nodeInfo[k] : slotInfo' = [slotInfo EXCEPT ![k] = v]
  <2>1. PICK m \in SlotIds : m = gor[s].mgr
    BY <1>1 DEF FlushSlot, Inv, ManagerInv, TypeOK, Goroutine
  <2>2. buffer[m][k] \in 0..nodeInfo[k]
    <3>1. k \in Pending(buffer[m])
      BY <1>1, <2>1 DEF FlushSlot, Inv, FlushInv
    <3> QED  BY <3>1 DEF Pending, Inv, VersionInv
  <2>3. slotInfo' = slotInfo \/ slotInfo' = [slotInfo EXCEPT ![k] = buffer[m][k]]
    BY <1>1, <2>1 DEF FlushSlot, SlotKey, PersistState, Stored
  <2>4. nodeInfo' = nodeInfo
    BY <1>1 DEF FlushSlot, contractVars
  <2> QED  BY <2>2, <2>3, <2>4
<1>2. CASE \E s, k \in SlotIds : FlushSlot(s, k)
  BY <1>1, <1>2
<1>3. CASE ~\E s, k \in SlotIds : FlushSlot(s, k)
  <2>1. slotInfo' = slotInfo
    BY <1>3 DEF Next, Mint, Update, Crash, FetchAllSlots, FetchNodeCount, StartBatch,
       WaitBatch, PassEnds, AddSlotInfo, CheckManager, CreateManager, NodeInfo,
       NodeInfoFails, ReadManager, AddSlot, FlushEnds, vars, redisVars
  <2> QED  BY <2>1
<1> QED  BY <1>2, <1>3

Published == [s \in SlotIds |-> 0..nodeInfo[s]]

LEMMA PublishedGrows ==
  ASSUME Inv, [Next]_vars
  PROVE  /\ Published' \in [SlotIds -> SUBSET Nat]
         /\ \A s \in SlotIds : Published[s] \subseteq Published'[s]
<1>1. \A s \in SlotIds : nodeInfo[s] \in Nat
  BY DEF Inv, TypeOK
<1>2. \A s \in SlotIds : nodeInfo'[s] \in Nat /\ nodeInfo[s] <= nodeInfo'[s]
  <2>1. CASE Mint \/ \E s \in SlotIds : Update(s)
    BY <2>1, <1>1, ContractGrows
  <2>2. CASE ~(Mint \/ \E s \in SlotIds : Update(s))
    <3>1. nodeInfo' = nodeInfo
      BY <2>2 DEF Next, Crash, FetchAllSlots, FetchNodeCount, StartBatch, WaitBatch,
         PassEnds, AddSlotInfo, CheckManager, CreateManager, NodeInfo, NodeInfoFails,
         ReadManager, AddSlot, FlushSlot, FlushEnds, vars, contractVars
    <3> QED  BY <1>1, <3>1
  <2> QED  BY <2>1, <2>2
<1> QED  BY <1>1, <1>2 DEF Published

(***************************************************************************)
(* The slot pipeline implements a cache of contract state: no slot is ever *)
(* stored under the key of another, for any number of slots, lag, batch    *)
(* sizes, failures and crashes.                                            *)
(***************************************************************************)
THEOREM SlotsMirrorContract == Spec => MirrorsContract
<1>1. Init => Mirror!Init
  <2> SUFFICES ASSUME Init PROVE Mirror!Init
    OBVIOUS
  <2>1. Published \in [SlotIds -> SUBSET Nat]
    BY DEF Init, Published
  <2> QED  BY <2>1 DEF Init, Mirror!Init, Mirror!Missing, Absent, Published
<1>2. Inv /\ [Next]_vars => [Mirror!Next]_<<Published, slotInfo>>
  <2> SUFFICES ASSUME Inv, [Next]_vars
               PROVE  [Mirror!Next]_<<Published, slotInfo>>
    OBVIOUS
  <2>1. CASE slotInfo' = slotInfo
    BY <2>1, PublishedGrows DEF Mirror!Next, Mirror!Publish, Published
  <2>2. ASSUME nodeInfo' = nodeInfo, NEW k \in SlotIds, NEW v \in 0..nodeInfo[k],
               slotInfo' = [slotInfo EXCEPT ![k] = v]
        PROVE  Mirror!Next
    <3>1. v \in Published[k] /\ Published' = Published
      BY <2>2 DEF Published
    <3> QED  BY <2>2, <3>1 DEF Mirror!Next, Mirror!Refresh, Published
  <2> QED  BY <2>1, <2>2, SlotInfoStep
<1> QED
  BY <1>1, <1>2, Invariance, PTL DEF Spec, MirrorsContract, Mirror!Spec, Published
-----------------------------------------------------------------------------
(***************************************************************************)
(* What becomes of a slot given to AddSlot: the theorems of SlotSync that  *)
(* have to follow a version through the SlotManagers, of which the race    *)
(* on slotManager can make several.                                        *)
(***************************************************************************)

\* One SlotManager is in use, and what it holds is what was given last.
SoleManager ==
  /\ slotManager # Nil
  /\ \A s \in SlotIds :
       /\ gor[s].st # "create"
       /\ gor[s].mgr \in {Nil, slotManager}
       /\ buffer[slotManager][s] \in {Absent, handed[s]}

\* Or several may be, in the first batch only, which gives each slot to
\* AddSlot once.
FirstBatch ==
  /\ i = 0
  /\ \A k \in SlotIds : handed[k] # Absent => k < FetchBatch
  /\ \A m, k \in SlotIds : buffer[m][k] # Absent =>
       pc = "wait" /\ gor[k].st \in {"none", "flush"} /\ buffer[m][k] = handed[k]
  /\ \A s \in SlotIds : gor[s].st \in {"check", "create"} =>
       /\ buffer[s] = EmptyBuffer
       /\ slotManager # s
       /\ \A t \in SlotIds : gor[t].mgr # s

\* The first batch cannot end without a SlotManager: slot 0 is in it.
BeforeManager ==
  slotManager = Nil =>
    /\ \A m \in SlotIds : buffer[m] = EmptyBuffer
    /\ pc = "wait" => gor[0].st \in {"check", "create"}

\* What a flush has been through is in Redis, or its loss was reported.
FlushedInv ==
  \A s \in SlotIds : gor[s].st = "flush" =>
    \A k \in Pending(buffer[gor[s].mgr]) \ gor[s].todo :
      k \in lost \/ slotInfo[k] = handed[k]

\* An answer is kept by the SlotManager it was given to, which is the one in
\* the package variable, but for the answers of the first batch.
KeptInv ==
  \A s \in SlotIds : handed[s] # Absent =>
    /\ via[s] \in SlotIds
    /\ s \in lost \/ slotInfo[s] = handed[s] \/ buffer[via[s]][s] = handed[s]
    /\ via[s] = slotManager \/ s < FetchBatch

HandInv ==
  /\ SoleManager \/ FirstBatch
  /\ BeforeManager /\ FlushedInv /\ KeptInv
-----------------------------------------------------------------------------
LEMMA EmptyIsAbsent == \A k \in SlotIds : EmptyBuffer[k] = Absent
BY DEF EmptyBuffer

\* In the hands of a goroutine a SlotManager holds what was given last.
LEMMA LiveManager ==
  ASSUME Inv, HandInv, NEW s \in SlotIds, NEW m \in SlotIds, m = gor[s].mgr,
         NEW k \in SlotIds
  PROVE  buffer[m][k] \in {Absent, handed[k]}
<1>1. m # Nil
  BY DEF SlotIds, Nil
<1> QED  BY <1>1 DEF HandInv, SoleManager, FirstBatch

LEMMA InitHand == Init => HandInv
<1> SUFFICES ASSUME Init PROVE HandInv
  OBVIOUS
<1>1. \A m \in SlotIds : buffer[m] = EmptyBuffer /\ gor[m] = Gone /\ handed[m] = Absent
  BY DEF Init
<1>2. FirstBatch /\ BeforeManager
  BY <1>1, GoneType, EmptyIsAbsent DEF FirstBatch, BeforeManager, Init
<1>3. FlushedInv /\ KeptInv
  BY <1>1, GoneType DEF FlushedInv, KeptInv
<1> QED  BY <1>2, <1>3 DEF HandInv

\* Steps that change nothing of all that.
LEMMA HandKept ==
  ASSUME Inv, HandInv, UNCHANGED <<gor, slotManager, buffer, slotInfo, handed, via, lost>>,
         pc' = pc \/ (pc # "wait" /\ pc' # "wait"), i' \in {i, 0}
  PROVE  HandInv'
<1>1. (SoleManager \/ FirstBatch)'
  BY DEF HandInv, SoleManager, FirstBatch
<1>2. BeforeManager' /\ FlushedInv' /\ KeptInv'
  BY DEF HandInv, BeforeManager, FlushedInv, KeptInv
<1> QED  BY <1>1, <1>2 DEF HandInv

\* Between two batches nobody is at work: the SlotManager in the package
\* variable, if there is one, is the only one that anybody will use.
LEMMA BetweenBatches ==
  ASSUME Inv, HandInv, \A s \in SlotIds : gor[s] = Gone,
         UNCHANGED <<slotManager, buffer, slotInfo, handed, via, lost>>,
         \A s \in SlotIds : gor'[s].st \in {"none", "check"} /\ gor'[s].mgr = Nil,
         slotManager = Nil => i' = 0 /\ (pc' = "wait" => gor'[0].st = "check")
  PROVE  HandInv'
<1>1. CASE slotManager # Nil
  <2>1. slotManager \in SlotIds
    BY <1>1 DEF Inv, TypeOK
  <2>2. \A k \in SlotIds : buffer[slotManager][k] \in {Absent, handed[k]}
    BY <1>1, <2>1 DEF HandInv, SoleManager, FirstBatch
  <2>3. SoleManager'
    BY <1>1, <2>2 DEF SoleManager
  <2> QED  BY <1>1, <2>3 DEF HandInv, BeforeManager, FlushedInv, KeptInv
<1>2. CASE slotManager = Nil
  <2>1. \A m \in SlotIds : buffer'[m] = EmptyBuffer
    BY <1>2 DEF HandInv, BeforeManager
  <2>2. \A s \in SlotIds : Nil # s
    BY DEF SlotIds, Nil
  <2>3. FirstBatch'
    BY <1>2, <2>1, <2>2, EmptyIsAbsent DEF HandInv, SoleManager, FirstBatch
  <2>4. BeforeManager'
    BY <1>2, <2>1 DEF BeforeManager
  <2> QED  BY <2>3, <2>4 DEF HandInv, FlushedInv, KeptInv
<1> QED  BY <1>1, <1>2

LEMMA BatchHand ==
  ASSUME Inv, HandInv, StartBatch \/ WaitBatch
  PROVE  HandInv'
<1>1. UNCHANGED <<slotManager, buffer, slotInfo, handed, via, lost>>
  BY DEF StartBatch, WaitBatch, redisVars, history
<1>2. \A s \in SlotIds : gor[s] = Gone
  BY DEF StartBatch, WaitBatch, Inv, PassInv
<1>3. \A s \in SlotIds : gor'[s].st \in {"none", "check"} /\ gor'[s].mgr = Nil
  <2>1. CASE StartBatch
    <3>1. [Gone EXCEPT !.st = "check"].st = "check" /\ [Gone EXCEPT !.st = "check"].mgr = Nil
      BY DEF Gone
    <3> QED  BY <1>2, <2>1, <3>1, GoneType DEF StartBatch
  <2>2. CASE WaitBatch
    BY <1>2, <2>2, GoneType DEF WaitBatch
  <2> QED  BY <2>1, <2>2
<1>4. ASSUME slotManager = Nil
      PROVE  i' = 0 /\ (pc' = "wait" => gor'[0].st = "check")
  <2>1. i = 0 /\ 0 \in SlotIds
    BY <1>4, SlotSyncAssumption DEF HandInv, SoleManager, FirstBatch, SlotIds
  <2>2. CASE StartBatch
    <3>1. 0 \in Batch /\ i' = 0
      BY <2>1, <2>2, SlotSyncAssumption DEF StartBatch, Batch
    <3>2. gor'[0] = [Gone EXCEPT !.st = "check"]
      BY <2>1, <2>2, <3>1 DEF StartBatch
    <3> QED  BY <3>1, <3>2 DEF Gone
  <2>3. CASE WaitBatch
    BY <1>2, <1>4, <2>1, <2>3, GoneType DEF WaitBatch, HandInv, BeforeManager
  <2> QED  BY <2>2, <2>3
<1> QED  BY <1>1, <1>2, <1>3, <1>4, BetweenBatches

LEMMA CrashHand ==
  ASSUME Inv, Crash
  PROVE  HandInv'
<1>1. \A m \in SlotIds : buffer'[m] = EmptyBuffer /\ gor'[m] = Gone /\ handed'[m] = Absent
  BY DEF Crash
<1>2. FirstBatch' /\ BeforeManager'
  BY <1>1, GoneType, EmptyIsAbsent DEF Crash, FirstBatch, BeforeManager
<1>3. FlushedInv' /\ KeptInv'
  BY <1>1, GoneType DEF FlushedInv, KeptInv
<1> QED  BY <1>1, <1>2, <1>3 DEF HandInv
-----------------------------------------------------------------------------
LEMMA CheckManagerHand ==
  ASSUME Inv, HandInv, NEW s \in SlotIds, CheckManager(s)
  PROVE  HandInv'
<1>1. /\ gor[s].st = "check" /\ gor[s].mgr = Nil
      /\ UNCHANGED <<pc, i, slotManager, buffer, slotInfo, lost, handed, via>>
  BY DEF CheckManager, passVars, redisVars, history, Inv, ManagerInv
<1>2. /\ \A t \in SlotIds : t # s => gor'[t] = gor[t]
      /\ gor'[s].st = (IF slotManager = Nil THEN "create" ELSE "query")
      /\ gor'[s].mgr = Nil
  BY <1>1 DEF CheckManager, Inv, TypeOK, Goroutine
<1>3. (SoleManager \/ FirstBatch)'
  <2>1. SoleManager => SoleManager'
    BY <1>1, <1>2 DEF SoleManager
  <2>2. FirstBatch => FirstBatch'
    BY <1>1, <1>2 DEF FirstBatch
  <2> QED  BY <2>1, <2>2 DEF HandInv
<1>4. BeforeManager'
  <2>1. 0 \in SlotIds
    BY SlotSyncAssumption DEF SlotIds
  <2> QED  BY <1>1, <1>2, <2>1 DEF HandInv, BeforeManager
<1>5. FlushedInv' /\ KeptInv'
  BY <1>1, <1>2 DEF HandInv, FlushedInv, KeptInv
<1> QED  BY <1>3, <1>4, <1>5 DEF HandInv

\* A goroutine makes a SlotManager in the first batch only.
LEMMA CreateManagerHand ==
  ASSUME Inv, HandInv, NEW s \in SlotIds, CreateManager(s)
  PROVE  HandInv'
<1>1. /\ gor[s].st = "create" /\ gor[s].mgr = Nil /\ s # Nil
      /\ slotManager' = s
      /\ UNCHANGED <<pc, i, slotInfo, lost, handed, via>>
  BY DEF CreateManager, passVars, redisVars, history, Inv, ManagerInv, SlotIds, Nil
<1>2. /\ \A t \in SlotIds : t # s => gor'[t] = gor[t]
      /\ gor'[s].st = "query" /\ gor'[s].mgr = Nil
  BY <1>1 DEF CreateManager, Inv, TypeOK, Goroutine
<1>3. FirstBatch
  BY <1>1 DEF HandInv, SoleManager
<1>4. buffer' = buffer
  <2>1. buffer[s] = EmptyBuffer
    BY <1>1, <1>3 DEF FirstBatch
  <2> QED  BY <2>1 DEF CreateManager, Inv, TypeOK
<1>5. FirstBatch'
  BY <1>1, <1>2, <1>3, <1>4 DEF FirstBatch
<1>6. FlushedInv'
  BY <1>1, <1>2, <1>4 DEF HandInv, FlushedInv
<1>7. BeforeManager' /\ KeptInv'
  BY <1>1, <1>3, <1>4 DEF HandInv, BeforeManager, KeptInv, FirstBatch
<1> QED  BY <1>5, <1>6, <1>7 DEF HandInv

LEMMA QueryHand ==
  ASSUME Inv, HandInv, NEW s \in SlotIds, NodeInfo(s) \/ NodeInfoFails(s) \/ ReadManager(s)
  PROVE  HandInv'
<1>1. /\ gor[s].st \in {"query", "manager"} /\ gor[s].mgr = Nil /\ slotManager # Nil
      /\ UNCHANGED <<pc, i, slotManager, buffer, slotInfo, lost, handed, via>>
  BY DEF NodeInfo, NodeInfoFails, ReadManager, passVars, redisVars, history, Inv, ManagerInv
<1>2. /\ \A t \in SlotIds : t # s => gor'[t] = gor[t]
      /\ gor'[s].st \in {"manager", "add", "none"}
      /\ gor'[s].mgr \in {Nil, slotManager}
  <2>1. CASE NodeInfo(s)
    <3>1. PICK v : gor' = [gor EXCEPT ![s].st = "manager", ![s].ver = v]
      BY <2>1 DEF NodeInfo
    <3>2. gor' = [gor EXCEPT ![s] = [gor[s] EXCEPT !.st = "manager", !.ver = v]]
      BY <3>1
    <3>3. gor \in Goroutines /\ gor[s] \in Goroutine
      BY DEF Inv, TypeOK, Goroutines
    <3>4. /\ [gor[s] EXCEPT !.st = "manager", !.ver = v].st = "manager"
          /\ [gor[s] EXCEPT !.st = "manager", !.ver = v].mgr = Nil
      BY <1>1, <3>3 DEF Goroutine
    <3> QED  BY <3>2, <3>3, <3>4 DEF Goroutines
  <2>2. CASE NodeInfoFails(s)
    BY <2>2, GoneType DEF NodeInfoFails, Inv, TypeOK
  <2>3. CASE ReadManager(s)
    BY <2>3 DEF ReadManager, Inv, TypeOK, Goroutine
  <2> QED  BY <2>1, <2>2, <2>3
<1>3. (SoleManager \/ FirstBatch)'
  <2>1. SoleManager => SoleManager'
    BY <1>1, <1>2 DEF SoleManager
  <2>2. FirstBatch => FirstBatch'
    <3>1. \A t \in SlotIds : t # Nil
      BY DEF SlotIds, Nil
    <3> QED  BY <1>1, <1>2, <3>1 DEF FirstBatch
  <2> QED  BY <2>1, <2>2 DEF HandInv
<1>4. BeforeManager' /\ FlushedInv' /\ KeptInv'
  BY <1>1, <1>2 DEF HandInv, BeforeManager, FlushedInv, KeptInv
<1> QED  BY <1>3, <1>4 DEF HandInv
-----------------------------------------------------------------------------
\* The slot given to AddSlot is in no other SlotManager that anybody uses.
LEMMA AddSlotHand ==
  ASSUME Inv, HandInv, NEW s \in SlotIds, AddSlot(s)
  PROVE  HandInv'
<1>0. PICK m \in SlotIds : m = gor[s].mgr
  BY DEF AddSlot, Inv, ManagerInv, TypeOK, Goroutine
<1>1. /\ gor[s].st = "add" /\ ~Locked(m) /\ slotManager # Nil /\ m # Nil
      /\ UNCHANGED <<pc, i, slotManager, slotInfo, lost>>
      /\ \A n \in SlotIds : n # m => buffer'[n] = buffer[n]
      /\ \A t \in SlotIds :
           /\ buffer'[m][t] = IF t = s THEN gor[s].ver ELSE buffer[m][t]
           /\ handed'[t] = IF t = s THEN gor[s].ver ELSE handed[t]
           /\ via'[t] = IF t = s THEN m ELSE via[t]
  BY <1>0, AddSlotEffect DEF SlotIds, Nil
<1>2. /\ \A t \in SlotIds : t # s => gor'[t] = gor[t]
      /\ \/ gor'[s].st = "flush" /\ gor'[s].mgr = m /\ gor'[s].todo = Pending(buffer'[m])
         \/ gor'[s] = Gone
  BY <1>0, AddSlotEffect
<1>3. SoleManager => SoleManager'
  BY <1>0, <1>1, <1>2, GoneType DEF SoleManager
<1>4. FirstBatch => FirstBatch'
  <2> SUFFICES ASSUME FirstBatch PROVE FirstBatch'
    OBVIOUS
  <2>1. pc = "wait" /\ s < i + FetchBatch
    BY <1>1, GoneType DEF Inv, PassInv
  <2>5. i = 0 /\ s < FetchBatch
    BY <2>1, SlotSyncAssumption DEF FirstBatch
  <2>2. gor'[s].st \in {"none", "flush"} /\ gor'[s].mgr \in {Nil, m}
    BY <1>2, GoneType
  <2>3. ASSUME NEW n \in SlotIds, NEW k \in SlotIds, buffer'[n][k] # Absent
        PROVE  pc' = "wait" /\ gor'[k].st \in {"none", "flush"} /\ buffer'[n][k] = handed'[k]
    <3>1. CASE k = s
      <4>1. n = m
        BY <1>1, <2>3, <3>1 DEF FirstBatch
      <4> QED  BY <1>1, <2>1, <2>2, <3>1, <4>1
    <3>2. CASE k # s
      BY <1>1, <1>2, <2>3, <3>2 DEF FirstBatch
    <3> QED  BY <3>1, <3>2
  <2>4. ASSUME NEW t \in SlotIds, gor'[t].st \in {"check", "create"}
        PROVE  /\ buffer'[t] = EmptyBuffer
               /\ slotManager' # t
               /\ \A u \in SlotIds : gor'[u].mgr # t
    <3>1. t # s /\ gor[t].st \in {"check", "create"} /\ t # Nil
      BY <1>2, <2>2, <2>4 DEF SlotIds, Nil
    <3>2. t # m
      BY <1>0, <3>1 DEF FirstBatch
    <3> QED  BY <1>1, <1>2, <2>2, <3>1, <3>2 DEF FirstBatch
  <2>6. \A k \in SlotIds : handed'[k] # Absent => k < FetchBatch
    BY <1>1, <2>5 DEF FirstBatch
  <2> QED  BY <1>1, <2>3, <2>4, <2>5, <2>6 DEF FirstBatch
<1>5. FlushedInv'
  <2>1. ASSUME NEW t \in SlotIds, gor'[t].st = "flush",
               NEW k \in Pending(buffer'[gor'[t].mgr]) \ gor'[t].todo
        PROVE  k \in lost' \/ slotInfo'[k] = handed'[k]
    <3>1. t # s /\ gor'[t] = gor[t] /\ k \in SlotIds
      BY <1>2, <2>1, GoneType DEF Pending
    <3>2. PICK n \in SlotIds : n = gor[t].mgr
      BY <2>1, <3>1 DEF Inv, ManagerInv, TypeOK, Goroutine
    <3>3. n # m
      BY <1>1, <2>1, <3>1, <3>2 DEF Locked
    <3>4. buffer'[n] = buffer[n] /\ k \in Pending(buffer[n]) \ gor[t].todo
      BY <1>1, <2>1, <3>1, <3>2, <3>3
    <3>5. k # s
      <4>1. ~SoleManager
        BY <1>0, <1>1, <3>2, <3>3 DEF SoleManager, SlotIds, Nil
      <4> QED  BY <1>1, <3>2, <3>4, <4>1 DEF HandInv, FirstBatch, Pending
    <3> QED  BY <1>1, <2>1, <3>1, <3>2, <3>4, <3>5 DEF HandInv, FlushedInv
  <2> QED  BY <2>1 DEF FlushedInv
<1>6. KeptInv'
  <2>1. m = slotManager \/ s < FetchBatch
    <3>1. s < i + FetchBatch
      BY <1>1, GoneType DEF Inv, PassInv
    <3> QED  BY <1>0, <1>1, <3>1, SlotSyncAssumption DEF HandInv, SoleManager, FirstBatch
  <2>2. ASSUME NEW k \in SlotIds, handed'[k] # Absent
        PROVE  /\ via'[k] \in SlotIds
               /\ k \in lost' \/ slotInfo'[k] = handed'[k] \/ buffer'[via'[k]][k] = handed'[k]
               /\ via'[k] = slotManager' \/ k < FetchBatch
    <3>1. CASE k = s
      BY <1>1, <2>1, <3>1
    <3>2. CASE k # s
      <4>1. handed'[k] = handed[k] /\ via'[k] = via[k] /\ via[k] \in SlotIds
        BY <1>1, <2>2, <3>2 DEF HandInv, KeptInv
      <4>2. buffer'[via[k]][k] = buffer[via[k]][k]
        BY <1>1, <3>2, <4>1
      <4> QED  BY <1>1, <2>2, <4>1, <4>2 DEF HandInv, KeptInv
    <3> QED  BY <3>1, <3>2
  <2> QED  BY <2>2 DEF KeptInv
<1>7. BeforeManager'
  BY <1>1 DEF BeforeManager
<1> QED  BY <1>3, <1>4, <1>5, <1>6, <1>7 DEF HandInv

LEMMA FlushSlotHand ==
  ASSUME Inv, HandInv, NEW s \in SlotIds, NEW k \in SlotIds, FlushSlot(s, k)
  PROVE  HandInv'
<1>0. PICK m \in SlotIds : m = gor[s].mgr
  BY DEF FlushSlot, Inv, ManagerInv, TypeOK, Goroutine
<1>1. /\ gor[s].st = "flush" /\ k \in gor[s].todo /\ slotManager # Nil
      /\ UNCHANGED <<pc, i, slotManager, buffer, handed, via>>
      /\ lost' = IF slotInfo'[k] = buffer[m][k] THEN lost \ {k} ELSE lost \union {k}
      /\ slotInfo' \in {slotInfo, [slotInfo EXCEPT ![k] = buffer[m][k]]}
      /\ buffer[m][k] # Absent
  BY <1>0, FlushSlotEffect
<1>2. /\ \A t \in SlotIds : t # s => gor'[t] = gor[t]
      /\ gor'[s].st = "flush" /\ gor'[s].mgr = m /\ gor'[s].todo = gor[s].todo \ {k}
  BY <1>0, FlushSlotEffect
<1>3. buffer[m][k] = handed[k]
  BY <1>0, <1>1, LiveManager
<1>4. /\ k \in lost' \/ slotInfo'[k] = handed'[k]
      /\ \A j \in SlotIds : j # k => slotInfo'[j] = slotInfo[j] /\ (j \in lost' <=> j \in lost)
  BY <1>1, <1>3 DEF Inv, TypeOK, Versions
<1>5. \A t \in SlotIds : gor'[t].st = gor[t].st /\ gor'[t].mgr = gor[t].mgr
  BY <1>0, <1>1, <1>2
<1>6. (SoleManager \/ FirstBatch)'
  BY <1>1, <1>5 DEF HandInv, SoleManager, FirstBatch
<1>7. FlushedInv'
  <2>1. ASSUME NEW t \in SlotIds, gor'[t].st = "flush",
               NEW j \in Pending(buffer'[gor'[t].mgr]) \ gor'[t].todo
        PROVE  j \in lost' \/ slotInfo'[j] = handed'[j]
    <3>1. j \in SlotIds
      BY <2>1 DEF Pending
    <3>2. CASE j = k
      BY <1>4, <3>2
    <3>3. CASE j # k
      <4>1. j \in Pending(buffer[gor[t].mgr]) \ gor[t].todo
        BY <1>1, <1>2, <1>5, <2>1, <3>3
      <4> QED  BY <1>1, <1>4, <1>5, <2>1, <3>1, <3>3, <4>1 DEF HandInv, FlushedInv
    <3> QED  BY <3>2, <3>3
  <2> QED  BY <2>1 DEF FlushedInv
<1>8. BeforeManager' /\ KeptInv'
  BY <1>1, <1>4 DEF HandInv, BeforeManager, KeptInv
<1> QED  BY <1>6, <1>7, <1>8 DEF HandInv

\* The map that a flush empties holds what is in Redis or was reported.
LEMMA FlushEndsHand ==
  ASSUME Inv, HandInv, NEW s \in SlotIds, FlushEnds(s)
  PROVE  HandInv'
<1>0. PICK m \in SlotIds : m = gor[s].mgr
  BY DEF FlushEnds, Inv, ManagerInv, TypeOK, Goroutine
<1>1. /\ gor[s].st = "flush" /\ gor[s].todo = {} /\ slotManager # Nil
      /\ UNCHANGED <<pc, i, slotManager, slotInfo, lost, handed, via>>
      /\ gor'[s] = Gone
      /\ \A t \in SlotIds : t # s => gor'[t] = gor[t]
      /\ buffer'[m] = EmptyBuffer
      /\ \A n \in SlotIds : n # m => buffer'[n] = buffer[n]
  BY <1>0 DEF FlushEnds, passVars, history, Inv, ManagerInv, TypeOK
<1>2. \A n, t \in SlotIds : buffer'[n][t] \in {Absent, buffer[n][t]}
  BY <1>1, EmptyIsAbsent
<1>3. SoleManager => SoleManager'
  <2>1. slotManager \in SlotIds
    BY <1>1 DEF Inv, TypeOK
  <2> QED  BY <1>1, <1>2, <2>1, GoneType DEF SoleManager
<1>4. FirstBatch => FirstBatch'
  <2>1. \A t \in SlotIds : t # Nil
    BY DEF SlotIds, Nil
  <2>2. \A t \in SlotIds : buffer[t] = EmptyBuffer => buffer'[t] = EmptyBuffer
    BY <1>1
  <2> QED  BY <1>1, <1>2, <2>1, <2>2, GoneType DEF FirstBatch
<1>5. \A t \in SlotIds : gor'[t].st = "flush" =>
        t # s /\ gor'[t] = gor[t] /\ buffer'[gor[t].mgr] = buffer[gor[t].mgr]
  <2>1. ASSUME NEW t \in SlotIds, gor'[t].st = "flush"
        PROVE  t # s /\ gor'[t] = gor[t] /\ buffer'[gor[t].mgr] = buffer[gor[t].mgr]
    <3>1. t # s /\ gor'[t] = gor[t]
      BY <1>1, <2>1, GoneType
    <3>2. gor[t].mgr # m /\ gor[t].mgr \in SlotIds
      BY <1>0, <1>1, <2>1, <3>1 DEF Inv, FlushInv, ManagerInv, TypeOK, Goroutine
    <3> QED  BY <1>1, <3>1, <3>2
  <2> QED  BY <2>1
<1>6. FlushedInv'
  BY <1>1, <1>5 DEF HandInv, FlushedInv
<1>7. KeptInv'
  <2>1. ASSUME NEW k \in SlotIds, handed[k] # Absent, buffer[m][k] = handed[k]
        PROVE  k \in lost \/ slotInfo[k] = handed[k]
    <3>1. k \in Pending(buffer[m])
      BY <2>1 DEF Pending
    <3> QED  BY <1>0, <1>1, <3>1 DEF HandInv, FlushedInv
  <2> QED  BY <1>1, <2>1 DEF HandInv, KeptInv
<1>8. BeforeManager'
  BY <1>1 DEF BeforeManager
<1> QED  BY <1>3, <1>4, <1>6, <1>7, <1>8 DEF HandInv

LEMMA NextHand == Inv /\ HandInv /\ [Next]_vars => HandInv'
<1> SUFFICES ASSUME Inv, HandInv, [Next]_vars PROVE HandInv'
  OBVIOUS
<1>1. CASE Mint \/ (\E s \in SlotIds : Update(s)) \/ FetchNodeCount \/ PassEnds \/ UNCHANGED vars
  <2>1. UNCHANGED <<gor, slotManager, buffer, slotInfo, handed, via, lost>>
    BY <1>1 DEF Mint, Update, FetchNodeCount, PassEnds, vars, passVars, redisVars, history
  <2>2. pc' = pc \/ (pc # "wait" /\ pc' # "wait")
    BY <1>1 DEF Mint, Update, FetchNodeCount, PassEnds, vars, passVars
  <2>3. i' \in {i, 0}
    BY <1>1 DEF Mint, Update, FetchNodeCount, PassEnds, vars, passVars, history
  <2> QED  BY <2>1, <2>2, <2>3, HandKept
<1>2. CASE StartBatch \/ WaitBatch \/ Crash
  BY <1>2, BatchHand, CrashHand
<1>3. CASE \E s \in SlotIds : AddSlotInfo(s)
  BY <1>3, CheckManagerHand, CreateManagerHand, QueryHand, AddSlotHand, FlushSlotHand,
     FlushEndsHand DEF AddSlotInfo
<1> QED  BY <1>1, <1>2, <1>3 DEF Next, FetchAllSlots

LEMMA HandInvariance == Spec => [](Inv /\ HandInv)
BY InitInv, NextInv, InitHand, NextHand, PTL DEF Spec

(***************************************************************************)
(* An answer given to AddSlot is in Redis, or the failure of its SET was   *)
(* reported, or the next flush will find it; only the slots of the first   *)
(* batch are exposed to the race on slotManager.  So it is for any number  *)
(* of goroutines and of SlotManagers, and although a flush writes one slot *)
(* at a time and then empties the map.                                     *)
(***************************************************************************)
THEOREM AnswersAreKept == Spec => []OnlyTheRaceForgets
<1>1. Inv /\ HandInv => OnlyTheRaceForgets
  <2> SUFFICES ASSUME Inv, HandInv, NEW s \in SlotIds, handed[s] # Absent
               PROVE  \/ s \in lost
                      \/ slotInfo[s] = handed[s]
                      \/ slotManager # Nil /\ buffer[slotManager][s] = handed[s]
                      \/ s < FetchBatch /\ via[s] # slotManager
    BY DEF OnlyTheRaceForgets
  <2>1. Nil \notin SlotIds
    BY DEF SlotIds, Nil
  <2> QED  BY <2>1 DEF HandInv, KeptInv
<1> QED  BY <1>1, HandInvariance, PTL
-----------------------------------------------------------------------------
(***************************************************************************)
(* With nodes that are up to date, versions only go forward on their way   *)
(* to Redis.                                                               *)
(***************************************************************************)
OrderInv ==
  \A k \in SlotIds :
    /\ handed[k] <= nodeInfo[k]
    /\ handed[k] # Absent => slotInfo[k] <= handed[k]
    /\ gor[k].st \in {"manager", "add"} =>
         gor[k].ver \in Nat /\ slotInfo[k] <= gor[k].ver /\ handed[k] <= gor[k].ver

LEMMA VersionTypes ==
  ASSUME Inv, NEW k \in SlotIds
  PROVE  /\ nodeInfo[k] \in Nat /\ handed[k] \in Int /\ slotInfo[k] \in Int
         /\ slotInfo[k] <= nodeInfo[k]
         /\ gor[k].ver \in Int /\ gor[k].ver <= nodeInfo[k]
<1>1. nodeInfo[k] \in Nat
  BY DEF Inv, TypeOK
<1>2. handed[k] \in Nat \union {Absent} /\ slotInfo[k] \in Nat \union {Absent}
  BY DEF Inv, TypeOK, Versions
<1>3. gor[k].ver \in Nat \union {Absent}
  BY DEF Inv, TypeOK, Goroutine
<1> QED  BY <1>1, <1>2, <1>3 DEF Inv, VersionInv, Absent

LEMMA OrderKept ==
  ASSUME Inv, Inv', OrderInv, UNCHANGED <<slotInfo, handed>>,
         \A k \in SlotIds : nodeInfo[k] <= nodeInfo'[k],
         \A k \in SlotIds : gor'[k].st \in {"manager", "add"} =>
           gor[k].st \in {"manager", "add"} /\ gor'[k].ver = gor[k].ver
  PROVE  OrderInv'
<1>1. ASSUME NEW k \in SlotIds
      PROVE  handed[k] <= nodeInfo'[k]
  <2>1. nodeInfo'[k] \in Nat
    BY DEF Inv, TypeOK
  <2> QED  BY <2>1, VersionTypes DEF OrderInv
<1> QED  BY <1>1 DEF OrderInv

LEMMA OrderStep ==
  ASSUME MaxLag = 0, Inv, Inv', HandInv, OrderInv, [Next]_vars
  PROVE  OrderInv'
<1> USE GoneType
<1>1. CASE Mint \/ \E s \in SlotIds : Update(s)
  BY <1>1, ContractGrows, OrderKept DEF redisVars, history
<1>2. \A k \in SlotIds : nodeInfo[k] <= nodeInfo[k]
  BY VersionTypes
<1>3. CASE FetchNodeCount \/ WaitBatch \/ PassEnds \/ UNCHANGED vars
  <2>1. UNCHANGED <<nodeInfo, gor, slotInfo, handed>>
    BY <1>3, LoopKeeps DEF contractVars, vars, redisVars, history
  <2> QED  BY <1>2, <2>1, OrderKept
<1>4. CASE StartBatch
  <2>1. UNCHANGED <<nodeInfo, slotInfo, handed>>
    BY <1>4 DEF StartBatch, contractVars, redisVars
  <2>2. \A k \in SlotIds : gor'[k].st \in {"none", "check"}
    <3>1. \A k \in SlotIds : gor[k] = Gone
      BY <1>4 DEF StartBatch, Inv, PassInv
    <3>2. [Gone EXCEPT !.st = "check"].st = "check"
      BY DEF Gone
    <3> QED  BY <1>4, <3>1, <3>2 DEF StartBatch
  <2> QED  BY <1>2, <2>1, <2>2, OrderKept
<1>5. CASE Crash
  <2>1. \A k \in SlotIds : gor'[k] = Gone /\ handed'[k] = Absent
    BY <1>5 DEF Crash
  <2>2. nodeInfo' = nodeInfo
    BY <1>5 DEF Crash, contractVars
  <2> QED  BY <2>1, <2>2, VersionTypes DEF OrderInv, Absent
<1>6. ASSUME NEW s \in SlotIds,
             CheckManager(s) \/ CreateManager(s) \/ NodeInfoFails(s) \/ ReadManager(s)
                \/ FlushEnds(s)
      PROVE  OrderInv'
  <2>1. UNCHANGED <<nodeInfo, slotInfo, handed>>
    BY <1>6 DEF CheckManager, CreateManager, NodeInfoFails, ReadManager, FlushEnds,
       contractVars, redisVars, history
  <2>2. \A k \in SlotIds : gor'[k].st \in {"manager", "add"} =>
          gor[k].st \in {"manager", "add"} /\ gor'[k].ver = gor[k].ver
    BY <1>6 DEF CheckManager, CreateManager, NodeInfoFails, ReadManager, FlushEnds,
       Inv, TypeOK, Goroutine
  <2> QED  BY <1>2, <2>1, <2>2, OrderKept
<1>7. ASSUME NEW s \in SlotIds, NodeInfo(s)
      PROVE  OrderInv'
  <2>1. UNCHANGED <<nodeInfo, slotInfo, handed>>
    BY <1>7 DEF NodeInfo, contractVars, redisVars, history
  <2>2. gor' = [gor EXCEPT ![s].st = "manager", ![s].ver = nodeInfo[s]]
    <3>1. PICK v \in (nodeInfo[s] - MaxLag)..nodeInfo[s] :
            gor' = [gor EXCEPT ![s].st = "manager", ![s].ver = v]
      BY <1>7 DEF NodeInfo
    <3>2. v = nodeInfo[s]
      BY VersionTypes
    <3> QED  BY <3>1, <3>2
  <2>3. gor' = [gor EXCEPT ![s] = [gor[s] EXCEPT !.st = "manager", !.ver = nodeInfo[s]]]
    BY <2>2
  <2>4. gor \in Goroutines /\ gor[s] \in Goroutine
    BY DEF Inv, TypeOK, Goroutines
  <2>5. [gor[s] EXCEPT !.st = "manager", !.ver = nodeInfo[s]].ver = nodeInfo[s]
    BY <2>4 DEF Goroutine
  <2>6. gor'[s].ver = nodeInfo[s] /\ \A k \in SlotIds : k # s => gor'[k] = gor[k]
    BY <2>3, <2>4, <2>5 DEF Goroutines
  <2> QED  BY <2>1, <2>6, VersionTypes DEF OrderInv
<1>8. ASSUME NEW s \in SlotIds, AddSlot(s)
      PROVE  OrderInv'
  <2>1. PICK m \in SlotIds : m = gor[s].mgr
    BY <1>8 DEF AddSlot, Inv, ManagerInv, TypeOK, Goroutine
  <2>2. /\ gor[s].st = "add" /\ UNCHANGED <<nodeInfo, slotInfo>>
        /\ \A k \in SlotIds : handed'[k] = IF k = s THEN gor[s].ver ELSE handed[k]
        /\ \A k \in SlotIds : k # s => gor'[k] = gor[k]
        /\ gor'[s].st \in {"flush", "none"}
    BY <1>8, <2>1, AddSlotEffect
  <2> QED  BY <2>2, VersionTypes DEF OrderInv
<1>9. ASSUME NEW s \in SlotIds, NEW k \in SlotIds, FlushSlot(s, k)
      PROVE  OrderInv'
  <2>1. PICK m \in SlotIds : m = gor[s].mgr
    BY <1>9 DEF FlushSlot, Inv, ManagerInv, TypeOK, Goroutine
  <2>2. /\ UNCHANGED <<nodeInfo, handed>>
        /\ slotInfo' \in {slotInfo, [slotInfo EXCEPT ![k] = handed[k]]}
        /\ \A t \in SlotIds : t # s => gor'[t] = gor[t]
        /\ gor'[s].st = "flush"
    BY <1>9, <2>1, FlushSlotEffect, LiveManager
  <2>3. \A t \in SlotIds : slotInfo'[t] \in {slotInfo[t], handed[t]}
    BY <2>2 DEF Inv, TypeOK, Versions
  <2> QED  BY <2>2, <2>3, VersionTypes DEF OrderInv
<1> QED
  BY <1>1, <1>3, <1>4, <1>5, <1>6, <1>7, <1>8, <1>9 DEF Next, FetchAllSlots, AddSlotInfo

LEMMA InitOrder == Init => OrderInv
<1> SUFFICES ASSUME Init PROVE OrderInv
  OBVIOUS
<1>1. \A k \in SlotIds : gor[k] = Gone /\ handed[k] = Absent /\ nodeInfo[k] \in {0, 1}
  BY DEF Init
<1> QED  BY <1>1, GoneType DEF OrderInv, Absent

(***************************************************************************)
(* When RPC nodes are up to date no slot in Redis goes back to an older    *)
(* version: for any number of slots and any sizes of batch and flush, and  *)
(* whatever happens to slotManager, to SETs and to the process.            *)
(***************************************************************************)
THEOREM SlotsMirrorInOrder == MaxLag = 0 => (Spec => MirrorsInOrder)
<1> SUFFICES ASSUME MaxLag = 0 PROVE Spec => MirrorsInOrder
  OBVIOUS
<1>1. Init => Mirror!Init
  <2> SUFFICES ASSUME Init PROVE Mirror!Init
    OBVIOUS
  <2>1. Published \in [SlotIds -> SUBSET Nat]
    BY DEF Init, Published
  <2> QED  BY <2>1 DEF Init, Mirror!Init, Mirror!Missing, Absent, Published
<1>2. Inv /\ HandInv /\ OrderInv /\ [Next]_vars => [Mirror!OrderedNext]_<<Published, slotInfo>>
  <2> SUFFICES ASSUME Inv, HandInv, OrderInv, [Next]_vars
               PROVE  [Mirror!OrderedNext]_<<Published, slotInfo>>
    OBVIOUS
  <2>1. CASE slotInfo' = slotInfo
    BY <2>1, PublishedGrows DEF Mirror!OrderedNext, Mirror!Publish, Published
  <2>2. ASSUME NEW s \in SlotIds, NEW k \in SlotIds, FlushSlot(s, k), slotInfo' # slotInfo
        PROVE  Mirror!OrderedNext
    <3>1. PICK m \in SlotIds : m = gor[s].mgr
      BY <2>2 DEF FlushSlot, Inv, ManagerInv, TypeOK, Goroutine
    <3>2. /\ nodeInfo' = nodeInfo
          /\ slotInfo' = [slotInfo EXCEPT ![k] = handed[k]]
          /\ handed[k] # Absent /\ handed[k] \in 0..nodeInfo[k]
      BY <2>2, <3>1, FlushSlotEffect, LiveManager
    <3>3. /\ handed[k] \in Published[k] /\ Published' = Published
          /\ handed[k] >= slotInfo[k]
      BY <3>2, VersionTypes DEF OrderInv, Published
    <3> QED  BY <3>2, <3>3 DEF Mirror!OrderedNext, Mirror!Refresh, Published
  <2>3. CASE ~\E s, k \in SlotIds : FlushSlot(s, k)
    <3>1. slotInfo' = slotInfo
      BY <2>3 DEF Next, Mint, Update, Crash, FetchAllSlots, FetchNodeCount, StartBatch,
         WaitBatch, PassEnds, AddSlotInfo, CheckManager, CreateManager, NodeInfo,
         NodeInfoFails, ReadManager, AddSlot, FlushEnds, vars, redisVars
    <3> QED  BY <2>1, <3>1
  <2> QED  BY <2>1, <2>2, <2>3
<1>3. Inv /\ Inv' /\ HandInv /\ OrderInv /\ [Next]_vars => OrderInv'
  BY OrderStep
<1>4. Spec => []OrderInv
  BY InitOrder, Invariance, HandInvariance, <1>3, PTL DEF Spec
<1> QED
  BY <1>1, <1>2, <1>4, HandInvariance, PTL DEF Spec, MirrorsInOrder, Mirror!OrderedSpec, Published
=============================================================================
