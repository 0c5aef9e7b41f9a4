------------------------------ MODULE SlotSync ------------------------------
(***************************************************************************)
(* The slot pipeline: SyncAllSlots and FetchAllSlots (pkgs/prost/          *)
(* contract.go) read every snapshotter slot from the contract, FetchBatch  *)
(* slots at a time, one goroutine running addSlotInfo for each; the        *)
(* SlotManager (pkgs/prost/processor.go) gathers the answers and writes    *)
(* them to Redis when it holds BatchSize of them.                          *)
(*                                                                         *)
(* The contents of a slot are numbered by version.  Version 0 is what the  *)
(* contract answers for a slot that was never minted: all fields zero.     *)
(*                                                                         *)
(* A definition marked "mutation" is no part of the model: it is a mistake *)
(* that the code could contain, kept to show that a property catches it.   *)
(***************************************************************************)
EXTENDS Integers, Sequences, FiniteSets, Redis

CONSTANTS
  FetchBatch,                \* slots fetched at once: 20 in the code
  BatchSize,                 \* REDIS_FLUSH_BATCH_SIZE
  MaxLag,                    \* how far, in versions, an RPC node may be behind
  InitialNodes,              \* the slots minted when the process starts
  MaxNodes,                  \* bound: the slots ever minted
  MaxVersion,                \* bound: the versions of a slot
  MaxCrashes                 \* bound: the number of crashes

ASSUME SlotSyncAssumption ==
  /\ FetchBatch \in Nat \ {0}
  /\ BatchSize \in Int
  /\ MaxLag \in Nat
  /\ InitialNodes \in Nat
  /\ MaxNodes \in Nat
  /\ InitialNodes <= MaxNodes
  /\ MaxVersion \in Nat
  /\ MaxCrashes \in Nat

VARIABLES
  nodeInfo,                  \* the contract: the version of every slot
  nodeCount,                 \* the contract: the number of slots minted
  crashes,                   \* the number of crashes so far
  pc,                        \* where FetchAllSlots is
  count,                     \* its nodeCount
  i,                         \* its loop variable
  gor,                       \* the goroutine of each slot
  slotManager,               \* the package variable, Nil at first
  buffer,                    \* the slots map of every SlotManager made
  slotInfo,                  \* Redis: ProtocolState.SlotInfo.<slot>
  allSlots,                  \* Redis: the set AllSlotsInfo
  visited,                   \* history: slots started in this pass
  handed,                    \* history: the last version given to AddSlot
  via,                       \* history: the SlotManager it was given to
  lost                       \* history: slots whose last SET failed

contractVars == <<nodeInfo, nodeCount>>
passVars == <<pc, count, i>>
redisVars == <<slotInfo, allSlots>>
history == <<visited, handed, via, lost>>
vars == <<contractVars, crashes, passVars, gor, slotManager, buffer,
          redisVars, alerts, history>>
-----------------------------------------------------------------------------
SlotIds == 0..MaxNodes

\* A SlotManager is named after the goroutine that made it.
Nil == -1

Gone == [st |-> "none", mgr |-> Nil, ver |-> Absent, todo |-> {}]

EmptyBuffer == [s \in SlotIds |-> Absent]

Pending(slots) == {s \in SlotIds : slots[s] # Absent}

\* sm.mu is held for the whole of a flush.
Locked(m) == \E g \in SlotIds : gor[g].st = "flush" /\ gor[g].mgr = m

Init ==
  /\ nodeInfo = [s \in SlotIds |-> IF s \in 1..InitialNodes THEN 1 ELSE 0]
  /\ nodeCount = InitialNodes
  /\ crashes = 0
  /\ pc = "tick"
  /\ count = 0
  /\ i = 0
  /\ gor = [s \in SlotIds |-> Gone]
  /\ slotManager = Nil
  /\ buffer = [m \in SlotIds |-> EmptyBuffer]
  /\ slotInfo = [s \in SlotIds |-> Absent]
  /\ allSlots = {}
  /\ alerts = <<>>
  /\ visited = {}
  /\ handed = [s \in SlotIds |-> Absent]
  /\ via = [s \in SlotIds |-> Nil]
  /\ lost = {}

\* The contract mints the next slot.
Mint ==
  /\ nodeCount < MaxNodes
  /\ nodeCount' = nodeCount + 1
  /\ nodeInfo' = [nodeInfo EXCEPT ![nodeCount'] = 1]
  /\ UNCHANGED <<crashes, passVars, gor, slotManager, buffer, redisVars,
                 alerts, history>>

\* The contents of a minted slot change: claimed, burned, reassigned...
Update(s) ==
  /\ nodeInfo[s] \in 1..(MaxVersion - 1)
  /\ nodeInfo' = [nodeInfo EXCEPT ![s] = @ + 1]
  /\ UNCHANGED <<nodeCount, crashes, passVars, gor, slotManager, buffer,
                 redisVars, alerts, history>>
-----------------------------------------------------------------------------
(***************************************************************************)
(* FetchAllSlots, called at startup and at every tick of SyncAllSlots,     *)
(* which ignores its error: a pass whose node count cannot be read changes *)
(* nothing.                                                                *)
(***************************************************************************)
FetchNodeCount ==
  /\ pc = "tick"
  /\ \E n \in (nodeCount - MaxLag)..nodeCount : n >= 0 /\ count' = n
  /\ i' = 0
  /\ pc' = "loop"
  /\ visited' = {}
  /\ UNCHANGED <<contractVars, crashes, gor, slotManager, buffer, redisVars,
                 alerts, handed, via, lost>>

BatchFromOne == {j \in SlotIds : i < j /\ j <= i + FetchBatch /\ j < count}  \* mutation

\* Slots are numbered from 0, and the last one is nodeCount.
Batch == {j \in SlotIds : i <= j /\ j < i + FetchBatch /\ j <= count}

\* A goroutine is started for each slot of the batch.
StartBatch ==
  /\ pc = "loop"
  /\ i <= count
  /\ gor' = [s \in SlotIds |-> IF s \in Batch THEN [Gone EXCEPT !.st = "check"]
                                              ELSE gor[s]]
  /\ pc' = "wait"
  /\ visited' = visited \union Batch
  /\ UNCHANGED <<contractVars, crashes, count, i, slotManager, buffer,
                 redisVars, alerts, handed, via, lost>>

NoWait ==                                                          \* mutation
  /\ pc = "wait"
  /\ i' = i + FetchBatch
  /\ pc' = "loop"
  /\ UNCHANGED <<contractVars, crashes, count, gor, slotManager, buffer,
                 redisVars, alerts, history>>

\* wg.Wait
WaitBatch ==
  /\ pc = "wait"
  /\ \A s \in SlotIds : gor[s] = Gone
  /\ i' = i + FetchBatch
  /\ pc' = "loop"
  /\ UNCHANGED <<contractVars, crashes, count, gor, slotManager, buffer,
                 redisVars, alerts, history>>

PassEnds ==
  /\ pc = "loop"
  /\ i > count
  /\ pc' = "tick"
  /\ UNCHANGED <<contractVars, crashes, count, i, gor, slotManager, buffer,
                 redisVars, alerts, history>>
-----------------------------------------------------------------------------
(***************************************************************************)
(* addSlotInfo, in the goroutine of slot s.                                *)
(***************************************************************************)

AssumeManager(s) ==                                                \* mutation
  /\ gor[s].st = "check"
  /\ gor' = [gor EXCEPT ![s].st = "query"]
  /\ UNCHANGED <<contractVars, crashes, passVars, slotManager, buffer,
                 redisVars, alerts, history>>

\* No lock protects the test from the assignment.
CheckManager(s) ==
  /\ gor[s].st = "check"
  /\ gor' = [gor EXCEPT ![s].st = IF slotManager = Nil THEN "create" ELSE "query"]
  /\ UNCHANGED <<contractVars, crashes, passVars, slotManager, buffer,
                 redisVars, alerts, history>>

CreateManager(s) ==
  /\ gor[s].st = "create"
  /\ slotManager' = s
  /\ buffer' = [buffer EXCEPT ![s] = EmptyBuffer]
  /\ gor' = [gor EXCEPT ![s].st = "query"]
  /\ UNCHANGED <<contractVars, crashes, passVars, redisVars, alerts, history>>

\* The answer of NodeInfo.  The test for an empty answer compares pointers
\* that the binding never leaves nil, so it holds of none: version 0 passes.
NodeInfo(s) ==
  /\ gor[s].st = "query"
  /\ \E v \in (nodeInfo[s] - MaxLag)..nodeInfo[s] :
       v >= 0 /\ gor' = [gor EXCEPT ![s].st = "manager", ![s].ver = v]
  /\ UNCHANGED <<contractVars, crashes, passVars, slotManager, buffer,
                 redisVars, alerts, history>>

\* The failure is logged, not reported.
NodeInfoFails(s) ==
  /\ gor[s].st = "query"
  /\ "node" \in Faults
  /\ gor' = [gor EXCEPT ![s] = Gone]
  /\ UNCHANGED <<contractVars, crashes, passVars, slotManager, buffer,
                 redisVars, alerts, history>>

\* The package variable is read again for the call of AddSlot.
ReadManager(s) ==
  /\ gor[s].st = "manager"
  /\ gor' = [gor EXCEPT ![s].st = "add", ![s].mgr = slotManager]
  /\ UNCHANGED <<contractVars, crashes, passVars, slotManager, buffer,
                 redisVars, alerts, history>>
-----------------------------------------------------------------------------
(***************************************************************************)
(* SlotManager: AddSlot and flushSlots, called by the goroutine of slot s. *)
(***************************************************************************)
LockFree(m) == TRUE                                                \* mutation

CanLock(m) == ~Locked(m)

FlushAbove(slots) == Cardinality(Pending(slots)) > BatchSize       \* mutation

FlushDue(slots) == Cardinality(Pending(slots)) >= BatchSize

AddSlot(s) ==
  LET m == gor[s].mgr
  IN /\ gor[s].st = "add"
     /\ CanLock(m)
     /\ buffer' = [buffer EXCEPT ![m][s] = gor[s].ver]
     /\ handed' = [handed EXCEPT ![s] = gor[s].ver]
     /\ via' = [via EXCEPT ![s] = m]
     /\ \/ /\ FlushDue(buffer'[m])
           /\ gor' = [gor EXCEPT ![s].st = "flush", ![s].todo = Pending(buffer'[m])]
        \/ /\ ~FlushDue(buffer'[m])
           /\ gor' = [gor EXCEPT ![s] = Gone]
     /\ UNCHANGED <<contractVars, crashes, passVars, slotManager, redisVars,
                    alerts, visited, lost>>

KeyOfCaller(s, k) == s                                             \* mutation

\* The slot whose key receives the data of slot k.
SlotKey(s, k) == k

\* One round of the flush loop; the slots come in any order.
FlushSlot(s, k) ==
  LET data == buffer[gor[s].mgr][k]
  IN /\ gor[s].st = "flush"
     /\ k \in gor[s].todo
     /\ PersistState(slotInfo, SlotKey(s, k), data)
     /\ lost' = IF slotInfo'[k] = data THEN lost \ {k} ELSE lost \union {k}
     /\ gor' = [gor EXCEPT ![s].todo = @ \ {k}]
     /\ UNCHANGED <<contractVars, crashes, passVars, slotManager, buffer,
                    allSlots, visited, handed, via>>

IndexFirst(s) ==                                                   \* mutation
  LET m == gor[s].mgr
  IN /\ gor[s].st = "flush"
     /\ allSlots' = allSlots \union Pending(buffer[m])
     /\ gor' = [gor EXCEPT ![s] = IF gor[s].todo = {} THEN Gone ELSE @]
     /\ buffer' = IF gor[s].todo = {} THEN [buffer EXCEPT ![m] = EmptyBuffer] ELSE buffer
     /\ UNCHANGED <<contractVars, crashes, passVars, slotManager,
                    slotInfo, alerts, history>>

\* The end of the flush: index the slots, whatever Redis answers, and forget
\* them.
FlushEnds(s) ==
  LET m == gor[s].mgr
  IN /\ gor[s].st = "flush"
     /\ gor[s].todo = {}
     /\ \/ allSlots' = allSlots \union Pending(buffer[m])
        \/ "redis" \in Faults /\ UNCHANGED allSlots
     /\ buffer' = [buffer EXCEPT ![m] = EmptyBuffer]
     /\ gor' = [gor EXCEPT ![s] = Gone]
     /\ UNCHANGED <<contractVars, crashes, passVars, slotManager, slotInfo,
                    alerts, history>>
-----------------------------------------------------------------------------
\* The process is stopped, whatever it is doing, and started again.  Nothing
\* calls Cleanup on the way out: only Redis keeps its contents.
Crash ==
  /\ crashes < MaxCrashes
  /\ crashes' = crashes + 1
  /\ pc' = "tick"
  /\ count' = 0
  /\ i' = 0
  /\ gor' = [s \in SlotIds |-> Gone]
  /\ slotManager' = Nil
  /\ buffer' = [m \in SlotIds |-> EmptyBuffer]
  /\ alerts' = <<>>
  /\ visited' = {}
  /\ handed' = [s \in SlotIds |-> Absent]
  /\ via' = [s \in SlotIds |-> Nil]
  /\ UNCHANGED <<contractVars, redisVars, lost>>

AddSlotInfo(s) ==
  \/ CheckManager(s) \/ CreateManager(s)
  \/ NodeInfo(s) \/ NodeInfoFails(s) \/ ReadManager(s)
  \/ AddSlot(s) \/ (\E k \in SlotIds : FlushSlot(s, k)) \/ FlushEnds(s)

FetchAllSlots == FetchNodeCount \/ StartBatch \/ WaitBatch \/ PassEnds

Next ==
  \/ Mint \/ Crash \/ FetchAllSlots
  \/ \E s \in SlotIds : Update(s) \/ AddSlotInfo(s)

Spec == Init /\ [][Next]_vars

(***************************************************************************)
(* Ticks keep coming and goroutines are scheduled; NodeInfo, called at     *)
(* every pass, succeeds again and again.  Nothing is assumed of the        *)
(* contract, of crashes or of Redis.                                       *)
(***************************************************************************)
FairSpec ==
  /\ Spec
  /\ WF_vars(FetchAllSlots)
  /\ \A s \in SlotIds : WF_vars(AddSlotInfo(s)) /\ SF_vars(NodeInfo(s))
-----------------------------------------------------------------------------
Goroutine == [st   : {"none", "check", "create", "query", "manager", "add", "flush"},
              mgr  : SlotIds \union {Nil},
              ver  : Nat \union {Absent},
              todo : SUBSET SlotIds]

Versions == [SlotIds -> Nat \union {Absent}]

\* AddSlot is never called on a nil SlotManager.
TypeOK ==
  /\ nodeInfo \in [SlotIds -> Nat]
  /\ nodeCount \in 0..MaxNodes
  /\ crashes \in Nat
  /\ pc \in {"tick", "loop", "wait"}
  /\ count \in 0..MaxNodes
  /\ i \in Nat
  /\ gor \in [SlotIds -> Goroutine]
  /\ \A s \in SlotIds : gor[s].st \in {"add", "flush"} => gor[s].mgr # Nil
  /\ slotManager \in SlotIds \union {Nil}
  /\ buffer \in [SlotIds -> Versions]
  /\ slotInfo \in Versions
  /\ allSlots \subseteq SlotIds
  /\ AlertsTypeOK
  /\ visited \subseteq SlotIds
  /\ handed \in Versions
  /\ via \in [SlotIds -> SlotIds \union {Nil}]
  /\ lost \subseteq SlotIds

(***************************************************************************)
(* A pass has started a goroutine for every slot of the count it read, and *)
(* at no time do more than FetchBatch of them run: the batches of          *)
(* FetchAllSlots neither skip a slot nor overlap.                          *)
(***************************************************************************)
PassIsComplete ==
  /\ pc = "loop" /\ i > count => visited = 0..count
  /\ Cardinality({s \in SlotIds : gor[s] # Gone}) <= FetchBatch

(***************************************************************************)
(* The last answer given to AddSlot for a slot is in Redis, or the failure *)
(* of its SET was reported, or it waits where the next flush finds it: in  *)
(* the slots map of the SlotManager that slotManager points to.  An answer *)
(* is forgotten in one way only: given, in the first batch of the process, *)
(* to a SlotManager that the race on slotManager has replaced.  No slot of *)
(* a later batch is exposed to that, nor one that was given to AddSlot     *)
(* again.  AddSlot must not slip a slot in between the writes of a flush   *)
(* and the reset of the map.                                               *)
(***************************************************************************)
OnlyTheRaceForgets ==
  \A s \in SlotIds : handed[s] # Absent =>
    \/ s \in lost
    \/ slotInfo[s] = handed[s]
    \/ slotManager # Nil /\ buffer[slotManager][s] = handed[s]
    \/ s < FetchBatch /\ via[s] # slotManager

(***************************************************************************)
(* A SlotManager never holds BatchSize slots or more, except while it is   *)
(* writing them to Redis.                                                  *)
(***************************************************************************)
BufferBound ==
  \A m \in SlotIds :
    Locked(m) \/ Pending(buffer[m]) = {} \/ Cardinality(Pending(buffer[m])) < BatchSize

(***************************************************************************)
(* A slot listed in AllSlotsInfo has its SlotInfo key, at every moment and *)
(* across crashes, unless the failure of its SET was reported: a flush     *)
(* writes the slots before it indexes them.                                *)
(***************************************************************************)
IndexedSlotsAreStored ==
  \A s \in allSlots : s \in lost \/ slotInfo[s] # Absent

(***************************************************************************)
(* A minted slot eventually reaches Redis: its key, and the index by which *)
(* readers find it.                                                        *)
(***************************************************************************)
EverySlotIsCached ==
  \A s \in SlotIds : nodeInfo[s] > 0 ~> slotInfo[s] > 0 /\ s \in allSlots

(***************************************************************************)
(* "SlotManager handles the storage and batching of slot information"      *)
(* (processor.go:232), "a package-level SlotManager instance" (:184): no   *)
(* slot waits in a SlotManager that the variable no longer points to.      *)
(***************************************************************************)
OneSlotManager ==
  \A m \in SlotIds : m # slotManager /\ (\A s \in SlotIds : gor[s].mgr # m) =>
    Pending(buffer[m]) = {}
-----------------------------------------------------------------------------
Mirror == INSTANCE ContractMirror
            WITH Keys <- SlotIds, cache <- slotInfo,
                 published <- [s \in SlotIds |-> 0..nodeInfo[s]]

(***************************************************************************)
(* The pipeline implements a cache of contract state: what Redis holds for *)
(* a slot is something the contract answered for that very slot, however   *)
(* far RPC nodes are behind and whichever goroutine writes it.             *)
(***************************************************************************)
MirrorsContract == Mirror!Spec

(***************************************************************************)
(* With RPC nodes that are up to date it also never goes back to an older  *)
(* version, across crashes, failures and the race on slotManager: a slot   *)
(* is fetched again only when the goroutine that fetched it before has     *)
(* returned, and no abandoned SlotManager is ever flushed again.           *)
(***************************************************************************)
MirrorsInOrder == Mirror!OrderedSpec
=============================================================================
