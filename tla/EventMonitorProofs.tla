------------------------- MODULE EventMonitorProofs -------------------------
(***************************************************************************)
(* Proofs about EventMonitor, for every pool of workers, every set of data *)
(* markets and configuration, every offset, depth of reorganisation, lag   *)
(* and bound.                                                              *)
(***************************************************************************)
EXTENDS EventMonitor, FiniteSetTheorems, TLAPS

-----------------------------------------------------------------------------
(***************************************************************************)
(* The environment numbers epochs by counting those already released, so   *)
(* that an epoch is a number only because finitely many are.               *)
(***************************************************************************)

\* The image of a finite set of positions under the epochs of a block.
LEMMA EpochsInFinite ==
  ASSUME NEW b \in Block, NEW m
  PROVE  IsFiniteSet(EpochsIn(b, m))
<1> DEFINE S == {j \in DOMAIN b.logs : b.logs[j].market = m}
           f == [j \in S |-> b.logs[j].epoch]
<1>1. DOMAIN b.logs = 1..Len(b.logs) /\ Len(b.logs) \in Nat
  BY DEF Block
<1>2. IsFiniteSet(DOMAIN b.logs)
  BY <1>1, FS_Interval
<1>3. IsFiniteSet(S)
  BY <1>2, FS_Subset
<1>4. f \in Surjection(S, EpochsIn(b, m))
  BY DEF EpochsIn, Surjection
<1> QED
  BY <1>3, <1>4, FS_Surjection

\* Those released up to a block of a well-formed chain are finitely many.
LEMMA ReleasedFinite ==
  ASSUME TypeOK, NEW n \in 0..head, NEW m
  PROVE  IsFiniteSet(ReleasedUpTo(n, m))
<1> DEFINE T == {EpochsIn(chain[k], m) : k \in 0..n}
           f == [k \in 0..n |-> EpochsIn(chain[k], m)]
<1>1. IsFiniteSet(0..n)
  BY FS_Interval DEF TypeOK
<1>2. f \in Surjection(0..n, T)
  BY DEF Surjection
<1>3. IsFiniteSet(T)
  BY <1>1, <1>2, FS_Surjection
<1>4. \A E \in T : IsFiniteSet(E)
  BY EpochsInFinite DEF TypeOK
<1> QED
  BY <1>3, <1>4, FS_UNION DEF ReleasedUpTo

LEMMA NextEpochType ==
  ASSUME TypeOK, NEW m
  PROVE  NextEpoch(m) \in Nat
<1>1. IsFiniteSet(ReleasedUpTo(head, m))
  BY ReleasedFinite DEF TypeOK
<1> QED
  BY <1>1, FS_CardinalityType DEF NextEpoch

\* A new block's events are events.
LEMMA NewLogType ==
  ASSUME TypeOK, NEW ms \in Seq(Markets), NEW i \in 1..Len(ms)
  PROVE  NewLog(ms, i) \in Log
<1> DEFINE S == {j \in 1..(i - 1) : ms[j] = ms[i]}
<1>1. IsFiniteSet(1..(i - 1))
  BY FS_Interval
<1>2. IsFiniteSet(S)
  BY <1>1, FS_Subset
<1>3. Cardinality(S) \in Nat
  BY <1>2, FS_CardinalityType
<1>4. ms[i] \in Markets
  OBVIOUS
<1>5. NextEpoch(ms[i]) + Cardinality(S) \in Nat
  BY <1>3, NextEpochType
<1> QED
  BY <1>4, <1>5 DEF NewLog, Log

\* Reporting a failure and writing to Redis keep their types.
LEMMA AlertType ==
  ASSUME AlertsTypeOK, NEW p \in ProcessNames, SendFailureNotification(p)
  PROVE  AlertsTypeOK'
BY DEF AlertsTypeOK, SendFailureNotification

LEMMA PersistStateType ==
  ASSUME AlertsTypeOK, currentEpoch \in [Markets -> Nat \union {Absent}],
         NEW m \in Markets, NEW e \in Nat,
         PersistState(currentEpoch, m, e)
  PROVE  /\ AlertsTypeOK'
         /\ currentEpoch' \in {currentEpoch, [currentEpoch EXCEPT ![m] = e]}
<1>1. CASE currentEpoch' = Stored(currentEpoch, m, e) /\ UNCHANGED alerts
  BY <1>1 DEF Stored, AlertsTypeOK
<1>2. CASE /\ currentEpoch' \in {currentEpoch, Stored(currentEpoch, m, e)}
           /\ SendFailureNotification("PersistState")
  BY <1>2, AlertType DEF Stored, ProcessNames
<1> QED
  BY <1>1, <1>2 DEF PersistState
-----------------------------------------------------------------------------
(***************************************************************************)
(* Type correctness.                                                       *)
(***************************************************************************)
LEMMA NoBlockType == NoBlock \in Block
BY DEF NoBlock, Block

LEMMA InitType == Init => TypeOK
<1> SUFFICES ASSUME Init PROVE TypeOK
  OBVIOUS
<1> USE EventMonitorAssumption, NoBlockType
<1>1. chain \in [0..head -> Block] /\ \A n \in 0..head : chain[n].num = n
  BY DEF Init, Block
<1>2. job \in [Workers -> [st : {"idle", "filter", "logs"}, block : Block, pos : Nat]]
  BY DEF Init, Idle
<1>3. AlertsTypeOK
  BY DEF Init, AlertsTypeOK
<1> QED
  BY <1>1, <1>2, <1>3 DEF Init, TypeOK

\* Mining makes a block of the chain's type.
LEMMA MineType == TypeOK /\ Mine => TypeOK'
<1> SUFFICES ASSUME TypeOK, Mine PROVE TypeOK'
  OBVIOUS
<1> USE EventMonitorAssumption
<1>1. head' \in Nat /\ highest' \in Nat
  BY DEF TypeOK, Mine
<1>2. chain' \in [0..head' -> Block]
  <2>1. PICK ms \in Mineable :
          chain' = [n \in 0..(head + 1) |->
                      IF n <= head THEN chain[n]
                      ELSE [num  |-> n, fork |-> fork,
                            logs |-> [i \in 1..Len(ms) |-> NewLog(ms, i)]]]
    BY DEF Mine
  <2>2. ms \in Seq(Markets) /\ Len(ms) \in Nat
    OBVIOUS
  <2>3. [i \in 1..Len(ms) |-> NewLog(ms, i)] \in Seq(Log)
    BY <2>2, NewLogType
  <2>4. ASSUME NEW n \in 0..(head + 1) PROVE chain'[n] \in Block
    <3>1. CASE n <= head
      BY <2>1, <2>4, <3>1 DEF TypeOK
    <3>2. CASE n > head
      <4>1. chain'[n] = [num |-> n, fork |-> fork,
                         logs |-> [i \in 1..Len(ms) |-> NewLog(ms, i)]]
        BY <2>1, <2>4, <3>2 DEF TypeOK
      <4>2. n \in Int /\ fork \in Nat
        BY DEF TypeOK
      <4> QED
        BY <4>1, <4>2, <2>3 DEF Block
    <3> QED
      BY <3>1, <3>2 DEF TypeOK
  <2> QED
    BY <2>1, <2>4 DEF Mine
<1>3. \A n \in 0..head' : chain'[n].num = n
  <2>1. head' = head + 1 /\ head \in Nat
    BY DEF TypeOK, Mine
  <2>2. chain'[head'].num = head' /\ \A n \in 0..head : chain'[n] = chain[n]
    BY <2>1 DEF TypeOK, Mine
  <2>3. \A n \in 0..head' : n \in 0..head \/ n = head'
    BY <2>1
  <2> QED
    BY <2>2, <2>3 DEF TypeOK
<1> QED
  BY <1>1, <1>2, <1>3 DEF TypeOK, Mine, AlertsTypeOK, monitorVars, history

LEMMA HandleLogType ==
  ASSUME TypeOK, NEW w \in Workers, HandleLog(w)
  PROVE  TypeOK'
<1> DEFINE log  == job[w].block.logs[job[w].pos]
           this == {<<job[w].block, job[w].pos>>}
<1>1. /\ job[w].block \in Block
      /\ job[w].pos \in Nat
      /\ job[w].pos \in DOMAIN job[w].block.logs
  BY DEF TypeOK, HandleLog
<1>2. log \in Log
  BY <1>1 DEF Block
<1>3. log.market \in Markets /\ log.epoch \in Nat
  BY <1>2 DEF Log
<1>4. job' \in [Workers -> [st : {"idle", "filter", "logs"}, block : Block, pos : Nat]]
  BY DEF TypeOK, HandleLog
<1>5. settled' \subseteq Block \X Nat
  BY <1>1 DEF TypeOK, HandleLog
<1>6. AlertsTypeOK' /\ currentEpoch' \in [Markets -> Nat \union {Absent}]
  <2>1. CASE SendFailureNotification("ProcessProtocolStateEvents") /\ UNCHANGED currentEpoch
    BY <2>1, AlertType DEF TypeOK, ProcessNames
  <2>2. CASE PersistState(currentEpoch, log.market, log.epoch)
    BY <2>2, <1>3, PersistStateType DEF TypeOK
  <2>3. CASE UNCHANGED <<currentEpoch, alerts, settled>>
    BY <2>3 DEF TypeOK, AlertsTypeOK
  <2> QED
    BY <2>1, <2>2, <2>3 DEF HandleLog, PersistEpoch
<1> QED
  BY <1>4, <1>5, <1>6 DEF TypeOK, HandleLog, chainVars, monitorVars

\* Every step keeps every variable of its type.
LEMMA NextType == TypeOK /\ [Next]_vars => TypeOK'
<1> SUFFICES ASSUME TypeOK, [Next]_vars PROVE TypeOK'
  OBVIOUS
<1> USE EventMonitorAssumption, NoBlockType
<1>1. CASE Mine
  BY <1>1, MineType
<1>2. CASE Reorg
  <2>1. PICK h \in 0..(head - 1) : chain' = [n \in 0..h |-> chain[n]] /\ head' = h
    BY <1>2 DEF Reorg
  <2>2. /\ head' \in Nat /\ chain' \in [0..head' -> Block]
        /\ \A n \in 0..head' : chain'[n].num = n
    BY <2>1 DEF TypeOK
  <2> QED
    BY <1>2, <2>2 DEF TypeOK, Reorg, AlertsTypeOK, monitorVars, history
<1>3. CASE FetchLatest
  <2>1. PICK h \in (head - MaxLag)..head :
          /\ h >= 0
          /\ latest' = chain[h]
          /\ target' = TargetBlockNumber(h)
    BY <1>3 DEF FetchLatest
  <2>2. latest' \in Block /\ target' \in Int
    BY <2>1 DEF TypeOK, TargetBlockNumber
  <2>a. PICK t \in Nat : t = target'
    BY <1>3, <2>2 DEF FetchLatest
  <2>b. PICK l \in Nat \union {-1} : l = lastProcessedBlock'
    BY <1>3, <2>a DEF TypeOK, FetchLatest, ResumeAfter
  <2>3. lastProcessedBlock' \in Nat \union {-1}
    BY <2>b
  <2>4. blockNum' \in Nat /\ first' \in Int
    BY <1>3, <2>2, <2>b DEF TypeOK, FetchLatest
  <2> QED
    BY <1>3, <2>2, <2>3, <2>4 DEF TypeOK, FetchLatest, AlertsTypeOK, chainVars
<1>4. CASE FetchLatestFails
  BY <1>4, AlertType DEF TypeOK, FetchLatestFails, ProcessNames, chainVars, monitorVars, history
<1>5. CASE LoopEnds
  BY <1>5 DEF TypeOK, LoopEnds, AlertsTypeOK, chainVars, history
<1>6. CASE FetchBlock
  <2>1. current' \in Block /\ current'.num = blockNum
    BY <1>6 DEF TypeOK, FetchBlock, BlockByNumber
  <2> QED
    BY <1>6, <2>1 DEF TypeOK, FetchBlock, AlertsTypeOK, chainVars, history
<1>7. CASE FetchBlockFails
  <2>1. AlertsTypeOK'
    BY <1>7, AlertType DEF TypeOK, FetchBlockFails, ProcessNames, AlertsTypeOK
  <2> QED
    BY <1>7, <2>1 DEF TypeOK, FetchBlockFails, chainVars
<1>8. ASSUME NEW w \in Workers, Dispatch(w) PROVE TypeOK'
  BY <1>8 DEF TypeOK, Dispatch, AlertsTypeOK, chainVars
<1>9. ASSUME NEW w \in Workers, FilterLogs(w) PROVE TypeOK'
  BY <1>9 DEF TypeOK, FilterLogs, AlertsTypeOK, chainVars, monitorVars, history
<1>10. ASSUME NEW w \in Workers, FilterLogsFails(w) PROVE TypeOK'
  <2>1. AlertsTypeOK'
    BY <1>10, AlertType DEF TypeOK, FilterLogsFails, ProcessNames
  <2>2. LogsOf(job[w].block) \subseteq Block \X Nat
    <3>1. job[w].block \in Block
      BY DEF TypeOK
    <3>2. DOMAIN job[w].block.logs \subseteq Nat
      BY <3>1 DEF Block
    <3> QED
      BY <3>1, <3>2 DEF LogsOf
  <2>3. job' \in [Workers -> [st : {"idle", "filter", "logs"}, block : Block, pos : Nat]]
    BY <1>10 DEF TypeOK, FilterLogsFails, Idle
  <2> QED
    BY <1>10, <2>1, <2>2, <2>3 DEF TypeOK, FilterLogsFails, chainVars, monitorVars
<1>11. ASSUME NEW w \in Workers, HandleLog(w) PROVE TypeOK'
  BY <1>11, HandleLogType
<1>12. ASSUME NEW w \in Workers, Finish(w) PROVE TypeOK'
  BY <1>12 DEF TypeOK, Finish, Idle, AlertsTypeOK, chainVars, monitorVars, history
<1>13. CASE Crash
  <2>1. AlertsTypeOK'
    BY <1>13 DEF Crash, AlertsTypeOK
  <2> QED
    BY <1>13, <2>1 DEF TypeOK, Crash, Idle, chainVars
<1>14. CASE UNCHANGED vars
  BY <1>14 DEF TypeOK, AlertsTypeOK, vars, chainVars, monitorVars, history
<1> QED
  BY <1>1, <1>2, <1>3, <1>4, <1>5, <1>6, <1>7, <1>8, <1>9, <1>10, <1>11,
     <1>12, <1>13, <1>14 DEF Next, Worker

(***************************************************************************)
(* The variables of the event pipeline keep their types: in particular the *)
(* loop never works on a block it does not have and Redis only receives    *)
(* epoch numbers.                                                          *)
(***************************************************************************)
THEOREM TypeCorrect == Spec => []TypeOK
BY InitType, NextType, PTL DEF Spec
-----------------------------------------------------------------------------
(***************************************************************************)
(* The inductive invariant.  Everything that the pipeline is working on    *)
(* is final: the block in hand, the blocks of the goroutines, the blocks   *)
(* handed out before, and the blocks whose epochs are in Redis.  It stays  *)
(* so because the chain never changes at FinalHead or below, and because   *)
(* the target, BlockOffset below some head, is never above FinalHead.      *)
(***************************************************************************)
SafeOffset == MaxReorg <= BlockOffset

Final(b) == b.num \in 0..FinalHead /\ chain[b.num] = b

ChainInv ==
  /\ FinalHead <= head
  /\ head <= highest

\* The pass under way; latest itself is processed only without an offset.
PassInv ==
  pc # "tick" =>
    /\ latest.num <= highest
    /\ latest.num = target + BlockOffset
    /\ BlockOffset = 0 => Final(latest)
    /\ pc = "send" => Final(current)

WorkInv ==
  /\ \A w \in Workers : job[w].st # "idle" => Final(job[w].block)
  /\ \A b \in dispatched : Final(b)

CacheInv ==
  \A m \in Markets : currentEpoch[m] # Absent =>
    /\ m \in DataMarketContractAddresses
    /\ \E n \in 0..FinalHead : currentEpoch[m] \in EpochsIn(chain[n], m)

Inv ==
  /\ TypeOK
  /\ ChainInv
  /\ SafeOffset => PassInv /\ WorkInv /\ CacheInv

LEMMA InitInv == Init => Inv
<1> SUFFICES ASSUME Init PROVE Inv
  OBVIOUS
<1> USE EventMonitorAssumption
<1>1. TypeOK
  BY InitType
<1>2. ChainInv
  BY DEF Init, ChainInv, FinalHead
<1>3. PassInv /\ WorkInv /\ CacheInv
  BY DEF Init, PassInv, WorkInv, CacheInv, Idle
<1> QED
  BY <1>1, <1>2, <1>3 DEF Inv

\* Only mining and reorganisations touch the chain.
LEMMA ProcessKeepsChain ==
  ASSUME [Next]_vars, ~Mine, ~Reorg
  PROVE  UNCHANGED chainVars
BY DEF Next, Worker, vars, FetchLatest, FetchLatestFails, LoopEnds, FetchBlock,
       FetchBlockFails, Dispatch, FilterLogs, FilterLogsFails, HandleLog, Finish,
       Crash

\* The chain stays well formed, and what is final stays so, unchanged.
LEMMA ChainStep ==
  ASSUME TypeOK, ChainInv, [Next]_vars
  PROVE  /\ ChainInv'
         /\ FinalHead \in Int /\ FinalHead' \in Int
         /\ highest <= highest'
         /\ FinalHead <= FinalHead'
         /\ \A n \in 0..FinalHead : chain'[n] = chain[n]
<1> USE EventMonitorAssumption
<1>0. head \in Nat /\ highest \in Nat /\ MaxReorg \in Nat /\ FinalHead \in Int
  BY DEF TypeOK, FinalHead
<1>1. CASE Mine
  <2>1. head' = head + 1 /\ highest' \in {highest, head'} /\ highest' >= highest /\ head' <= highest'
    BY <1>1 DEF TypeOK, ChainInv, Mine
  <2>2. \A n \in 0..head : chain'[n] = chain[n]
    BY <1>1 DEF TypeOK, Mine
  <2>5. FinalHead' \in Int /\ FinalHead <= FinalHead' /\ FinalHead' <= head'
    <3>1. FinalHead <= head
      BY DEF ChainInv
    <3>2. CASE highest' = highest
      BY <1>0, <2>1, <3>1, <3>2 DEF FinalHead
    <3>3. CASE highest' = head + 1
      BY <1>0, <2>1, <3>1, <3>3 DEF FinalHead
    <3> QED
      BY <2>1, <3>2, <3>3
  <2> QED
    BY <1>0, <2>1, <2>2, <2>5 DEF ChainInv
<1>2. CASE Reorg
  <2>1. PICK h \in 0..(head - 1) :
          h >= highest - MaxReorg /\ chain' = [n \in 0..h |-> chain[n]] /\ head' = h
    BY <1>2 DEF Reorg
  <2>2. highest' = highest
    BY <1>2 DEF Reorg
  <2> QED
    BY <1>0, <2>1, <2>2 DEF ChainInv, FinalHead
<1>3. CASE UNCHANGED chainVars
  BY <1>0, <1>3 DEF ChainInv, FinalHead, chainVars
<1> QED
  BY <1>1, <1>2, <1>3, ProcessKeepsChain

\* A final block is final for ever.
LEMMA FinalStable ==
  ASSUME TypeOK, ChainInv, [Next]_vars, NEW b, Final(b)
  PROVE  Final(b)'
BY ChainStep DEF Final

\* The pass: the target is read from a head, the block in hand from below it.
LEMMA PassStep ==
  ASSUME Inv, SafeOffset, [Next]_vars
  PROVE  PassInv'
<1> USE EventMonitorAssumption
<1> TypeOK /\ ChainInv /\ PassInv
  BY DEF Inv
<1>0. /\ head \in Nat /\ highest \in Nat /\ target \in Int /\ blockNum \in Int
      /\ latest.num \in Int
      /\ FinalHead = highest - MaxReorg
      /\ MaxReorg \in Nat /\ BlockOffset \in Int /\ MaxReorg <= BlockOffset
  BY DEF TypeOK, Block, FinalHead, SafeOffset
<1>1. highest <= highest' /\ highest' \in Nat
  BY ChainStep, NextType DEF TypeOK
<1>2. CASE UNCHANGED <<pc, target, latest, current>>
  <2> SUFFICES ASSUME pc # "tick"
               PROVE  /\ latest.num <= highest'
                      /\ latest.num = target + BlockOffset
                      /\ BlockOffset = 0 => Final(latest)'
                      /\ pc = "send" => Final(current)'
    BY <1>2 DEF PassInv
  <2>1. /\ latest.num <= highest
        /\ latest.num = target + BlockOffset
        /\ BlockOffset = 0 => Final(latest)
        /\ pc = "send" => Final(current)
    BY DEF PassInv
  <2>2. \A b : Final(b) => Final(b)'
    BY FinalStable
  <2>3. Final(latest) => Final(latest)'
    BY <1>2, <2>2 DEF Final
  <2>4. Final(current) => Final(current)'
    BY <1>2, <2>2 DEF Final
  <2>5. latest.num <= highest'
    BY <1>0, <1>1, <2>1
  <2> QED
    BY <2>1, <2>3, <2>4, <2>5
<1>3. CASE FetchLatest
  <2>1. PICK h \in (head - MaxLag)..head :
          h >= 0 /\ latest' = chain[h] /\ target' = TargetBlockNumber(h)
    BY <1>3 DEF FetchLatest
  <2>2. h \in 0..head /\ h <= highest
    BY <1>0, <2>1 DEF ChainInv
  <2>3. latest'.num = h /\ latest' = chain[h] /\ target' = h - BlockOffset
    BY <2>1, <2>2 DEF TypeOK, TargetBlockNumber
  <2>4. BlockOffset = 0 => Final(latest')
    BY <1>0, <2>2, <2>3 DEF Final
  <2>5. UNCHANGED chainVars /\ pc' = "loop"
    BY <1>3 DEF FetchLatest
  <2>6. latest'.num <= highest' /\ latest'.num = target' + BlockOffset
    BY <1>0, <2>2, <2>3, <2>5 DEF chainVars
  <2> QED
    BY <2>4, <2>5, <2>6 DEF PassInv, Final, FinalHead, chainVars
<1>4. CASE FetchBlock
  <2>1. target <= FinalHead /\ pc = "loop" /\ blockNum <= target
    BY <1>0, <1>4 DEF PassInv, FetchBlock
  <2>2. CASE blockNum = latest.num /\ current' = latest
    <3>1. latest.num = target + BlockOffset
      BY <2>1 DEF PassInv
    <3>2. BlockOffset = 0
      BY <1>0, <2>1, <2>2, <3>1
    <3> QED
      BY <1>4, <2>1, <2>2, <3>2 DEF PassInv, Final, FinalHead, FetchBlock, chainVars
  <2>3. CASE blockNum <= head /\ current' = BlockByNumber(blockNum)
    <3>1. Final(current')
      <4>0. blockNum \in Nat
        BY DEF TypeOK
      <4>1. current' = chain[blockNum] /\ current'.num = blockNum
        BY <2>3, <4>0 DEF TypeOK, BlockByNumber
      <4>2. blockNum \in 0..FinalHead
        BY <1>0, <2>1, <4>0
      <4> QED
        BY <2>3, <4>1, <4>2 DEF Final
    <3> QED
      BY <1>4, <2>1, <3>1 DEF PassInv, Final, FinalHead, FetchBlock, chainVars
  <2> QED
    BY <1>4, <2>2, <2>3 DEF FetchBlock
<1>5. CASE LoopEnds \/ Crash
  BY <1>5 DEF PassInv, LoopEnds, Crash
<1>6. CASE FetchBlockFails
  BY <1>6 DEF PassInv, Final, FinalHead, FetchBlockFails, chainVars
<1>7. ASSUME NEW w \in Workers, Dispatch(w) PROVE PassInv'
  BY <1>7 DEF PassInv, Final, FinalHead, Dispatch, chainVars
<1> QED
  BY <1>2, <1>3, <1>4, <1>5, <1>6, <1>7
     DEF Next, Worker, vars, Mine, Reorg, FetchLatestFails, FilterLogs,
         FilterLogsFails, HandleLog, Finish, monitorVars

\* The goroutines: a block in hand is final when it is dispatched.
LEMMA WorkStep ==
  ASSUME Inv, SafeOffset, [Next]_vars
  PROVE  WorkInv'
<1> TypeOK /\ ChainInv /\ PassInv /\ WorkInv
  BY DEF Inv
<1>1. \A b : Final(b) => Final(b)'
  BY FinalStable
<1>2. CASE UNCHANGED <<job, dispatched>>
  <2>1. \A w \in Workers : job[w].st # "idle" => Final(job[w].block)'
    BY <1>1, <1>2 DEF WorkInv, Final
  <2>2. \A b \in dispatched : Final(b)'
    BY <1>1 DEF WorkInv
  <2> QED
    BY <1>2, <2>1, <2>2 DEF WorkInv, Final
<1>3. ASSUME NEW w \in Workers, Dispatch(w) PROVE WorkInv'
  <2>1. Final(current)
    BY <1>3 DEF PassInv, Dispatch
  <2>2. UNCHANGED chainVars
    BY <1>3 DEF Dispatch
  <2>3. job' = [job EXCEPT ![w] = [st |-> "filter", block |-> current, pos |-> 1]]
    BY <1>3 DEF Dispatch
  <2>4. \A v \in Workers : job'[v].st # "idle" => Final(job'[v].block)
    BY <2>1, <2>3 DEF WorkInv, TypeOK
  <2>5. \A b \in dispatched' : Final(b)
    BY <1>3, <2>1 DEF WorkInv, Dispatch
  <2> QED
    BY <2>2, <2>4, <2>5 DEF WorkInv, Final, FinalHead, chainVars
<1>4. ASSUME NEW w \in Workers, Worker(w) PROVE WorkInv'
  <2>1. UNCHANGED <<chainVars, dispatched>>
    BY <1>4 DEF Worker, FilterLogs, FilterLogsFails, HandleLog, Finish, history
  <2>2. \/ job' = [job EXCEPT ![w].st = "logs"] /\ job[w].st = "filter"
        \/ job' = [job EXCEPT ![w].pos = @ + 1] /\ job[w].st = "logs"
        \/ job' = [job EXCEPT ![w] = Idle]
    BY <1>4 DEF Worker, FilterLogs, FilterLogsFails, HandleLog, Finish
  <2>3. ASSUME NEW v \in Workers, job'[v].st # "idle"
        PROVE  Final(job'[v].block)
    <3>1. job \in [Workers -> [st : {"idle", "filter", "logs"}, block : Block, pos : Nat]]
      BY DEF TypeOK
    <3>2. CASE v # w
      <4>1. job'[v] = job[v]
        BY <2>2, <3>1, <3>2
      <4> QED
        BY <2>3, <4>1 DEF WorkInv
    <3>3. CASE v = w
      <4>1. job[v].st # "idle" /\ job'[v].block = job[v].block
        BY <2>2, <2>3, <3>1, <3>3 DEF Idle
      <4> QED
        BY <4>1 DEF WorkInv
    <3> QED
      BY <3>2, <3>3
  <2> QED
    BY <2>1, <2>3 DEF WorkInv, Final, FinalHead, chainVars
<1>5. CASE Crash
  BY <1>5 DEF WorkInv, Crash, Idle
<1> QED
  BY <1>2, <1>3, <1>4, <1>5
     DEF Next, vars, Mine, Reorg, FetchLatest, FetchLatestFails, LoopEnds,
         FetchBlock, FetchBlockFails, history

\* Only the handling of an event writes to Redis, and it writes the epoch
\* of that event under the market of that event.
LEMMA OnlyHandleLogWrites ==
  ASSUME TypeOK, [Next]_vars
  PROVE  \/ UNCHANGED currentEpoch
         \/ \E w \in Workers :
              LET log == job[w].block.logs[job[w].pos]
              IN /\ HandleLog(w)
                 /\ job[w].st = "logs"
                 /\ job[w].pos \in DOMAIN job[w].block.logs
                 /\ isValidDataMarketAddress(Hex(log.market))
                 /\ currentEpoch' = [currentEpoch EXCEPT ![log.market] = log.epoch]
                 /\ UNCHANGED chainVars
<1>1. ASSUME NEW w \in Workers, HandleLog(w), currentEpoch' # currentEpoch
      PROVE  LET log == job[w].block.logs[job[w].pos]
             IN /\ job[w].st = "logs"
                /\ job[w].pos \in DOMAIN job[w].block.logs
                /\ isValidDataMarketAddress(Hex(log.market))
                /\ currentEpoch' = [currentEpoch EXCEPT ![log.market] = log.epoch]
                /\ UNCHANGED chainVars
  BY <1>1 DEF HandleLog, PersistEpoch, PersistState, Stored
<1> QED
  BY <1>1 DEF Next, Worker, vars, Mine, Reorg, Crash, FetchLatest, FetchLatestFails,
       LoopEnds, FetchBlock, FetchBlockFails, Dispatch, FilterLogs, FilterLogsFails,
       Finish

\* The string comparison accepts only spellings of configured addresses.
LEMMA ValidIsConfigured ==
  ASSUME NEW m, isValidDataMarketAddress(Hex(m))
  PROVE  m \in DataMarketContractAddresses
BY DEF isValidDataMarketAddress, DataMarketContractAddresses, Hex, HexToAddress

\* The event in hand belongs to a final block.
LEMMA EventIsFinal ==
  ASSUME TypeOK, WorkInv, NEW w \in Workers,
         job[w].st = "logs", job[w].pos \in DOMAIN job[w].block.logs
  PROVE  LET log == job[w].block.logs[job[w].pos]
         IN /\ log.market \in Markets
            /\ log.epoch \in Nat
            /\ \E n \in 0..FinalHead : log.epoch \in EpochsIn(chain[n], log.market)
<1> DEFINE b == job[w].block
           log == b.logs[job[w].pos]
<1>1. Final(b)
  BY DEF WorkInv
<1>2. b \in Block
  BY DEF TypeOK
<1>3. log \in Log
  BY <1>2 DEF Block
<1>4. log.epoch \in EpochsIn(b, log.market)
  BY DEF EpochsIn
<1> QED
  BY <1>1, <1>3, <1>4 DEF Final, Log

LEMMA CacheStep ==
  ASSUME Inv, SafeOffset, [Next]_vars
  PROVE  CacheInv'
<1> TypeOK /\ ChainInv /\ WorkInv /\ CacheInv
  BY DEF Inv
<1>1. ASSUME NEW m, NEW e, NEW n \in 0..FinalHead, e \in EpochsIn(chain[n], m)
      PROVE  \E k \in 0..FinalHead' : e \in EpochsIn(chain'[k], m)
  BY <1>1, ChainStep
<1>2. CASE UNCHANGED currentEpoch
  BY <1>1, <1>2 DEF CacheInv, EpochsIn
<1>3. ASSUME NEW w \in Workers,
             job[w].st = "logs",
             job[w].pos \in DOMAIN job[w].block.logs,
             isValidDataMarketAddress(Hex(job[w].block.logs[job[w].pos].market)),
             currentEpoch' = [currentEpoch EXCEPT ![job[w].block.logs[job[w].pos].market]
                                = job[w].block.logs[job[w].pos].epoch]
      PROVE  CacheInv'
  <2> DEFINE log == job[w].block.logs[job[w].pos]
  <2>1. /\ log.market \in Markets
        /\ \E n \in 0..FinalHead : log.epoch \in EpochsIn(chain[n], log.market)
    BY <1>3, EventIsFinal
  <2>2. log.market \in DataMarketContractAddresses
    BY <1>3, ValidIsConfigured
  <2>3. ASSUME NEW m \in Markets, currentEpoch'[m] # Absent
        PROVE  /\ m \in DataMarketContractAddresses
               /\ \E n \in 0..FinalHead : currentEpoch'[m] \in EpochsIn(chain[n], m)
    <3>1. CASE m = log.market
      BY <1>3, <2>1, <2>2, <3>1 DEF TypeOK
    <3>2. CASE m # log.market
      BY <1>3, <2>3, <3>2 DEF TypeOK, CacheInv
    <3> QED
      BY <3>1, <3>2
  <2>4. ASSUME NEW m \in Markets, currentEpoch'[m] # Absent
        PROVE  /\ m \in DataMarketContractAddresses
               /\ \E k \in 0..FinalHead' : currentEpoch'[m] \in EpochsIn(chain'[k], m)
    <3>1. PICK n \in 0..FinalHead : currentEpoch'[m] \in EpochsIn(chain[n], m)
      BY <2>3, <2>4
    <3>2. \E k \in 0..FinalHead' : currentEpoch'[m] \in EpochsIn(chain'[k], m)
      BY <1>1, <3>1
    <3> QED
      BY <2>3, <2>4, <3>2
  <2> QED
    BY <2>4 DEF CacheInv, EpochsIn
<1> QED
  BY <1>2, <1>3, OnlyHandleLogWrites

LEMMA NextInv == Inv /\ [Next]_vars => Inv'
BY NextType, ChainStep, PassStep, WorkStep, CacheStep DEF Inv, SafeOffset

LEMMA InvImplies ==
  ASSUME Inv
  PROVE  DispatchedIsCanonical /\ CachedEpochIsFinal
<1>1. FinalHead <= head /\ head \in Nat /\ FinalHead \in Int
  BY EventMonitorAssumption DEF Inv, ChainInv, TypeOK, FinalHead
<1>2. ASSUME SafeOffset, NEW b \in dispatched
      PROVE  b.num \in DOMAIN chain /\ chain[b.num] = b
  <2>1. b.num \in 0..FinalHead /\ chain[b.num] = b
    BY <1>2 DEF Inv, WorkInv, Final
  <2>2. DOMAIN chain = 0..head
    BY DEF Inv, TypeOK
  <2> QED
    BY <1>1, <2>1, <2>2
<1>3. DispatchedIsCanonical
  BY <1>2 DEF DispatchedIsCanonical, SafeOffset
<1>4. CachedEpochIsFinal
  BY DEF CachedEpochIsFinal, Inv, SafeOffset, CacheInv
<1> QED
  BY <1>3, <1>4

(***************************************************************************)
(* With an offset at least as deep as the reorganisations, every block     *)
(* handed to a goroutine is on the canonical chain and stays there.        *)
(***************************************************************************)
THEOREM DispatchedStaysCanonical == Spec => []DispatchedIsCanonical
<1>1. Inv => DispatchedIsCanonical
  BY InvImplies
<1> QED
  BY <1>1, InitInv, NextInv, PTL DEF Spec

(***************************************************************************)
(* With such an offset the epoch in Redis was released for that configured *)
(* market by a block that can no longer be abandoned, whatever crashes,    *)
(* failures, lags and reorganisations happened.                            *)
(***************************************************************************)
THEOREM CachedEpochsAreFinal == Spec => []CachedEpochIsFinal
<1>1. Inv => CachedEpochIsFinal
  BY InvImplies
<1> QED
  BY <1>1, InitInv, NextInv, PTL DEF Spec

Published == [m \in Markets |-> ReleasedUpTo(FinalHead, m)]

\* The epochs of final blocks are numbers, and none is ever taken back.
LEMMA PublishedGrows ==
  ASSUME Inv, Inv', [Next]_vars
  PROVE  /\ Published' \in [Markets -> SUBSET Nat]
         /\ \A m \in Markets : Published[m] \subseteq Published'[m]
<1>1. ASSUME NEW m \in Markets, NEW e \in ReleasedUpTo(FinalHead, m)
      PROVE  e \in ReleasedUpTo(FinalHead, m)'
  <2>1. PICK n \in 0..FinalHead : e \in EpochsIn(chain[n], m)
    BY DEF ReleasedUpTo
  <2>2. FinalHead \in Int /\ FinalHead' \in Int /\ FinalHead <= FinalHead'
        /\ chain'[n] = chain[n]
    BY ChainStep DEF Inv
  <2>3. n \in 0..FinalHead' /\ e \in EpochsIn(chain'[n], m)
    BY <2>1, <2>2
  <2> QED  BY <2>3 DEF ReleasedUpTo
<1>2. ASSUME NEW m \in Markets, NEW e \in ReleasedUpTo(FinalHead, m)'
      PROVE  e \in Nat
  <2> DEFINE E(n) == {chain'[n].logs[j].epoch :
                        j \in {k \in DOMAIN chain'[n].logs : chain'[n].logs[k].market = m}}
  <2>0. e \in UNION {E(n) : n \in 0..FinalHead'}
    BY <1>2 DEF ReleasedUpTo, EpochsIn
  <2>1. PICK n \in 0..FinalHead' : e \in EpochsIn(chain'[n], m)
    <3> HIDE DEF E
    <3>1. PICK n \in 0..FinalHead' : e \in E(n)
      BY <2>0
    <3> QED  BY <3>1 DEF E, EpochsIn
  <2>2. n \in 0..head'
    <3> HIDE DEF E
    <3>1. FinalHead' \in Int
      BY ChainStep DEF Inv
    <3>2. FinalHead' <= head' /\ head' \in Nat
      BY DEF Inv, ChainInv, TypeOK
    <3> QED  BY <2>1, <3>1, <3>2
  <2>3. chain'[n].logs \in Seq(Log)
    BY <2>2 DEF Inv, TypeOK, Block
  <2>4. PICK j \in DOMAIN chain'[n].logs : e = chain'[n].logs[j].epoch
    BY <2>1 DEF EpochsIn
  <2>5. chain'[n].logs[j] \in Log
    BY <2>3, <2>4
  <2> QED  BY <2>4, <2>5 DEF Log
<1> QED  BY <1>1, <1>2 DEF Published

LEMMA InitMirrored == Init => Mirror!Init
<1> SUFFICES ASSUME Init PROVE Mirror!Init
  OBVIOUS
<1>1. \A m \in Markets : ReleasedUpTo(FinalHead, m) = {}
  <2>1. FinalHead <= InitialHead /\ FinalHead \in Int
    BY EventMonitorAssumption DEF Init, FinalHead
  <2>2. \A n \in 0..FinalHead : chain[n].logs = <<>>
    BY <2>1, EventMonitorAssumption DEF Init
  <2> QED  BY <2>2 DEF ReleasedUpTo, EpochsIn
<1>2. Published \in [Markets -> SUBSET Nat]
  BY <1>1 DEF Published
<1> QED  BY <1>2 DEF Init, Mirror!Init, Mirror!Missing, Absent, Published

(***************************************************************************)
(* With an offset as deep as reorganisations the event pipeline implements *)
(* a cache of contract state: every write to Redis stores an epoch that a  *)
(* final block released, under its own market, for any number of workers,  *)
(* any lag, and whichever calls fail or restarts happen.                   *)
(***************************************************************************)
THEOREM EpochsMirrorContract == SafeOffset => (Spec => MirrorsContract)
<1> SUFFICES ASSUME SafeOffset PROVE Spec => MirrorsContract
  OBVIOUS
<1>1. Init => Mirror!Init
  BY InitMirrored
<1>2. Inv /\ Inv' /\ [Next]_vars => [Mirror!Next]_<<Published, currentEpoch>>
  <2> SUFFICES ASSUME Inv, Inv', [Next]_vars
               PROVE  [Mirror!Next]_<<Published, currentEpoch>>
    OBVIOUS
  <2>1. CASE UNCHANGED currentEpoch
    BY <2>1, PublishedGrows DEF Mirror!Next, Mirror!Publish, Published
  <2>2. ASSUME NEW w \in Workers, NEW log, log = job[w].block.logs[job[w].pos],
               job[w].st = "logs", job[w].pos \in DOMAIN job[w].block.logs,
               currentEpoch' = [currentEpoch EXCEPT ![log.market] = log.epoch],
               UNCHANGED chainVars
        PROVE  Mirror!Next
    <3>1. log.market \in Markets
          /\ \E n \in 0..FinalHead : log.epoch \in EpochsIn(chain[n], log.market)
      BY <2>2, EventIsFinal DEF Inv
    <3>2. log.epoch \in Published[log.market] /\ Published' = Published
      BY <2>2, <3>1 DEF Published, ReleasedUpTo, chainVars, FinalHead
    <3> QED  BY <2>2, <3>1, <3>2 DEF Mirror!Next, Mirror!Refresh, Published
  <2> QED  BY <2>1, <2>2, OnlyHandleLogWrites DEF Inv
<1> QED
  BY <1>1, <1>2, InitInv, NextInv, PTL DEF Spec, MirrorsContract, Mirror!Spec, Published
-----------------------------------------------------------------------------
(***************************************************************************)
(* That nothing is left out by the event pipeline: theorems of             *)
(* EventMonitor about the blocks it goes through and the events in them.   *)
(***************************************************************************)

\* The block was handed to a goroutine or logged as not fetched.
Considered(n) == n \in skipped \/ \E b \in dispatched : b.num = n

\* A process above block 1 never takes lastProcessedBlock for "not started",
\* and a pass considers every block on its way.
PositionInv ==
  /\ first \in Nat \union {-1}
  /\ first = -1 => pc = "tick" /\ lastProcessedBlock = 0
  /\ first > 1 =>
       /\ first - 1 <= lastProcessedBlock
       /\ pc # "tick" => lastProcessedBlock < blockNum
       /\ \A n \in Int : first <= n /\ n <= lastProcessedBlock => Considered(n)
       /\ pc # "tick" => \A n \in Int : first <= n /\ n < blockNum => Considered(n)

CoverInv == Inv /\ PositionInv
-----------------------------------------------------------------------------
LEMMA InitPosition == Init => PositionInv
BY DEF Init, PositionInv

LEMMA FetchLatestPosition ==
  ASSUME CoverInv, FetchLatest
  PROVE  PositionInv'
<1>1. pc' = "loop" /\ UNCHANGED <<skipped, dispatched>>
  BY DEF FetchLatest
<1>2. lastProcessedBlock \in Int
  BY DEF CoverInv, Inv, TypeOK
<1>3. blockNum' = lastProcessedBlock' + 1
  BY DEF FetchLatest
<1>4. CASE first = -1
  <2>1. lastProcessedBlock = 0
    BY <1>4 DEF CoverInv, PositionInv
  <2>2. PICK t \in Nat : t = target'
    BY EventMonitorAssumption DEF FetchLatest, TargetBlockNumber, CoverInv, Inv, TypeOK
  <2>3. first' = t /\ lastProcessedBlock' = t - 1
    BY <1>4, <2>1, <2>2 DEF FetchLatest, ResumeAfter
  <2>4. blockNum' = t
    BY <1>3, <2>3
  <2>5. \A n \in Int : ~(t <= n /\ n <= t - 1) /\ ~(t <= n /\ n < t)
    OBVIOUS
  <2> QED  BY <1>1, <2>3, <2>4, <2>5 DEF PositionInv
<1>5. CASE first # -1
  <2>1. first' = first /\ first \in Nat
    BY <1>5 DEF FetchLatest, CoverInv, PositionInv
  <2>2. CASE first > 1
    <3>1. lastProcessedBlock # 0 /\ first - 1 <= lastProcessedBlock
      BY <1>2, <2>1, <2>2 DEF CoverInv, PositionInv
    <3>2. lastProcessedBlock' = lastProcessedBlock /\ blockNum' = lastProcessedBlock + 1
      BY <1>3, <3>1 DEF FetchLatest, ResumeAfter
    <3>3. \A n : Considered(n)' <=> Considered(n)
      BY <1>1 DEF Considered
    <3>4. \A n \in Int : first <= n /\ n < blockNum' => n <= lastProcessedBlock
      BY <1>2, <3>2
    <3>5. lastProcessedBlock' < blockNum'
      BY <1>2, <3>2
    <3>6. \A n \in Int : first <= n /\ n <= lastProcessedBlock => Considered(n)
      BY <2>2 DEF CoverInv, PositionInv
    <3> QED  BY <1>1, <2>1, <3>1, <3>2, <3>3, <3>4, <3>5, <3>6 DEF PositionInv
  <2>3. CASE ~(first > 1)
    BY <1>1, <2>1, <2>3 DEF PositionInv
  <2> QED  BY <2>2, <2>3
<1> QED  BY <1>4, <1>5

LEMMA LoopEndsPosition ==
  ASSUME CoverInv, LoopEnds
  PROVE  PositionInv'
<1>1. pc = "loop" /\ pc' = "tick" /\ UNCHANGED <<lastProcessedBlock, first, skipped, dispatched>>
  BY DEF LoopEnds, history
<1>2. \A n : Considered(n)' <=> Considered(n)
  BY <1>1 DEF Considered
<1> QED  BY <1>1, <1>2 DEF CoverInv, PositionInv

LEMMA FetchBlockPosition ==
  ASSUME CoverInv, FetchBlock
  PROVE  PositionInv'
<1>1. pc = "loop" /\ pc' = "send"
      /\ UNCHANGED <<blockNum, lastProcessedBlock, first, skipped, dispatched>>
  BY DEF FetchBlock, history
<1>2. \A n : Considered(n)' <=> Considered(n)
  BY <1>1 DEF Considered
<1> QED  BY <1>1, <1>2 DEF CoverInv, PositionInv

\* A step of the loop past blockNum, which it has considered.
LEMMA AdvancePosition ==
  ASSUME CoverInv, pc # "tick", pc' = "loop", blockNum' = blockNum + 1, first' = first,
         lastProcessedBlock' \in {lastProcessedBlock, blockNum},
         skipped \subseteq skipped', dispatched \subseteq dispatched',
         NEW b \in Int, b = blockNum, Considered(b)'
  PROVE  PositionInv'
<1>1. \A n : Considered(n) => Considered(n)'
  BY DEF Considered
<1>2. blockNum \in Int /\ lastProcessedBlock \in Int /\ first \in Int
  BY DEF CoverInv, Inv, TypeOK
<1>3. ASSUME first > 1, NEW n \in Int, first <= n, n < blockNum'
      PROVE  Considered(n)'
  <2>1. CASE n = blockNum
    BY <2>1
  <2>2. CASE n # blockNum
    <3>1. n < blockNum
      BY <1>2, <1>3, <2>2
    <3> QED  BY <1>1, <1>3, <3>1 DEF CoverInv, PositionInv
  <2> QED  BY <2>1, <2>2
<1>4. first > 1 => first - 1 <= lastProcessedBlock' /\ lastProcessedBlock' < blockNum'
  BY <1>2 DEF CoverInv, PositionInv
<1>5. ASSUME first > 1, NEW n \in Int, first <= n, n <= lastProcessedBlock'
      PROVE  Considered(n)'
  <2>1. n < blockNum'
    BY <1>2, <1>4, <1>5
  <2> QED  BY <1>3, <1>5, <2>1
<1> QED  BY <1>3, <1>4, <1>5 DEF CoverInv, PositionInv

LEMMA NextPosition == CoverInv /\ [Next]_vars => PositionInv'
<1> SUFFICES ASSUME CoverInv, [Next]_vars PROVE PositionInv'
  OBVIOUS
<1>1. CASE FetchLatest \/ LoopEnds \/ FetchBlock
  BY <1>1, FetchLatestPosition, LoopEndsPosition, FetchBlockPosition
<1>2. CASE FetchBlockFails
  <2>1. /\ pc = "loop" /\ pc' = "loop" /\ blockNum' = blockNum + 1
        /\ skipped' = skipped \union {blockNum}
        /\ UNCHANGED <<lastProcessedBlock, first, dispatched>>
    BY <1>2 DEF FetchBlockFails
  <2>2. PICK b \in Int : b = blockNum
    BY DEF CoverInv, Inv, TypeOK
  <2>3. Considered(b)'
    BY <2>1, <2>2 DEF Considered
  <2> QED  BY <2>1, <2>2, <2>3, AdvancePosition
<1>3. ASSUME NEW w \in Workers, Dispatch(w) PROVE PositionInv'
  <2>1. /\ pc = "send" /\ pc' = "loop" /\ blockNum' = blockNum + 1
        /\ lastProcessedBlock' = blockNum
        /\ dispatched' = dispatched \union {current}
        /\ UNCHANGED <<skipped, first>>
    BY <1>3 DEF Dispatch
  <2>2. current.num = blockNum
    BY <2>1 DEF CoverInv, Inv, TypeOK
  <2>3. PICK b \in Int : b = blockNum
    BY DEF CoverInv, Inv, TypeOK
  <2>4. Considered(b)'
    BY <2>1, <2>2, <2>3 DEF Considered
  <2> QED  BY <2>1, <2>3, <2>4, AdvancePosition
<1>4. CASE Crash
  BY <1>4 DEF Crash, PositionInv
<1>5. CASE Mine \/ Reorg \/ FetchLatestFails \/ (\E w \in Workers : Worker(w)) \/ UNCHANGED vars
  <2>1. UNCHANGED <<pc, blockNum, current, lastProcessedBlock, first, skipped, dispatched>>
    BY <1>5 DEF Mine, Reorg, FetchLatestFails, Worker, FilterLogs, FilterLogsFails,
       HandleLog, Finish, vars, monitorVars, history
  <2>2. \A n : Considered(n)' <=> Considered(n)
    BY <2>1 DEF Considered
  <2> QED  BY <2>1, <2>2 DEF CoverInv, PositionInv
<1> QED  BY <1>1, <1>2, <1>3, <1>4, <1>5 DEF Next

(***************************************************************************)
(* A process that starts above block 1 passes over no block unnoticed, for *)
(* any offset, lag, failing calls, restarts and reorganisations.           *)
(***************************************************************************)
THEOREM NothingSkippedSilently == Spec => []NoSilentSkip
<1>1. CoverInv => NoSilentSkip
  <2> SUFFICES ASSUME CoverInv, first > 1, NEW n \in first..lastProcessedBlock
               PROVE  n \in skipped \/ \E b \in dispatched : b.num = n
    BY DEF NoSilentSkip, AllConsidered
  <2>1. n \in Int /\ first <= n /\ n <= lastProcessedBlock
    BY DEF CoverInv, Inv, TypeOK
  <2> QED  BY <2>1 DEF CoverInv, PositionInv, Considered
<1> QED
  BY <1>1, InitInv, NextInv, InitPosition, NextPosition, PTL DEF Spec, CoverInv
-----------------------------------------------------------------------------
(***************************************************************************)
(* Of a block that was handed out, the goroutine that holds it has the     *)
(* events before pos behind it.  Markets are configured in the spelling    *)
(* that Hex prints; another spelling matches no event.                     *)
(***************************************************************************)
Checksummed == \A m \in DataMarketContractAddresses : isValidDataMarketAddress(Hex(m))

InHand(b, i) ==
  \E w \in Workers : job[w].block = b /\ job[w].st # "idle" /\ job[w].pos <= i

AccountInv ==
  /\ \A w \in Workers : job[w].pos >= 1
  /\ \A b \in dispatched : \A i \in DOMAIN b.logs :
       b.logs[i].market \in DataMarketContractAddresses => <<b, i>> \in settled \/ InHand(b, i)

LEMMA Positions ==
  ASSUME NEW b \in Block, NEW i \in DOMAIN b.logs
  PROVE  i \in Nat /\ i >= 1
<1>1. b.logs \in Seq(Log)
  BY DEF Block
<1> QED  BY <1>1

\* The events that no goroutine gives up stay accounted for.
LEMMA AccountKept ==
  ASSUME TypeOK, AccountInv, settled \subseteq settled',
         \A w \in Workers : job'[w].pos >= 1,
         \A b \in dispatched' : b \in dispatched \/
           \A i \in DOMAIN b.logs : <<b, i>> \in settled' \/ InHand(b, i)',
         \A w \in Workers : \A i \in DOMAIN job[w].block.logs :
           /\ job[w].st # "idle" /\ job[w].pos <= i
           /\ job[w].block.logs[i].market \in DataMarketContractAddresses
           => \/ <<job[w].block, i>> \in settled'
              \/ job'[w].block = job[w].block /\ job'[w].st # "idle" /\ job'[w].pos <= i
  PROVE  AccountInv'
<1>1. ASSUME NEW b \in dispatched, NEW i \in DOMAIN b.logs,
             b.logs[i].market \in DataMarketContractAddresses
      PROVE  <<b, i>> \in settled' \/ InHand(b, i)'
  <2>1. CASE <<b, i>> \in settled
    BY <2>1
  <2>2. CASE InHand(b, i)
    BY <1>1, <2>2 DEF InHand
  <2> QED  BY <1>1, <2>1, <2>2 DEF AccountInv
<1> QED  BY <1>1 DEF AccountInv

LEMMA DispatchAccount ==
  ASSUME Inv, AccountInv, NEW w \in Workers, Dispatch(w)
  PROVE  AccountInv'
<1>1. /\ job[w] = Idle
      /\ job' = [job EXCEPT ![w] = [st |-> "filter", block |-> current, pos |-> 1]]
      /\ dispatched' = dispatched \union {current} /\ settled' = settled
  BY DEF Dispatch
<1>2. /\ job'[w].st = "filter" /\ job'[w].block = current /\ job'[w].pos = 1
      /\ \A u \in Workers : u # w => job'[u] = job[u]
  BY <1>1 DEF Inv, TypeOK
<1>3. ASSUME NEW b \in Block, b = current
      PROVE  \A i \in DOMAIN b.logs : InHand(b, i)'
  BY <1>2, <1>3, Positions DEF InHand
<1>4. job[w].st = "idle"
  BY <1>1 DEF Idle
<1>5. \A u \in Workers : job'[u].pos >= 1
  BY <1>2 DEF AccountInv
<1>6. \A b \in dispatched' : b \in dispatched \/ \A i \in DOMAIN b.logs : InHand(b, i)'
  BY <1>1, <1>3 DEF Inv, TypeOK
<1> QED  BY <1>1, <1>2, <1>4, <1>5, <1>6, AccountKept DEF Inv

LEMMA WorkerAccount ==
  ASSUME Checksummed, Inv, AccountInv, NEW w \in Workers, Worker(w)
  PROVE  AccountInv'
<1>1. /\ dispatched' = dispatched /\ settled \subseteq settled'
      /\ \A u \in Workers : u # w => job'[u] = job[u]
  BY DEF Worker, FilterLogs, FilterLogsFails, HandleLog, Finish, history, Inv, TypeOK
<1>2. job[w].pos \in Nat /\ job[w].pos >= 1 /\ job[w].block \in Block
  BY DEF Inv, TypeOK, AccountInv
<1> DEFINE Followed(i) ==
      /\ job[w].pos <= i
      /\ job[w].block.logs[i].market \in DataMarketContractAddresses
      => \/ <<job[w].block, i>> \in settled'
         \/ job'[w].block = job[w].block /\ job'[w].st # "idle" /\ job'[w].pos <= i
<1>3. SUFFICES job'[w].pos >= 1 /\ \A i \in DOMAIN job[w].block.logs : Followed(i)
  <2>1. \A u \in Workers : job'[u].pos >= 1
    BY <1>1, <1>3 DEF AccountInv
  <2>2. \A u \in Workers : \A i \in DOMAIN job[u].block.logs :
          /\ job[u].st # "idle" /\ job[u].pos <= i
          /\ job[u].block.logs[i].market \in DataMarketContractAddresses
          => \/ <<job[u].block, i>> \in settled'
             \/ job'[u].block = job[u].block /\ job'[u].st # "idle" /\ job'[u].pos <= i
    BY <1>1, <1>3
  <2> QED  BY <1>1, <2>1, <2>2, AccountKept DEF Inv
<1>4. CASE FilterLogs(w)
  BY <1>2, <1>4 DEF FilterLogs, Inv, TypeOK
<1>5. CASE FilterLogsFails(w)
  <2>1. job'[w] = Idle /\ settled' = settled \union LogsOf(job[w].block)
    BY <1>5 DEF FilterLogsFails, Inv, TypeOK
  <2> QED  BY <2>1 DEF LogsOf, Idle
<1>6. CASE HandleLog(w)
  <2>1. /\ job'[w].block = job[w].block /\ job'[w].st = "logs"
        /\ job'[w].pos = job[w].pos + 1
    BY <1>6 DEF HandleLog, Inv, TypeOK
  <2>2. job[w].block.logs[job[w].pos].market \in DataMarketContractAddresses =>
          <<job[w].block, job[w].pos>> \in settled'
    BY <1>6 DEF HandleLog, Checksummed
  <2>3. \A i \in DOMAIN job[w].block.logs :
          job[w].pos <= i => i = job[w].pos \/ job[w].pos + 1 <= i
    BY <1>2, Positions
  <2> QED  BY <1>2, <2>1, <2>2, <2>3
<1>7. CASE Finish(w)
  <2>1. job'[w] = Idle /\ job[w].pos \notin DOMAIN job[w].block.logs
    BY <1>7 DEF Finish, Inv, TypeOK
  <2>2. \A i \in DOMAIN job[w].block.logs : ~(job[w].pos <= i)
    <3>1. /\ DOMAIN job[w].block.logs = 1..Len(job[w].block.logs)
          /\ Len(job[w].block.logs) \in Nat
      BY <1>2 DEF Block
    <3> QED  BY <1>2, <2>1, <3>1
  <2> QED  BY <2>1, <2>2 DEF Idle
<1> QED  BY <1>4, <1>5, <1>6, <1>7 DEF Worker

LEMMA NextAccount ==
  ASSUME Checksummed, Inv, AccountInv, [Next]_vars
  PROVE  AccountInv'
<1>1. CASE \E w \in Workers : Dispatch(w) \/ Worker(w)
  BY <1>1, DispatchAccount, WorkerAccount
<1>2. CASE Crash
  BY <1>2 DEF Crash, AccountInv, Idle
<1>3. CASE ~Crash /\ ~\E w \in Workers : Dispatch(w) \/ Worker(w)
  <2>1. UNCHANGED <<job, dispatched, settled>>
    BY <1>3 DEF Next, vars, Mine, Reorg, FetchLatest, FetchLatestFails, LoopEnds,
       FetchBlock, FetchBlockFails, history
  <2> QED  BY <2>1 DEF AccountInv, InHand
<1> QED  BY <1>1, <1>2, <1>3

(***************************************************************************)
(* Every event of a configured market in a block that was handed out is    *)
(* persisted or reported as lost by the time no goroutine works on the     *)
(* block, if the markets are configured in the spelling of Hex.            *)
(***************************************************************************)
THEOREM EventsAreAccounted == Checksummed => (Spec => []EventsAccounted)
<1> SUFFICES ASSUME Checksummed PROVE Spec => []EventsAccounted
  OBVIOUS
<1>1. Init => AccountInv
  BY DEF Init, AccountInv, Idle
<1>2. Inv /\ AccountInv /\ [Next]_vars => AccountInv'
  BY NextAccount
<1>3. AccountInv => EventsAccounted
  BY DEF AccountInv, InHand, EventsAccounted
<1> QED  BY <1>1, <1>2, <1>3, InitInv, NextInv, PTL DEF Spec
-----------------------------------------------------------------------------
(***************************************************************************)
(* The order of epochs.  A block number says how far the loop is, and not  *)
(* which epoch is the newer: that epochs grow along the chain is the       *)
(* contract's doing, which counts those it has released.                   *)
(***************************************************************************)
EpochInv ==
  /\ chain[0].logs = <<>>
  /\ \A n \in 0..head : \A m \in Markets :
       \A e \in ReleasedUpTo(n, m) : e <= Cardinality(ReleasedUpTo(n, m))
  /\ \A k, n \in 0..head : \A i \in DOMAIN chain[k].logs : \A j \in DOMAIN chain[n].logs :
       /\ chain[k].logs[i].market = chain[n].logs[j].market
       /\ k < n
       => chain[k].logs[i].epoch < chain[n].logs[j].epoch

\* The events of one market before the i-th of a new block.
Before(ms, i) == {j \in 1..(i - 1) : ms[j] = ms[i]}

LEMMA BeforeGrows ==
  ASSUME NEW ms \in Seq(Markets), NEW i \in 1..Len(ms)
  PROVE  /\ IsFiniteSet(Before(ms, i)) /\ Cardinality(Before(ms, i)) \in Nat
         /\ \A j \in 1..Len(ms) : i < j /\ ms[i] = ms[j] =>
              Cardinality(Before(ms, i)) < Cardinality(Before(ms, j))
<1>1. \A k \in 1..Len(ms) :
        IsFiniteSet(Before(ms, k)) /\ Cardinality(Before(ms, k)) \in Nat
  <2> TAKE k \in 1..Len(ms)
  <2>1. IsFiniteSet(1..(k - 1))
    BY FS_Interval
  <2>2. IsFiniteSet(Before(ms, k))
    BY <2>1, FS_Subset DEF Before
  <2> QED  BY <2>2, FS_CardinalityType
<1>2. ASSUME NEW j \in 1..Len(ms), i < j, ms[i] = ms[j]
      PROVE  Cardinality(Before(ms, i)) < Cardinality(Before(ms, j))
  <2>1. Before(ms, i) \subseteq Before(ms, j) /\ i \in Before(ms, j) /\ i \notin Before(ms, i)
    BY <1>2 DEF Before
  <2>2. /\ Cardinality(Before(ms, i)) <= Cardinality(Before(ms, j))
        /\ Cardinality(Before(ms, i)) # Cardinality(Before(ms, j))
    BY <1>1, <2>1, FS_Subset
  <2> QED  BY <1>1, <2>2
<1> QED  BY <1>1, <1>2

\* A new block has as many epochs of a market as it has events of it.
LEMMA EpochsCounted ==
  ASSUME TypeOK, NEW ms \in Seq(Markets), NEW i \in 1..Len(ms), NEW E, IsFiniteSet(E),
         \A j \in 1..Len(ms) : ms[j] = ms[i] => NewLog(ms, j).epoch \in E
  PROVE  Cardinality(Before(ms, i)) < Cardinality(E)
<1> DEFINE B == Before(ms, i) \union {i}
           f == [j \in B |-> NewLog(ms, j).epoch]
<1>0. IsFiniteSet(Before(ms, i)) /\ Cardinality(Before(ms, i)) \in Nat
  BY BeforeGrows
<1>1. B \subseteq 1..Len(ms) /\ \A j \in B : ms[j] = ms[i]
  BY DEF Before
<1>2. i \notin Before(ms, i)
  BY DEF Before
<1>3. IsFiniteSet(B) /\ Cardinality(B) = Cardinality(Before(ms, i)) + 1
  BY <1>0, <1>2, FS_AddElement
<1> HIDE DEF B
<1>4. \A j \in B : NewLog(ms, j).epoch = NextEpoch(ms[i]) + Cardinality(Before(ms, j))
  BY <1>1 DEF NewLog, Before
<1>5. \A j, k \in B : j < k => f[j] # f[k]
  <2> SUFFICES ASSUME NEW j \in B, NEW k \in B, j < k PROVE f[j] # f[k]
    OBVIOUS
  <2>1. /\ Cardinality(Before(ms, j)) \in Nat /\ Cardinality(Before(ms, k)) \in Nat
        /\ Cardinality(Before(ms, j)) < Cardinality(Before(ms, k))
    BY <1>1, BeforeGrows
  <2>2. NextEpoch(ms[i]) \in Nat
    BY NextEpochType
  <2>3. NextEpoch(ms[i]) + Cardinality(Before(ms, j)) # NextEpoch(ms[i]) + Cardinality(Before(ms, k))
    BY <2>1, <2>2
  <2> QED  BY <1>4, <2>3
<1>6. \A j, k \in B : j # k => j < k \/ k < j
  BY <1>1
<1>7. f \in Injection(B, E)
  BY <1>1, <1>5, <1>6 DEF Injection, IsInjective
<1>8. Cardinality(B) <= Cardinality(E)
  BY <1>7, FS_Injection
<1>9. Cardinality(E) \in Nat
  BY FS_CardinalityType
<1> QED  BY <1>0, <1>3, <1>8, <1>9

LEMMA ReleasedMeans ==
  ASSUME NEW n, NEW m, NEW e
  PROVE  /\ e \in ReleasedUpTo(n, m) <=> \E k \in 0..n : e \in EpochsIn(chain[k], m)
         /\ e \in ReleasedUpTo(n, m)' <=> \E k \in 0..n : e \in EpochsIn(chain'[k], m)
<1>1. e \in ReleasedUpTo(n, m) <=> \E k \in 0..n : e \in EpochsIn(chain[k], m)
  BY DEF ReleasedUpTo
<1>2. e \in ReleasedUpTo(n, m)' <=> \E k \in 0..n : e \in EpochsIn(chain'[k], m)
  BY DEF ReleasedUpTo, EpochsIn
<1> QED  BY <1>1, <1>2

\* What Mine appends: epochs above all that the chain has, and as many.
LEMMA MineEpochs ==
  ASSUME TypeOK, EpochInv, Mine
  PROVE  EpochInv'
<1>1. PICK ms \in Mineable :
        chain' = [n \in 0..(head + 1) |->
                    IF n <= head THEN chain[n]
                    ELSE [num  |-> n, fork |-> fork,
                          logs |-> [i \in 1..Len(ms) |-> NewLog(ms, i)]]]
  BY DEF Mine
<1>2. ms \in Seq(Markets) /\ Len(ms) \in Nat
  BY EventMonitorAssumption
<1>3. head \in Nat /\ head' = head + 1
  BY DEF TypeOK, Mine
<1>top. PICK top \in Nat : top = head + 1
  BY <1>3
<1>4. \A n \in 0..head : chain'[n] = chain[n]
  BY <1>1, <1>3
<1>5. chain'[head + 1].logs = [i \in 1..Len(ms) |-> NewLog(ms, i)]
  BY <1>1, <1>3
<1> DEFINE new == chain'[head + 1].logs
           R(m) == ReleasedUpTo(head, m)
           Rank(i) == Cardinality(Before(ms, i))
<1>6. \A m : IsFiniteSet(R(m)) /\ Cardinality(R(m)) \in Nat
  BY <1>3, ReleasedFinite, FS_CardinalityType
<1>7. \A i \in 1..Len(ms) : ms[i] \in Markets /\ Rank(i) \in Nat
  BY <1>2, BeforeGrows
<1>8. DOMAIN new = 1..Len(ms)
  BY <1>5
<1>9. \A i \in 1..Len(ms) :
        new[i].market = ms[i] /\ new[i].epoch = Cardinality(R(ms[i])) + 1 + Rank(i)
  BY <1>5 DEF NewLog, NextEpoch, Before
<1>10. \A m \in Markets : \A e \in R(m) : e <= Cardinality(R(m)) /\ e \in Int
  <2> SUFFICES ASSUME NEW m \in Markets, NEW e \in R(m)
               PROVE  e <= Cardinality(R(m)) /\ e \in Int
    OBVIOUS
  <2>1. PICK k \in 0..head : e \in EpochsIn(chain[k], m)
    BY ReleasedMeans
  <2>2. chain[k] \in Block
    BY DEF TypeOK
  <2>3. PICK i \in DOMAIN chain[k].logs : e = chain[k].logs[i].epoch
    BY <2>1 DEF EpochsIn
  <2>4. chain[k].logs \in Seq(Log)
    BY <2>2 DEF Block
  <2>5. chain[k].logs[i] \in Log
    BY <2>3, <2>4
  <2>6. e \in Int
    BY <2>3, <2>5 DEF Log
  <2> QED  BY <1>3, <2>6 DEF EpochInv
<1>11. \A n \in 0..head : \A m \in Markets : \A e \in ReleasedUpTo(n, m)' :
         e <= Cardinality(ReleasedUpTo(n, m)')
  <2> SUFFICES ASSUME NEW n \in 0..head, NEW m \in Markets
               PROVE  \A e \in ReleasedUpTo(n, m)' : e <= Cardinality(ReleasedUpTo(n, m)')
    OBVIOUS
  <2>1. ReleasedUpTo(n, m)' = ReleasedUpTo(n, m)
    <3>1. \A e : e \in ReleasedUpTo(n, m)' <=> e \in ReleasedUpTo(n, m)
      <4> TAKE e
      <4>1. 0..n \subseteq 0..head
        BY <1>3
      <4> QED  BY <1>4, <4>1, ReleasedMeans
    <3> QED  BY <3>1
  <2> QED  BY <2>1 DEF EpochInv
<1>12. ASSUME NEW m \in Markets
       PROVE  \A e \in ReleasedUpTo(top, m)' : e <= Cardinality(ReleasedUpTo(top, m)')
  <2> DEFINE E == EpochsIn(chain'[head + 1], m)
             All == ReleasedUpTo(top, m)'
  <2>1. All = R(m) \union E
    <3>1. \A e : e \in All <=> e \in R(m) \/ e \in E
      <4> TAKE e
      <4>1. \A k : k \in 0..top <=> k \in 0..head \/ k = head + 1
        BY <1>3, <1>top
      <4> QED  BY <1>4, <4>1, ReleasedMeans
    <3> QED  BY <3>1
  <2>2. IsFiniteSet(E)
    <3>1. TypeOK'
      BY NextType DEF Next
    <3>2. head + 1 \in 0..head'
      BY <1>3
    <3>3. chain'[head + 1] \in Block
      BY <3>1, <3>2 DEF TypeOK
    <3> QED  BY <3>3, EpochsInFinite
  <2>3. \A e \in E : \E i \in 1..Len(ms) : ms[i] = m /\ e = Cardinality(R(m)) + 1 + Rank(i)
    BY <1>8, <1>9 DEF EpochsIn
  <2>4. \A i \in 1..Len(ms) : ms[i] = m => NewLog(ms, i).epoch \in E
    BY <1>5, <1>8, <1>9 DEF EpochsIn
  <2> HIDE DEF E, R, Rank, All
  <2>5. R(m) \intersect E = {}
    <3> SUFFICES ASSUME NEW e \in R(m), e \in E PROVE FALSE
      OBVIOUS
    <3>1. PICK i \in 1..Len(ms) : e = Cardinality(R(m)) + 1 + Rank(i)
      BY <2>3
    <3> QED  BY <1>6, <1>7, <1>10, <3>1
  <2>6. IsFiniteSet(All) /\ Cardinality(All) = Cardinality(R(m)) + Cardinality(E)
    <3>1. Cardinality(R(m) \intersect E) = 0
      BY <2>5, FS_EmptySet
    <3>2. Cardinality(E) \in Nat
      BY <2>2, FS_CardinalityType
    <3>3. Cardinality(R(m) \union E)
            = Cardinality(R(m)) + Cardinality(E) - Cardinality(R(m) \intersect E)
      BY <1>6, <2>2, FS_Union
    <3>4. IsFiniteSet(R(m) \union E)
      BY <1>6, <2>2, FS_Union
    <3> QED  BY <1>6, <2>1, <3>1, <3>2, <3>3, <3>4
  <2>7. Cardinality(E) \in Nat
    BY <2>2, FS_CardinalityType
  <2>8. ASSUME NEW e \in E PROVE e <= Cardinality(All)
    <3>1. PICK i \in 1..Len(ms) : ms[i] = m /\ e = Cardinality(R(m)) + 1 + Rank(i)
      BY <2>3
    <3>2. Rank(i) < Cardinality(E)
      BY <1>2, <2>2, <2>4, <3>1, EpochsCounted DEF Rank
    <3> QED  BY <1>6, <1>7, <2>6, <2>7, <3>1, <3>2
  <2>9. ASSUME NEW e \in R(m) PROVE e <= Cardinality(All)
    <3>1. e <= Cardinality(R(m)) /\ e \in Int
      BY <1>10
    <3> QED  BY <1>6, <2>6, <2>7, <3>1
  <2> QED  BY <2>1, <2>8, <2>9 DEF All
<1>13. \A n \in 0..head' : \A m \in Markets : \A e \in ReleasedUpTo(n, m)' :
         e <= Cardinality(ReleasedUpTo(n, m)')
  <2>1. \A k : k \in 0..head' <=> k \in 0..head \/ k = top
    BY <1>3, <1>top
  <2> QED  BY <1>11, <1>12, <2>1
<1>14. ASSUME NEW k \in 0..head', NEW n \in 0..head',
              NEW i \in DOMAIN chain'[k].logs, NEW j \in DOMAIN chain'[n].logs,
              chain'[k].logs[i].market = chain'[n].logs[j].market,
              k < n
       PROVE  chain'[k].logs[i].epoch < chain'[n].logs[j].epoch
  <2>2. CASE n \in 0..head
    <3>1. k \in 0..head
      BY <1>3, <1>14, <2>2
    <3>2. /\ i \in DOMAIN chain[k].logs /\ j \in DOMAIN chain[n].logs
          /\ chain'[k] = chain[k] /\ chain'[n] = chain[n]
      BY <1>4, <1>14, <2>2, <3>1
    <3> QED  BY <1>14, <2>2, <3>1, <3>2 DEF EpochInv
  <2>3. CASE n = head + 1 /\ k \in 0..head
    <3>1. j \in 1..Len(ms) /\ new[j].market = ms[j]
          /\ new[j].epoch = Cardinality(R(ms[j])) + 1 + Rank(j)
      BY <1>8, <1>9, <1>14, <2>3
    <3>2. i \in DOMAIN chain[k].logs /\ chain'[k] = chain[k]
      BY <1>4, <1>14, <2>3
    <3>3. chain[k].logs[i].market = ms[j]
      BY <1>14, <2>3, <3>1, <3>2
    <3>4. chain[k].logs[i].epoch \in EpochsIn(chain[k], ms[j])
      BY <3>2, <3>3 DEF EpochsIn
    <3>5. chain[k].logs[i].epoch \in R(ms[j])
      BY <2>3, <3>4, ReleasedMeans
    <3> HIDE DEF R, Rank
    <3>6. PICK e \in Int : e = chain[k].logs[i].epoch /\ e <= Cardinality(R(ms[j]))
      BY <1>7, <1>10, <3>1, <3>5
    <3>7. e < Cardinality(R(ms[j])) + 1 + Rank(j)
      BY <1>6, <1>7, <3>1, <3>6
    <3> QED  BY <2>3, <3>1, <3>2, <3>6, <3>7
  <2> QED  BY <1>3, <1>14, <2>2, <2>3
<1>15. chain'[0].logs = <<>>
  BY <1>3, <1>4 DEF EpochInv
<1> HIDE DEF new, R, Rank
<1> QED  BY <1>13, <1>14, <1>15 DEF EpochInv

\* A reorganisation leaves a chain whose blocks were numbered before.
LEMMA NextEpochs ==
  ASSUME TypeOK, EpochInv, [Next]_vars
  PROVE  EpochInv'
<1>1. CASE Mine
  BY <1>1, MineEpochs
<1>2. CASE ~Mine
  <2>1. head' \in 0..head /\ \A n \in 0..head' : chain'[n] = chain[n]
    <3>1. CASE Reorg
      BY <3>1 DEF Reorg, TypeOK
    <3>2. CASE ~Reorg
      BY <1>2, <3>2, ProcessKeepsChain DEF chainVars, TypeOK
    <3> QED  BY <3>1, <3>2
  <2>2. head \in Nat /\ head' \in Nat /\ 0..head' \subseteq 0..head
    BY <2>1 DEF TypeOK
  <2>3. \A n \in 0..head' : \A m : ReleasedUpTo(n, m)' = ReleasedUpTo(n, m)
    <3> TAKE n \in 0..head'
    <3> TAKE m
    <3>1. 0..n \subseteq 0..head'
      BY <2>2
    <3>2. \A e : e \in ReleasedUpTo(n, m)' <=> e \in ReleasedUpTo(n, m)
      BY <2>1, <3>1, ReleasedMeans
    <3> QED  BY <3>2
  <2>4. \A n \in 0..head' : \A m \in Markets :
          \A e \in ReleasedUpTo(n, m)' : e <= Cardinality(ReleasedUpTo(n, m)')
    BY <2>2, <2>3 DEF EpochInv
  <2>5. \A k, n \in 0..head' :
          \A i \in DOMAIN chain'[k].logs : \A j \in DOMAIN chain'[n].logs :
            /\ chain'[k].logs[i].market = chain'[n].logs[j].market
            /\ k < n
            => chain'[k].logs[i].epoch < chain'[n].logs[j].epoch
    BY <2>1, <2>2 DEF EpochInv
  <2>6. chain'[0].logs = <<>>
    BY <2>1, <2>2 DEF EpochInv
  <2> QED  BY <2>4, <2>5, <2>6 DEF EpochInv
<1> QED  BY <1>1, <1>2

(***************************************************************************)
(* How far epochs can go back.  The epoch in Redis has a place in the      *)
(* chain, the only block that releases it.  The loop of the process that   *)
(* wrote it is past that block and stays so, even when a lagging node      *)
(* takes the target back.  After a restart it may be before it, but its    *)
(* first target is BlockOffset below a head that is at most MaxReorg +     *)
(* MaxLag below the highest one, and the place is BlockOffset below that.  *)
(***************************************************************************)
Past(n) == n <= lastProcessedBlock /\ (pc # "tick" => n < blockNum)

Depth == MaxReorg + MaxLag

Near(n) ==
  /\ lastProcessedBlock # 0 => n <= lastProcessedBlock + 1 + Depth
  /\ pc # "tick" => n <= blockNum + Depth

Deep(n) == n <= highest - BlockOffset

Held(n) == Deep(n) /\ IF crashes = 0 THEN Past(n) ELSE Near(n)

FreshInv ==
  /\ pc = "send" => blockNum <= target
  /\ \A w \in Workers : job[w].st # "idle" /\ job[w].block.logs # <<>> =>
       Deep(job[w].block.num) /\ Past(job[w].block.num)
  /\ \A m \in Markets : currentEpoch[m] # Absent =>
       \E n \in 0..FinalHead : currentEpoch[m] \in EpochsIn(chain[n], m) /\ Held(n)

LineInv == Inv /\ EpochInv /\ FreshInv

\* Block 0 has no events: where lastProcessedBlock = 0 stands for it, the loop
\* may go back, but to nothing that was ever written.
LEMMA PastStep ==
  ASSUME Inv, ~Crash, [Next]_vars, NEW n \in Nat, n # 0, Past(n)
  PROVE  Past(n)'
<1>1. blockNum \in Nat /\ lastProcessedBlock \in Int
  BY DEF Inv, TypeOK
<1>2. CASE FetchLatest
  <2>1. lastProcessedBlock # 0 /\ n <= lastProcessedBlock
    BY <1>1 DEF Past
  <2>2. lastProcessedBlock' = lastProcessedBlock /\ blockNum' = lastProcessedBlock + 1
    BY <1>2, <2>1 DEF FetchLatest, ResumeAfter
  <2> QED  BY <1>1, <2>1, <2>2 DEF Past
<1>3. CASE FetchBlockFails
  BY <1>1, <1>3 DEF Past, FetchBlockFails
<1>4. ASSUME NEW w \in Workers, Dispatch(w) PROVE Past(n)'
  BY <1>1, <1>4 DEF Past, Dispatch
<1>5. CASE LoopEnds
  BY <1>5 DEF Past, LoopEnds
<1>6. CASE FetchBlock
  BY <1>6 DEF Past, FetchBlock
<1>7. CASE Mine \/ Reorg \/ FetchLatestFails \/ (\E w \in Workers : Worker(w)) \/ UNCHANGED vars
  BY <1>7 DEF Past, Mine, Reorg, FetchLatestFails, Worker, FilterLogs, FilterLogsFails,
     HandleLog, Finish, vars, monitorVars
<1> QED  BY <1>2, <1>3, <1>4, <1>5, <1>6, <1>7 DEF Next

LEMMA PastIsNear ==
  ASSUME Inv, NEW n \in Nat, Past(n)
  PROVE  Near(n)
<1>1. blockNum \in Nat /\ lastProcessedBlock \in Int /\ Depth \in Nat
  BY EventMonitorAssumption DEF Inv, TypeOK, Depth
<1> QED  BY <1>1 DEF Past, Near

LEMMA DeepStep ==
  ASSUME Inv, [Next]_vars, NEW n \in Nat, Deep(n)
  PROVE  Deep(n)'
<1>1. highest \in Nat /\ BlockOffset \in Int
  BY EventMonitorAssumption DEF Inv, TypeOK
<1>2. TypeOK'
  BY NextType DEF Inv
<1>3. PICK h \in Nat : h = highest'
  BY <1>2 DEF TypeOK
<1>4. highest <= h
  BY <1>3, ChainStep DEF Inv
<1>5. n <= highest - BlockOffset
  BY DEF Deep
<1>6. n <= h - BlockOffset
  BY <1>1, <1>4, <1>5
<1> QED  BY <1>3, <1>6 DEF Deep

\* A first target is near every epoch in Redis.
LEMMA NearStep ==
  ASSUME Inv, [Next]_vars, NEW n \in Nat, Deep(n), Near(n)
  PROVE  Near(n)'
<1> USE EventMonitorAssumption
<1>1. blockNum \in Nat /\ lastProcessedBlock \in Int /\ Depth \in Nat
  BY DEF Inv, TypeOK, Depth
<1>2. CASE FetchLatest
  <2>1. PICK h \in (head - MaxLag)..head : target' = h - BlockOffset
    BY <1>2 DEF FetchLatest, TargetBlockNumber
  <2>2. head \in Nat /\ highest \in Nat /\ highest - MaxReorg <= head
    BY DEF Inv, TypeOK, ChainInv, FinalHead
  <2>3. n <= h - BlockOffset + Depth
    BY <2>1, <2>2 DEF Deep, Depth
  <2>4. CASE lastProcessedBlock = 0
    <3>1. PICK t \in Int : t = h - BlockOffset
      BY <2>1, <2>2
    <3>2. lastProcessedBlock' = t - 1
      BY <1>2, <2>1, <2>4, <3>1 DEF FetchLatest, ResumeAfter
    <3>3. blockNum' = t
      BY <1>2, <3>1, <3>2 DEF FetchLatest
    <3> QED  BY <1>1, <2>3, <3>1, <3>2, <3>3 DEF Near, Depth
  <2>5. CASE lastProcessedBlock # 0
    <3>1. lastProcessedBlock' = lastProcessedBlock /\ blockNum' = lastProcessedBlock + 1
      BY <1>2, <2>5 DEF FetchLatest, ResumeAfter
    <3> QED  BY <1>1, <2>5, <3>1 DEF Near, Depth
  <2> QED  BY <2>4, <2>5
<1>3. CASE FetchBlockFails
  <2>1. /\ pc = "loop" /\ pc' = "loop" /\ blockNum' = blockNum + 1
        /\ lastProcessedBlock' = lastProcessedBlock
    BY <1>3 DEF FetchBlockFails
  <2> QED  BY <1>1, <2>1 DEF Near, Depth
<1>4. ASSUME NEW w \in Workers, Dispatch(w) PROVE Near(n)'
  <2>1. /\ pc = "send" /\ pc' = "loop" /\ blockNum' = blockNum + 1
        /\ lastProcessedBlock' = blockNum
    BY <1>4 DEF Dispatch
  <2> QED  BY <1>1, <2>1 DEF Near, Depth
<1>5. CASE LoopEnds
  BY <1>5 DEF Near, Depth, LoopEnds
<1>6. CASE FetchBlock
  BY <1>6 DEF Near, Depth, FetchBlock
<1>7. CASE Crash
  BY <1>7 DEF Near, Crash
<1>8. CASE Mine \/ Reorg \/ FetchLatestFails \/ (\E w \in Workers : Worker(w)) \/ UNCHANGED vars
  BY <1>8 DEF Near, Depth, Mine, Reorg, FetchLatestFails, Worker, FilterLogs,
     FilterLogsFails, HandleLog, Finish, vars, monitorVars
<1> QED  BY <1>2, <1>3, <1>4, <1>5, <1>6, <1>7, <1>8 DEF Next

\* A place stays held: a restart only loses that the loop is past it.
LEMMA HeldStep ==
  ASSUME Inv, [Next]_vars, NEW n \in Nat, n # 0, Held(n)
  PROVE  Held(n)'
<1>1. Deep(n)'
  BY DeepStep DEF Held
<1>2. crashes \in Nat
  BY DEF Inv, TypeOK
<1>3. Near(n)'
  BY NearStep, PastIsNear DEF Held
<1>4. CASE Crash
  BY <1>1, <1>2, <1>3, <1>4 DEF Crash, Held
<1>5. CASE ~Crash
  <2>1. crashes' = crashes
    BY <1>5 DEF Next, Worker, vars, Mine, Reorg, FetchLatest, FetchLatestFails, LoopEnds,
       FetchBlock, FetchBlockFails, Dispatch, FilterLogs, FilterLogsFails, HandleLog, Finish
  <2>2. CASE crashes = 0
    <3>1. Past(n)'
      BY <1>5, <2>2, PastStep DEF Held
    <3> QED  BY <1>1, <2>1, <2>2, <3>1 DEF Held
  <2>3. CASE crashes # 0
    BY <1>1, <1>3, <2>1, <2>3 DEF Held
  <2> QED  BY <2>2, <2>3
<1> QED  BY <1>4, <1>5

\* A block that a goroutine finds events in is a final one, and not block 0.
LEMMA JobBlock ==
  ASSUME LineInv, SafeOffset, NEW w \in Workers,
         job[w].st # "idle", job[w].block.logs # <<>>
  PROVE  /\ job[w].block.num \in 0..FinalHead /\ job[w].block.num # 0
         /\ chain[job[w].block.num] = job[w].block
<1>1. Final(job[w].block)
  BY DEF LineInv, Inv, WorkInv
<1>2. chain[0].logs = <<>>
  BY DEF LineInv, EpochInv
<1> QED  BY <1>1, <1>2 DEF Final

\* The loop is past the blocks of its goroutines, which are below its targets.
LEMMA JobsArePast ==
  ASSUME LineInv, SafeOffset, [Next]_vars,
         NEW w \in Workers, job'[w].st # "idle", job'[w].block.logs # <<>>,
         NEW n, n = job'[w].block.num
  PROVE  Deep(n)' /\ Past(n)'
<1>1. job \in [Workers -> [st : {"idle", "filter", "logs"}, block : Block, pos : Nat]]
  BY DEF LineInv, Inv, TypeOK
<1>2. CASE Dispatch(w)
  <2>1. /\ pc = "send" /\ current.num = blockNum
        /\ lastProcessedBlock' = blockNum /\ blockNum' = blockNum + 1
        /\ highest' = highest
    BY <1>2 DEF Dispatch, LineInv, Inv, TypeOK, chainVars
  <2>2. n = blockNum
    BY <1>1, <1>2, <2>1 DEF Dispatch
  <2>3. /\ blockNum \in Nat /\ target \in Int /\ highest \in Nat /\ BlockOffset \in Int
        /\ latest.num \in Int
    BY EventMonitorAssumption DEF LineInv, Inv, TypeOK, Block
  <2>4. blockNum <= target
    BY <2>1 DEF LineInv, FreshInv
  <2>5. latest.num <= highest /\ latest.num = target + BlockOffset
    BY <2>1 DEF LineInv, Inv, PassInv
  <2>6. blockNum <= highest - BlockOffset
    BY <2>3, <2>4, <2>5
  <2>7. Deep(n)'
    BY <2>1, <2>2, <2>6 DEF Deep
  <2>8. Past(n)'
    BY <2>1, <2>2, <2>3 DEF Past
  <2> QED  BY <2>7, <2>8
<1>3. CASE ~Dispatch(w)
  <2>0. ~Crash
    BY DEF Crash, Idle
  <2>1. job[w].st # "idle" /\ job[w].block = job'[w].block
    <3>1. CASE UNCHANGED job
      BY <3>1
    <3>2. ASSUME NEW v \in Workers, v # w, Dispatch(v)
          PROVE  job'[w] = job[w]
      BY <1>1, <3>2 DEF Dispatch
    <3>3. ASSUME NEW v \in Workers, Worker(v)
          PROVE  job[w].st # "idle" /\ job[w].block = job'[w].block
      <4>1. \/ job' = [job EXCEPT ![v].st = "logs"] /\ job[v].st = "filter"
            \/ job' = [job EXCEPT ![v].pos = @ + 1] /\ job[v].st = "logs"
            \/ job' = [job EXCEPT ![v] = Idle]
        BY <3>3 DEF Worker, FilterLogs, FilterLogsFails, HandleLog, Finish
      <4> QED  BY <1>1, <4>1 DEF Idle
    <3> QED
      BY <1>3, <2>0, <3>1, <3>2, <3>3 DEF Next, vars, Mine, Reorg, FetchLatest,
         FetchLatestFails, LoopEnds, FetchBlock, FetchBlockFails
  <2>2. n = job[w].block.num /\ Deep(n) /\ Past(n)
    BY <2>1 DEF LineInv, FreshInv
  <2>3. n \in Nat /\ n # 0
    BY <2>1, <2>2, JobBlock
  <2>4. Past(n)'
    BY <2>0, <2>2, <2>3, PastStep DEF LineInv
  <2>5. Deep(n)'
    BY <2>2, <2>3, DeepStep DEF LineInv
  <2> QED  BY <2>4, <2>5
<1> QED  BY <1>2, <1>3

\* The place of a written epoch stays, and stays held.
LEMMA PlaceKept ==
  ASSUME LineInv, [Next]_vars, NEW m \in Markets,
         currentEpoch'[m] = currentEpoch[m], currentEpoch[m] # Absent
  PROVE  \E n \in 0..FinalHead' : currentEpoch'[m] \in EpochsIn(chain'[n], m) /\ Held(n)'
<1>1. PICK n \in 0..FinalHead : currentEpoch[m] \in EpochsIn(chain[n], m) /\ Held(n)
  BY DEF LineInv, FreshInv
<1>2. /\ FinalHead \in Int /\ FinalHead' \in Int /\ FinalHead <= FinalHead'
      /\ chain'[n] = chain[n]
  BY ChainStep DEF LineInv, Inv
<1>3. n \in Nat /\ n \in 0..FinalHead'
  BY <1>2
<1>4. n # 0
  BY <1>1 DEF EpochsIn, LineInv, EpochInv
<1>5. Held(n)'
  BY <1>1, <1>3, <1>4, HeldStep DEF LineInv
<1>6. currentEpoch'[m] \in EpochsIn(chain'[n], m)
  BY <1>1, <1>2
<1> QED  BY <1>3, <1>5, <1>6

\* An epoch is written by a goroutine of this process: the loop is past it.
LEMMA PlaceWritten ==
  ASSUME LineInv, SafeOffset, NEW w \in Workers,
         HandleLog(w), NEW m, m = job[w].block.logs[job[w].pos].market, m \in Markets,
         currentEpoch'[m] = job[w].block.logs[job[w].pos].epoch
  PROVE  \E n \in 0..FinalHead' : currentEpoch'[m] \in EpochsIn(chain'[n], m) /\ Held(n)'
<1>1. PICK n : n = job[w].block.num
  OBVIOUS
<1>2. job[w].st = "logs" /\ job[w].pos \in DOMAIN job[w].block.logs
  BY DEF HandleLog
<1>3. UNCHANGED <<chainVars, crashes, pc, blockNum, lastProcessedBlock>>
  BY DEF HandleLog, monitorVars
<1>4. job[w].block.logs # <<>>
  BY <1>2
<1>5. n \in 0..FinalHead /\ chain[n] = job[w].block
  BY <1>1, <1>2, <1>4, JobBlock
<1>6. Deep(n) /\ Past(n)
  BY <1>1, <1>2, <1>4 DEF LineInv, FreshInv
<1>7. Near(n)
  BY <1>5, <1>6, PastIsNear DEF LineInv
<1>8. Held(n)'
  BY <1>3, <1>6, <1>7 DEF Held, Deep, Past, Near, Depth, chainVars
<1>9. currentEpoch'[m] \in EpochsIn(chain[n], m)
  BY <1>2, <1>5 DEF EpochsIn
<1>10. n \in 0..FinalHead' /\ chain'[n] = chain[n]
  BY <1>3, <1>5 DEF FinalHead, chainVars
<1> QED  BY <1>8, <1>9, <1>10

LEMMA NextFresh ==
  ASSUME LineInv, SafeOffset, [Next]_vars
  PROVE  FreshInv'
<1>1. pc' = "send" => blockNum' <= target'
  <2>1. CASE FetchBlock
    BY <2>1 DEF FetchBlock
  <2>2. CASE UNCHANGED <<pc, blockNum, target>>
    BY <2>2 DEF LineInv, FreshInv
  <2> QED
    BY <2>1, <2>2 DEF Next, Worker, vars, monitorVars, Mine, Reorg, Crash, FetchLatest,
       FetchLatestFails, LoopEnds, FetchBlockFails, Dispatch, FilterLogs,
       FilterLogsFails, HandleLog, Finish
<1>2. ASSUME NEW w \in Workers, job'[w].st # "idle", job'[w].block.logs # <<>>
      PROVE  Deep(job[w].block.num)' /\ Past(job[w].block.num)'
  <2>1. PICK n : n = job'[w].block.num
    OBVIOUS
  <2>2. Deep(n)' /\ Past(n)'
    BY <1>2, <2>1, JobsArePast
  <2> QED  BY <2>1, <2>2 DEF Deep, Past
<1>3. ASSUME NEW m \in Markets, currentEpoch'[m] # Absent
      PROVE  \E n \in 0..FinalHead' : currentEpoch'[m] \in EpochsIn(chain'[n], m) /\ Held(n)'
  <2>1. CASE currentEpoch'[m] = currentEpoch[m]
    BY <1>3, <2>1, PlaceKept
  <2>2. CASE currentEpoch'[m] # currentEpoch[m]
    <3>1. PICK w \in Workers :
            LET log == job[w].block.logs[job[w].pos]
            IN HandleLog(w) /\ currentEpoch' = [currentEpoch EXCEPT ![log.market] = log.epoch]
      BY <2>2, OnlyHandleLogWrites DEF LineInv, Inv
    <3>2. /\ m = job[w].block.logs[job[w].pos].market
          /\ currentEpoch'[m] = job[w].block.logs[job[w].pos].epoch
      BY <2>2, <3>1 DEF LineInv, Inv, TypeOK
    <3> QED  BY <3>1, <3>2, PlaceWritten
  <2> QED  BY <2>1, <2>2
<1>4. \A m \in Markets : currentEpoch'[m] # Absent =>
        \E n \in 0..FinalHead' : currentEpoch'[m] \in EpochsIn(chain[n], m)' /\ Held(n)'
  BY <1>3 DEF EpochsIn
<1> QED  BY <1>1, <1>2, <1>4 DEF FreshInv

\* An epoch of a market is released by one block only.
LEMMA OnePlace ==
  ASSUME TypeOK, EpochInv, NEW m \in Markets, NEW k \in 0..head, NEW n \in 0..head,
         NEW e, e \in EpochsIn(chain[k], m), e \in EpochsIn(chain[n], m)
  PROVE  k = n /\ e \in Nat
<1>1. PICK i \in DOMAIN chain[k].logs : chain[k].logs[i].market = m /\ chain[k].logs[i].epoch = e
  BY DEF EpochsIn
<1>2. PICK j \in DOMAIN chain[n].logs : chain[n].logs[j].market = m /\ chain[n].logs[j].epoch = e
  BY DEF EpochsIn
<1>3. chain[k].logs \in Seq(Log)
  BY DEF TypeOK, Block
<1>4. chain[k].logs[i] \in Log
  BY <1>3
<1>5. e \in Nat
  BY <1>1, <1>4 DEF Log
<1>6. ~(k < n) /\ ~(n < k)
  BY <1>1, <1>2, <1>5 DEF EpochInv
<1>7. head \in Nat
  BY DEF TypeOK
<1> QED  BY <1>5, <1>6, <1>7

(***************************************************************************)
(* When a goroutine is about to be started Redis holds no epoch of its     *)
(* block or a later one, or after a restart of no block more than          *)
(* MaxReorg + MaxLag later: for any number of workers, any offset as deep  *)
(* as reorganisations, any lag of the nodes and any number of restarts,    *)
(* whichever calls fail.                                                   *)
(***************************************************************************)
THEOREM GoroutinesStartOnFresh == Spec => []StartsOnFresh
<1>0. CASE ~SafeOffset
  <2>1. StartsOnFresh
    BY <1>0 DEF StartsOnFresh, SafeOffset
  <2> QED  BY <2>1, PTL
<1>1. CASE SafeOffset
  <2>1. Init => EpochInv /\ FreshInv
    <3> SUFFICES ASSUME Init PROVE EpochInv /\ FreshInv
      OBVIOUS
    <3>1. \A n \in 0..head : chain[n].logs = <<>>
      BY DEF Init
    <3>2. \A n \in 0..head : \A m : ReleasedUpTo(n, m) = {}
      <4> TAKE n \in 0..head
      <4> TAKE m
      <4>1. 0..n \subseteq 0..head
        BY EventMonitorAssumption DEF Init
      <4> QED  BY <3>1, <4>1 DEF ReleasedUpTo, EpochsIn
    <3>3. 0 \in 0..head
      BY EventMonitorAssumption DEF Init
    <3>4. EpochInv
      BY <3>1, <3>2, <3>3 DEF EpochInv
    <3>5. FreshInv
      BY DEF Init, FreshInv, Idle
    <3> QED  BY <3>4, <3>5
  <2>2. LineInv /\ [Next]_vars => EpochInv' /\ FreshInv'
    BY <1>1, NextEpochs, NextFresh DEF LineInv, Inv
  <2>3. LineInv => StartsOnFresh
    <3> SUFFICES ASSUME LineInv, pc = "send", NEW m \in Markets, NEW n \in DOMAIN chain,
                        currentEpoch[m] \in EpochsIn(chain[n], m)
                 PROVE  n <= current.num + Rewind
      BY DEF StartsOnFresh
    <3>1. n \in 0..head /\ head \in Nat /\ FinalHead \in Int /\ FinalHead <= head
      BY EventMonitorAssumption DEF LineInv, Inv, TypeOK, ChainInv, FinalHead
    <3>2. currentEpoch[m] # Absent
      BY <3>1, OnePlace DEF LineInv, Inv, Absent
    <3>3. PICK k \in 0..FinalHead : currentEpoch[m] \in EpochsIn(chain[k], m) /\ Held(k)
      BY <3>2 DEF LineInv, FreshInv
    <3>4. k \in 0..head
      BY <3>1
    <3>5. Held(n)
      BY <3>1, <3>3, <3>4, OnePlace DEF LineInv, Inv
    <3>6. current.num = blockNum /\ blockNum \in Nat
      BY DEF LineInv, Inv, TypeOK
    <3> QED  BY <3>1, <3>5, <3>6, EventMonitorAssumption DEF Held, Past, Near, Depth, Rewind
  <2> QED
    BY <2>1, <2>2, <2>3, InitInv, NextInv, PTL DEF Spec, LineInv
<1> QED  BY <1>0, <1>1
=============================================================================
