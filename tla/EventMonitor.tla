---------------------------- MODULE EventMonitor ----------------------------
(***************************************************************************)
(* The event pipeline of pkgs/prost/processor.go: one MonitorEvents loop   *)
(* walks the chain block by block and hands every block to a goroutine     *)
(* running ProcessProtocolStateEvents, at most maxWorkers of them at once, *)
(* which writes the epochs the block releases to Redis.                    *)
(*                                                                         *)
(* The environment is the chain seen through the RPC nodes: it grows, it   *)
(* drops up to MaxReorg of its newest blocks, and a node may answer with a *)
(* head up to MaxLag blocks behind.  The process may crash and restart.    *)
(*                                                                         *)
(* A definition marked "mutation" is no part of the model: it is a mistake *)
(* that the code could contain, kept to show that a property catches it.   *)
(***************************************************************************)
EXTENDS Integers, Sequences, FiniteSets, Redis, DataMarkets

CONSTANTS
  Workers,                   \* the places in workerLimit
  BlockOffset,               \* BLOCK_OFFSET
  MaxReorg,                  \* the deepest reorganisation of the chain
  MaxLag,                    \* how far an RPC node may be behind
  InitialHead,               \* the chain's height when the process starts
  Mineable,                  \* bound: the contents a new block may have
  MaxBlock,                  \* bound: the chain's greatest height
  MaxForks,                  \* bound: the number of reorganisations
  MaxCrashes                 \* bound: the number of crashes

ASSUME EventMonitorAssumption ==
  /\ Workers # {}
  /\ BlockOffset \in Int
  /\ MaxReorg \in Nat
  /\ MaxLag \in Nat
  /\ InitialHead \in Nat
  /\ Mineable \subseteq Seq(Markets)
  /\ MaxBlock \in Nat
  /\ MaxForks \in Nat
  /\ MaxCrashes \in Nat

VARIABLES
  chain,                     \* the canonical chain: block number -> block
  head,                      \* its newest block number
  highest,                   \* the greatest head so far
  fork,                      \* the number of reorganisations so far
  crashes,                   \* the number of crashes so far
  pc,                        \* where MonitorEvents is
  latest,                    \* latestBlock
  target,                    \* targetBlockNumber
  blockNum,                  \* the loop's blockNum
  current,                   \* currentBlock
  lastProcessedBlock,        \* the package variable of that name
  job,                       \* the goroutine in each place of workerLimit
  currentEpoch,              \* Redis: <market>.CurrentEpochID
  first,                     \* history: the first block this process aimed at
  skipped,                   \* history: numbers of the blocks it skipped
  dispatched,                \* history: the blocks it handed to a goroutine
  settled                    \* history: logs persisted or reported as lost

chainVars == <<chain, head, highest, fork>>
monitorVars == <<pc, latest, target, blockNum, current>>
history == <<first, skipped, dispatched, settled>>
vars == <<chainVars, crashes, monitorVars, lastProcessedBlock, job,
          currentEpoch, alerts, history>>
-----------------------------------------------------------------------------
\* The contract's EpochReleased events; other topics have no effect.
Log == [market : Markets, epoch : Nat]

\* "fork" stands for the hash: it tells apart blocks of the same number.
Block == [num : Int, fork : Nat, logs : Seq(Log)]

NoBlock == [num |-> -1, fork |-> 0, logs |-> <<>>]

Idle == [st |-> "idle", block |-> NoBlock, pos |-> 1]

LogsOf(b) == {<<b, i>> : i \in DOMAIN b.logs}

EpochsIn(b, m) == {b.logs[i].epoch : i \in {j \in DOMAIN b.logs : b.logs[j].market = m}}

\* The epochs of m released in the blocks up to n.
ReleasedUpTo(n, m) == UNION {EpochsIn(chain[k], m) : k \in 0..n}

NextEpoch(m) == Cardinality(ReleasedUpTo(head, m)) + 1

\* The i-th event of a block with events for the markets ms.
NewLog(ms, i) ==
  [market |-> ms[i],
   epoch  |-> NextEpoch(ms[i]) + Cardinality({j \in 1..(i - 1) : ms[j] = ms[i]})]
-----------------------------------------------------------------------------
Init ==
  /\ chain = [n \in 0..InitialHead |-> [num |-> n, fork |-> 0, logs |-> <<>>]]
  /\ head = InitialHead
  /\ highest = InitialHead
  /\ fork = 0
  /\ crashes = 0
  /\ pc = "tick"
  /\ latest = NoBlock
  /\ target = -1
  /\ blockNum = 0
  /\ current = NoBlock
  /\ lastProcessedBlock = 0
  /\ job = [w \in Workers |-> Idle]
  /\ currentEpoch = [m \in Markets |-> Absent]
  /\ alerts = <<>>
  /\ first = -1
  /\ skipped = {}
  /\ dispatched = {}
  /\ settled = {}

\* The chain grows by a block whose events carry the next epochs.
Mine ==
  /\ head < MaxBlock
  /\ \E ms \in Mineable :
       chain' = [n \in 0..(head + 1) |->
                   IF n <= head THEN chain[n]
                   ELSE [num  |-> n, fork |-> fork,
                         logs |-> [i \in 1..Len(ms) |-> NewLog(ms, i)]]]
  /\ head' = head + 1
  /\ highest' = IF head' > highest THEN head' ELSE highest
  /\ UNCHANGED <<fork, crashes, monitorVars, lastProcessedBlock, job,
                 currentEpoch, alerts, history>>

\* The newest blocks are abandoned, never deeper than MaxReorg in all.
Reorg ==
  /\ fork < MaxForks
  /\ \E h \in 0..(head - 1) :
       /\ h >= highest - MaxReorg
       /\ chain' = [n \in 0..h |-> chain[n]]
       /\ head' = h
  /\ fork' = fork + 1
  /\ UNCHANGED <<highest, crashes, monitorVars, lastProcessedBlock, job,
                 currentEpoch, alerts, history>>
-----------------------------------------------------------------------------
(***************************************************************************)
(* MonitorEvents.                                                          *)
(***************************************************************************)

TargetWithoutOffset(h) == h                                        \* mutation

TargetBlockNumber(h) == h - BlockOffset

ResumeAtTarget(t) == t - 1                                         \* mutation

\* The first tick starts at the target; zero means "no block yet".
ResumeAfter(t) == IF lastProcessedBlock = 0 THEN t - 1 ELSE lastProcessedBlock

\* A tick: read the head of some node and aim BlockOffset blocks below it.
\* A target below zero leaves everything as it is.
FetchLatest ==
  /\ pc = "tick"
  /\ \E h \in (head - MaxLag)..head :
       /\ h >= 0
       /\ TargetBlockNumber(h) >= 0
       /\ latest' = chain[h]
       /\ target' = TargetBlockNumber(h)
  /\ lastProcessedBlock' = ResumeAfter(target')
  /\ blockNum' = lastProcessedBlock' + 1
  /\ pc' = "loop"
  /\ first' = IF first = -1 THEN target' ELSE first
  /\ UNCHANGED <<chainVars, crashes, current, job, currentEpoch, alerts,
                 skipped, dispatched, settled>>

\* fetchBlock(nil) fails after its retries.
FetchLatestFails ==
  /\ pc = "tick"
  /\ "latest" \in Faults
  /\ SendFailureNotification("MonitorEvents")
  /\ UNCHANGED <<chainVars, crashes, monitorVars, lastProcessedBlock, job,
                 currentEpoch, history>>

\* The loop has passed the target: wait for the next tick.
LoopEnds ==
  /\ pc = "loop"
  /\ blockNum > target
  /\ pc' = "tick"
  /\ latest' = NoBlock
  /\ target' = -1
  /\ blockNum' = 0
  /\ UNCHANGED <<chainVars, crashes, current, lastProcessedBlock, job,
                 currentEpoch, alerts, history>>

\* What a node answers: the block of that number or, to a negative number,
\* which is the tag of a block and not its number, its newest block.
BlockByNumber(n) == chain[IF n < 0 THEN head ELSE n]

\* The block to process is the one fetched at the tick, or fetched now.
FetchBlock ==
  /\ pc = "loop"
  /\ blockNum <= target
  /\ \/ /\ blockNum = latest.num
        /\ current' = latest
     \/ /\ blockNum # latest.num
        /\ blockNum <= head
        /\ current' = BlockByNumber(blockNum)
  /\ pc' = "send"
  /\ UNCHANGED <<chainVars, crashes, latest, target, blockNum,
                 lastProcessedBlock, job, currentEpoch, alerts, history>>

IgnoreNil ==                                                       \* mutation
  /\ pc = "loop"
  /\ blockNum <= target
  /\ blockNum # latest.num
  /\ \/ /\ "block" \in Faults \/ blockNum > head
        /\ SendFailureNotification("MonitorEvents")
        /\ blockNum' = blockNum + 1
        /\ skipped' = skipped \union {blockNum}
        /\ UNCHANGED <<pc, current>>
     \/ /\ "nil" \in Faults
        /\ current' = NoBlock
        /\ pc' = "send"
        /\ UNCHANGED <<alerts, blockNum, skipped>>
  /\ UNCHANGED <<chainVars, crashes, latest, target, lastProcessedBlock, job,
                 currentEpoch, first, dispatched, settled>>

\* fetchBlock fails, or answers nil: the loop goes on to the next block.
FetchBlockFails ==
  /\ pc = "loop"
  /\ blockNum <= target
  /\ blockNum # latest.num
  /\ \/ /\ "block" \in Faults \/ blockNum > head
        /\ SendFailureNotification("MonitorEvents")
     \/ "nil" \in Faults /\ UNCHANGED alerts
  /\ blockNum' = blockNum + 1
  /\ skipped' = skipped \union {blockNum}
  /\ UNCHANGED <<chainVars, crashes, pc, latest, target, current,
                 lastProcessedBlock, job, currentEpoch, first, dispatched, settled>>

DispatchUnrecorded(w) ==                                           \* mutation
  /\ pc = "send"
  /\ job[w] = Idle
  /\ job' = [job EXCEPT ![w] = [st |-> "filter", block |-> current, pos |-> 1]]
  /\ blockNum' = blockNum + 1
  /\ current' = NoBlock
  /\ pc' = "loop"
  /\ dispatched' = dispatched \union {current}
  /\ UNCHANGED <<chainVars, crashes, latest, target, lastProcessedBlock,
                 currentEpoch, alerts, first, skipped, settled>>

\* Take a place in workerLimit, waiting for one, and start the goroutine.
Dispatch(w) ==
  /\ pc = "send"
  /\ job[w] = Idle
  /\ job' = [job EXCEPT ![w] = [st |-> "filter", block |-> current, pos |-> 1]]
  /\ lastProcessedBlock' = blockNum
  /\ blockNum' = blockNum + 1
  /\ current' = NoBlock
  /\ pc' = "loop"
  /\ dispatched' = dispatched \union {current}
  /\ UNCHANGED <<chainVars, crashes, latest, target, currentEpoch, alerts,
                 first, skipped, settled>>
-----------------------------------------------------------------------------
(***************************************************************************)
(* ProcessProtocolStateEvents, in the goroutine at place w.                *)
(***************************************************************************)
FilterLogs(w) ==
  /\ job[w].st = "filter"
  /\ job' = [job EXCEPT ![w].st = "logs"]
  /\ UNCHANGED <<chainVars, crashes, monitorVars, lastProcessedBlock,
                 currentEpoch, alerts, history>>

\* FilterLogs fails after its retries: the block's events are given up.
FilterLogsFails(w) ==
  /\ job[w].st = "filter"
  /\ "logs" \in Faults
  /\ SendFailureNotification("ProcessProtocolStateEvents")
  /\ job' = [job EXCEPT ![w] = Idle]
  /\ settled' = settled \union LogsOf(job[w].block)
  /\ UNCHANGED <<chainVars, crashes, monitorVars, lastProcessedBlock,
                 currentEpoch, first, skipped, dispatched>>

BlockNumberAsEpoch(block, log) ==                                  \* mutation
  PersistState(currentEpoch, log.market, block.num)

PersistEpoch(block, log) == PersistState(currentEpoch, log.market, log.epoch)

\* One round of the loop over the logs: the event at pos.
HandleLog(w) ==
  /\ job[w].st = "logs"
  /\ job[w].pos \in DOMAIN job[w].block.logs
  /\ LET log  == job[w].block.logs[job[w].pos]
         this == {<<job[w].block, job[w].pos>>}
     IN \/ /\ "parse" \in Faults
           /\ SendFailureNotification("ProcessProtocolStateEvents")
           /\ settled' = settled \union this
           /\ UNCHANGED currentEpoch
        \/ /\ isValidDataMarketAddress(Hex(log.market))
           /\ PersistEpoch(job[w].block, log)
           /\ settled' = settled \union this
        \/ /\ ~isValidDataMarketAddress(Hex(log.market))
           /\ UNCHANGED <<currentEpoch, alerts, settled>>
  /\ job' = [job EXCEPT ![w].pos = @ + 1]
  /\ UNCHANGED <<chainVars, crashes, monitorVars, lastProcessedBlock,
                 first, skipped, dispatched>>

ReturnEarly(w) ==                                                  \* mutation
  /\ job[w].st = "logs"
  /\ job' = [job EXCEPT ![w] = Idle]
  /\ UNCHANGED <<chainVars, crashes, monitorVars, lastProcessedBlock,
                 currentEpoch, alerts, history>>

\* The goroutine returns and frees its place.
Finish(w) ==
  /\ job[w].st = "logs"
  /\ job[w].pos \notin DOMAIN job[w].block.logs
  /\ job' = [job EXCEPT ![w] = Idle]
  /\ UNCHANGED <<chainVars, crashes, monitorVars, lastProcessedBlock,
                 currentEpoch, alerts, history>>
-----------------------------------------------------------------------------
\* The process dies and is started again: only Redis keeps its contents.
Crash ==
  /\ crashes < MaxCrashes
  /\ crashes' = crashes + 1
  /\ pc' = "tick"
  /\ latest' = NoBlock
  /\ target' = -1
  /\ blockNum' = 0
  /\ current' = NoBlock
  /\ lastProcessedBlock' = 0
  /\ job' = [w \in Workers |-> Idle]
  /\ alerts' = <<>>
  /\ first' = -1
  /\ skipped' = {}
  /\ dispatched' = {}
  /\ settled' = {}
  /\ UNCHANGED <<chainVars, currentEpoch>>

Worker(w) == FilterLogs(w) \/ FilterLogsFails(w) \/ HandleLog(w) \/ Finish(w)

Next ==
  \/ Mine \/ Reorg \/ Crash
  \/ FetchLatest \/ FetchLatestFails \/ LoopEnds
  \/ FetchBlock \/ FetchBlockFails
  \/ \E w \in Workers : Dispatch(w) \/ Worker(w)

Spec == Init /\ [][Next]_vars

(***************************************************************************)
(* Ticks keep coming and goroutines are scheduled, so a step of the loop   *)
(* or of a goroutine that stays possible is taken.  The RPC nodes fail now *)
(* and then but not for ever: a call made again and again succeeds, and    *)
(* sometimes on a node that has caught up.  Nothing is assumed of the      *)
(* chain or of crashes.                                                    *)
(***************************************************************************)
FetchHead == FetchLatest /\ target' = TargetBlockNumber(head)

FairSpec ==
  /\ Spec
  /\ SF_vars(FetchHead) /\ SF_vars(FetchBlock)
  /\ WF_vars(LoopEnds) /\ WF_vars(FetchBlock \/ FetchBlockFails)
  /\ WF_vars(\E w \in Workers : Dispatch(w))
  /\ \A w \in Workers : WF_vars(Worker(w))
-----------------------------------------------------------------------------
\* Types, the numbering of the chain, and that a goroutine is only ever started
\* on the block of the loop's number: never on nil, never on a tag's block.
TypeOK ==
  /\ head \in Nat
  /\ highest \in Nat
  /\ fork \in Nat
  /\ crashes \in Nat
  /\ chain \in [0..head -> Block]
  /\ \A n \in 0..head : chain[n].num = n
  /\ pc \in {"tick", "loop", "send"}
  /\ latest \in Block
  /\ target \in Int
  /\ blockNum \in Nat
  /\ current \in Block
  /\ pc = "send" => current.num = blockNum
  /\ lastProcessedBlock \in Nat \union {-1}
  /\ job \in [Workers -> [st : {"idle", "filter", "logs"}, block : Block, pos : Nat]]
  /\ currentEpoch \in [Markets -> Nat \union {Absent}]
  /\ AlertsTypeOK
  /\ first \in Int
  /\ skipped \subseteq Int
  /\ dispatched \subseteq Block
  /\ settled \subseteq Block \X Nat

\* Blocks at this number and below are never abandoned.
FinalHead == highest - MaxReorg

(***************************************************************************)
(* Every block handed to a goroutine is, and stays, on the canonical chain *)
(* when BLOCK_OFFSET is at least the depth of reorganisations: the offset  *)
(* subtracted in MonitorEvents is what makes processed events final.       *)
(***************************************************************************)
DispatchedIsCanonical ==
  MaxReorg <= BlockOffset =>
    \A b \in dispatched : b.num \in DOMAIN chain /\ chain[b.num] = b

(***************************************************************************)
(* The epoch in Redis was released by a final block for that very market,  *)
(* and only markets of the configuration have one, across crashes, failed  *)
(* calls, lagging nodes and reorganisations no deeper than BLOCK_OFFSET.   *)
(***************************************************************************)
CachedEpochIsFinal ==
  MaxReorg <= BlockOffset =>
    \A m \in Markets : currentEpoch[m] # Absent =>
      /\ m \in DataMarketContractAddresses
      /\ \E n \in 0..FinalHead : currentEpoch[m] \in EpochsIn(chain[n], m)

\* Each block from the first one aimed at to lastProcessedBlock was handed to a
\* goroutine or logged as not fetched.
AllConsidered ==
  \A n \in first..lastProcessedBlock :
    n \in skipped \/ \E b \in dispatched : b.num = n

(***************************************************************************)
(* No block is passed over without the process noticing, across failed     *)
(* calls, lagging nodes and restarts, when the process starts above block  *)
(* 1: below that lastProcessedBlock can be zero, which MonitorEvents takes *)
(* for "not started".                                                      *)
(***************************************************************************)
NoSilentSkip == first > 1 => AllConsidered

(***************************************************************************)
(* "MonitorEvents continuously monitors blockchain events for updates"     *)
(* (processor.go:38): from its first target on, wherever that is, no block *)
(* is passed over without the process noticing.                            *)
(***************************************************************************)
MonitorsContinuously == first # -1 => AllConsidered

\* How far a process may start again below the epochs in Redis; the one that
\* wrote them never does.
Rewind == IF crashes = 0 THEN -1 ELSE MaxReorg + MaxLag

(***************************************************************************)
(* When a goroutine is about to be started on a block, Redis holds no      *)
(* epoch of that block or of a later one, although lagging nodes take the  *)
(* target back and zero means "not started": epochs go back only among     *)
(* goroutines that overlap.  A process that was restarted, and knows only  *)
(* the head that some node answers with, may begin below the epochs in     *)
(* Redis, but by no more than MaxReorg + MaxLag blocks.                    *)
(***************************************************************************)
StartsOnFresh ==
  MaxReorg <= BlockOffset /\ pc = "send" =>
    \A m \in Markets : \A n \in DOMAIN chain :
      currentEpoch[m] \in EpochsIn(chain[n], m) => n <= current.num + Rewind

(***************************************************************************)
(* When no goroutine is working on a dispatched block, every event of a    *)
(* configured market in it has been persisted or reported as lost.         *)
(***************************************************************************)
EventsAccounted ==
  \A b \in dispatched :
    (\A w \in Workers : job[w].block # b) =>
      \A i \in DOMAIN b.logs :
        b.logs[i].market \in DataMarketContractAddresses => <<b, i>> \in settled

(***************************************************************************)
(* "Persist the current epoch" (processor.go:175): once every block of the *)
(* chain down to the offset has been processed and no goroutine is left,   *)
(* the epoch in Redis is the last one that those blocks released.          *)
(***************************************************************************)
Quiescent ==
  /\ pc = "tick"
  /\ lastProcessedBlock = head - BlockOffset
  /\ \A w \in Workers : job[w] = Idle

SettledEpochIsCurrent ==
  Quiescent =>
    \A b \in dispatched : \A m \in DataMarketContractAddresses :
      \A e \in EpochsIn(b, m) : currentEpoch[m] >= e
(***************************************************************************)
(* The loop never stalls: a block that is BlockOffset below the head is    *)
(* processed, or passed over, unless a reorganisation takes it back.  The  *)
(* loop waits for a place in workerLimit, so this needs every goroutine to *)
(* return, and calls that fail to be made again at a later tick.           *)
(***************************************************************************)
Progress ==
  \A n \in 0..MaxBlock :
    n <= head - BlockOffset ~> (lastProcessedBlock >= n \/ n > head - BlockOffset)
-----------------------------------------------------------------------------
Mirror == INSTANCE ContractMirror
            WITH Keys <- Markets, cache <- currentEpoch,
                 published <- [m \in Markets |-> ReleasedUpTo(FinalHead, m)]

(***************************************************************************)
(* The pipeline implements a cache of contract state whose values are all  *)
(* real, as ContractMirror states it.                                      *)
(***************************************************************************)
MirrorsContract == Mirror!Spec
=============================================================================
