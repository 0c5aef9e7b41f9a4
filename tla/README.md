# Protocol state cacher: a TLA+ model

The protocol state cacher copies state of the PowerLoom protocol contract into
Redis. It follows the chain for `EpochReleased` events, polls state variables,
and reads every snapshotter slot. This directory holds a model of the program,
the instances that TLC checks, and proofs that TLAPS checks. `PROJECT.json` lists
every run, every mapped definition with its source lines, the hazards and the
disagreements between code and documentation.

    tlc -workers 2 -config EventMonitor_recovery.cfg MCEventMonitor
    tlapm EventMonitorProofs.tla

## 1. Inventory

The hand-written code is about 1000 lines of Go; the bindings of the two contracts
are 12000 generated ones. There are no tests. Paths are relative to `src/`.

| Component | Code | State | Operations |
|---|---|---|---|
| Event monitor | `pkgs/prost/processor.go` 25-182 | `lastProcessedBlock`, the loop's locals, `workerLimit` and its goroutines | `MonitorEvents`, `fetchBlock`, `ProcessProtocolStateEvents` |
| Slot synchronisation | `pkgs/prost/contract.go` 167-206, `pkgs/prost/processor.go` 184-291 | `slotManager`, the map of every `SlotManager`, the pass and its goroutines | `SyncAllSlots`, `FetchAllSlots`, `addSlotInfo`, `AddSlot`, `flushSlots` (`ForceFlush` and `Cleanup` have no caller) |
| State polling | `pkgs/prost/contract.go` 208-308 | the position in a round | `StaticStateVariables`, `DynamicStateVariables`, `StaticStateSync`, `DynamicStateSync` |
| Retried calls | `pkgs/prost/processor.go` 102-146, `pkgs/prost/contract.go` 139-165 | attempts, delay, context, the captured answer | `fetchBlock`, `ProcessProtocolStateEvents`, `MustQuery` (no caller) |
| Contract bindings | `pkgs/contract`, `pkgs/snapshotterStateContract` | an iterator or a subscription of each of 47 events | `FilterX`, `Next`, `Close`, `WatchX`, `ParseX`; call and transact wrappers |
| Redis | `pkgs/redis/`, `PersistState` | keys and values on the server | `Set`, `HSet`, `SAdd` (the rest has no caller) |
| Failure alerts | `pkgs/reporting/alerts.go` | a buffered channel of 10000 | `SendFailureNotification` |
| Configuration | `config/settings.go` | settings, fixed after the start | `LoadConfig` |
| Startup | `cmd/main.go`, `pkgs/prost/contract.go` 40-137 | package variables set once | `main`, `Initialize` |
| Logger | `pkgs/utils/logger.go` | none | `InitLogger` |

`main` reads the environment, sets the package variables one after the other and the
static state variables once, then starts three or four goroutines that never
return: `MonitorEvents`, `DynamicStateSync`, `SyncAllSlots` and, if configured,
`StaticStateSync`. They share the RPC client, the Redis client and the alerts
channel; their Redis keys are disjoint, except that `StaticStateSync` repeats the
writes of `main`. Only the event monitor and the slot synchronisation start
goroutines of their own.

What is hard, and what correctness means in each:

- *Event monitor.* Blocks are processed concurrently; calls fail after retries;
  the chain is reorganised and RPC nodes lag; `lastProcessedBlock` does not survive
  a restart. Correct: only epochs of blocks that stay canonical reach Redis, no
  block is passed over without a log, every event of a processed block is persisted
  or its loss reported, epochs go back only among goroutines that overlap, and the
  loop never stalls.
- *Slot synchronisation.* The goroutines of a batch race for `slotManager`; any of
  them may be the one that flushes, while the others wait or add; a flush can fail
  half-way, or be cut by a restart. Correct: a pass visits every slot, an answer
  given to `AddSlot` is forgotten in no way but the race, the index names stored slots
  only, and every minted slot gets to Redis and into the index.
- *State polling.* Calls fail silently, Redis calls time out, and a round goes on at
  the next variable. Correct: each key holds a value of its own variable, never
  an older one after a newer, and the current one in the end, whatever becomes of
  the other variables.
- *Retried calls.* The answer is left in a variable that outlives the attempts; the end
  of a delay races the end of a context; the context is not given to the call.
  Correct: all attempts together are one read of the node, or an error.
- *Bindings.* The end of a subscription races its last logs; one log that cannot be
  decoded ends the delivery; `Unsubscribe` waits for a goroutine that may wait for
  a receiver. Correct: what was asked for by name, in order, to the last log.
- *Startup.* Package variables in four files are set by the order of calls alone; some
  errors end the process, others are logged. Correct: nothing is used before it is
  set, and the process runs what is configured or ends.
- *Alerts.* Nothing in this program receives from the channel, so it fills up;
  sending must not block.

## 2. Modules

| Module | What it models |
|---|---|
| `Reporting` | the alerts channel: `alerts`, `SendFailureNotification`, which drops when full |
| `Redis` | `PersistState`: a SET succeeds, or fails and may have been executed anyway |
| `DataMarkets` | configured addresses and their spellings, `isValidDataMarketAddress` |
| `ContractMirror` | abstract: a cached value is one the contract published (`Spec`), never older than the one it replaces (`OrderedSpec`) |
| `EventMonitor` | chain, `MonitorEvents`, the goroutines, crash and restart |
| `SlotSync` | contract slots, `FetchAllSlots`, `addSlotInfo`, every `SlotManager`, crash and restart |
| `StateVariables` | the variables, their keys, and the rounds as sequences |
| `StatePolling` | contract variables, the pollers as `main` starts them, crash and restart |
| `OneCall` | abstract: a call is one read at a moment between its begin and its end, or an error |
| `Retry` | `backoff.Retry` with the policy of each of its three callers |
| `ContractEvents`, `SnapshotterStateEvents` | the events of the two contracts: names, indexed parameters in order, the others, and the parameters whose rules `FilterX` and `WatchX` pass on, in their order |
| `EventBindings` | what the bindings do with an event: rules, selection by a node, unpacking |
| `EventCalls` | what `FilterX` and `WatchX` share: emissions, queries, the logs a node selects, and what the caller asked for; the assumption `RulesFollowTopics` |
| `LogDelivery` | abstract: wanted events arrive in order and without gaps until the delivery ends |
| `EventIterator` | `FilterX`, `Next`, `Close` and go-ethereum's producer goroutine |
| `EventWatch` | `WatchX`: a node that pushes, the goroutine, the sink, `Unsubscribe` |
| `Startup` | `LoadConfig`, `main`, `Initialize`, the tickers |
| `MCEventMonitor`, `MCStatePolling`, `MCBindings`, `MCNodeCalls`, `MCStartup` | instances for TLC |
| `EventMonitorProofs`, `SlotSyncProofs`, `StatePollingProofs`, `EventCallsProofs`, `EventWatchProofs`, `RetryProofs`, `NodeCallsProofs`, `StartupProofs` | theorems, section 4 |

`EventMonitor`, `SlotSync` and `StatePolling` extend `Redis`, which extends
`Reporting`; each instantiates `ContractMirror` through a refinement mapping.
`EventIterator` and `EventWatch` extend `EventCalls` and instantiate `LogDelivery`,
`Retry` instantiates `OneCall`. `MCNodeCalls` puts these three, which share no state, into
one instance: a behaviour iterates, watches or retries. A definition marked *mutation* is a mistake
the code could contain; replacing the definition it follows by it makes the property
named in `PROJECT.json` fail.

### State and actions against the code

*EventMonitor.* `pc` is where the loop of `MonitorEvents` is: `tick` at the ticker,
`loop` at the head of the inner loop, `send` at the send to `workerLimit`. `latest`,
`target`, `blockNum` and `current` are its locals. `job[w]` is the goroutine holding
place `w` of `workerLimit`, with its block and its place in the logs. `FetchLatest`
is lines 45-65, `FetchBlock` and `FetchBlockFails` 65-86, `Dispatch` 88-98,
`LoopEnds` the return to the ticker; `FilterLogs`, `HandleLog`, `Finish` and
`FilterLogsFails` are `ProcessProtocolStateEvents` and the deferred receive. `Mine`
and `Reorg` are the chain; `highest` is the greatest height so far and a
reorganisation never goes below `highest - MaxReorg`. `first`, `skipped`,
`dispatched` and `settled` are history variables: they guard nothing. Blocks are
compared as records of number, fork and events, which is what their hash does.

*SlotSync.* `gor[s]` is the goroutine of slot `s`: `check` and `create` are the two
halves of lines 188-190, `query` the call of `NodeInfo`, `manager` the second read
of `slotManager`, `add` the call of `AddSlot`, `flush` the loop of `flushSlots`, with
`todo` the slots still to be written. A SlotManager is named after the goroutine
that made it, since several can exist. Its lock is held exactly while a goroutine
is in `flush`; the rest of `AddSlot` is one step. Contents of a slot are
numbered by version and version 0 is the all-zero answer for a slot that was never
minted, which the comparison at line 201 lets pass because the binding's `*big.Int`
fields are never nil. `handed` and `via` are history variables: the answer given to
`AddSlot` last for a slot, and the SlotManager it was given to.

*StatePolling.* `poller[p]` is the position of a caller in its round and the answer
it is about to store. `Call` and `Store` are separate steps, since the contract can
change between them. An epoch size of zero is passed over, as in line 239. The lag of
the nodes is chosen once per behaviour, so that one run covers nodes that are up to
date and nodes that are not.

*Retry.* `reply` is an answer on its way, `captured` the variable `block`, `logs` or
`val` that the operation closes over. `Ask` is an attempt, `Answered` the return of the
operation and what `Retry` makes of it, `Again` and `GiveUp` the two cases of its
`select`. `Stop` is the policy: three retries, or the minute and the context. Backoff/v4
gives up when the next delay would end after the minute, so `expired` means that the minute
leaves no room for another delay, which happens before the minute is over.

*EventIterator, EventWatch.* The channel is the logs between `taken` and `sent` (or
pushed). `NextLog` and `NextErr` are the two cases of the `select` in `Next`, `Drain` the
`select` with a default after the subscription has ended, `NextFailed` and `NextDone` the
calls after an end. In `EventWatch`, `TakeLog` is the outer `select`, `Forward` the
inner one, and `SubErr` and `Quit` are cases of both. One module stands for the code of
every event, which the generator repeats; `ContractEvents` and
`SnapshotterStateEvents` say what differs from event to event. A row has the parameters as
the ABI and the struct order them, and, read apart from that, the parameters in the order
in which the rules are passed to `FilterLogs` by `FilterX` and to `WatchLogs` by `WatchX`. A
node compares rules with topics by position, so a function whose rules were in another
order would select other logs than the caller asked for. The map gives for a row the lines
from the struct of X to its `ParseX`; the loop of `WatchX` among them is the same text for
every event, and the row has no more of it than the event whose logs it delivers.

*Startup.* `settings` is what `LoadConfig` has read so far, in its order; `pc` is the
place of `main` in `Steps`; `Needs` says which package variables a step or a pipeline
dereferences, and `Sets` which one a step assigns. `NewTicker` is the first thing that
each goroutine does, and panics for an interval that is not positive.

### Abstractions

- In the three pipelines the retries of one call are one step with one outcome. `Retry`
  shows that this is sound: all attempts implement `OneCall`, one read of the node.
- In `EventIterator` a node answers with the logs there are at the time of `FilterX`. The
  channel may hold one log or more; its size in go-ethereum is 128.
- A node that lags is behind on the head only; a block it has is the canonical one.
- A SET that times out is executed at the time of the call or not at all. A server
  that executes it after a later SET of the same key is not modelled.
- The goroutines of a batch are interleaved step by step. A goroutine that sees the
  pointer of a SlotManager before its fields, which Go's memory model allows in
  a racy program, is not modelled.
- Block timestamps, prices, formats of keys and JSON are left out. Two spellings of
  an address are kept, because the code compares strings.
- `Startup` keeps of a setting what decides about the start: whether it can be parsed,
  a number's sign, whether a list is empty.
- The three pipelines are checked one by one, and not composed: they share no variable
  but `alerts`, which none of them receives from and whose being full each run has
  (a capacity of 0 or 1), and no Redis key. A composition would multiply their
  states and relate nothing.

## 3. Runs

| Run | Checks | Bounds |
|---|---|---|
| `EventMonitor_recovery` | `TypeOK`, `DispatchedIsCanonical`, `CachedEpochIsFinal`, `StartsOnFresh`, `EventsAccounted`, `MirrorsContract` | 2 workers, 2 markets of which 1 is configured, heights 0 to 3, up to 2 events in a block, offset 1, lag 1, 1 reorganisation, 1 crash, every call may fail |
| `EventMonitor_live` | `NoSilentSkip`, `Progress` under `FairSpec` | 1 worker, offset 0, heights 3 to 6, lag 1, all calls but `ParseEpochReleased` may fail |
| `SlotSync_safety` | `TypeOK`, `PassIsComplete`, `OnlyTheRaceForgets`, `BufferBound`, `IndexedSlotsAreStored`, `MirrorsContract` | slots 0 to 2, one of them minted during the run, batches of 2, flush at 2, lag 1, 1 crash, Redis may fail |
| `SlotSync_live` | `MirrorsInOrder`, `EverySlotIsCached` under `FairSpec` | the same slots and batches, 2 versions, no lag, 1 crash, `NodeInfo` may fail |
| `StatePolling_all` | `TypeOK`, `MirrorsContract`, `MirrorsInOrder`, `Converges` under `FairSpec` | 1 market, both tickers, 1 change, lag 0 or 1, 1 crash, calls and Redis may fail |
| `NodeCalls_all` | of the iterator: `CleanEndIsComplete`, `DeliversInOrder`, `IterationEnds`; of the watch: `NothingLost`, `WatchDeliversInOrder`, `EventsArrive`, `UnsubscribeReturns`; of the retries: `NoEarlyFailure`, `CancelStops`, `CallReturns`, `IsOneCall`; the types of all | all 47 events, asked for with none, one or all of their indexed parameters, up to 2 emissions that match, differ in one parameter, cannot be decoded or are another event's; a channel of 1; 2 answers of a node |
| `Startup_any` | `TypeOK`, `NothingUsedBeforeSet`, `RunsAllOrEnds` under `FairSpec` | every kind of value of each list, flag, interval and `REDIS_DB`; the rest set, unset or not parseable; every fallible step may fail |

Why the bounds are enough for the cases of interest:

- Two workers give every order of two blocks' steps, and a third goroutine only repeats
  them; with an offset of 1 two new blocks make a pass of two blocks, the second of
  which can be dispatched while the first is in hand; a reorganisation can then
  replace each block that is not final, before, during and after the pass that
  reads it. The program has ten. `EventMonitor_live` has one place, so that the pool is
  full as soon as one goroutine runs; none of its properties is about order. Symmetry is used between the workers, in this safety run only.
- Three slots with batches of two make a pass of two batches, of which the second is
  incomplete; a flush at two slots leaves one slot pending across passes, so that
  flushes happen in the middle of a batch.
- With one market a round has three variables. What a second market adds is more
  keys of the same kind; the theorems of `StatePollingProofs` hold for any list of
  markets.
- Two emissions are the fewest with an order; with a channel of one, the producer waits
  for room and the last log is in the channel when the subscription ends.
- A channel of one alert, or none, is full at once.
- With lagging nodes `MirrorsInOrder` fails, as it should: a node that is behind answers
  an older value after a newer one. So it is checked where nodes are up to date;
  `StatePolling` says so in the mapping. The event monitor does not promise it at all,
  see `EventMonitor_overtake`: what it does promise is `StartsOnFresh`.
- A negative number is not a block: `BlockByNumber` takes it for a tag of the node,
  so a pass that began below block 0 would fetch blocks whose numbers are not the
  loop's, which `TypeOK` of `EventMonitor` excludes; `InitialHead` below
  `BlockOffset` has the target there.

`MaxVersion`, `MaxChanges`, `MaxBlock`, `MaxForks`, `MaxCrashes` and `MaxEmitted` bound
the environment only: the program has no bound of its own in any guard. `Retry`
counts attempts only as far as its policy looks. `EventMonitor_live` has no
reorganisation and offset 0, so that the head itself is processed, and starts above
block 1, which `NoSilentSkip` asks for; below it, see `EventMonitor_genesis`.

### Fairness

`FairSpec` assumes that Go schedules goroutines and that tickers tick: weak fairness
of the loop, of every goroutine and of every poller. Beyond that:

- `EventMonitor` and `SlotSync` assume that a call made again at every tick succeeds again
  and again, now and then on a node that has caught up: strong fairness of
  `FetchHead`, `FetchBlock` and `NodeInfo`. RPC nodes that fail for ever would leave
  nothing to promise. The slots' liveness run lets Redis succeed.
- `StatePolling` assumes weak fairness of its pollers only. What a variable needs is in the
  property: `Converges` promises the current value of each variable whose own call
  and write do not fail for ever, although those of others may.
- `NodeCalls_all`: a connected node pushes, a caller goes on calling `Next` or receiving
  until it unsubscribes, every attempt is answered, if only by a timeout, and time
  passes. `WF(Quit)` stands for Go's random choice among ready cases.
- `Startup`: `main` and the goroutines it starts are scheduled.

Nothing is assumed of contract, chain and crashes.

### Disagreements

Each violation run checks one property, taken from a comment or the README, that the
code breaks:

| Run | Property | What happens |
|---|---|---|
| `EventMonitor_overtake` | `SettledEpochIsCurrent` | two goroutines persist the epochs of two blocks in the wrong order and the older one stays |
| `EventMonitor_genesis` | `MonitorsContinuously` | `lastProcessedBlock = 0` means "not started" and is also the value after block 0: the next tick jumps over blocks without a trace |
| `SlotSync_race` | `OneSlotManager` | two goroutines make a SlotManager each, and a slot is stranded in the one that is overwritten |
| `SlotSync_small` | `EverySlotIsCached` | with fewer slots than `REDIS_FLUSH_BATCH_SIZE` nothing is ever flushed |
| `Startup_zero` | `SlotsAreReadable` | when `SnapshotterState()` fails the process goes on with the zero address and no slot can ever be read |

## 4. Proofs

All theorems hold for every value of the constants that satisfies the named
assumptions of the modules, that is for any number of workers, slots, markets and
crashes, any batch sizes and lags, and whichever calls fail. Conditions beyond that
are in the statements.

*`EventMonitorProofs`.* `TypeCorrect`; `DispatchedStaysCanonical`; `CachedEpochsAreFinal`;
`EpochsMirrorContract`: if `MaxReorg <= BlockOffset` (`SafeOffset`), the pipeline
implements `ContractMirror`. The invariants are not inductive: that a dispatched block is
on the chain says nothing about the next reorganisation. `Inv` strengthens them. A
block is `Final` when its number is at most `highest - MaxReorg` and the chain has it
there. `ChainInv` says that `FinalHead <= head <= highest` and that blocks carry their
numbers, so `ChainStep` shows that final blocks are never replaced, and `FinalStable`
that `Final` is stable. `PassInv` relates the pass under way to it: `latest` is
`BlockOffset` above `target` and no higher than `highest`, hence all blocks up to
`target` are final. `WorkInv` says that the blocks in the hands of goroutines and in
`dispatched` are final; `CacheInv`, that every cached epoch is in a final block. Each
part has a lemma for its preservation, with a step per action that touches it. For the
refinement, what is published only grows (`PublishedGrows`), and a write is of an
event of a final block. `TypeCorrect` needs one fact that is not a matter of types: the
environment numbers an epoch by counting those released so far, which is a number
only because finitely many are (`EpochsInFinite`, `NextEpochType`).

`NothingSkippedSilently`: `Spec => []NoSilentSkip`, for any offset, lag and
reorganisation. `PositionInv` says that a process which started above block 1
is never at `lastProcessedBlock = 0`, so that it never starts over, and that within a
pass everything below `blockNum` has been considered. `EventsAreAccounted`:
`Spec => []EventsAccounted`, if the configured addresses are in the checksummed spelling
(`Checksummed`), without which no event matches. `AccountInv` says that each event of a
dispatched block is settled, or a goroutine holds that block and has not passed it.

`GoroutinesStartOnFresh`: `Spec => []StartsOnFresh`, for any number of goroutines, lags,
failures, reorganisations and restarts; the property itself asks for a `SafeOffset`. Epochs
do go back in Redis (`EventMonitor_overtake`), but only among goroutines that overlap:
when one is about to be started on a block, Redis holds no epoch of that block or of a
later one. A restarted process knows only the head that some node answers with, so it may
begin up to `MaxReorg + MaxLag` blocks below the epochs in Redis. The proof has two
halves. `EpochInv` is about the contract: epochs count what was released, so they ascend
along the chain (`MineEpochs`, by the cardinalities of sets of events, and `NextEpochs`
for a chain that is cut back), and an epoch has one place in it (`OnePlace`). `FreshInv`
is about the process: that place is one the loop is past, or is near (`Held`), and a
goroutine's block is one the loop is past (`JobsArePast`). `PastStep` shows that the loop
never returns to a block once it is past it, except to block 0, where
`lastProcessedBlock` means "not started", and which has no events.

*`SlotSyncProofs`.* `TypeCorrect`, with `AddSlot` never called on a nil SlotManager;
`PassesAreComplete`; `BuffersAreBounded`; `IndexFollowsSlots`; `SlotsMirrorContract`. The
invariant ties goroutines to the current batch (`PassInv`); says that past its test a
goroutine finds a manager, and that the manager one is about to make is nobody's yet
(`ManagerInv`); that one goroutine at a time flushes a manager and what it has been
through is stored or reported (`FlushInv`); and that versions on their way are ones
that the slot has had (`VersionInv`, `MintInv`).

`AnswersAreKept`: `Spec => []OnlyTheRaceForgets`. The hazard is the race on
`slotManager`: a slot can be given to one manager, then a newer answer to another, and the
first be flushed last, or never. An answer that is neither in Redis nor reported waits in
the manager that `slotManager` points to, where the next flush finds it, unless it was
given in the first batch to a manager that has been replaced since; that one is stranded
(`SlotSync_race`), until a later pass gives the slot to `AddSlot` again. `KeptInv` says
which manager keeps an answer. `HandInv` shows why no other is at risk: either one
manager is in use and holds what was given last (`SoleManager`), or several exist, but in
the first batch of the process only, which gives each slot once (`FirstBatch`).
`SlotsMirrorInOrder`: if `MaxLag = 0` no slot in Redis goes back to an
older version; `OrderInv` orders contract, goroutine, `AddSlot` and Redis.

*`StatePollingProofs`.* `TypeCorrect`; `PollersMirrorContract`; `PollersMirrorInOrder`: a
variable never goes back when nodes are up to date, although several pollers write, because two pollers at work are never at the same variable
(`OnePollerPerKey`) and what a poller holds is no older than Redis (`OrderInv`).

*`EventCallsProofs`.* Lemmas that `EventWatchProofs` and `NodeCallsProofs` share, under the
assumption `RulesFollowTopics`: `FilterX` and `WatchX` pass their rules in the order of the
topics. Then a node that matches by position selects a log exactly if the caller asked for
it by the parameters' names (`SelectsByName`). That the 47 generated functions meet the
assumption is not taken on trust: TLC evaluates it for all of them, and
`GeneratedRulesSelectByName` in `NodeCallsProofs` proves it from the two tables
(`RulesOfContract`, `RulesOfSnapshotterState`). The lemmas after it carry this over to
sequences: the k-th log of a node's answer is the k-th event asked for
(`SelectedIsWanted`), and a new emission is appended to what is wanted, or changes nothing
(`WantedAppend`). Both sequences list a set of positions in ascending order; since
induction is out of reach, that is shown through ranks: the k-th element is the one with
k elements up to it (`RankTaken`, `RankDetermines`, `AscendingAppend`).

*`EventWatchProofs`.* `TypeCorrect`; `LosesNothing`: `Spec => []NothingLost`;
`ImplementsLogDelivery`: `Spec => DeliversInOrder`, for any channel size and any order of
pushes, failures and `Unsubscribe`. `QueueInv` says that pushed and unsent logs together are
what was asked for, in order; `SinkInv`, that the sink has every log that was taken but the
one in hand; `ReceivedInv`, that what it has are the first events asked for, field by field,
and `InHand` that the log in hand is the next one. `NothingLost` is about contents and
order, not only about numbers.

*`RetryProofs`.* For each of the three callers: `TypeCorrect`; `FailsLate`:
`Spec => []NoEarlyFailure`; `LetsGo`: `Spec => []CancelStops`; `ImplementsOneCall`:
`Spec => IsOneCall`, if `Nil` is not an answer. `ReplyInv` says that an answer is on its way
only between an attempt and the operation's return, `PolicyInv` how far each policy
counts, and `LateInv` that an attempt which begins too late is the last. The
refinement maps the attempt that succeeds to the read, and every other one to a stutter.

*`NodeCallsProofs`.* `GeneratedRulesSelectByName`, for each event of the tables. Then, of
`EventIterator`: `CleanEnd`: for every event, query, channel size and emissions, an iteration that ends without an error and without a `Close` has
delivered every log of the answer, whichever case `select` takes. `ImplementsLogDelivery`:
`Spec => DeliversInOrder`. `AnswerInv` says that the answer is what was asked for,
`DeliveredInv` that what was delivered is its unpacked beginning, and `EndInv` that `done`
is set only after the producer ended, which it does after its last log unless it was
unsubscribed.

Last, of the composition that the run checks: a behaviour of `MCSpec` is one of each of
the three specifications (`ThreeInOne`), so that what is proved of each holds of it:
`AllTypesCorrect`, `IterationComplete`, `IterationDelivers`, `WatchLosesNothing`,
`WatchImplementsLogDelivery`, `RetryFailsLate`, `RetryLetsGo`, `RetryIsOneCall`. The module
instantiates `EventWatchProofs` and `RetryProofs`; the `Same...` lemmas say that the actions
of these instances are those of the instances in `MCNodeCalls`. The prover takes the two
for different operators, although they are the same text.

*`StartupProofs`.* `TypeCorrect`; `SetBeforeUse`: `Spec => []NothingUsedBeforeSet`, for every
environment and every failure. `DefinedInv`: the steps that `main` has passed have set
their variables; `RoutineInv`: no pipeline is started before the last step.

Only model-checked: liveness (`Progress`, `EverySlotIsCached`, `Converges`, `IterationEnds`,
`EventsArrive`, `UnsubscribeReturns`, `CallReturns`, `RunsAllOrEnds`), which the prover
cannot do. Every invariant and every refinement of a passing run is a theorem.

## 5. Known limits of the code, without a run

- A block whose fetch fails is never processed once a later one of the pass is,
  although the comment at `processor.go:64` speaks of backtracking: the failure is
  logged and reported, and `skipped` records it. `NoSilentSkip` and `Progress` count
  such a block as passed over; neither says that its events reach Redis.
- Slot 0, never minted, is cached at each pass: the test for an empty answer at
  `processor.go:201` holds of none.
- A data market written in lower case in the configuration matches no event, since
  `isValidDataMarketAddress` compares strings with the checksummed spelling.
- A slot whose SET fails in a flush is dropped from the map all the same; it is
  fetched again by the next pass. `lost` records it.
- Nothing calls `Cleanup`: slots pending at the end of the process are dropped.
- Without static polling, a static variable whose call fails in `main` stays unset
  until the next start.
- An interval that is not positive passes `LoadConfig` and panics in a goroutine:
  `RunsAllOrEnds` has the panic among its outcomes.
- Nothing receives alerts: once the channel is full every later one is dropped.
- `.env.example` as it stands is refused: it sets `DATA_MARKET_ADDRESS`, and
  `LoadConfig` reads `DATA_MARKET_ADDRESSES`.

## 6. Not modelled

- The logger: it sets where log lines go, and nothing reads it.
- `ForceFlush`, `Cleanup`, and the functions of `pkgs/redis` without a caller: no
  execution of the program contains them.
- Of the bindings, the call and transact wrappers: each passes one call to go-ethereum
  and keeps no state. A call appears in the model that uses its answer. The program
  itself uses of the events only `ParseEpochReleased`.
- Epochs released while the process is down: no document promises that they are read.
- Block timestamps, formats and wording, as section 2 says.

## 7. Plan

Done, in this order: `Reporting`, `Redis`, `DataMarkets`, `ContractMirror`,
`EventMonitor` and its proofs, `SlotSync`, `StatePolling`; then `Startup`, `Retry`, the
event bindings, the proofs about slots, state variables, coverage and the iterator; then
`EventCalls` and the proofs about what is asked for, the watch, the retries, these and
the iterator together, the start, the order of epochs, and the rules of the generated
functions.

What could follow:

1. `IsOneCall` used in the pipelines: `INSTANCE Retry` for the calls of `fetchBlock` in
   place of its one step.
2. A Redis that executes a timed-out SET late, and which of the properties it breaks.
