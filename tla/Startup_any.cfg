CONSTANTS
  Environment <- AnyEnvironment
  Failing = {"RPCHelper", "Client", "SnapshotterStateAddress"}
SPECIFICATION FairSpec
\* The process ends, or its goroutines tick for ever, which is not modelled here.
CHECK_DEADLOCK FALSE
INVARIANTS TypeOK NothingUsedBeforeSet
PROPERTY RunsAllOrEnds
