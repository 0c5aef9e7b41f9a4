CONSTANTS
  Environment <- AnyEnvironment
  Failing = {"SnapshotterStateAddress"}
SPECIFICATION Spec
CHECK_DEADLOCK FALSE
INVARIANT SlotsAreReadable
