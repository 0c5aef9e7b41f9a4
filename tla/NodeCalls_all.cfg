CONSTANTS
  Bindings <- AllBindings
  Capacity = 1
  Emissions <- EmissionsOf
  Queries <- QueriesOf
  MaxEmitted = 2
  Values = {v1, v2}
  Nil = Nil
SPECIFICATION MCSpec
\* An iteration and a watch end.
CHECK_DEADLOCK FALSE
INVARIANTS AllTypesOK CleanEndIsComplete NothingLost NoEarlyFailure CancelStops
PROPERTIES DeliversInOrder IterationEnds WatchDeliversInOrder EventsArrive
  UnsubscribeReturns CallReturns IsOneCall
