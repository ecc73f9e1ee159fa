CONSTANTS
  MaxThreads = 3
  NumActions = 2
  Sense = 1
  Values = {0, 1}
  MaxDispatches = 2
  None = None
  Pending = Pending
  Threw = Threw
SPECIFICATION Spec
CHECK_DEADLOCK FALSE
INVARIANTS
  AggregateExact
  BestActionVisited
  CaptureAlive
  TreesQuiet
PROPERTIES
  DispatchReturns
