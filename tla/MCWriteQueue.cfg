SPECIFICATION Spec
CONSTANTS
  rowA = rowA
  rowB = rowB
  inbound = inbound
  outbound = outbound
  vacuum = vacuum
  shutdown = shutdown
  Item <- MCItem
  Kind <- MCKind
  Cost <- MCCost
  Poison <- MCPoison
  MaxDepth = 2
  MaxBytes = 3
  MaxBatch = 2
  FlushBytes = 2
  MaxPending = 2
  MaxPendingBytes = 3
  Pause <- MCPause
  Stop <- MCStop
INVARIANTS
  BacklogBounded
  TasksInOrder
  DrainedMeansEmpty
PROPERTIES
  AcceptedIsSettled
  ImplementsDeferredWrites
CHECK_DEADLOCK FALSE
