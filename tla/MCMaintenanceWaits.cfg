SPECIFICATION MSpec
CONSTANTS
  vacuumNow = vacuumNow
  cleanNow = cleanNow
  autoTick = autoTick
  cleanNow = cleanNow
  task = task
  row = row
  sigterm = sigterm
  Item <- MCItem
  Kind <- MCKind
  Cost <- MCCost
  Poison = {}
  MaxDepth = 2
  MaxBytes = 3
  MaxBatch = 2
  FlushBytes = 2
  MaxPending = 1
  MaxPendingBytes = 3
  Pause <- MCPause
  Stop <- MCStop
  Request <- MCRequest
  Vacuum <- MCVacuum
  Cleanup <- MCCleanup
  AutoVacuum <- MCAuto
  CleanTick = {}
  Job <- MCJob
  MaxJobs = 2
  QueueDepth = 2
INVARIANT
  NeverWaitsForItsWaiters
CHECK_DEADLOCK FALSE
