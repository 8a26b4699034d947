CONSTANTS
  Workers = {w0}
  Jobs = {j1, j2}
  NoJob = NoJob
  QueueBound = 2
SPECIFICATION FairSpec
INVARIANTS TypeOK NoLostNotification WorkerBarrier PendingWork
PROPERTIES ImplementsMonitor WaitReturns StopReturns
CHECK_DEADLOCK FALSE
