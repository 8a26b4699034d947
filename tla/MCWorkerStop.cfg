CONSTANTS
  Workers = {w0}
  Jobs = {j1}
  NoJob = NoJob
  QueueBound = 1
SPECIFICATION FairSpec
PROPERTY StopNeedsNoLock
CHECK_DEADLOCK FALSE
