CONSTANTS
  main = main
  arbiter = arbiter
  worker = worker
  SIGINT = SIGINT
  SIGTERM = SIGTERM
  None = None
  MaxSignals = 2
SPECIFICATION FairSpec
INVARIANTS TypeOK
PROPERTIES  FilterEnds
CHECK_DEADLOCK FALSE
