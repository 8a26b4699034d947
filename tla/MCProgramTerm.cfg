CONSTANTS
  main = main
  arbiter = arbiter
  worker = worker
  SIGINT = SIGINT
  SIGTERM = SIGTERM
  None = None
  MaxSignals = 2
SPECIFICATION Spec
INVARIANT SignalsAreGraceful
CHECK_DEADLOCK FALSE
