CONSTANTS
  write = write
  pump = pump
  render = render
  child = child
  Jobs = {write, pump, render, child}
  NoJob = NoJob
  NumWorkers = 2
  Workers = {0, 1}
  IdSpace = 4
  Forest <- ShippedForest
  FirstRoots <- WriteFirst
  FirstKids <- ShippedKids
  MayExit = {pump, child}
SPECIFICATION FairSpec
INVARIANTS
  RunnerTypeOK SubCycleBarrier FrameComplete OncePerFrame EvenDistribution
  NeverTerminates
PROPERTIES FramesKeepEnding StopsInTheEnd LeftoversExecuted
CHECK_DEADLOCK FALSE
