CONSTANTS
  write = write
  pump = pump
  render = render
  child = child
  Jobs = {write, pump, render}
  NoJob = NoJob
  NumWorkers = 2
  Workers = {0, 1}
  IdSpace = 4
  Forest <- ShippedForest
  FirstRoots <- ShippedRoots
  FirstKids <- ShippedKids
  MayExit = {}
SPECIFICATION FairSpec
PROPERTY RenderStaysOnItsThread
CHECK_DEADLOCK FALSE
