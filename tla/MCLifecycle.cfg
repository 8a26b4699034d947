CONSTANTS
  owner = owner
  other = other
  arbiter = arbiter
  second = second
  None = None
  Owner = owner
  Other = other
  Arbiters = {arbiter, second}
  Callers = {owner, other, arbiter, second}
  Cores = {0, 1}
  Objects = {0, 1}
  IdSpace = 8
  Batch = 2
  Starts <- SomeStarts
  MaxCalls = 3
SPECIFICATION FairSpec
INVARIANTS TypeOK PoolNumbered SteadyPool DestroyedAtRest
PROPERTIES StopFinishesJobs StopReturns
CHECK_DEADLOCK FALSE
