CONSTANTS
  a = a
  b = b
  c = c
  arbiter = arbiter
  other = other
  None = None
  Top = Top
  Jobs = {a, b, c}
  Arbiter = arbiter
  Threads = {arbiter, other}
  FirstLists <- Planted
  Owned = {a, c}
  MaxCalls = 4
  MaxCount = 6
SPECIFICATION FairSpec
INVARIANTS TypeOK ParentsAgree ForestIsSafe CountInBounds
PROPERTY CountEnds
CHECK_DEADLOCK FALSE
