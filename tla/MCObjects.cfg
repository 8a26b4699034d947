CONSTANTS
  Objs = {a, b}
  None = None
  MaxChildren = 3
  MaxWrites = 2
SPECIFICATION FairSpec
INVARIANTS TypeOK ChildrenAsWanted
PROPERTY WritesExecuted
CHECK_DEADLOCK FALSE
