CONSTANTS
  Objs = {a, b, c}
  None = None
  MaxChildren = 3
  MaxWrites = 3
SPECIFICATION Spec
INVARIANT RemovesTheChild
CHECK_DEADLOCK FALSE
