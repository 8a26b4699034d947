CONSTANTS
  label = label
  hint = hint
  thread = thread
  second = second
  task = task
  show = show
  Unset = Unset
  None = None
  Keys = 2
  Contexts <- OneToKeys
  Texts <- OneToKeys
  Boxes = {label, hint}
  Label = label
  Callbacks = {show}
  Yielders = {thread}
  JobsThatYield = {}
SPECIFICATION Spec
INVARIANTS TypeOK FreshOrMarked YieldGetsFirst KeysInOrder ShownInTime
CHECK_DEADLOCK FALSE
