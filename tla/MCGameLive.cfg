CONSTANTS
  label = label
  hint = hint
  thread = thread
  second = second
  task = task
  show = show
  Unset = Unset
  None = None
  Keys = 2
  Contexts <- OneToKeys
  Texts <- OneToKeys
  Boxes = {label}
  Label = label
  Callbacks = {show}
  Yielders = {thread, second, task}
  JobsThatYield = {task}
SPECIFICATION FairSpec
PROPERTIES FramesPresented KeyEndsYield
CHECK_DEADLOCK FALSE
