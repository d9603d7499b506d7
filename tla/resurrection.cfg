\* A session report arrives after the timeout has cancelled the task.
SPECIFICATION Spec
CONSTANTS
  Task = {t1}
  NAccounts = 1
  Thread = {h1}
  None = none
  MaxTasks = 1
  Ops <- SessionOps
  Overlap = FALSE
CHECK_DEADLOCK FALSE
PROPERTY NoResurrection
