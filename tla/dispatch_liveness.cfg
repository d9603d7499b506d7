\* Two tasks compete for one slot on two platform threads.
SPECIFICATION FairSpec
CONSTANTS
  Task = {t1, t2}
  NAccounts = 1
  Thread = {h1, h2}
  None = none
  MaxTasks = 1
  Ops <- QueueOps
  Overlap = FALSE
PROPERTY QueuedIsDispatched
