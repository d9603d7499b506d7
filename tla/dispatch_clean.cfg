\* Every handler on a task with two accounts or none, until two of them meet.
SPECIFICATION HistSpec
CONSTANTS
  Task = {t1}
  NAccounts = 2
  Thread = {h1, h2}
  None = none
  MaxTasks = 1
  Ops <- EveryOp
  Overlap = TRUE
SYMMETRY Symmetric
VIEW Remembered
CONSTRAINT Apart
INVARIANTS RunningIsCounted LoadIsExact
PROPERTY CompletedIsSettled
