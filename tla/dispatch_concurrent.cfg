\* Two handlers may be anywhere in any two operations on the same task.
SPECIFICATION Spec
CONSTANTS
  Task = {t1}
  NAccounts = 1
  Thread = {h1, h2}
  None = none
  MaxTasks = 1
  Ops <- EveryOp
  Overlap = TRUE
SYMMETRY Symmetric
VIEW Essence
INVARIANTS TypeOK OneDispatch AgentHasRecords
PROPERTY OnlyControlRevives
