\* Three tasks and the scheduler's second dispatches crowd one slot.  Tasks without
\* accounts are dispatched most freely: no unique key stops a second dispatch.
SPECIFICATION Spec
CONSTANTS
  Task = {t1, t2, t3}
  NAccounts = 0
  Thread = {h1, h2}
  None = none
  MaxTasks = 1
  Ops <- CrowdOps
  Overlap = TRUE
SYMMETRY Symmetric
INVARIANT BoundedOvershoot
