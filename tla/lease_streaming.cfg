\* Nothing goes wrong; a stream lasts longer than the lease.
SPECIFICATION Spec
CONSTANTS
  Task = {t1, t2}
  Thread = {h1, h2}
  None = none
  TTL = 1
  Faults <- NoFaults
CHECK_DEADLOCK FALSE
INVARIANT OneStreamer
