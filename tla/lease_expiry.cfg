\* Redis comes and goes, agents die, the row is rewritten from stale reads, calls outlive
\* their tasks, and time runs.
SPECIFICATION FairSpec
CONSTANTS
  Task = {t1, t2}
  Thread = {h1, h2}
  None = none
  TTL = 1
  Faults <- ExpiryFaults
VIEW Essence
PROPERTY LeaseRunsOut
