\* Everything that may go wrong does; two calls overlap.
SPECIFICATION Spec
CONSTANTS
  Task = {t1, t2}
  Thread = {h1, h2}
  None = none
  TTL = 1
  Faults <- EveryFault
SYMMETRY Symmetric
INVARIANT LeaseExclusive
PROPERTY ImplementsUse
