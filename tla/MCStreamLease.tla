---------------------------- MODULE MCStreamLease ----------------------------
(* StreamLease on small instances. *)
EXTENDS StreamLease, TLC

Symmetric == Permutations(Thread) \cup Permutations(Task)

NoFaults     == {}
EveryFault   == AllFaults
ExpiryFaults == {"slow", "outage", "crash", "writer"}

\* What the rest of a behaviour depends on: no action asks what is left of a granted lease.
Essence == <<redis, local, db, up, thread, playing, over>>
=============================================================================
