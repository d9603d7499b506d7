---------------------------- MODULE MCTaskHistory ----------------------------
(* TaskHistory on small instances. *)
EXTENDS MCTaskDispatch, TaskHistory

\* The properties say nothing more of a task once two handlers have met at it: the run
\* checks the states where they meet and goes no further.
Apart == \A t \in Task : Orderly(t)

\* What of a task's past the properties still ask for: after a pause, only that there
\* was one.
Kept(p) ==
  CASE {"overlap", "control"} \cap p # {} -> p \cap {"overlap", "control"}
    [] OTHER -> (p \cap {"retry", "cleanup"})
                  \cup (IF p \cap SideEntry # {} THEN {"side"} ELSE {})

Remembered == <<Essence, [t \in Task |-> Kept(past[t])]>>
=============================================================================
