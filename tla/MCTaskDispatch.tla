--------------------------- MODULE MCTaskDispatch ---------------------------
(* TaskDispatch on small instances: sets of tasks and handlers for the runs. *)
EXTENDS TaskDispatch, TLC

Symmetric == Permutations(Thread) \cup Permutations(Task)

EveryOp == AllOps
CrowdOps == {"start", "requeue", "timeout", "linkDown"}
QueueOps == {"start", "requeue", "timeout", "lose", "session", "linkDown"}
SessionOps == {"start", "timeout", "session"}

\* What the rest of a behaviour depends on.  Of an account's row that is whether it is
\* there, open, in a match or final; a report that waits to be repeated starts from a
\* new entity, handlers that write the task's row no more need no lag, and FAILED does
\* not look at the status it loaded.
RowClass(s) == CASE s \in OpenRec -> "open" [] s \in FinalRec -> "final" [] OTHER -> s

Needed(j) ==
  CASE j.pc = "resend" -> [j EXCEPT !.status = "none", !.lag = 0]
    [] j.pc \in {"termRead", "termRelease", "timeoutRelease"} -> [j EXCEPT !.lag = 0]
    [] j.pc \in {"effect", "decide"} /\ j.kind = "FAILED" -> [j EXCEPT !.status = "none"]
    [] OTHER -> j

Essence ==
  <<row, [t \in Task |-> [a \in Account |-> RowClass(recs[t][a])]], load,
    [h \in Thread |-> Needed(thread[h])], online, agent>>
=============================================================================
