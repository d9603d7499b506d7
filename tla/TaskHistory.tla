----------------------------- MODULE TaskHistory -----------------------------
(***************************************************************************)
(* TaskDispatch with a memory: past[t] collects the handlers that have     *)
(* started on task t, by the place each begins at, and "overlap" once one  *)
(* has started while another was at t.  No action reads it.  The           *)
(* properties below are the promises of the load counter and of the        *)
(* completion that some handlers and some overlaps break: each is stated   *)
(* of the tasks whose past has none of those, whatever happens to the      *)
(* others.                                                                 *)
(***************************************************************************)
EXTENDS TaskDispatch

VARIABLE past

histVars == <<vars, past>>

\* Thread h takes up a task in this step, while another may be at it.
Starts(h)   == thread[h].pc = "idle" /\ thread'[h].pc # "idle"
Started(t)  == {thread'[h].pc : h \in {g \in Thread : Starts(g) /\ thread'[g].task = t}}

Recall ==
  past' = [t \in Task |-> past[t] \cup Started(t)
                            \cup (IF Started(t) # {} /\ ~Quiet(t) THEN {"overlap"} ELSE {})]

HistInit == Init /\ past = [t \in Task |-> {}]
HistNext == Next /\ Recall
HistSpec == HistInit /\ [][HistNext]_histVars

-----------------------------------------------------------------------------
(* Properties. *)

\* No two handlers have met at t.
Orderly(t) == "overlap" \notin past[t]

\* terminate, stop, the cleanup and the reassignment end a task from the side.
SideEntry == {"term", "stop", "cleanup", "reassign"}

\* A running task holds a slot of its agent, whichever handlers have been at it and
\* however it ended before, if no two of them met, nobody paused or resumed it and it
\* was not retried after the offline cleanup (the agent may then still report on it).
RunningIsCounted ==
  \A t \in Task : /\ Quiet(t) /\ row[t] = "running"
                  /\ Orderly(t) /\ "control" \notin past[t]
                  /\ ~({"retry", "cleanup"} \subseteq past[t])
                  => t \in load

\* The load counter is exact for a task that nobody paused or ended from the side and at
\* which no two handlers met: it holds a slot just while it is running.  Reports,
\* timeouts, failed dispatches, retries, lost answers and agent restarts neither leak a
\* slot nor give one back twice.
LoadIsExact ==
  \A t \in Task : Quiet(t) /\ Orderly(t) /\ past[t] \cap ({"control"} \cup SideEntry) = {}
                  => (t \in load <=> row[t] = "running")

\* A task at which no two handlers have met is completed only when it has accounts and
\* none of them is left to play, whatever has written their rows since the report that
\* completed it was decided.
CompletedIsSettled ==
  [][\A t \in Task : row[t] # "completed" /\ row'[t] = "completed" /\ Orderly(t)
       => HasAccounts(t) /\ \A a \in Account : recs[t][a] \in FinalRec]_histVars
=============================================================================
