---------------------------- MODULE TaskDispatch ----------------------------
(***************************************************************************)
(* The life of automation tasks between the platform's task table, the     *)
(* per-agent load counter and the agent: AutomationServiceImpl creates a   *)
(* task, TaskExecutorServiceImpl dispatches it, PendingTaskRetryScheduler  *)
(* dispatches queued ones again, AgentCallbackServiceImpl takes the        *)
(* agent's reports, and the user, the timeout checker and the offline      *)
(* cleanup pause or end tasks from the side.  Automation tasks have no     *)
(* streaming session of the platform (sessionId is null).                  *)
(*                                                                         *)
(* Every platform handler runs on a thread of its own: it loads the task   *)
(* row into an entity, works, and writes the whole entity back with        *)
(* TaskMapper.updateById.  The row carries an optimistic lock version.     *)
(* MyBatis-Plus adds 1 to the version held in the entity before it sends   *)
(* the UPDATE; an UPDATE whose version does not match changes no row, and  *)
(* no handler looks at the row count.  Only the distance between the two   *)
(* versions matters, so a thread records its "lag": how many committed     *)
(* writes its entity is behind the row.                                    *)
(***************************************************************************)
EXTENDS Integers, FiniteSets

CONSTANTS
  Task,       \* automation tasks, all targeted at one agent
  NAccounts,  \* game accounts of a task that has any, played in the order 1..NAccounts
  Thread,     \* platform threads (request, executor and scheduler threads)
  None,       \* no task, no account
  MaxTasks,   \* agent_instance.max_concurrent_tasks
  Ops,        \* the handlers the environment may start
  Overlap     \* TRUE: two threads may handle the same task at a time

AllOps == {"start", "requeue", "retry", "terminate", "stop", "timeout",
           "cleanup", "reassign", "pause", "report", "session", "skip", "resend",
           "lose", "linkDown", "restart"}

ASSUME MaxTasksAssumption == MaxTasks \in Nat \ {0}
ASSUME FiniteAssumption   == IsFiniteSet(Task) /\ IsFiniteSet(Thread)
ASSUME AccountsAssumption == NAccounts \in Nat
ASSUME NoneAssumption     == None \notin Task
ASSUME OpsAssumption      == Ops \subseteq AllOps /\ Overlap \in BOOLEAN

Account == 1..NAccounts

VARIABLES
  row,      \* row[t]: task.status, "none" before the task is created
  recs,     \* recs[t][a]: task_game_account_status.status, "none" without a row,
            \* "absent" when t was created without game accounts
  load,     \* the task ids in the hash agent:task:count:<agentId>
  thread,   \* thread[h]: what platform thread h is doing
  online,   \* the agent has an open WebSocket session
  agent     \* agent[t]: the account the agent is playing for t, NAccounts + 1
            \* when it has played them all, 0 when it is not at t

vars == <<row, recs, load, thread, online, agent>>

Status     == {"none", "pending", "running", "paused", "completed", "failed",
               "cancelled"}
RecStatus  == {"none", "absent", "pending", "running", "gaming", "completed", "failed",
               "cancelled", "skipped"}
NoRow      == {"none", "absent"}
FinalRec   == {"completed", "failed", "cancelled", "skipped"}
Terminal   == {"completed", "failed", "cancelled"}
Kind       == {"RUNNING", "GAMING", "GIVEN_UP", "COMPLETED", "FAILED", "CANCELLED"}
PC == {"idle", "check", "queue", "mark", "count", "records", "send", "undo",
       "fail", "term", "termRead", "termWrite", "termRelease",
       "stop", "cleanup", "reassign", "timeout", "timeoutRelease", "retry",
       "effect", "decide", "write", "resend", "control"}

\* A thread makes at most two writes with one entity, so a lag of 2 stands for
\* every larger one.
MaxLag == 2

\* A thread that has just loaded the row of t.  A step report's handler works
\* with the status it loaded and has a kind and an account; "control" holds the
\* status it will write; the others name theirs.
NoKind == "-"
Job(t, pc) == [task |-> t, pc |-> pc, status |-> "none", lag |-> 0,
               kind |-> NoKind, acct |-> 0]
Idle == Job(None, "idle")
ReportJob(t, kind, acct) == [task |-> t, pc |-> "effect", status |-> row[t], lag |-> 0,
                             kind |-> kind, acct |-> acct]
ControlJob(t, s) == [Job(t, "control") EXCEPT !.status = s]

ThreadState == [task: Task \cup {None}, pc: PC, status: Status, lag: 0..MaxLag,
                kind: Kind \cup {NoKind}, acct: 0..NAccounts]

\* An idle thread has no task, a busy one has; a report has a kind.
WellFormed(j) ==
  /\ IF j.pc = "idle" THEN j = Idle ELSE j.task \in Task
  /\ j.pc \in {"effect", "decide", "write", "resend"} => j.kind \in Kind

TypeOK ==
  /\ row \in [Task -> Status]
  /\ recs \in [Task -> [Account -> RecStatus]]
  /\ load \in SUBSET Task
  /\ thread \in [Thread -> ThreadState]
  /\ \A h \in Thread : WellFormed(thread[h])
  /\ online \in BOOLEAN
  /\ agent \in [Task -> 0..NAccounts + 1]

\* startAutomation rejects a selection that names no account of its own, but not a
\* streaming account to which none is bound: a task may have no account at all.
Init ==
  /\ row = [t \in Task |-> "none"]
  /\ \E bound \in SUBSET Task :
       recs = [t \in Task |-> [a \in Account |-> IF t \in bound THEN "none" ELSE "absent"]]
  /\ load = {}
  /\ thread = [h \in Thread |-> Idle]
  /\ online = TRUE
  /\ agent = [t \in Task |-> 0]

-----------------------------------------------------------------------------
(* Threads and the optimistic lock. *)

\* Nobody is at task t; without Overlap only then may a handler for t start.
Quiet(t)   == \A h \in Thread : thread[h].task # t
Free(h, t) == thread[h].pc = "idle" /\ (Overlap \/ Quiet(t))

At(h, pc)     == thread[h].pc = pc
Goto(h, pc)   == thread' = [thread EXCEPT ![h].pc = pc]
Finish(h)     == thread' = [thread EXCEPT ![h] = Idle]

\* A handler for t starts: the thread loads the row.
Spawn(op, h, t, job) ==
  /\ op \in Ops
  /\ Free(h, t)
  /\ thread' = [thread EXCEPT ![h] = job]

\* Mutant: updateById without the optimistic lock interceptor.
Fresh_NoVersion(h) == TRUE

\* BaseMapper.updateById under OptimisticLockerInnerInterceptor: the write of
\* status s commits only from an entity that is up to date, and makes every
\* other entity of the row one version older; the entity's own version grows
\* whether or not the row took the write.
Fresh(h) == thread[h].lag = 0

Save(h, s, pc) ==
  LET t   == thread[h].task
      own == [thread[h] EXCEPT !.pc = pc, !.lag = IF Fresh(h) THEN 0 ELSE @ - 1]
  IN  /\ row' = IF Fresh(h) THEN [row EXCEPT ![t] = s] ELSE row
      /\ thread' = [g \in Thread |->
                      IF g = h THEN IF pc = "idle" THEN Idle ELSE own
                      ELSE IF Fresh(h) /\ thread[g].task = t /\ thread[g].lag < MaxLag
                      THEN [thread[g] EXCEPT !.lag = @ + 1]
                      ELSE thread[g]]

\* TaskGameAccountStatusServiceImpl.updateStatus: no row, no effect.
SetRec(t, a, s) ==
  [recs EXCEPT ![t] = [b \in Account |-> IF b = a /\ @[b] \notin NoRow THEN s ELSE @[b]]]

\* The loops over a task's account rows that rewrite the rows in "from".
SweepRecs(t, from, s) ==
  [recs EXCEPT ![t] = [a \in Account |-> IF @[a] \in from THEN s ELSE @[a]]]

HasRecs(t)     == \E a \in Account : recs[t][a] \notin NoRow
HasAccounts(t) == \E a \in Account : recs[t][a] # "absent"

\* Mutant: one finished account finishes the task.
AllAccountsFinal_AnyAccount(t) == \E a \in Account : recs[t][a] \in FinalRec

\* areAllGameAccountsCompleted: a task without rows is not through.
AllAccountsFinal(t) == HasRecs(t) /\ \A a \in Account : recs[t][a] \in FinalRec

\* What cancelTask and the timeout checker take for open; cancelByTaskId knows
\* better.
OpenRec == {"pending", "running"}
BusyRec == {"pending", "running", "gaming"}

\* Mutant: the capacity test off by one.
Full_OffByOne == Cardinality(load) > MaxTasks

Full == Cardinality(load) >= MaxTasks

-----------------------------------------------------------------------------
(* Creating and dispatching a task. *)

\* AutomationServiceImpl.startAutomation: the capacity test, the insert of a
\* pending row, and executeTaskAsync once the transaction has committed.
Start(h, t) ==
  /\ online /\ ~Full
  /\ row[t] = "none"
  /\ row' = [row EXCEPT ![t] = "pending"]
  /\ Spawn("start", h, t, Job(t, "check"))
  /\ UNCHANGED <<recs, load, online, agent>>

\* PendingTaskRetryScheduler.retryPendingTasks.
Requeue(h, t) ==
  /\ row[t] = "pending"
  /\ Spawn("requeue", h, t, Job(t, "check"))
  /\ UNCHANGED <<row, recs, load, online, agent>>

\* executeTask: a full agent, or one that the database holds offline, queues
\* the task; a missing WebSocket session fails it.  The database may learn of
\* the lost session later than the session map.
ExecCheck(h) ==
  /\ At(h, "check")
  /\ \/ (Full \/ ~online) /\ Goto(h, "queue")
     \/ ~Full /\ ~online /\ Goto(h, "fail")
     \/ ~Full /\ online /\ Goto(h, "mark")
  /\ UNCHANGED <<row, recs, load, online, agent>>

ExecQueue(h) ==
  /\ At(h, "queue")
  /\ Save(h, "pending", "idle")
  /\ UNCHANGED <<recs, load, online, agent>>

ExecMark(h) ==
  /\ At(h, "mark")
  /\ Save(h, "running", "count")
  /\ UNCHANGED <<recs, load, online, agent>>

\* incrementTaskCount: a hash field per task id.
ExecCount(h) ==
  /\ At(h, "count")
  /\ load' = load \cup {thread[h].task}
  /\ Goto(h, "records")
  /\ UNCHANGED <<row, recs, online, agent>>

\* Mutant: account rows without the unique key, inserted a second time.
ExecRecords_NoUniqueKey(h) ==
  LET t == thread[h].task IN
  /\ At(h, "records")
  /\ recs' = SweepRecs(t, RecStatus \ {"absent"}, "pending")
  /\ Goto(h, "send")
  /\ UNCHANGED <<row, load, online, agent>>

\* Mutant: a failed insert is logged and the task sent all the same.
ExecRecords_SendAnyway(h) ==
  /\ At(h, "records")
  /\ recs' \in {recs, SweepRecs(thread[h].task, {"none"}, "pending")}
  /\ Goto(h, "send")
  /\ UNCHANGED <<row, load, online, agent>>

\* createStatusRecords inserts one row per account in one transaction; the
\* unique key (task_id, game_account_id) rejects a second set, and the database
\* may fail the first.  An exception goes to the catch block.  A task without
\* accounts inserts nothing that the key could reject.
ExecRecords(h) ==
  LET t == thread[h].task IN
  /\ At(h, "records")
  /\ \/ /\ ~HasRecs(t)
        /\ recs' = SweepRecs(t, {"none"}, "pending")
        /\ Goto(h, "send")
     \/ /\ Goto(h, "undo")
        /\ UNCHANGED recs
  /\ UNCHANGED <<row, load, online, agent>>

\* The account the agent begins with; without one it has played them all.
First(t) == IF HasAccounts(t) THEN 1 ELSE NAccounts + 1

\* sendTaskToAgent returns TRUE once it has found an open session, whether or
\* not the message leaves: the agent gets the task, or nobody does.
ExecSend(h) ==
  LET t == thread[h].task IN
  /\ At(h, "send")
  /\ \/ /\ online
        /\ agent' \in {agent, [agent EXCEPT ![t] = First(t)]}
        /\ Finish(h)
     \/ /\ ~online
        /\ Goto(h, "undo")
        /\ UNCHANGED agent
  /\ UNCHANGED <<row, recs, load, online>>

ExecUndo(h) ==
  /\ At(h, "undo")
  /\ load' = load \ {thread[h].task}
  /\ Goto(h, "fail")
  /\ UNCHANGED <<row, recs, online, agent>>

ExecFail(h) ==
  /\ At(h, "fail")
  /\ Save(h, "failed", "idle")
  /\ UNCHANGED <<recs, load, online, agent>>

-----------------------------------------------------------------------------
(* Ending a task from the side. *)

\* terminateTask loads the row and writes cancelled; cancelTask then loads it
\* again and does its work only on a row it finds running.  The WebSocket
\* command that follows is answered by a CANCELLED report, which the agent may
\* also send of its own.
Terminate(h, t) ==
  /\ row[t] # "none"
  /\ Spawn("terminate", h, t, Job(t, "term"))
  /\ UNCHANGED <<row, recs, load, online, agent>>

TerminateWrite(h) ==
  /\ At(h, "term")
  /\ Save(h, "cancelled", "termRead")
  /\ UNCHANGED <<recs, load, online, agent>>

CancelRead(h) ==
  LET t == thread[h].task IN
  /\ At(h, "termRead")
  /\ IF row[t] = "running"
     THEN thread' = [thread EXCEPT ![h] = Job(t, "termWrite")]
     ELSE Finish(h)
  /\ UNCHANGED <<row, recs, load, online, agent>>

CancelWrite(h) ==
  /\ At(h, "termWrite")
  /\ Save(h, "cancelled", "termRelease")
  /\ UNCHANGED <<recs, load, online, agent>>

CancelRelease(h) ==
  LET t == thread[h].task IN
  /\ At(h, "termRelease")
  /\ load' = load \ {t}
  /\ recs' = SweepRecs(t, OpenRec, "cancelled")
  /\ Finish(h)
  /\ UNCHANGED <<row, online, agent>>

\* The three transactions that select active tasks and write a terminal status
\* into them and their account rows: stopAutomation (cancelByStreamingAccountId),
\* cleanupIncompleteTasksAndRestoreAccounts with failOrphanTaskOnAgent, and
\* reassignTasksFromOfflineAgent.  None of them touches the load counter.
\* The state machine lets a pending task go nowhere but running and cancelled,
\* so the cleanup passes over it.
Select(h, t) ==
  /\ row[t] = "running"
  /\ \/ Spawn("stop", h, t, Job(t, "stop"))
     \/ /\ ~online \/ agent[t] = 0
        /\ Spawn("cleanup", h, t, Job(t, "cleanup"))
     \/ /\ ~online
        /\ Spawn("reassign", h, t, Job(t, "reassign"))
  /\ UNCHANGED <<row, recs, load, online, agent>>

StopWrite(h) ==
  /\ At(h, "stop")
  /\ Save(h, "cancelled", "idle")
  /\ recs' = SweepRecs(thread[h].task, BusyRec, "cancelled")
  /\ UNCHANGED <<load, online, agent>>

CleanupWrite(h) ==
  /\ At(h, "cleanup")
  /\ Save(h, "failed", "idle")
  /\ recs' = SweepRecs(thread[h].task, RecStatus \ NoRow, "failed")
  /\ UNCHANGED <<load, online, agent>>

ReassignWrite(h) ==
  /\ At(h, "reassign")
  /\ Save(h, "cancelled", "idle")
  /\ UNCHANGED <<recs, load, online, agent>>

\* TaskTimeoutChecker: a running task whose time is up.
Timeout(h, t) ==
  /\ row[t] = "running"
  /\ Spawn("timeout", h, t, Job(t, "timeout"))
  /\ UNCHANGED <<row, recs, load, online, agent>>

TimeoutWrite(h) ==
  /\ At(h, "timeout")
  /\ Save(h, "cancelled", "timeoutRelease")
  /\ UNCHANGED <<recs, load, online, agent>>

\* Mutant: the timeout checker forgets the load counter.
TimeoutRelease_KeepsSlot(h) ==
  /\ At(h, "timeoutRelease")
  /\ recs' = SweepRecs(thread[h].task, OpenRec, "skipped")
  /\ Finish(h)
  /\ UNCHANGED <<row, load, online, agent>>

TimeoutRelease(h) ==
  LET t == thread[h].task IN
  /\ At(h, "timeoutRelease")
  /\ recs' = SweepRecs(t, OpenRec, "skipped")
  /\ load' = load \ {t}
  /\ Finish(h)
  /\ UNCHANGED <<row, online, agent>>

\* TaskServiceImpl.retry: failed or pending, back to pending.
Retry(h, t) ==
  /\ row[t] \in {"failed", "pending"}
  /\ Spawn("retry", h, t, Job(t, "retry"))
  /\ UNCHANGED <<row, recs, load, online, agent>>

RetryWrite(h) ==
  /\ At(h, "retry")
  /\ Save(h, "pending", "idle")
  /\ UNCHANGED <<recs, load, online, agent>>

-----------------------------------------------------------------------------
(* The agent and its step reports (AgentCallbackServiceImpl.reportProgress).  *)

\* Mutant: the loop over the accounts has no end.
NextAccount_NoEnd(a) == a + 1

\* The accounts in their order, then the report that all are played.
NextAccount(a) == IF a > NAccounts THEN 0 ELSE a + 1

\* A report, the account it names (0 for none) and where it leaves the agent.
\* GAMING is also GAME_PREPARING; GIVEN_UP is a RUNNING report with the
\* accountStatus "failed", after which the agent goes on to the next account.
\* The steps before the first account (and without one) report for the task.
Say(kind, acct, next) == [kind |-> kind, acct |-> acct, next |-> next]
Reports(t) ==
  LET a == agent[t] IN
  {Say("FAILED", 0, 0), Say("CANCELLED", 0, 0)}
    \cup (IF a \in Account \/ ~HasAccounts(t)
          THEN {Say("RUNNING", 0, a), Say("COMPLETED", 0, a)} ELSE {})
    \cup (IF a \in Account
          THEN {Say("RUNNING", a, a), Say("GAMING", a, a),
                Say("GIVEN_UP", a, NextAccount(a)), Say("COMPLETED", a, NextAccount(a))}
          ELSE {Say("COMPLETED", 0, NextAccount(a))})

Report(h, t) ==
  /\ agent[t] # 0
  /\ \E m \in Reports(t) :
       /\ Spawn("report", h, t, ReportJob(t, m.kind, m.acct))
       /\ agent' = [agent EXCEPT ![t] = m.next]
  /\ UNCHANGED <<row, recs, load, online>>

\* report_progress gives up after three attempts, or throttles the report, and
\* the agent goes on all the same.
LoseReport(t) ==
  /\ "lose" \in Ops
  /\ agent[t] # 0
  /\ \E m \in Reports(t) : agent' = [agent EXCEPT ![t] = m.next]
  /\ UNCHANGED <<row, recs, load, thread, online>>

\* The agent had no answer within 10 s and sends the report that was handled
\* once more.
Answered == {"idle"} \cup (IF "resend" \in Ops THEN {"resend"} ELSE {})
Resend(h) ==
  /\ At(h, "resend")
  /\ thread' = [thread EXCEPT ![h] = ReportJob(thread[h].task, thread[h].kind, thread[h].acct)]
  /\ UNCHANGED <<row, recs, load, online, agent>>

RecOf(kind) == CASE kind = "RUNNING" -> "running"
                 [] kind = "GAMING" -> "gaming"
                 [] kind = "COMPLETED" -> "completed"
                 [] OTHER -> "failed"

\* The account's row is written first.  handleCancelledStatus writes none, and
\* returns at once when the entity is already cancelled.
ReportEffect(h) ==
  LET t == thread[h].task
      k == thread[h].kind
  IN
  /\ At(h, "effect")
  /\ \/ /\ k = "CANCELLED" /\ thread[h].status = "cancelled"
        /\ \/ Finish(h)
           \/ "resend" \in Ops /\ Goto(h, "resend")
        /\ UNCHANGED recs
     \/ /\ k = "CANCELLED" /\ thread[h].status # "cancelled"
        /\ Goto(h, "decide")
        /\ UNCHANGED recs
     \/ /\ k # "CANCELLED"
        /\ recs' = SetRec(t, thread[h].acct, RecOf(k))
        /\ Goto(h, "decide")
  /\ UNCHANGED <<row, load, online, agent>>

\* What the report makes of the task in the entity the handler holds, and
\* whether it frees the task's slot.
Ends(h) ==
  \/ thread[h].kind \in {"FAILED", "CANCELLED"}
  \/ thread[h].kind = "COMPLETED" /\ AllAccountsFinal(thread[h].task)

Outcome(h) ==
  CASE thread[h].kind = "FAILED"                                   -> "failed"
    [] thread[h].kind = "CANCELLED"                                -> "cancelled"
    [] thread[h].kind = "COMPLETED" /\ Ends(h)                     -> "completed"
    [] thread[h].kind \in {"RUNNING", "GIVEN_UP"}
         /\ thread[h].status = "pending"                            -> "running"
    [] OTHER                                                       -> thread[h].status

\* Mutant: every finished account frees the slot of the task.
ReportDecide_EachAccount(h) ==
  /\ At(h, "decide")
  /\ load' = IF Ends(h) \/ thread[h].kind = "COMPLETED"
             THEN load \ {thread[h].task} ELSE load
  /\ thread' = [thread EXCEPT ![h].pc = "write", ![h].status = Outcome(h)]
  /\ UNCHANGED <<row, recs, online, agent>>

ReportDecide(h) ==
  /\ At(h, "decide")
  /\ load' = IF Ends(h) THEN load \ {thread[h].task} ELSE load
  /\ thread' = [thread EXCEPT ![h].pc = "write", ![h].status = Outcome(h)]
  /\ UNCHANGED <<row, recs, online, agent>>

ReportWrite(h) ==
  /\ At(h, "write")
  /\ \E pc \in Answered : Save(h, thread[h].status, pc)
  /\ UNCHANGED <<recs, load, online, agent>>

\* An account that the user skips or whose profile cannot be set up: its row is
\* written without the task's, and the agent goes on to the next.
SkipAccount(t) ==
  /\ "skip" \in Ops
  /\ Overlap \/ Quiet(t)
  /\ agent[t] \in Account
  /\ \E s \in {"skipped", "failed"} : recs' = SetRec(t, agent[t], s)
  /\ agent' = [agent EXCEPT ![t] = NextAccount(@)]
  /\ UNCHANGED <<row, load, thread, online>>

-----------------------------------------------------------------------------
(* Pausing.  None of these handlers asks what the task's status is good for.  *)

\* pauseTask and resumeTask.
PauseResume(h, t) ==
  /\ row[t] # "none"
  /\ \E s \in {"paused", "running"} : Spawn("pause", h, t, ControlJob(t, s))
  /\ UNCHANGED <<row, recs, load, online, agent>>

\* handleSessionScope: a paused_* phase pauses the task, automation_failed makes
\* a failed or paused one running again (ready only a paused one), the other
\* phases of a task at work write the status back as it was; closing and closed,
\* with which the agent leaves, are left out.  After automation_failed the agent
\* begins again with the first account.
SessionStatus(s) == {s, "paused"} \cup (IF s \in {"paused", "failed"} THEN {"running"} ELSE {})

Session(h, t) ==
  /\ agent[t] # 0
  /\ \E s \in SessionStatus(row[t]) : Spawn("session", h, t, ControlJob(t, s))
  /\ agent' \in {agent, [agent EXCEPT ![t] = First(t)]}
  /\ UNCHANGED <<row, recs, load, online>>

ControlWrite(h) ==
  /\ At(h, "control")
  /\ Save(h, thread[h].status, "idle")
  /\ UNCHANGED <<recs, load, online, agent>>

-----------------------------------------------------------------------------
(* The link and the agent process. *)

LinkDown ==
  /\ "linkDown" \in Ops /\ online
  /\ online' = FALSE
  /\ UNCHANGED <<row, recs, load, thread, agent>>

LinkUp ==
  /\ ~online
  /\ online' = TRUE
  /\ UNCHANGED <<row, recs, load, thread, agent>>

\* The agent process dies; what it was playing is gone.
AgentRestart ==
  /\ "restart" \in Ops
  /\ online' = FALSE
  /\ agent' = [t \in Task |-> 0]
  /\ UNCHANGED <<row, recs, load, thread>>

-----------------------------------------------------------------------------
Step(h) ==
  \/ ExecCheck(h) \/ ExecQueue(h) \/ ExecMark(h) \/ ExecCount(h)
  \/ ExecRecords(h) \/ ExecSend(h) \/ ExecUndo(h) \/ ExecFail(h)
  \/ TerminateWrite(h) \/ CancelRead(h) \/ CancelWrite(h) \/ CancelRelease(h)
  \/ StopWrite(h) \/ CleanupWrite(h) \/ ReassignWrite(h)
  \/ TimeoutWrite(h) \/ TimeoutRelease(h) \/ RetryWrite(h)
  \/ ReportEffect(h) \/ ReportDecide(h) \/ ReportWrite(h) \/ Resend(h) \/ ControlWrite(h)

Begin(h, t) ==
  \/ Start(h, t) \/ Requeue(h, t) \/ Retry(h, t)
  \/ Terminate(h, t) \/ Select(h, t) \/ Timeout(h, t) \/ PauseResume(h, t)
  \/ Report(h, t) \/ Session(h, t)

Next ==
  \/ \E h \in Thread : Step(h)
  \/ \E h \in Thread, t \in Task : Begin(h, t)
  \/ \E t \in Task : SkipAccount(t) \/ LoseReport(t)
  \/ LinkDown \/ LinkUp \/ AgentRestart

Spec == Init /\ [][Next]_vars

\* Threads go on, the 30 s scheduler comes back to every pending task, and the
\* timeout checker to every running one however the reports keep it alive.
Fairness ==
  /\ \A h \in Thread : WF_vars(Step(h))
  /\ \A t \in Task : SF_vars(\E h \in Thread : Requeue(h, t))
  /\ \A t \in Task : SF_vars(\E h \in Thread : Timeout(h, t))

FairSpec == Spec /\ Fairness

-----------------------------------------------------------------------------
(* Properties. *)

\* Whatever overlaps with whatever, no late step report, stale entity or second
\* dispatch brings a task that ended back: only retry does, from failed to
\* pending, and the user's or the agent's pausing and resuming.
OnlyControlRevives ==
  [][\A t \in Task : row[t] \in Terminal =>
       \/ row'[t] \in Terminal
       \/ row[t] = "failed" /\ row'[t] = "pending" /\ "retry" \in Ops
       \/ /\ row'[t] \in {"running", "paused"}
          /\ \E h \in Thread : thread[h].task = t /\ ControlWrite(h)]_vars

\* TaskStateMachine: completed and cancelled are final, failed leads only to pending
\* (retry) and running. Does not hold: session phases, pause and resume ask for no
\* status.
NoResurrection ==
  [][\A t \in Task : row[t] \in {"completed", "cancelled"} => row'[t] \in Terminal]_vars

\* However often a task is dispatched at once (the scheduler dispatches every
\* pending row every 30 s, queued dispatches included), the account rows' unique
\* key lets one dispatch through: nobody is about to send a task that the agent
\* has, and two threads never send the same one.  Nothing keeps a task without
\* accounts from being sent again.
OneDispatch ==
  \A h \in Thread : At(h, "send") /\ HasAccounts(thread[h].task) =>
    /\ agent[thread[h].task] = 0
    /\ \A g \in Thread \ {h} : At(g, "send") => thread[g].task # thread[h].task

\* The agent plays only tasks whose account rows exist, so its reports about an
\* account always find a row to update.
AgentHasRecords ==
  \A t \in Task : agent[t] # 0 => \A a \in Account : recs[t][a] # "none"

\* The capacity test and the increment are apart, so dispatches in flight can
\* pass the test together; the excess is at most the other threads.
Claimed == {t \in Task : \E h \in Thread : thread[h].task = t /\ thread[h].pc \in {"mark", "count"}}
BoundedOvershoot == Cardinality(load \cup Claimed) <= MaxTasks - 1 + Cardinality(Thread)

\* The same without regard to its accounts. Does not hold: a task without any is sent
\* as often as it is dispatched.
EveryDispatchOnce ==
  \A h \in Thread : At(h, "send") => agent[thread[h].task] = 0

\* A terminated task gives its slot back (terminateTask: cancel on the executor first,
\* which releases the slot, then the cancelled row). Does not hold: the row is cancelled
\* before the executor looks for a running one.
TerminateReleasesSlot == \A t \in Task : Quiet(t) /\ row[t] = "cancelled" => t \notin load

\* While the link holds and no task is paused for good, a pending task leaves the
\* queue: the slots of the tasks before it come back and the scheduler finds it.
QueuedIsDispatched ==
  <>[](online /\ \A t \in Task : row[t] # "paused")
    => \A t \in Task : row[t] = "pending" ~> row[t] # "pending"

\* task_game_account_status: skipped is what a timeout makes of an account that was not
\* through. Does not hold: an account in a match stays as it is.
TimeoutSettlesAccounts ==
  [][\A h \in Thread : At(h, "timeoutRelease") /\ thread'[h] = Idle =>
       LET t == thread[h].task IN \A a \in Account : recs'[t][a] \in FinalRec]_vars
=============================================================================
