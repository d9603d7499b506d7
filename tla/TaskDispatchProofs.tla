------------------------- MODULE TaskDispatchProofs -------------------------
(***************************************************************************)
(* Theorems about TaskDispatch and TaskHistory for any tasks, accounts,    *)
(* threads, capacity and set of handlers, overlapping or not.              *)
(***************************************************************************)
EXTENDS TaskHistory, FiniteSetTheorems, TLAPS

USE DEF Account, MaxLag

-----------------------------------------------------------------------------
(* Types. *)

ThreadOK(j) == j \in ThreadState /\ WellFormed(j)

LEMMA ThreadType ==
  TypeOK => \A h \in Thread : ThreadOK(thread[h])
BY DEF TypeOK, ThreadOK

\* The places of a step report's handler.
ReportPC == {"effect", "decide", "write", "resend"}

LEMMA JobType ==
  ASSUME NEW t \in Task, NEW pc \in PC \ ({"idle"} \cup ReportPC)
  PROVE  ThreadOK(Job(t, pc))
BY AccountsAssumption DEF ThreadOK, WellFormed, Job, ThreadState, Status, NoKind, ReportPC

LEMMA ControlType ==
  ASSUME NEW t \in Task, NEW s \in Status
  PROVE  ThreadOK(ControlJob(t, s))
<1>1. ControlJob(t, s) = [task |-> t, pc |-> "control", status |-> s, lag |-> 0,
                          kind |-> NoKind, acct |-> 0]
  BY DEF ControlJob, Job
<1> QED BY <1>1, AccountsAssumption DEF ThreadOK, WellFormed, ThreadState, PC, NoKind

LEMMA ReportType ==
  ASSUME TypeOK, NEW t \in Task, NEW kind \in Kind, NEW acct \in 0..NAccounts
  PROVE  ThreadOK(ReportJob(t, kind, acct))
BY DEF TypeOK, ReportJob, ThreadOK, WellFormed, ThreadState, PC

LEMMA ReportsType ==
  ASSUME TypeOK, NEW t \in Task, NEW m \in Reports(t)
  PROVE  m.kind \in Kind /\ m.acct \in 0..NAccounts /\ m.next \in 0..NAccounts + 1
<1>1. agent[t] \in 0..NAccounts + 1
  BY DEF TypeOK
<1>2. NextAccount(agent[t]) \in 0..NAccounts + 1
  BY <1>1, AccountsAssumption DEF NextAccount
<1> QED BY <1>1, <1>2, AccountsAssumption DEF Reports, Say, Kind

LEMMA FirstType ==
  ASSUME NEW t \in Task PROVE First(t) \in 1..NAccounts + 1
BY AccountsAssumption DEF First

LEMMA IdleType == ThreadOK(Idle)
BY AccountsAssumption DEF ThreadOK, WellFormed, Idle, Job, ThreadState, Status, NoKind, PC

\* What updateById leaves in the row and in every thread.
LEMMA SaveType ==
  ASSUME TypeOK, NEW h \in Thread, thread[h].pc # "idle",
         NEW s \in Status, NEW pc \in PC, Save(h, s, pc),
         pc \in ReportPC => thread[h].kind \in Kind
  PROVE  /\ row' \in [Task -> Status]
         /\ thread' \in [Thread -> ThreadState]
         /\ \A g \in Thread : ThreadOK(thread'[g])
<1>1. thread[h].task \in Task /\ thread[h] \in ThreadState
  BY ThreadType DEF ThreadOK, WellFormed
<1>2. row' \in [Task -> Status]
  BY <1>1 DEF Save, TypeOK
<1>3. ASSUME NEW g \in Thread PROVE ThreadOK(thread'[g])
  <2>1. CASE g = h /\ pc = "idle"
    BY <2>1, IdleType DEF Save
  <2>2. CASE g = h /\ pc # "idle"
    <3>1. thread'[g] = [thread[h] EXCEPT !.pc = pc, !.lag = IF Fresh(h) THEN 0 ELSE @ - 1]
      BY <2>2 DEF Save
    <3>2. (IF Fresh(h) THEN 0 ELSE thread[h].lag - 1) \in 0..2
      BY <1>1 DEF Fresh, ThreadState
    <3> QED BY <1>1, <2>2, <3>1, <3>2 DEF ThreadOK, WellFormed, ThreadState, ReportPC
  <2>3. CASE g # h
    <3>1. ThreadOK(thread[g])
      BY ThreadType
    <3>2. \/ thread'[g] = thread[g]
          \/ /\ thread'[g] = [thread[g] EXCEPT !.lag = @ + 1]
             /\ thread[g].lag < 2
             /\ thread[g].task = thread[h].task
      BY <2>3 DEF Save
    <3>3. thread'[g] = [thread[g] EXCEPT !.lag = @ + 1] /\ thread[g].task = thread[h].task
            => thread[g].pc # "idle"
      BY <1>1, <3>1, NoneAssumption DEF ThreadOK, WellFormed, Idle, Job
    <3> QED BY <3>1, <3>2, <3>3 DEF ThreadOK, WellFormed, ThreadState
  <2> QED BY <2>1, <2>2, <2>3
<1>4. thread' \in [Thread -> ThreadState]
  <2>1. thread' = [g \in Thread |-> thread'[g]]
    BY DEF Save
  <2> QED BY <2>1, <1>3 DEF ThreadOK, WellFormed
<1> QED BY <1>2, <1>3, <1>4

\* One thread moves on, or becomes idle.
LEMMA MoveType ==
  ASSUME TypeOK, NEW h \in Thread, NEW j, ThreadOK(j),
         thread' = [thread EXCEPT ![h] = j]
  PROVE  /\ thread' \in [Thread -> ThreadState]
         /\ \A g \in Thread : ThreadOK(thread'[g])
BY ThreadType DEF TypeOK, ThreadOK

LEMMA GotoType ==
  ASSUME TypeOK, NEW h \in Thread, thread[h].pc # "idle",
         NEW pc \in PC \ {"idle"}, Goto(h, pc),
         pc \in ReportPC => thread[h].kind \in Kind
  PROVE  /\ thread' \in [Thread -> ThreadState]
         /\ \A g \in Thread : ThreadOK(thread'[g])
<1>1. ThreadOK(thread[h])
  BY ThreadType
<1>2. ThreadOK([thread[h] EXCEPT !.pc = pc])
  BY <1>1 DEF ThreadOK, WellFormed, ThreadState, ReportPC
<1>3. thread' = [thread EXCEPT ![h] = [thread[h] EXCEPT !.pc = pc]]
  BY DEF Goto
<1> QED BY <1>2, <1>3, MoveType

LEMMA FinishType ==
  ASSUME TypeOK, NEW h \in Thread, Finish(h)
  PROVE  /\ thread' \in [Thread -> ThreadState]
         /\ \A g \in Thread : ThreadOK(thread'[g])
BY MoveType, IdleType DEF Finish

LEMMA RecsType ==
  ASSUME TypeOK, NEW t \in Task, NEW s \in RecStatus, NEW from, NEW a
  PROVE  /\ SetRec(t, a, s) \in [Task -> [Account -> RecStatus]]
         /\ SweepRecs(t, from, s) \in [Task -> [Account -> RecStatus]]
BY DEF TypeOK, SetRec, SweepRecs, RecStatus

LEMMA StepType ==
  ASSUME TypeOK, NEW h \in Thread, Step(h)
  PROVE  TypeOK'
<1> DEFINE t == thread[h].task
           Rest == /\ row' \in [Task -> Status]
                   /\ recs' \in [Task -> [Account -> RecStatus]]
                   /\ load' \in SUBSET Task
                   /\ online' \in BOOLEAN
                   /\ agent' \in [Task -> 0..NAccounts + 1]
           Threads == /\ thread' \in [Thread -> ThreadState]
                      /\ \A g \in Thread : ThreadOK(thread'[g])
<1>0. SUFFICES Rest /\ Threads
  BY DEF TypeOK, ThreadOK, WellFormed
<1>t. ASSUME thread[h].pc # "idle" PROVE t \in Task
  BY <1>t, ThreadType DEF ThreadOK, WellFormed
<1>1. CASE ExecCheck(h)
  <2>1. thread[h].pc # "idle" /\ (Goto(h, "queue") \/ Goto(h, "fail") \/ Goto(h, "mark"))
    BY <1>1 DEF ExecCheck, At
  <2>2. Threads
    BY <2>1, GotoType DEF PC, ReportPC
  <2> QED BY <1>1, <2>2 DEF ExecCheck, TypeOK
<1>2. CASE ExecQueue(h)
  BY <1>2, SaveType DEF ExecQueue, At, TypeOK, Status, PC, ReportPC
<1>3. CASE ExecMark(h)
  BY <1>3, SaveType DEF ExecMark, At, TypeOK, Status, PC, ReportPC
<1>4. CASE ExecCount(h)
  <2>1. Threads
    BY <1>4, GotoType DEF ExecCount, At, PC, ReportPC
  <2> QED BY <1>4, <1>t, <2>1 DEF ExecCount, At, TypeOK
<1>5. CASE ExecRecords(h)
  <2>1. Threads
    BY <1>5, GotoType DEF ExecRecords, At, PC, ReportPC
  <2>2. t \in Task
    BY <1>5, <1>t DEF ExecRecords, At
  <2>3. "pending" \in RecStatus
    BY DEF RecStatus
  <2>4. SweepRecs(t, {"none"}, "pending") \in [Task -> [Account -> RecStatus]]
    BY <2>2, <2>3, RecsType
  <2>5. recs' \in [Task -> [Account -> RecStatus]]
    BY <1>5, <2>4 DEF ExecRecords, TypeOK
  <2> QED BY <1>5, <2>1, <2>5 DEF ExecRecords, TypeOK
<1>6. CASE ExecSend(h)
  <2>1. Threads
    BY <1>6, GotoType, FinishType DEF ExecSend, At, PC, ReportPC
  <2>2. First(t) \in 0..NAccounts + 1
    BY <1>6, <1>t, FirstType, AccountsAssumption DEF ExecSend, At
  <2>3. agent' \in [Task -> 0..NAccounts + 1]
    BY <1>6, <2>2 DEF ExecSend, TypeOK
  <2> QED BY <1>6, <2>1, <2>3 DEF ExecSend, TypeOK
<1>7. CASE ExecUndo(h)
  <2>1. Threads
    BY <1>7, GotoType DEF ExecUndo, At, PC, ReportPC
  <2> QED BY <1>7, <2>1 DEF ExecUndo, TypeOK
<1>8. CASE ExecFail(h)
  BY <1>8, SaveType DEF ExecFail, At, TypeOK, Status, PC, ReportPC
<1>9. CASE TerminateWrite(h)
  BY <1>9, SaveType DEF TerminateWrite, At, TypeOK, Status, PC, ReportPC
<1>10. CASE CancelRead(h)
  <2>1. t \in Task /\ ThreadOK(Job(t, "termWrite"))
    BY <1>10, <1>t, JobType DEF CancelRead, At, PC, ReportPC
  <2>2. Threads
    BY <1>10, <2>1, MoveType, FinishType DEF CancelRead
  <2> QED BY <1>10, <2>2 DEF CancelRead, TypeOK
<1>11. CASE CancelWrite(h)
  BY <1>11, SaveType DEF CancelWrite, At, TypeOK, Status, PC, ReportPC
<1>12. CASE CancelRelease(h)
  <2>1. recs' \in [Task -> [Account -> RecStatus]]
    BY <1>12, <1>t, RecsType DEF CancelRelease, At, RecStatus
  <2> QED BY <1>12, <2>1, FinishType DEF CancelRelease, TypeOK
<1>13. CASE StopWrite(h)
  <2>1. recs' \in [Task -> [Account -> RecStatus]]
    BY <1>13, <1>t, RecsType DEF StopWrite, At, RecStatus
  <2> QED BY <1>13, <2>1, SaveType DEF StopWrite, At, TypeOK, Status, PC, ReportPC
<1>14. CASE CleanupWrite(h)
  <2>1. recs' \in [Task -> [Account -> RecStatus]]
    BY <1>14, <1>t, RecsType DEF CleanupWrite, At, RecStatus
  <2> QED BY <1>14, <2>1, SaveType DEF CleanupWrite, At, TypeOK, Status, PC, ReportPC
<1>15. CASE ReassignWrite(h)
  BY <1>15, SaveType DEF ReassignWrite, At, TypeOK, Status, PC, ReportPC
<1>16. CASE TimeoutWrite(h)
  BY <1>16, SaveType DEF TimeoutWrite, At, TypeOK, Status, PC, ReportPC
<1>17. CASE TimeoutRelease(h)
  <2>1. recs' \in [Task -> [Account -> RecStatus]]
    BY <1>17, <1>t, RecsType DEF TimeoutRelease, At, RecStatus
  <2> QED BY <1>17, <2>1, FinishType DEF TimeoutRelease, TypeOK
<1>18. CASE RetryWrite(h)
  BY <1>18, SaveType DEF RetryWrite, At, TypeOK, Status, PC, ReportPC
<1>19. CASE ReportEffect(h)
  <2>1. recs' \in [Task -> [Account -> RecStatus]]
    <3>1. CASE thread[h].kind = "CANCELLED"
      BY <1>19, <3>1 DEF ReportEffect, TypeOK
    <3>2. CASE thread[h].kind # "CANCELLED"
      <4>1. RecOf(thread[h].kind) \in RecStatus
        BY DEF RecOf, RecStatus
      <4>2. t \in Task
        BY <1>19, <1>t DEF ReportEffect, At
      <4>3. recs' = SetRec(t, thread[h].acct, RecOf(thread[h].kind))
        BY <1>19, <3>2 DEF ReportEffect
      <4> HIDE DEF t
      <4> QED BY <4>1, <4>2, <4>3, RecsType
    <3> QED BY <3>1, <3>2
  <2>2. Threads
    <3>1. thread[h].pc # "idle" /\ thread[h].kind \in Kind
      BY <1>19, ThreadType DEF ReportEffect, At, ThreadOK, WellFormed
    <3> QED BY <1>19, <3>1, GotoType, FinishType DEF ReportEffect, PC, ReportPC
  <2> QED BY <1>19, <2>1, <2>2 DEF ReportEffect, TypeOK
<1>20. CASE ReportDecide(h)
  <2>1. Outcome(h) \in Status
    BY DEF Outcome, TypeOK, ThreadState, Status
  <2>2. thread' = [thread EXCEPT ![h] = [thread[h] EXCEPT !.pc = "write", !.status = Outcome(h)]]
    BY <1>20 DEF ReportDecide
  <2>3. ThreadOK(thread[h]) /\ thread[h].pc = "decide"
    BY <1>20, ThreadType DEF ReportDecide, At
  <2>4. ThreadOK([thread[h] EXCEPT !.pc = "write", !.status = Outcome(h)])
    <3>1. "write" \in PC
      BY DEF PC
    <3>2. thread[h].task \in Task /\ thread[h].kind \in Kind
      BY <2>3 DEF ThreadOK, WellFormed
    <3> QED BY <2>1, <2>3, <3>1, <3>2 DEF ThreadOK, WellFormed, ThreadState
  <2>5. Threads
    BY <2>2, <2>4, MoveType
  <2> QED BY <1>20, <2>5 DEF ReportDecide, TypeOK
<1>21. CASE ReportWrite(h)
  <2>1. thread[h].pc = "write" /\ thread[h].kind \in Kind /\ thread[h].status \in Status
    BY <1>21, ThreadType DEF ReportWrite, At, ThreadOK, WellFormed, ThreadState
  <2>2. PICK pc \in Answered : Save(h, thread[h].status, pc)
    BY <1>21 DEF ReportWrite
  <2>3. pc \in PC
    BY DEF Answered, PC
  <2> QED BY <1>21, <2>1, <2>2, <2>3, SaveType DEF ReportWrite, TypeOK
<1>22. CASE Resend(h)
  <2>1. t \in Task /\ thread[h].kind \in Kind /\ thread[h].acct \in 0..NAccounts
    BY <1>22, ThreadType DEF Resend, At, ThreadOK, WellFormed, ThreadState
  <2>2. ThreadOK(ReportJob(t, thread[h].kind, thread[h].acct))
    BY <2>1, ReportType
  <2>3. Threads
    BY <1>22, <2>2, MoveType DEF Resend
  <2> QED BY <1>22, <2>3 DEF Resend, TypeOK
<1>23. CASE ControlWrite(h)
  <2>1. thread[h].pc # "idle" /\ thread[h].status \in Status
    BY <1>23, ThreadType DEF ControlWrite, At, ThreadOK, ThreadState
  <2> QED BY <1>23, <2>1, SaveType DEF ControlWrite, TypeOK, PC, ReportPC
<1> QED BY <1>1, <1>2, <1>3, <1>4, <1>5, <1>6, <1>7, <1>8, <1>9, <1>10, <1>11, <1>12,
           <1>13, <1>14, <1>15, <1>16, <1>17, <1>18, <1>19, <1>20, <1>21, <1>22, <1>23
        DEF Step

LEMMA BeginType ==
  ASSUME TypeOK, NEW h \in Thread, NEW t \in Task, Begin(h, t)
  PROVE  TypeOK'
<1> DEFINE Threads == /\ thread' \in [Thread -> ThreadState]
                      /\ \A g \in Thread : ThreadOK(thread'[g])
<1>a. ASSUME NEW op, NEW pc \in PC \ ({"idle"} \cup ReportPC),
             Spawn(op, h, t, Job(t, pc))
      PROVE  Threads
  BY <1>a, JobType, MoveType DEF Spawn
<1>1. CASE Start(h, t)
  <2>1. Threads
    BY <1>1, <1>a DEF Start, PC, ReportPC
  <2> QED BY <1>1, <2>1 DEF Start, TypeOK, ThreadOK, Status
<1>2. CASE Requeue(h, t)
  <2>1. Threads
    BY <1>2, <1>a DEF Requeue, PC, ReportPC
  <2> QED BY <1>2, <2>1 DEF Requeue, TypeOK, ThreadOK
<1>3. CASE Retry(h, t)
  <2>1. Threads
    BY <1>3, <1>a DEF Retry, PC, ReportPC
  <2> QED BY <1>3, <2>1 DEF Retry, TypeOK, ThreadOK
<1>4. CASE Terminate(h, t)
  <2>1. Threads
    BY <1>4, <1>a DEF Terminate, PC, ReportPC
  <2> QED BY <1>4, <2>1 DEF Terminate, TypeOK, ThreadOK
<1>5. CASE Select(h, t)
  <2>1. Threads
    BY <1>5, <1>a DEF Select, PC, ReportPC
  <2> QED BY <1>5, <2>1 DEF Select, TypeOK, ThreadOK
<1>6. CASE Timeout(h, t)
  <2>1. Threads
    BY <1>6, <1>a DEF Timeout, PC, ReportPC
  <2> QED BY <1>6, <2>1 DEF Timeout, TypeOK, ThreadOK
<1>7. CASE PauseResume(h, t)
  <2>1. PICK s \in {"paused", "running"} : Spawn("pause", h, t, ControlJob(t, s))
    BY <1>7 DEF PauseResume
  <2>2. Threads
    BY <2>1, ControlType, MoveType DEF Spawn, Status
  <2> QED BY <1>7, <2>2 DEF PauseResume, TypeOK, ThreadOK
<1>8. CASE Report(h, t)
  <2>1. PICK m \in Reports(t) :
           /\ Spawn("report", h, t, ReportJob(t, m.kind, m.acct))
           /\ agent' = [agent EXCEPT ![t] = m.next]
    BY <1>8 DEF Report
  <2>2. m.kind \in Kind /\ m.acct \in 0..NAccounts /\ m.next \in 0..NAccounts + 1
    BY ReportsType
  <2>3. Threads
    BY <2>1, <2>2, ReportType, MoveType DEF Spawn
  <2>4. agent' \in [Task -> 0..NAccounts + 1]
    BY <2>1, <2>2 DEF TypeOK
  <2> QED BY <1>8, <2>3, <2>4 DEF Report, TypeOK, ThreadOK
<1>9. CASE Session(h, t)
  <2>1. PICK s \in SessionStatus(row[t]) : Spawn("session", h, t, ControlJob(t, s))
    BY <1>9 DEF Session
  <2>2. s \in Status
    BY <2>1 DEF SessionStatus, TypeOK, Status
  <2>3. Threads
    BY <2>1, <2>2, ControlType, MoveType DEF Spawn
  <2>4. First(t) \in 0..NAccounts + 1
    BY FirstType, AccountsAssumption
  <2>5. agent' \in [Task -> 0..NAccounts + 1]
    BY <1>9, <2>4 DEF Session, TypeOK
  <2> QED BY <1>9, <2>3, <2>5 DEF Session, TypeOK, ThreadOK
<1> QED BY <1>1, <1>2, <1>3, <1>4, <1>5, <1>6, <1>7, <1>8, <1>9 DEF Begin

LEMMA TypeInit == Init => TypeOK
<1> SUFFICES ASSUME Init PROVE TypeOK
  OBVIOUS
<1>1. thread \in [Thread -> ThreadState] /\ \A h \in Thread : WellFormed(thread[h])
  BY IdleType DEF Init, ThreadOK
<1>2. recs \in [Task -> [Account -> RecStatus]]
  BY DEF Init, RecStatus
<1> QED BY <1>1, <1>2, AccountsAssumption DEF Init, TypeOK, Status

LEMMA TypeNext == TypeOK /\ [Next]_vars => TypeOK'
<1> SUFFICES ASSUME TypeOK, [Next]_vars PROVE TypeOK'
  OBVIOUS
<1>1. CASE LinkDown \/ LinkUp
  BY <1>1 DEF LinkDown, LinkUp, TypeOK
<1>2. CASE AgentRestart
  <2>1. 0 \in 0..NAccounts + 1
    BY AccountsAssumption
  <2> QED BY <1>2, <2>1 DEF AgentRestart, TypeOK
<1>3. CASE UNCHANGED vars
  BY <1>3 DEF vars, TypeOK
<1>4. ASSUME NEW t \in Task, SkipAccount(t) PROVE TypeOK'
  <2>1. agent[t] \in 0..NAccounts + 1
    BY DEF TypeOK
  <2>2. NextAccount(agent[t]) \in 0..NAccounts + 1
    BY <2>1, AccountsAssumption DEF NextAccount
  <2>3. agent' \in [Task -> 0..NAccounts + 1]
    BY <1>4, <2>2 DEF SkipAccount, TypeOK
  <2>4. recs' \in [Task -> [Account -> RecStatus]]
    <3>1. PICK s \in {"skipped", "failed"} : recs' = SetRec(t, agent[t], s)
      BY <1>4 DEF SkipAccount
    <3> QED BY <3>1, RecsType DEF RecStatus
  <2> QED BY <1>4, <2>3, <2>4 DEF SkipAccount, TypeOK
<1>5. ASSUME NEW t \in Task, LoseReport(t) PROVE TypeOK'
  <2>1. PICK m \in Reports(t) : agent' = [agent EXCEPT ![t] = m.next]
    BY <1>5 DEF LoseReport
  <2>2. m.next \in 0..NAccounts + 1
    BY ReportsType
  <2> QED BY <1>5, <2>1, <2>2 DEF LoseReport, TypeOK
<1> QED BY <1>1, <1>2, <1>3, <1>4, <1>5, StepType, BeginType DEF Next

\* Every variable keeps its type; a busy thread always has a task, and a report
\* being handled always has a kind.
THEOREM TypeCorrect == Spec => []TypeOK
BY TypeInit, TypeNext, PTL DEF Spec

-----------------------------------------------------------------------------
(* What a step does to the threads. *)

\* updateById: the writer moves on; another thread keeps everything but its lag,
\* which is no longer 0 if the row it holds has changed.
LEMMA SaveThreads ==
  ASSUME TypeOK, NEW h \in Thread, NEW s, NEW pc, Save(h, s, pc)
  PROVE  /\ thread'[h].pc = pc
         /\ pc # "idle" => thread'[h].task = thread[h].task
         /\ \A g \in Thread \ {h} :
              /\ thread'[g].pc = thread[g].pc
              /\ thread'[g].task = thread[g].task
              /\ thread'[g].status = thread[g].status
              /\ thread'[g].kind = thread[g].kind
              /\ thread'[g].lag = 0 =>
                   thread[g].lag = 0 /\ row'[thread[g].task] = row[thread[g].task]
              /\ thread[g].task # thread[h].task => thread'[g] = thread[g]
         /\ \A t \in Task : row'[t] # row[t] =>
              t = thread[h].task /\ Fresh(h) /\ row'[t] = s
<1>1. thread[h].task \in Task \cup {None} /\ thread[h] \in ThreadState
  BY ThreadType DEF ThreadOK, ThreadState
<1>2. thread'[h].pc = pc /\ (pc # "idle" => thread'[h].task = thread[h].task)
  BY <1>1 DEF Save, Idle, Job, ThreadState
<1>3. ASSUME NEW g \in Thread \ {h}
      PROVE  /\ thread'[g].pc = thread[g].pc
             /\ thread'[g].task = thread[g].task
             /\ thread'[g].status = thread[g].status
             /\ thread'[g].kind = thread[g].kind
             /\ thread'[g].lag = 0 =>
                  thread[g].lag = 0 /\ row'[thread[g].task] = row[thread[g].task]
             /\ thread[g].task # thread[h].task => thread'[g] = thread[g]
  <2>1. thread[g] \in ThreadState
    BY ThreadType DEF ThreadOK
  <2>2. CASE Fresh(h) /\ thread[g].task = thread[h].task /\ thread[g].lag < 2
    <3>1. thread'[g] = [thread[g] EXCEPT !.lag = @ + 1]
      BY <2>2 DEF Save
    <3>2. /\ thread'[g].pc = thread[g].pc /\ thread'[g].task = thread[g].task
          /\ thread'[g].status = thread[g].status /\ thread'[g].kind = thread[g].kind
          /\ thread'[g].lag # 0
      BY <2>1, <3>1 DEF ThreadState
    <3> QED BY <2>2, <3>2
  <2>3. CASE ~(Fresh(h) /\ thread[g].task = thread[h].task /\ thread[g].lag < 2)
    <3>1. thread'[g] = thread[g]
      BY <2>3 DEF Save
    <3>2. thread[g].lag = 0 => thread[g].lag < 2
      OBVIOUS
    <3>3. thread[g].lag = 0 => row'[thread[g].task] = row[thread[g].task]
      BY <2>3, <3>2 DEF Save, TypeOK
    <3> QED BY <3>1, <3>3
  <2> QED BY <2>2, <2>3
<1>4. \A t \in Task : row'[t] # row[t] => t = thread[h].task /\ Fresh(h) /\ row'[t] = s
  BY DEF Save, TypeOK
<1> QED BY <1>2, <1>3, <1>4

\* Goto and Finish touch one thread, and Goto only its place.
LEMMA GotoThreads ==
  ASSUME TypeOK, NEW h \in Thread, NEW pc, Goto(h, pc)
  PROVE  /\ thread'[h].pc = pc
         /\ thread'[h].task = thread[h].task
         /\ thread'[h].lag = thread[h].lag
         /\ thread'[h].status = thread[h].status
         /\ thread'[h].kind = thread[h].kind
         /\ \A g \in Thread \ {h} : thread'[g] = thread[g]
<1>1. thread[h] \in ThreadState
  BY ThreadType DEF ThreadOK
<1>2. thread'[h] = [thread[h] EXCEPT !.pc = pc]
  BY DEF Goto, TypeOK
<1>3. \A g \in Thread \ {h} : thread'[g] = thread[g]
  BY DEF Goto, TypeOK
<1> QED BY <1>1, <1>2, <1>3 DEF ThreadState

LEMMA FinishThreads ==
  ASSUME TypeOK, NEW h \in Thread, Finish(h)
  PROVE  /\ thread'[h].pc = "idle"
         /\ thread'[h].task = None
         /\ \A g \in Thread \ {h} : thread'[g] = thread[g]
BY DEF TypeOK, Finish, Idle, Job

LEMMA StepBusy ==
  ASSUME NEW h \in Thread, Step(h)
  PROVE  thread[h].pc # "idle"
BY DEF Step, ExecCheck, ExecQueue, ExecMark, ExecCount, ExecRecords, ExecSend, ExecUndo,
       ExecFail, TerminateWrite, CancelRead, CancelWrite, CancelRelease, StopWrite,
       CleanupWrite, ReassignWrite, TimeoutWrite, TimeoutRelease, RetryWrite,
       ReportEffect, ReportDecide, ReportWrite, Resend, ControlWrite, At

\* A handler begins at one of its entry points.
LEMMA BeginSpawns ==
  ASSUME NEW h \in Thread, NEW t \in Task, Begin(h, t)
  PROVE  \E op, j : /\ Spawn(op, h, t, j)
                    /\ j.pc \in {"check", "retry", "term", "stop", "cleanup", "reassign",
                                 "timeout", "control", "effect"}
<1>1. \A pc : Job(t, pc).pc = pc
  BY DEF Job
<1>2. \A s : ControlJob(t, s).pc = "control"
  BY DEF ControlJob, Job
<1>3. \A kind, acct : ReportJob(t, kind, acct).pc = "effect"
  BY DEF ReportJob
<1>4. CASE Start(h, t) \/ Requeue(h, t)
  BY <1>1, <1>4 DEF Start, Requeue
<1>5. CASE Retry(h, t) \/ Terminate(h, t) \/ Timeout(h, t)
  BY <1>1, <1>5 DEF Retry, Terminate, Timeout
<1>6. CASE Select(h, t)
  BY <1>1, <1>6 DEF Select
<1>7. CASE PauseResume(h, t) \/ Session(h, t)
  BY <1>2, <1>7 DEF PauseResume, Session
<1>8. CASE Report(h, t)
  BY <1>3, <1>8 DEF Report
<1> QED BY <1>4, <1>5, <1>6, <1>7, <1>8 DEF Begin

LEMMA SpawnThreads ==
  ASSUME TypeOK, NEW h \in Thread, NEW t, NEW op, NEW j, Spawn(op, h, t, j)
  PROVE  /\ thread'[h] = j
         /\ thread[h].pc = "idle"
         /\ \A g \in Thread \ {h} : thread'[g] = thread[g]
BY DEF TypeOK, Spawn, Free

-----------------------------------------------------------------------------
(* The load may exceed the capacity, but by less than the threads. *)

ClaimPC == {"mark", "count"}

LEMMA ClaimedShrinks ==
  ASSUME TypeOK, NEW h \in Thread, Step(h), ~(ExecCheck(h) /\ thread'[h].pc = "mark")
  PROVE  load' \cup Claimed' \subseteq load \cup Claimed
<1>s. ASSUME NEW s, NEW pc, pc \notin ClaimPC, Save(h, s, pc), UNCHANGED load
      PROVE  load' \cup Claimed' \subseteq load \cup Claimed
  BY <1>s, SaveThreads DEF Claimed, ClaimPC
<1>g. ASSUME NEW pc, pc \notin ClaimPC, Goto(h, pc), load' \subseteq load \cup {thread[h].task},
             load' \subseteq load \/ thread[h].pc = "count"
      PROVE  load' \cup Claimed' \subseteq load \cup Claimed
  <2>1. thread'[h].pc = pc /\ \A g \in Thread \ {h} : thread'[g] = thread[g]
    BY <1>g, GotoThreads
  <2>2. thread[h].pc = "count" => thread[h].task \in Claimed
    BY ThreadType DEF Claimed, ThreadOK, WellFormed
  <2> QED BY <1>g, <2>1, <2>2 DEF Claimed, ClaimPC
<1>f. ASSUME Finish(h), load' \subseteq load
      PROVE  load' \cup Claimed' \subseteq load \cup Claimed
  <2>1. thread'[h].pc = "idle" /\ \A g \in Thread \ {h} : thread'[g] = thread[g]
    BY <1>f, FinishThreads
  <2> QED BY <1>f, <2>1 DEF Claimed
<1>1. CASE ExecCheck(h)
  <2>1. Goto(h, "queue") \/ Goto(h, "fail")
    BY <1>1, GotoThreads DEF ExecCheck
  <2> QED BY <1>1, <2>1, <1>g DEF ExecCheck, ClaimPC
<1>2. CASE ExecMark(h)
  <2>1. thread[h].task \in Claimed
    BY <1>2, ThreadType DEF ExecMark, At, Claimed, ThreadOK, WellFormed
  <2>2. thread'[h].task = thread[h].task
    BY <1>2, SaveThreads DEF ExecMark
  <2> QED BY <1>2, <2>1, <2>2, SaveThreads DEF ExecMark, Claimed
<1>3. CASE \/ ExecQueue(h) \/ ExecFail(h) \/ TerminateWrite(h) \/ CancelWrite(h)
           \/ StopWrite(h) \/ CleanupWrite(h) \/ ReassignWrite(h) \/ TimeoutWrite(h)
           \/ RetryWrite(h) \/ ReportWrite(h) \/ ControlWrite(h)
  BY <1>3, <1>s DEF ExecQueue, ExecFail, TerminateWrite, CancelWrite, StopWrite, CleanupWrite,
                    ReassignWrite, TimeoutWrite, RetryWrite, ReportWrite, Answered,
                    ControlWrite, ClaimPC
<1>4. CASE ExecCount(h) \/ ExecRecords(h) \/ ExecUndo(h)
  BY <1>4, <1>g DEF ExecCount, ExecRecords, ExecUndo, At, ClaimPC
<1>5. CASE ExecSend(h) \/ ReportEffect(h)
  BY <1>5, <1>g, <1>f DEF ExecSend, ReportEffect, ClaimPC
<1>6. CASE CancelRelease(h) \/ TimeoutRelease(h)
  BY <1>6, <1>f DEF CancelRelease, TimeoutRelease
<1>7. CASE CancelRead(h)
  <2>1. CASE Finish(h)
    BY <1>7, <2>1, <1>f DEF CancelRead
  <2>2. CASE ~Finish(h)
    <3>1. thread' = [thread EXCEPT ![h] = Job(thread[h].task, "termWrite")]
      BY <1>7, <2>2 DEF CancelRead
    <3>2. thread'[h].pc = "termWrite" /\ \A g \in Thread \ {h} : thread'[g] = thread[g]
      BY <3>1 DEF Job, TypeOK
    <3> QED BY <1>7, <3>2 DEF CancelRead, Claimed
  <2> QED BY <2>1, <2>2
<1>8. CASE ReportDecide(h)
  <2>1. thread'[h].pc = "write" /\ \A g \in Thread \ {h} : thread'[g] = thread[g]
    BY <1>8, ThreadType DEF ReportDecide, ThreadOK, ThreadState, TypeOK
  <2> QED BY <1>8, <2>1 DEF ReportDecide, Claimed
<1>9. CASE Resend(h)
  <2>1. thread'[h].pc = "effect" /\ \A g \in Thread \ {h} : thread'[g] = thread[g]
    BY <1>9 DEF Resend, ReportJob, TypeOK
  <2> QED BY <1>9, <2>1 DEF Resend, Claimed
<1> QED BY <1>1, <1>2, <1>3, <1>4, <1>5, <1>6, <1>7, <1>8, <1>9 DEF Step

\* A set of values that the threads hold is no larger than the set of threads.
LEMMA ImageSize ==
  ASSUME NEW f, NEW S \in SUBSET {f[h] : h \in Thread}
  PROVE  IsFiniteSet(S) /\ Cardinality(S) <= Cardinality(Thread)
<1> DEFINE g == [h \in Thread |-> f[h]]
           T == {f[h] : h \in Thread}
<1>1. g \in Surjection(Thread, T)
  BY DEF Surjection
<1>2. IsFiniteSet(T) /\ Cardinality(T) <= Cardinality(Thread)
  BY <1>1, FS_Surjection, FiniteAssumption
<1>3. Cardinality(S) <= Cardinality(T) /\ IsFiniteSet(S)
  BY <1>2, FS_Subset
<1> QED BY <1>2, <1>3, FiniteAssumption, FS_CardinalityType

LEMMA ClaimedSize ==
  /\ IsFiniteSet(Claimed)
  /\ IsFiniteSet(Claimed') /\ Cardinality(Claimed') <= Cardinality(Thread)
<1>1. Claimed \in SUBSET {[k \in Thread |-> thread[k].task][h] : h \in Thread}
  BY DEF Claimed
<1>2. Claimed' \in SUBSET {[k \in Thread |-> thread'[k].task][h] : h \in Thread}
  BY DEF Claimed
<1> HIDE DEF Claimed
<1> QED BY <1>1, <1>2, ImageSize

LEMMA OvershootNext ==
  TypeOK /\ BoundedOvershoot /\ [Next]_vars => BoundedOvershoot'
<1> SUFFICES ASSUME TypeOK, BoundedOvershoot, [Next]_vars PROVE BoundedOvershoot'
  OBVIOUS
<1>f. IsFiniteSet(load) /\ IsFiniteSet(Claimed) /\ IsFiniteSet(Claimed')
  <2>1. load \in SUBSET Task
    BY DEF TypeOK
  <2>2. IsFiniteSet(load)
    BY <2>1, FiniteAssumption, FS_Subset
  <2> QED BY <2>2, ClaimedSize
<1>s. ASSUME load' \cup Claimed' \subseteq load \cup Claimed
      PROVE  BoundedOvershoot'
  <2>1. IsFiniteSet(load \cup Claimed)
    BY <1>f, FS_Union
  <2>2. Cardinality(load' \cup Claimed') <= Cardinality(load \cup Claimed)
    BY <1>s, <2>1, FS_Subset
  <2>3. Cardinality(load' \cup Claimed') \in Nat /\ Cardinality(load \cup Claimed) \in Nat
        /\ Cardinality(Thread) \in Nat
    BY <1>s, <2>1, FS_Subset, FS_CardinalityType, FiniteAssumption
  <2> QED BY <2>2, <2>3, MaxTasksAssumption DEF BoundedOvershoot
<1>1. ASSUME NEW h \in Thread, Step(h) PROVE BoundedOvershoot'
  <2>1. CASE ExecCheck(h) /\ thread'[h].pc = "mark"
    <3>1. ~Full /\ load' = load
      <4>1. ~Goto(h, "queue") /\ ~Goto(h, "fail")
        BY <2>1, GotoThreads
      <4> QED BY <2>1, <4>1 DEF ExecCheck
    <3>2. Cardinality(load' \cup Claimed') <= Cardinality(load) + Cardinality(Claimed')
      <4>1. Cardinality(load \cup Claimed') =
              Cardinality(load) + Cardinality(Claimed') - Cardinality(load \cap Claimed')
        BY <1>f, FS_Union
      <4>2. Cardinality(load \cap Claimed') \in Nat /\ Cardinality(load) \in Nat
            /\ Cardinality(Claimed') \in Nat
        BY <1>f, FS_Intersection, FS_CardinalityType
      <4> QED BY <3>1, <4>1, <4>2
    <3>3. Cardinality(Claimed') <= Cardinality(Thread)
      BY ClaimedSize
    <3>4. /\ Cardinality(load) \in Nat /\ Cardinality(Claimed') \in Nat
          /\ Cardinality(Thread) \in Nat /\ Cardinality(load' \cup Claimed') \in Nat
      BY <1>f, <3>1, FS_CardinalityType, FS_Union, FiniteAssumption
    <3>5. Cardinality(load) <= MaxTasks - 1
      BY <3>1, <3>4, MaxTasksAssumption DEF Full
    <3> QED BY <3>2, <3>3, <3>4, <3>5, MaxTasksAssumption DEF BoundedOvershoot
  <2>2. CASE ~(ExecCheck(h) /\ thread'[h].pc = "mark")
    BY <1>1, <2>2, <1>s, ClaimedShrinks
  <2> QED BY <2>1, <2>2
<1>2. ASSUME NEW h \in Thread, NEW t \in Task, Begin(h, t) PROVE BoundedOvershoot'
  <2>1. load' = load
    BY <1>2 DEF Begin, Start, Requeue, Retry, Terminate, Select, Timeout, PauseResume,
                Report, Session
  <2>2. ASSUME NEW op, NEW j, Spawn(op, h, t, j), j.pc \notin ClaimPC
        PROVE  Claimed' \subseteq Claimed
    <3>1. thread'[h] = j /\ \A g \in Thread \ {h} : thread'[g] = thread[g]
      BY <2>2, SpawnThreads
    <3> QED BY <2>2, <3>1 DEF Claimed, ClaimPC
  <2>3. PICK op, j : Spawn(op, h, t, j) /\ j.pc \notin ClaimPC
    BY <1>2, BeginSpawns DEF ClaimPC
  <2>4. Claimed' \subseteq Claimed
    BY <2>2, <2>3
  <2> QED BY <1>s, <2>1, <2>4
<1>3. CASE LinkDown \/ LinkUp \/ AgentRestart \/ UNCHANGED vars
  BY <1>3, <1>s DEF LinkDown, LinkUp, AgentRestart, vars, Claimed
<1>4. ASSUME NEW t \in Task, SkipAccount(t) \/ LoseReport(t) PROVE BoundedOvershoot'
  BY <1>4, <1>s DEF SkipAccount, LoseReport, Claimed
<1> QED BY <1>1, <1>2, <1>3, <1>4 DEF Next

\* Whatever handlers run together, the tasks that hold a slot or are about to
\* take one exceed max_concurrent_tasks by fewer than the platform's threads.
THEOREM OvershootIsBounded == Spec => []BoundedOvershoot
<1>1. Init => BoundedOvershoot
  <2> SUFFICES ASSUME Init PROVE BoundedOvershoot
    OBVIOUS
  <2>1. load \cup Claimed = {}
    <3>1. \A h \in Thread : thread[h].pc = "idle"
      BY DEF Init, Idle, Job
    <3> QED BY <3>1 DEF Init, Claimed
  <2>2. Cardinality(load \cup Claimed) = 0
    BY <2>1, FS_EmptySet
  <2>3. Cardinality(Thread) \in Nat
    BY FS_CardinalityType, FiniteAssumption
  <2> QED BY <2>2, <2>3, MaxTasksAssumption DEF BoundedOvershoot
<1> QED BY <1>1, OvershootNext, TypeCorrect, PTL DEF Spec

-----------------------------------------------------------------------------
(* One dispatch per task. *)

Complete(t) == \A a \in Account : recs[t][a] # "none"

\* Account rows come all at once, the agent plays nothing that lacks one, and the
\* thread about to send is the one that inserted them, if there are accounts.
DispatchInv ==
  /\ \A t \in Task : HasRecs(t) => Complete(t)
  /\ AgentHasRecords
  /\ \A h \in Thread : At(h, "send") => Complete(thread[h].task)
  /\ OneDispatch

\* Only createStatusRecords makes account rows and brings a thread to the send,
\* and only the send gives the agent a task.
LEMMA StepFrame ==
  ASSUME TypeOK, NEW h \in Thread, Step(h), ~ExecRecords(h)
  PROVE  /\ \A t \in Task, a \in Account :
              /\ recs'[t][a] = "none" <=> recs[t][a] = "none"
              /\ recs'[t][a] = "absent" <=> recs[t][a] = "absent"
         /\ \A g \in Thread : thread'[g].pc = "send" =>
              g # h /\ thread[g].pc = "send" /\ thread'[g].task = thread[g].task
         /\ ~ExecSend(h) => agent' = agent
<1> DEFINE Same == \A t \in Task, a \in Account :
                     /\ recs'[t][a] = "none" <=> recs[t][a] = "none"
                     /\ recs'[t][a] = "absent" <=> recs[t][a] = "absent"
           Threads == \A g \in Thread : thread'[g].pc = "send" =>
                        g # h /\ thread[g].pc = "send" /\ thread'[g].task = thread[g].task
<1>s. ASSUME NEW s, NEW pc, pc # "send", Save(h, s, pc) PROVE Threads
  BY <1>s, SaveThreads
<1>g. ASSUME NEW pc, pc # "send", Goto(h, pc) PROVE Threads
  BY <1>g, GotoThreads
<1>f. ASSUME Finish(h) PROVE Threads
  BY <1>f, FinishThreads
<1>w. ASSUME NEW t \in Task, NEW from, NEW s, s \notin NoRow, NoRow \cap from = {},
             recs' = SweepRecs(t, from, s)
      PROVE  Same
  BY <1>w DEF SweepRecs, TypeOK, NoRow
<1>t. thread[h].pc # "idle" => thread[h].task \in Task
  BY ThreadType DEF ThreadOK, WellFormed
<1>1. CASE ExecCheck(h) \/ ExecCount(h) \/ ExecUndo(h)
  BY <1>1, <1>g DEF ExecCheck, ExecCount, ExecUndo
<1>2. CASE \/ ExecQueue(h) \/ ExecMark(h) \/ ExecFail(h) \/ TerminateWrite(h) \/ CancelWrite(h)
           \/ ReassignWrite(h) \/ TimeoutWrite(h) \/ RetryWrite(h) \/ ReportWrite(h)
           \/ ControlWrite(h)
  BY <1>2, <1>s DEF ExecQueue, ExecMark, ExecFail, TerminateWrite, CancelWrite,
                    ReassignWrite, TimeoutWrite, RetryWrite, ReportWrite, Answered, ControlWrite
<1>3. CASE StopWrite(h) \/ CleanupWrite(h)
  <2>1. Threads /\ agent' = agent
    BY <1>3, <1>s DEF StopWrite, CleanupWrite
  <2>2. Same
    BY <1>3, <1>t, <1>w DEF StopWrite, CleanupWrite, At, BusyRec, NoRow
  <2> QED BY <2>1, <2>2
<1>4. CASE CancelRelease(h) \/ TimeoutRelease(h)
  <2>1. Threads /\ agent' = agent
    BY <1>4, <1>f DEF CancelRelease, TimeoutRelease
  <2>2. Same
    BY <1>4, <1>t, <1>w DEF CancelRelease, TimeoutRelease, At, OpenRec, NoRow
  <2> QED BY <2>1, <2>2
<1>5. CASE ExecSend(h)
  BY <1>5, <1>f, <1>g DEF ExecSend
<1>6. CASE CancelRead(h)
  <2>1. \A g \in Thread \ {h} : thread'[g] = thread[g]
    BY <1>6 DEF CancelRead, Finish, TypeOK
  <2>2. thread'[h].pc # "send"
    BY <1>6 DEF CancelRead, Finish, Idle, Job, TypeOK
  <2> QED BY <1>6, <2>1, <2>2 DEF CancelRead
<1>7. CASE ReportEffect(h)
  <2>1. Threads /\ agent' = agent
    BY <1>7, <1>f, <1>g DEF ReportEffect
  <2>2. Same
    <3>1. CASE UNCHANGED recs
      BY <3>1
    <3>2. CASE recs' = SetRec(thread[h].task, thread[h].acct, RecOf(thread[h].kind))
      <4>1. RecOf(thread[h].kind) \notin NoRow
        BY DEF RecOf, NoRow
      <4> QED BY <3>2, <4>1 DEF SetRec, TypeOK, NoRow
    <3> QED BY <1>7, <3>1, <3>2 DEF ReportEffect
  <2> QED BY <2>1, <2>2
<1>8. CASE ReportDecide(h)
  <2>1. \A g \in Thread \ {h} : thread'[g] = thread[g]
    BY <1>8 DEF ReportDecide, TypeOK
  <2>2. thread'[h].pc = "write"
    BY <1>8, ThreadType DEF ReportDecide, ThreadOK, ThreadState, TypeOK
  <2> QED BY <1>8, <2>1, <2>2 DEF ReportDecide
<1>9. CASE Resend(h)
  <2>1. thread'[h].pc = "effect" /\ \A g \in Thread \ {h} : thread'[g] = thread[g]
    BY <1>9 DEF Resend, ReportJob, TypeOK
  <2> QED BY <1>9, <2>1 DEF Resend
<1> QED BY <1>1, <1>2, <1>3, <1>4, <1>5, <1>6, <1>7, <1>8, <1>9 DEF Step

LEMMA DispatchNext ==
  TypeOK /\ DispatchInv /\ [Next]_vars => DispatchInv'
<1> SUFFICES ASSUME TypeOK, DispatchInv, [Next]_vars PROVE DispatchInv'
  OBVIOUS
<1> USE DEF At, Complete, HasRecs, HasAccounts, NoRow
<1>t. \A h \in Thread : thread[h].pc # "idle" => thread[h].task \in Task
  BY ThreadType DEF ThreadOK, WellFormed
<1>a. \A t \in Task : HasAccounts(t) /\ Complete(t) => HasRecs(t)
  OBVIOUS
<1>s. ASSUME \A t \in Task, a \in Account :
               /\ recs'[t][a] = "none" <=> recs[t][a] = "none"
               /\ recs'[t][a] = "absent" <=> recs[t][a] = "absent",
             \A g \in Thread : thread'[g].pc = "send" =>
                thread[g].pc = "send" /\ thread'[g].task = thread[g].task,
             \A t \in Task : agent'[t] = 0 \/ agent[t] # 0
      PROVE  DispatchInv'
  <2>1. \A t \in Task : (\E a \in Account : recs'[t][a] \notin NoRow)
                         => \A a \in Account : recs'[t][a] # "none"
    BY <1>s DEF DispatchInv
  <2>2. OneDispatch'
    BY <1>s, <1>t DEF DispatchInv, OneDispatch
  <2>3. AgentHasRecords'
    BY <1>s DEF DispatchInv, AgentHasRecords
  <2>4. \A h \in Thread : thread'[h].pc = "send" =>
            \A a \in Account : recs'[thread'[h].task][a] # "none"
    BY <1>s, <1>t, <2>1 DEF DispatchInv
  <2> QED BY <2>1, <2>2, <2>3, <2>4 DEF DispatchInv
<1>1. ASSUME NEW h \in Thread, Step(h) PROVE DispatchInv'
  <2> DEFINE t == thread[h].task
  <2>1. CASE ExecRecords(h)
    <3>0. t \in Task /\ \A g \in Thread \ {h} : thread'[g] = thread[g]
      BY <2>1, <1>t, GotoThreads DEF ExecRecords
    <3>1. CASE Goto(h, "undo") /\ UNCHANGED recs
      BY <2>1, <3>1, <1>s, GotoThreads DEF ExecRecords
    <3>2. CASE /\ ~HasRecs(t)
               /\ recs' = SweepRecs(t, {"none"}, "pending")
               /\ Goto(h, "send")
      <4>1. thread'[h].pc = "send" /\ thread'[h].task = t
        BY <3>2, GotoThreads
      <4>2. \A u \in Task \ {t} : recs'[u] = recs[u]
        BY <3>2 DEF SweepRecs, TypeOK
      <4>3. \A a \in Account : /\ recs'[t][a] # "none"
                               /\ recs'[t][a] = "absent" <=> recs[t][a] = "absent"
        BY <3>0, <3>2 DEF SweepRecs, TypeOK
      <4>4. agent' = agent
        BY <2>1 DEF ExecRecords
      <4>5. HasAccounts(t) => agent[t] = 0
        BY <3>0, <3>2, <1>a DEF DispatchInv, AgentHasRecords
      <4>6. HasAccounts(t) => \A g \in Thread : thread[g].pc = "send" => thread[g].task # t
        BY <3>0, <3>2, <1>a DEF DispatchInv
      <4>11. \A u \in Task : HasAccounts(u)' <=> HasAccounts(u)
        BY <4>2, <4>3
      <4>7. OneDispatch'
        BY <3>0, <4>1, <4>4, <4>5, <4>6, <4>11, <1>t DEF OneDispatch, DispatchInv
      <4>8. AgentHasRecords'
        BY <4>2, <4>3, <4>4 DEF AgentHasRecords, DispatchInv
      <4>9. \A g \in Thread : thread'[g].pc = "send" =>
            \A a \in Account : recs'[thread'[g].task][a] # "none"
        BY <3>0, <4>1, <4>2, <4>3, <1>t DEF DispatchInv
      <4>10. \A u \in Task : (\E a \in Account : recs'[u][a] \notin NoRow)
                              => \A a \in Account : recs'[u][a] # "none"
        BY <4>2, <4>3 DEF DispatchInv
      <4> QED BY <4>7, <4>8, <4>9, <4>10 DEF DispatchInv
    <3> QED BY <2>1, <3>1, <3>2 DEF ExecRecords
  <2>2. CASE ExecSend(h) /\ ~ExecRecords(h)
    <3>1. /\ t \in Task /\ Complete(t)
          /\ HasAccounts(t) =>
               \A g \in Thread \ {h} : thread[g].pc = "send" => thread[g].task # t
      BY <2>2, <1>t DEF ExecSend, DispatchInv, OneDispatch
    <3>2. CASE agent' = agent
      BY <1>1, <2>2, <3>2, <1>s, StepFrame
    <3>3. CASE agent' = [agent EXCEPT ![t] = First(t)] /\ recs' = recs
      <4>1. \A g \in Thread : thread'[g].pc = "send" =>
              g # h /\ thread[g].pc = "send" /\ thread'[g].task = thread[g].task
        BY <1>1, <2>2, StepFrame
      <4>2. \A u \in Task \ {t} : agent'[u] = agent[u]
        BY <3>3 DEF TypeOK
      <4>3. OneDispatch'
        BY <3>1, <3>3, <4>1, <4>2, <1>t DEF OneDispatch, DispatchInv
      <4>4. AgentHasRecords'
        BY <3>1, <3>3, <4>2 DEF AgentHasRecords, DispatchInv, Complete
      <4>5. \A g \in Thread : thread'[g].pc = "send" =>
            \A a \in Account : recs'[thread'[g].task][a] # "none"
        BY <3>3, <4>1 DEF DispatchInv, Complete
      <4> QED BY <3>3, <4>3, <4>4, <4>5 DEF DispatchInv, HasRecs, Complete
    <3> QED BY <2>2, <3>2, <3>3 DEF ExecSend
  <2>3. CASE ~ExecRecords(h) /\ ~ExecSend(h)
    BY <1>1, <2>3, <1>s, StepFrame
  <2> QED BY <2>1, <2>2, <2>3
<1>2. ASSUME NEW h \in Thread, NEW t \in Task, Begin(h, t) PROVE DispatchInv'
  <2>1. recs' = recs
    BY <1>2 DEF Begin, Start, Requeue, Retry, Terminate, Select, Timeout, PauseResume,
                Report, Session
  <2>2. PICK op, j : Spawn(op, h, t, j) /\ j.pc # "send"
    BY <1>2, BeginSpawns
  <2>3. \A g \in Thread : thread'[g].pc = "send" =>
          thread[g].pc = "send" /\ thread'[g].task = thread[g].task
    BY <2>2, SpawnThreads
  <2>4. \A u \in Task : agent'[u] = 0 \/ agent[u] # 0
    BY <1>2 DEF Begin, Start, Requeue, Retry, Terminate, Select, Timeout, PauseResume,
                Report, Session, TypeOK
  <2> QED BY <2>1, <2>3, <2>4, <1>s
<1>3. CASE LinkDown \/ LinkUp \/ AgentRestart \/ UNCHANGED vars
  BY <1>3, <1>s DEF LinkDown, LinkUp, AgentRestart, vars
<1>4. ASSUME NEW t \in Task, SkipAccount(t) \/ LoseReport(t) PROVE DispatchInv'
  <2>1. \A u \in Task, a \in Account : /\ recs'[u][a] = "none" <=> recs[u][a] = "none"
                                       /\ recs'[u][a] = "absent" <=> recs[u][a] = "absent"
    <3>1. ASSUME NEW s \in {"skipped", "failed"}, recs' = SetRec(t, agent[t], s)
          PROVE  \A u \in Task, a \in Account :
                    /\ recs'[u][a] = "none" <=> recs[u][a] = "none"
                    /\ recs'[u][a] = "absent" <=> recs[u][a] = "absent"
      BY <3>1 DEF SetRec, TypeOK
    <3> QED BY <1>4, <3>1 DEF SkipAccount, LoseReport
  <2>2. \A u \in Task : agent'[u] = 0 \/ agent[u] # 0
    BY <1>4, AccountsAssumption DEF SkipAccount, LoseReport, TypeOK
  <2>3. thread' = thread
    BY <1>4 DEF SkipAccount, LoseReport
  <2> QED BY <2>1, <2>2, <2>3, <1>s
<1> QED BY <1>1, <1>2, <1>3, <1>4 DEF Next

LEMMA DispatchInit == Init => DispatchInv
<1> SUFFICES ASSUME Init PROVE DispatchInv
  OBVIOUS
<1>1. \A h \in Thread : thread[h].pc = "idle"
  BY DEF Init, Idle, Job
<1>2. \A t \in Task, a \in Account : recs[t][a] \in NoRow
  BY DEF Init, NoRow
<1> QED BY <1>1, <1>2 DEF Init, DispatchInv, HasRecs, AgentHasRecords, OneDispatch, At

\* The unique key of the account rows lets one dispatch of a task with accounts
\* through, for any number of concurrent dispatchers.
THEOREM DispatchIsUnique == Spec => []OneDispatch
<1>1. DispatchInv => OneDispatch
  BY DEF DispatchInv
<1> QED BY <1>1, DispatchInit, DispatchNext, TypeCorrect, PTL DEF Spec

\* What the agent plays always has its account rows.
THEOREM ReportsFindTheirRows == Spec => []AgentHasRecords
<1>1. DispatchInv => AgentHasRecords
  BY DEF DispatchInv
<1> QED BY <1>1, DispatchInit, DispatchNext, TypeCorrect, PTL DEF Spec

-----------------------------------------------------------------------------
(* A task that ended stays ended, but for retry and the pausing. *)

\* What an entity that would still pass the version check knows of its row.
Knows(h) ==
  LET r == row[thread[h].task]
      s == thread[h].status
  IN  /\ thread[h].pc \in {"check", "queue", "mark"} => r = "pending"
      /\ thread[h].pc = "retry" => r \in {"failed", "pending"}
      /\ thread[h].pc \in {"effect", "decide"} => s = r
      /\ thread[h].pc = "write" => 
           \/ s \in Terminal
           \/ s = r
           \/ s = "running" /\ r = "pending"
      /\ thread[h].pc = "control" =>
           \/ s \in Terminal \cup {"running", "paused"}
           \/ s = r

VersionInv ==
  /\ \A h \in Thread : thread[h].pc # "idle" /\ Fresh(h) => Knows(h)
  /\ \A h \in Thread : thread[h].pc # "idle" => row[thread[h].task] # "none"
  /\ \A h \in Thread : thread[h].pc \in {"effect", "decide", "write", "control"} =>
                           thread[h].status # "none"
  /\ \A h \in Thread : thread[h].pc = "retry" => "retry" \in Ops
  /\ \A t \in Task : agent[t] # 0 => row[t] # "none"

Allowed(t) == row[t] \in Terminal =>
                \/ row'[t] \in Terminal
                \/ row[t] = "failed" /\ row'[t] = "pending" /\ "retry" \in Ops
                \/ /\ row'[t] \in {"running", "paused"}
                   /\ \E h \in Thread : thread[h].task = t /\ ControlWrite(h)

\* The invariant is kept and the rule obeyed by a step of thread h that leaves
\* the other threads what SaveThreads leaves them.
LEMMA VersionFrame ==
  ASSUME TypeOK, VersionInv, NEW h \in Thread,
         \A g \in Thread \ {h} :
           /\ thread'[g].pc = thread[g].pc
           /\ thread'[g].task = thread[g].task
           /\ thread'[g].status = thread[g].status
           /\ thread'[g].lag = 0 =>
                thread[g].lag = 0 /\ row'[thread[g].task] = row[thread[g].task],
         \A t \in Task : row[t] # "none" => row'[t] # "none",
         \A t \in Task : agent'[t] # 0 => agent[t] # 0 \/ row[t] # "none",
         thread'[h].pc # "idle" /\ thread'[h].lag = 0 => Knows(h)',
         thread'[h].pc # "idle" => row'[thread'[h].task] # "none",
         thread'[h].pc \in {"effect", "decide", "write", "control"} =>
           thread'[h].status # "none",
         thread'[h].pc = "retry" => "retry" \in Ops
  PROVE  VersionInv'
<1>t. \A g \in Thread : thread[g].pc # "idle" => thread[g].task \in Task
  BY ThreadType DEF ThreadOK, WellFormed
<1>1. ASSUME NEW g \in Thread, thread'[g].pc # "idle", thread'[g].lag = 0 PROVE Knows(g)'
  <2>1. CASE g = h
    BY <1>1, <2>1
  <2>2. CASE g # h
    <3>1. thread[g].pc # "idle" /\ Fresh(g)
      BY <1>1, <2>2 DEF Fresh
    <3>2. Knows(g)
      BY <3>1 DEF VersionInv
    <3>3. row'[thread'[g].task] = row[thread[g].task] /\ thread'[g].pc = thread[g].pc
          /\ thread'[g].status = thread[g].status
      BY <1>1, <2>2
    <3> QED BY <3>2, <3>3 DEF Knows
  <2> QED BY <2>1, <2>2
<1>2. \A g \in Thread : thread'[g].pc # "idle" => row'[thread'[g].task] # "none"
  BY <1>t DEF VersionInv
<1>3. \A t \in Task : agent'[t] # 0 => row'[t] # "none"
  BY DEF VersionInv
<1>4. /\ \A g \in Thread : thread'[g].pc \in {"effect", "decide", "write", "control"} =>
                             thread'[g].status # "none"
      /\ \A g \in Thread : thread'[g].pc = "retry" => "retry" \in Ops
  BY DEF VersionInv
<1> QED BY <1>1, <1>2, <1>3, <1>4 DEF VersionInv, Fresh

LEMMA VersionStep ==
  ASSUME TypeOK, VersionInv, NEW h \in Thread, Step(h)
  PROVE  VersionInv' /\ \A t \in Task : Allowed(t)
<1> DEFINE t == thread[h].task
<1>t. thread[h].pc # "idle" => t \in Task /\ row[t] # "none"
  BY ThreadType DEF ThreadOK, WellFormed, VersionInv
<1>s. ASSUME NEW s,
             NEW pc \in {"idle", "count", "termRead", "termRelease", "timeoutRelease", "resend"},
             thread[h].pc # "idle", Save(h, s, pc), agent' = agent, s # "none",
             Fresh(h) => \/ s \in Terminal
                         \/ row[t] \notin Terminal
                         \/ s = row[t]
                         \/ row[t] = "failed" /\ s = "pending" /\ "retry" \in Ops
                         \/ s \in {"running", "paused"} /\ ControlWrite(h)
      PROVE  VersionInv' /\ \A u \in Task : Allowed(u)
  <2>1. \A u \in Task : Allowed(u)
    BY <1>s, SaveThreads DEF Allowed
  <2>2. \A u \in Task : row[u] # "none" => row'[u] # "none"
    BY <1>s, SaveThreads
  <2>3. thread'[h].pc = pc /\ (pc # "idle" => thread'[h].task = t)
    BY <1>s, SaveThreads
  <2>4. Knows(h)'
    BY <1>s, <2>3 DEF Knows
  <2>5. VersionInv'
    BY <1>s, <1>t, <2>2, <2>3, <2>4, SaveThreads, VersionFrame
  <2> QED BY <2>1, <2>5
<1>r. row' = row => \A u \in Task : Allowed(u)
  BY DEF Allowed
<1>g. ASSUME NEW pc, thread[h].pc # "idle", Goto(h, pc), row' = row,
             \A u \in Task : agent'[u] # 0 => agent[u] # 0 \/ row[u] # "none",
             \/ pc \in {"records", "send", "undo", "fail", "resend"}
             \/ pc \in {"queue", "mark"} /\ thread[h].pc = "check"
             \/ pc = "decide" /\ thread[h].pc = "effect"
      PROVE  VersionInv' /\ \A u \in Task : Allowed(u)
  <2>1. /\ thread'[h].pc = pc /\ thread'[h].task = t /\ thread'[h].lag = thread[h].lag
        /\ thread'[h].status = thread[h].status
        /\ \A g \in Thread \ {h} : thread'[g] = thread[g]
    BY <1>g, GotoThreads
  <2>2. thread'[h].lag = 0 => Knows(h)'
    <3>1. thread'[h].lag = 0 => Knows(h)
      BY <1>g, <2>1 DEF VersionInv, Fresh
    <3> QED BY <1>g, <2>1, <3>1 DEF Knows
  <2>3. pc \in {"effect", "decide", "write", "control"} => thread[h].status # "none"
    BY <1>g DEF VersionInv
  <2>4. VersionInv'
    BY <1>g, <1>t, <2>1, <2>2, <2>3, VersionFrame
  <2> QED BY <1>g, <1>r, <2>4
<1>f. ASSUME Finish(h), row' = row,
             \A u \in Task : agent'[u] # 0 => agent[u] # 0 \/ row[u] # "none"
      PROVE  VersionInv' /\ \A u \in Task : Allowed(u)
  <2>1. thread'[h].pc = "idle" /\ \A g \in Thread \ {h} : thread'[g] = thread[g]
    BY <1>f, FinishThreads
  <2>2. VersionInv'
    BY <1>f, <2>1, VersionFrame
  <2> QED BY <1>f, <1>r, <2>2
<1> USE DEF At
<1>1. CASE ExecCheck(h)
  BY <1>1, <1>g DEF ExecCheck
<1>2. CASE ExecQueue(h)
  <2>1. Fresh(h) => row[t] = "pending"
    BY <1>2 DEF ExecQueue, VersionInv, Knows
  <2> QED BY <1>2, <2>1, <1>s DEF ExecQueue
<1>3. CASE ExecMark(h)
  <2>1. Fresh(h) => row[t] = "pending"
    BY <1>3 DEF ExecMark, VersionInv, Knows
  <2> QED BY <1>3, <2>1, <1>s DEF ExecMark, Terminal
<1>4. CASE ExecCount(h) \/ ExecRecords(h) \/ ExecUndo(h)
  BY <1>4, <1>g DEF ExecCount, ExecRecords, ExecUndo
<1>5. CASE ExecSend(h)
  <2>1. \A u \in Task : agent'[u] # 0 => agent[u] # 0 \/ row[u] # "none"
    BY <1>5, <1>t DEF ExecSend, TypeOK
  <2> QED BY <1>5, <2>1, <1>g, <1>f DEF ExecSend
<1>6. CASE \/ ExecFail(h) \/ TerminateWrite(h) \/ CancelWrite(h) \/ StopWrite(h)
           \/ CleanupWrite(h) \/ ReassignWrite(h) \/ TimeoutWrite(h)
  BY <1>6, <1>s DEF ExecFail, TerminateWrite, CancelWrite, StopWrite, CleanupWrite,
                    ReassignWrite, TimeoutWrite, Terminal
<1>7. CASE RetryWrite(h)
  <2>1. (Fresh(h) => row[t] \in {"failed", "pending"}) /\ "retry" \in Ops
    BY <1>7 DEF RetryWrite, VersionInv, Knows
  <2> QED BY <1>7, <2>1, <1>s DEF RetryWrite, Terminal
<1>8. CASE CancelRead(h)
  <2>1. CASE Finish(h)
    BY <1>8, <2>1, <1>f DEF CancelRead
  <2>2. CASE ~Finish(h)
    <3>1. thread' = [thread EXCEPT ![h] = Job(t, "termWrite")]
      BY <1>8, <2>2 DEF CancelRead
    <3>2. /\ thread'[h].pc = "termWrite" /\ thread'[h].task = t
          /\ \A g \in Thread \ {h} : thread'[g] = thread[g]
      BY <3>1 DEF Job, TypeOK
    <3>3. Knows(h)'
      BY <3>2 DEF Knows
    <3>4. VersionInv'
      BY <1>8, <1>t, <3>2, <3>3, VersionFrame DEF CancelRead
    <3> QED BY <1>8, <1>r, <3>4 DEF CancelRead
  <2> QED BY <2>1, <2>2
<1>9. CASE CancelRelease(h) \/ TimeoutRelease(h)
  BY <1>9, <1>f DEF CancelRelease, TimeoutRelease
<1>10. CASE ReportEffect(h)
  BY <1>10, <1>f, <1>g DEF ReportEffect
<1>11. CASE ReportDecide(h)
  <2>1. /\ thread'[h].pc = "write" /\ thread'[h].task = t /\ thread'[h].lag = thread[h].lag
        /\ thread'[h].status = Outcome(h)
        /\ \A g \in Thread \ {h} : thread'[g] = thread[g]
    BY <1>11, ThreadType DEF ReportDecide, ThreadOK, ThreadState, TypeOK
  <2>2. thread[h].status # "none" /\ (Fresh(h) => thread[h].status = row[t])
    BY <1>11 DEF ReportDecide, VersionInv, Knows
  <2>3. \/ Outcome(h) \in Terminal
        \/ Outcome(h) = thread[h].status
        \/ Outcome(h) = "running" /\ thread[h].status = "pending"
    BY DEF Outcome, Terminal
  <2>4. Outcome(h) # "none"
    BY <2>2, <2>3 DEF Terminal
  <2>5. row' = row /\ agent' = agent
    BY <1>11 DEF ReportDecide
  <2>6. thread'[h].lag = 0 => Knows(h)'
    <3>1. SUFFICES ASSUME Fresh(h) PROVE Knows(h)'
      BY <2>1 DEF Fresh
    <3>2. /\ row'[thread'[h].task] = row[t]
          /\ \/ thread'[h].status \in Terminal
             \/ thread'[h].status = row[t]
             \/ thread'[h].status = "running" /\ row[t] = "pending"
      BY <2>1, <2>2, <2>3, <2>5, <3>1
    <3> HIDE DEF t
    <3> QED BY <2>1, <3>2 DEF Knows, Terminal
  <2>7. row[t] # "none"
    BY <1>11, <1>t DEF ReportDecide
  <2>8. VersionInv'
    BY <2>1, <2>4, <2>5, <2>6, <2>7, VersionFrame
  <2> QED BY <1>r, <2>5, <2>8
<1>12. CASE ReportWrite(h)
  <2>1. /\ thread[h].status # "none"
        /\ Fresh(h) => \/ thread[h].status \in Terminal
                       \/ thread[h].status = row[t]
                       \/ row[t] = "pending"
    BY <1>12 DEF ReportWrite, VersionInv, Knows
  <2>2. PICK pc \in {"idle", "resend"} : Save(h, thread[h].status, pc)
    BY <1>12 DEF ReportWrite, Answered
  <2> QED BY <1>12, <2>1, <2>2, <1>s DEF ReportWrite, Terminal
<1>13. CASE Resend(h)
  <2>1. /\ thread'[h] = ReportJob(t, thread[h].kind, thread[h].acct)
        /\ \A g \in Thread \ {h} : thread'[g] = thread[g]
        /\ row' = row /\ agent' = agent /\ row[t] # "none"
    BY <1>13, <1>t DEF Resend, TypeOK
  <2>2. /\ thread'[h].pc = "effect" /\ thread'[h].task = t /\ thread'[h].status = row[t]
    BY <2>1 DEF ReportJob
  <2>3. Knows(h)'
    BY <2>1, <2>2 DEF Knows
  <2>4. VersionInv'
    BY <2>1, <2>2, <2>3, VersionFrame
  <2> QED BY <1>r, <2>1, <2>4
<1>14. CASE ControlWrite(h)
  <2>1. /\ thread[h].status # "none"
        /\ Fresh(h) => \/ thread[h].status \in Terminal
                       \/ thread[h].status \in {"running", "paused"} /\ ControlWrite(h)
                       \/ thread[h].status = row[t]
    BY <1>14 DEF ControlWrite, VersionInv, Knows
  <2>2. Save(h, thread[h].status, "idle") /\ agent' = agent /\ thread[h].pc # "idle"
    BY <1>14 DEF ControlWrite
  <2> QED BY <2>1, <2>2, <1>s
<1> QED BY <1>1, <1>2, <1>3, <1>4, <1>5, <1>6, <1>7, <1>8, <1>9, <1>10, <1>11, <1>12, <1>13,
           <1>14 DEF Step

LEMMA VersionBegin ==
  ASSUME TypeOK, VersionInv, NEW h \in Thread, NEW t \in Task, Begin(h, t)
  PROVE  VersionInv' /\ \A u \in Task : Allowed(u)
<1>b. ASSUME NEW op, NEW j, Spawn(op, h, t, j), j.task = t, row' = row, agent' = agent,
             row[t] # "none", j.pc \in {"check", "queue", "mark"} => row[t] = "pending",
             j.pc \notin {"effect", "decide", "write", "control"},
             j.pc = "retry" => row[t] \in {"failed", "pending"} /\ "retry" \in Ops
      PROVE  VersionInv' /\ \A u \in Task : Allowed(u)
  <2>1. thread'[h] = j /\ \A g \in Thread \ {h} : thread'[g] = thread[g]
    BY <1>b, SpawnThreads
  <2>2. Knows(h)'
    BY <1>b, <2>1 DEF Knows
  <2>3. VersionInv'
    BY <1>b, <2>1, <2>2, VersionFrame
  <2> QED BY <1>b, <2>3 DEF Allowed
<1>j. \A pc : Job(t, pc).pc = pc /\ Job(t, pc).task = t
  BY DEF Job
<1>1. CASE Start(h, t)
  <2>1. thread'[h] = Job(t, "check") /\ \A g \in Thread \ {h} : thread'[g] = thread[g]
    BY <1>1, SpawnThreads DEF Start
  <2>2. row'[t] = "pending" /\ \A u \in Task \ {t} : row'[u] = row[u]
    BY <1>1 DEF Start, TypeOK
  <2>3. \A g \in Thread \ {h} : thread[g].pc # "idle" => thread[g].task # t
    BY <1>1 DEF Start, VersionInv
  <2>4. Knows(h)'
    BY <2>1, <2>2, <1>j DEF Knows
  <2>5. \A u \in Task : Allowed(u)
    BY <1>1, <2>2 DEF Start, Allowed, Terminal
  <2>6. \A g \in Thread \ {h} : thread[g].task # t
    BY <2>3, ThreadType, NoneAssumption DEF ThreadOK, WellFormed, Idle, Job
  <2>7. \A g \in Thread \ {h} : row'[thread[g].task] = row[thread[g].task]
    BY <1>1, <2>6 DEF Start, TypeOK
  <2>8. \A u \in Task : row[u] # "none" => row'[u] # "none"
    BY <2>2
  <2>9. agent' = agent
    BY <1>1 DEF Start
  <2>10. VersionInv'
    BY <2>1, <2>2, <2>4, <2>7, <2>8, <2>9, <1>j, VersionFrame
  <2> QED BY <2>5, <2>10
<1>2. CASE Requeue(h, t)
  BY <1>2, <1>b, <1>j DEF Requeue
<1>3. CASE Retry(h, t)
  BY <1>3, <1>b, <1>j DEF Retry, Spawn
<1>4. CASE Terminate(h, t) \/ Select(h, t) \/ Timeout(h, t)
  BY <1>4, <1>b, <1>j DEF Terminate, Select, Timeout
<1>k. ASSUME NEW j, thread'[h] = j, \A g \in Thread \ {h} : thread'[g] = thread[g],
             j.task = t, j.pc \in {"effect", "control"}, row' = row, row[t] # "none",
             j.status # "none", \A u \in Task : agent'[u] # 0 => agent[u] # 0,
             \/ j.status = row[t]
             \/ j.pc = "control" /\ j.status \in {"running", "paused", "failed"}
      PROVE  VersionInv' /\ \A u \in Task : Allowed(u)
  <2>1. Knows(h)'
    BY <1>k DEF Knows, Terminal
  <2>2. VersionInv'
    BY <1>k, <2>1, VersionFrame
  <2> QED BY <1>k, <2>2 DEF Allowed
<1>c. ASSUME NEW s PROVE ControlJob(t, s).pc = "control" /\ ControlJob(t, s).task = t
                         /\ ControlJob(t, s).status = s
  BY DEF ControlJob, Job
<1>5. CASE PauseResume(h, t)
  <2>1. PICK s \in {"paused", "running"} : Spawn("pause", h, t, ControlJob(t, s))
    BY <1>5 DEF PauseResume
  <2>2. thread'[h] = ControlJob(t, s) /\ \A g \in Thread \ {h} : thread'[g] = thread[g]
    BY <2>1, SpawnThreads
  <2> QED BY <1>5, <1>c, <1>k, <2>2 DEF PauseResume
<1>6. CASE Report(h, t)
  <2>1. PICK m \in Reports(t) :
           /\ Spawn("report", h, t, ReportJob(t, m.kind, m.acct))
           /\ agent' = [agent EXCEPT ![t] = m.next]
    BY <1>6 DEF Report
  <2>2. /\ thread'[h] = ReportJob(t, m.kind, m.acct)
        /\ \A g \in Thread \ {h} : thread'[g] = thread[g]
    BY <2>1, SpawnThreads
  <2>3. LET j == ReportJob(t, m.kind, m.acct)
        IN  j.pc = "effect" /\ j.task = t /\ j.status = row[t]
    BY DEF ReportJob
  <2>4. row' = row /\ row[t] # "none" /\ \A u \in Task : agent'[u] # 0 => agent[u] # 0
    BY <1>6, <2>1 DEF Report, VersionInv, TypeOK
  <2> QED BY <1>k, <2>2, <2>3, <2>4
<1>7. CASE Session(h, t)
  <2>1. PICK s \in SessionStatus(row[t]) : Spawn("session", h, t, ControlJob(t, s))
    BY <1>7 DEF Session
  <2>2. thread'[h] = ControlJob(t, s) /\ \A g \in Thread \ {h} : thread'[g] = thread[g]
    BY <2>1, SpawnThreads
  <2>3. row' = row /\ row[t] # "none" /\ \A u \in Task : agent'[u] # 0 => agent[u] # 0
    BY <1>7 DEF Session, VersionInv, TypeOK
  <2>4. s = row[t] \/ s \in {"running", "paused", "failed"}
    BY <2>1 DEF SessionStatus
  <2> QED BY <1>c, <1>k, <2>2, <2>3, <2>4
<1> QED BY <1>1, <1>2, <1>3, <1>4, <1>5, <1>6, <1>7 DEF Begin

LEMMA VersionNext ==
  TypeOK /\ VersionInv /\ [Next]_vars => VersionInv' /\ \A t \in Task : Allowed(t)
<1> SUFFICES ASSUME TypeOK, VersionInv, [Next]_vars
             PROVE  VersionInv' /\ \A t \in Task : Allowed(t)
  OBVIOUS
<1>1. CASE LinkDown \/ LinkUp \/ AgentRestart \/ UNCHANGED vars
  <2>1. row' = row /\ thread' = thread /\ \A t \in Task : agent'[t] # 0 => agent[t] # 0
    BY <1>1 DEF LinkDown, LinkUp, AgentRestart, vars
  <2> QED BY <2>1 DEF VersionInv, Fresh, Knows, Allowed
<1>2. ASSUME NEW t \in Task, SkipAccount(t) \/ LoseReport(t)
      PROVE  VersionInv' /\ \A u \in Task : Allowed(u)
  <2>1. /\ row' = row /\ thread' = thread
        /\ \A u \in Task : agent'[u] # 0 => agent[u] # 0
    BY <1>2, AccountsAssumption DEF SkipAccount, LoseReport, TypeOK
  <2> QED BY <2>1 DEF VersionInv, Fresh, Knows, Allowed
<1> QED BY <1>1, <1>2, VersionStep, VersionBegin DEF Next

LEMMA VersionInit == Init => VersionInv
<1> SUFFICES ASSUME Init PROVE VersionInv
  OBVIOUS
<1>1. \A h \in Thread : thread[h].pc = "idle"
  BY DEF Init, Idle, Job
<1> QED BY <1>1 DEF Init, VersionInv

\* The optimistic lock keeps every ended task ended under any overlap of
\* handlers: only retry and the pausing bring one back.
THEOREM OnlyControlRevivesTasks == Spec => OnlyControlRevives
<1>1. TypeOK /\ VersionInv /\ [Next]_vars =>
        [\A t \in Task : row[t] \in Terminal =>
           \/ row'[t] \in Terminal
           \/ row[t] = "failed" /\ row'[t] = "pending" /\ "retry" \in Ops
           \/ /\ row'[t] \in {"running", "paused"}
              /\ \E h \in Thread : thread[h].task = t /\ ControlWrite(h)]_vars
  BY VersionNext DEF Allowed
<1>2. TypeOK /\ VersionInv /\ [Next]_vars => VersionInv'
  BY VersionNext
<1> QED BY <1>1, <1>2, VersionInit, TypeCorrect, PTL DEF Spec, OnlyControlRevives

-----------------------------------------------------------------------------
(* What a step leaves alone, and what the history keeps of it. *)

LEMMA StepOthers ==
  ASSUME TypeOK, NEW h \in Thread, Step(h)
  PROVE  /\ \A g \in Thread \ {h} :
              /\ thread'[g].pc = thread[g].pc /\ thread'[g].task = thread[g].task
              /\ thread[g].task # thread[h].task => thread'[g] = thread[g]
         /\ thread'[h].task \in {thread[h].task, None}
         /\ \A u \in Task \ {thread[h].task} :
              /\ row'[u] = row[u] /\ agent'[u] = agent[u] /\ recs'[u] = recs[u]
              /\ u \in load' <=> u \in load
<1> DEFINE t == thread[h].task
           Threads == /\ \A g \in Thread \ {h} :
                           /\ thread'[g].pc = thread[g].pc /\ thread'[g].task = thread[g].task
                           /\ thread[g].task # t => thread'[g] = thread[g]
                      /\ thread'[h].task \in {t, None}
           Rows == \A u \in Task \ {t} : row'[u] = row[u]
           Agents == \A u \in Task \ {t} : agent'[u] = agent[u]
           Recs == \A u \in Task \ {t} : recs'[u] = recs[u]
           Loads == \A u \in Task \ {t} : u \in load' <=> u \in load
<1>s. ASSUME NEW s, NEW pc, Save(h, s, pc) PROVE Threads /\ Rows
  <2>1. pc = "idle" => thread'[h].task = None
    BY <1>s DEF Save, Idle, Job
  <2> QED BY <1>s, <2>1, SaveThreads
<1>g. ASSUME NEW pc, Goto(h, pc) PROVE Threads
  BY <1>g, GotoThreads
<1>f. ASSUME Finish(h) PROVE Threads
  BY <1>f, FinishThreads
<1>m. ASSUME NEW j, j.task = t, thread' = [thread EXCEPT ![h] = j] PROVE Threads
  BY <1>m DEF TypeOK
<1>w. ASSUME NEW from, NEW s, recs' = SweepRecs(t, from, s) PROVE Recs
  BY <1>w DEF SweepRecs, TypeOK
<1>1. CASE ExecCheck(h)
  BY <1>1, <1>g DEF ExecCheck
<1>2. CASE \/ ExecQueue(h) \/ ExecMark(h) \/ ExecFail(h) \/ TerminateWrite(h) \/ CancelWrite(h)
           \/ ReassignWrite(h) \/ TimeoutWrite(h) \/ RetryWrite(h) \/ ReportWrite(h)
           \/ ControlWrite(h)
  BY <1>2, <1>s DEF ExecQueue, ExecMark, ExecFail, TerminateWrite, CancelWrite,
                    ReassignWrite, TimeoutWrite, RetryWrite, ReportWrite, ControlWrite
<1>3. CASE ExecCount(h) \/ ExecUndo(h)
  BY <1>3, <1>g DEF ExecCount, ExecUndo
<1>4. CASE ExecRecords(h)
  <2>1. Recs
    BY <1>4, <1>w DEF ExecRecords
  <2> QED BY <1>4, <2>1, <1>g DEF ExecRecords
<1>5. CASE ExecSend(h)
  <2>1. Agents
    BY <1>5 DEF ExecSend, TypeOK
  <2> QED BY <1>5, <2>1, <1>f, <1>g DEF ExecSend
<1>6. CASE StopWrite(h) \/ CleanupWrite(h)
  <2>1. Recs
    BY <1>6, <1>w DEF StopWrite, CleanupWrite
  <2> QED BY <1>6, <2>1, <1>s DEF StopWrite, CleanupWrite
<1>7. CASE CancelRelease(h) \/ TimeoutRelease(h)
  <2>1. Recs
    BY <1>7, <1>w DEF CancelRelease, TimeoutRelease
  <2> QED BY <1>7, <2>1, <1>f DEF CancelRelease, TimeoutRelease
<1>8. CASE CancelRead(h)
  <2>1. Job(t, "termWrite").task = t
    BY DEF Job
  <2> QED BY <1>8, <2>1, <1>f, <1>m DEF CancelRead
<1>9. CASE ReportEffect(h)
  <2>1. Recs
    BY <1>9 DEF ReportEffect, SetRec, TypeOK
  <2> QED BY <1>9, <2>1, <1>f, <1>g DEF ReportEffect
<1>10. CASE ReportDecide(h)
  <2>1. thread' = [thread EXCEPT ![h] = [thread[h] EXCEPT !.pc = "write", !.status = Outcome(h)]]
    BY <1>10 DEF ReportDecide
  <2>2. [thread[h] EXCEPT !.pc = "write", !.status = Outcome(h)].task = t
    BY ThreadType DEF ThreadOK, ThreadState
  <2>3. Threads
    BY <2>1, <2>2, <1>m
  <2> QED BY <1>10, <2>3 DEF ReportDecide
<1>11. CASE Resend(h)
  <2>1. ReportJob(t, thread[h].kind, thread[h].acct).task = t
    BY DEF ReportJob
  <2> QED BY <1>11, <2>1, <1>m DEF Resend
<1> QED BY <1>1, <1>2, <1>3, <1>4, <1>5, <1>6, <1>7, <1>8, <1>9, <1>10, <1>11 DEF Step

LEMMA BeginOthers ==
  ASSUME TypeOK, NEW h \in Thread, NEW t \in Task, Begin(h, t)
  PROVE  /\ thread[h].pc = "idle" /\ thread'[h].task = t /\ thread'[h].pc # "idle"
         /\ \A g \in Thread \ {h} : thread'[g] = thread[g]
         /\ recs' = recs /\ load' = load
         /\ \A u \in Task \ {t} : row'[u] = row[u] /\ agent'[u] = agent[u]
<1>b. ASSUME NEW op, NEW j, Spawn(op, h, t, j), j.task = t, j.pc # "idle"
      PROVE  /\ thread[h].pc = "idle" /\ thread'[h].task = t /\ thread'[h].pc # "idle"
             /\ \A g \in Thread \ {h} : thread'[g] = thread[g]
  BY <1>b, SpawnThreads
<1>j. /\ \A pc : Job(t, pc).pc = pc /\ Job(t, pc).task = t
      /\ \A s : ControlJob(t, s).pc = "control" /\ ControlJob(t, s).task = t
      /\ \A k, a : ReportJob(t, k, a).pc = "effect" /\ ReportJob(t, k, a).task = t
  BY DEF Job, ControlJob, ReportJob
<1>1. CASE Start(h, t)
  <2>1. \A u \in Task \ {t} : row'[u] = row[u]
    BY <1>1 DEF Start, TypeOK
  <2> QED BY <1>1, <1>b, <1>j, <2>1 DEF Start
<1>2. CASE \/ Requeue(h, t) \/ Retry(h, t) \/ Terminate(h, t) \/ Timeout(h, t) \/ Select(h, t)
           \/ PauseResume(h, t)
  BY <1>2, <1>b, <1>j DEF Requeue, Retry, Terminate, Timeout, Select, PauseResume
<1>3. CASE Report(h, t) \/ Session(h, t)
  <2>1. \A u \in Task \ {t} : agent'[u] = agent[u]
    BY <1>3 DEF Report, Session, TypeOK
  <2> QED BY <1>3, <1>b, <1>j, <2>1 DEF Report, Session
<1> QED BY <1>1, <1>2, <1>3 DEF Begin

\* A step of a busy thread is remembered of no task.
LEMMA StepRecalls ==
  ASSUME TypeOK, NEW h \in Thread, Step(h), Recall
  PROVE  \A u \in Task : past'[u] = past[u]
<1>1. \A g \in Thread : ~Starts(g)
  BY StepBusy, StepOthers DEF Starts
<1>2. \A u \in Task : Started(u) = {}
  BY <1>1 DEF Started
<1> QED BY <1>2 DEF Recall

LEMMA BeginRecalls ==
  ASSUME TypeOK, NEW h \in Thread, NEW t \in Task, Begin(h, t), Recall
  PROVE  /\ \A u \in Task \ {t} : past'[u] = past[u]
         /\ past[t] \subseteq past'[t] /\ thread'[h].pc \in past'[t]
         /\ Orderly(t)' => \A g \in Thread : thread[g].task # t
<1>1. /\ Starts(h) /\ thread'[h].task = t
      /\ \A g \in Thread \ {h} : ~Starts(g)
  BY BeginOthers DEF Starts
<1>2. \A u \in Task \ {t} : Started(u) = {}
  BY <1>1 DEF Started
<1>3. thread'[h].pc \in Started(t)
  BY <1>1 DEF Started
<1> QED BY <1>2, <1>3 DEF Recall, Orderly, Quiet

\* Nor is a step in which no thread moves.
LEMMA RestRecalls ==
  ASSUME thread' = thread, Recall
  PROVE  \A u \in Task : past'[u] = past[u]
<1>1. \A u \in Task : Started(u) = {}
  BY DEF Started, Starts
<1> QED BY <1>1 DEF Recall

LEMMA HistoryOf == HistSpec => Spec
<1>1. HistInit => Init
  BY DEF HistInit
<1>2. [HistNext]_histVars => [Next]_vars
  BY DEF HistNext, histVars
<1> QED BY <1>1, <1>2, PTL DEF HistSpec, Spec

-----------------------------------------------------------------------------
(* A running task at which handlers never met holds a slot.  A pause makes   *)
(* tasks running that hold none, and after both the cleanup and a retry the  *)
(* agent may still report on a task that is pending again.                   *)

Counts(t) == /\ Orderly(t) /\ "control" \notin past[t]
             /\ ~({"retry", "cleanup"} \subseteq past[t])

\* The agent plays no task that a handler is still to make running.
Played(t) == agent[t] # 0 =>
  /\ row[t] \notin {"none", "pending"}
  /\ "cleanup" \notin past[t] => row[t] # "failed"

Local(h) ==
  LET t == thread[h].task
      s == thread[h].status
  IN  /\ thread[h].lag = 0 /\ thread[h].pc # "idle"
      /\ thread[h].pc \in {"count", "records", "send", "undo", "fail"} => agent[t] = 0
      /\ thread[h].pc \in {"count", "records", "send"} => row[t] = "running"
      /\ thread[h].pc \in {"termRead", "timeoutRelease"} => row[t] = "cancelled"
      /\ thread[h].pc \notin {"termWrite", "termRelease", "control"}
      /\ thread[h].pc \in {"cleanup", "retry"} => thread[h].pc \in past[t]
      /\ thread[h].pc \in {"effect", "decide", "resend"} => row[t] \notin {"none", "pending"}
      /\ thread[h].pc \in ReportPC /\ thread[h].kind = "FAILED" => agent[t] = 0
      /\ thread[h].pc = "write" =>
           /\ s \notin {"none", "pending"}
           /\ s = "running" => row[t] = "running"
           /\ "cleanup" \notin past[t] /\ s = "failed" => agent[t] = 0

\* Between the two halves of a dispatch, a failure or a report the slot and the
\* row disagree.
MidStep(h) == \/ thread[h].pc \in {"count", "fail"}
              \/ thread[h].pc = "write" /\ thread[h].status \in Terminal

Counted(t) == \/ row[t] # "running"
              \/ t \in load
              \/ \E h \in Thread : thread[h].task = t /\ MidStep(h)

Alone(t) == \A g, h \in Thread : g # h /\ thread[g].task = t => thread[h].task # t

SerialTask(t) ==
  /\ Alone(t)
  /\ \A h \in Thread : thread[h].task = t => Local(h)
  /\ Played(t)
  /\ Counted(t)

SerialInv == \A t \in Task : Counts(t) => SerialTask(t)

\* Thread h moves within task t.
LEMMA SerialFrame ==
  ASSUME NEW h \in Thread, NEW t \in Task,
         \A g \in Thread \ {h} : thread'[g] = thread[g] /\ thread[g].task # t,
         thread'[h].task = t => Local(h)',
         agent'[t] # 0 => /\ row'[t] \notin {"none", "pending"}
                          /\ "cleanup" \notin past'[t] => row'[t] # "failed",
         row'[t] # "running" \/ t \in load' \/ (thread'[h].task = t /\ MidStep(h)')
  PROVE  SerialTask(t)'
<1>1. Alone(t)'
  BY DEF Alone
<1>2. \A g \in Thread : thread'[g].task = t => Local(g)'
  BY DEF Local
<1>3. Played(t)' /\ Counted(t)'
  BY DEF Played, Counted
<1> QED BY <1>1, <1>2, <1>3 DEF SerialTask

\* What happens at other tasks is nothing to u.
LEMMA SerialOther ==
  ASSUME NEW u \in Task, SerialTask(u),
         \A g \in Thread : thread[g].task = u \/ thread'[g].task = u => thread'[g] = thread[g],
         row'[u] = row[u], agent[u] = 0 => agent'[u] = 0, u \in load => u \in load',
         past'[u] = past[u]
  PROVE  SerialTask(u)'
<1>1. Alone(u)'
  BY DEF SerialTask, Alone
<1>2. ASSUME NEW g \in Thread, thread'[g].task = u PROVE Local(g)'
  <2>1. Local(g) /\ thread'[g] = thread[g] /\ thread[g].task = u
    BY <1>2 DEF SerialTask
  <2> QED BY <2>1 DEF Local
<1>3. Played(u)'
  BY DEF SerialTask, Played
<1>4. Counted(u)'
  BY DEF SerialTask, Counted, MidStep
<1> QED BY <1>1, <1>2, <1>3, <1>4 DEF SerialTask

LEMMA SerialStep ==
  ASSUME TypeOK, VersionInv, NEW h \in Thread, NEW t \in Task, thread[h].task = t, Step(h),
         past'[t] = past[t], Counts(t), SerialTask(t)
  PROVE  SerialTask(t)'
<1>b. thread[h].pc # "idle"
  BY StepBusy
<1>t. /\ Local(h) /\ Knows(h) /\ Fresh(h) /\ Played(t) /\ Counted(t)
      /\ \A g \in Thread \ {h} : thread[g].task # t
      /\ row[t] # "none" /\ t # None
  BY <1>b, NoneAssumption DEF SerialTask, Alone, VersionInv, Local, Fresh
<1>o. \A g \in Thread \ {h} : thread'[g] = thread[g]
  BY <1>t, StepOthers
<1>c. row[t] = "running" /\ ~MidStep(h) => t \in load
  BY <1>t DEF Counted
<1>p. agent[t] # 0 => /\ row[t] \notin {"none", "pending"}
                      /\ "cleanup" \notin past[t] => row[t] # "failed"
  BY <1>t DEF Played
<1>s. ASSUME NEW s \in Status, NEW pc \in {"idle", "count", "termRead", "timeoutRelease", "resend"},
             Save(h, s, pc), load' = load, agent' = agent,
             s # "running" \/ t \in load \/ pc = "count",
             agent[t] # 0 => s \notin {"none", "pending"} /\ ("cleanup" \notin past[t] => s # "failed"),
             pc = "count" => agent[t] = 0 /\ s = "running",
             pc \in {"termRead", "timeoutRelease"} => s = "cancelled",
             pc = "resend" => /\ s \notin {"none", "pending"}
                              /\ thread[h].kind = "FAILED" => agent[t] = 0
      PROVE  SerialTask(t)'
  <2>1. thread'[h].pc = pc
    BY <1>s, SaveThreads
  <2>2. row'[t] = s
    BY <1>s, <1>t DEF Save, TypeOK
  <2>3. pc = "idle" => thread'[h].task # t
    BY <1>s, <1>t DEF Save, Idle, Job
  <2>4. pc # "idle" => /\ thread'[h].task = t /\ thread'[h].lag = 0
                       /\ thread'[h].kind = thread[h].kind
    <3>1. pc # "idle" => thread'[h] = [thread[h] EXCEPT !.pc = pc, !.lag = 0]
      BY <1>s, <1>t DEF Save
    <3>2. thread[h] \in ThreadState
      BY ThreadType DEF ThreadOK
    <3> QED BY <3>1, <3>2 DEF ThreadState
  <2>5. pc # "idle" => Local(h)'
    BY <1>s, <2>1, <2>2, <2>4 DEF Local, ReportPC
  <2>6. pc = "count" => thread'[h].task = t /\ MidStep(h)'
    BY <2>1, <2>4 DEF MidStep
  <2>7. thread'[h].task = t => Local(h)'
    BY <2>3, <2>5
  <2>8. row'[t] # "running" \/ t \in load' \/ (thread'[h].task = t /\ MidStep(h)')
    BY <1>s, <2>2, <2>6
  <2>9. agent'[t] # 0 => /\ row'[t] \notin {"none", "pending"}
                         /\ "cleanup" \notin past'[t] => row'[t] # "failed"
    BY <1>s, <2>2
  <2> QED BY <1>o, <1>t, <2>7, <2>8, <2>9, SerialFrame
<1>g. ASSUME NEW pc, Goto(h, pc), row' = row, agent' = agent,
             row[t] # "running" \/ t \in load' \/ pc = "fail",
             \/ pc \in {"queue", "mark"} /\ thread[h].pc = "check"
             \/ pc \in {"undo", "fail"} /\ agent[t] = 0
             \/ pc \in {"records", "send"} /\ agent[t] = 0 /\ row[t] = "running"
             \/ pc \in {"decide", "resend"} /\ thread[h].pc = "effect"
      PROVE  SerialTask(t)'
  <2>1. /\ thread'[h].pc = pc /\ thread'[h].task = t /\ thread'[h].lag = 0
        /\ thread'[h].status = thread[h].status /\ thread'[h].kind = thread[h].kind
    BY <1>g, <1>t, GotoThreads DEF Local
  <2>2. Local(h)'
    BY <1>g, <1>t, <2>1 DEF Local, ReportPC
  <2>3. pc = "fail" => MidStep(h)'
    BY <2>1 DEF MidStep
  <2>4. row'[t] # "running" \/ t \in load' \/ (thread'[h].task = t /\ MidStep(h)')
    BY <1>g, <2>1, <2>3
  <2>5. agent'[t] # 0 => /\ row'[t] \notin {"none", "pending"}
                         /\ "cleanup" \notin past'[t] => row'[t] # "failed"
    BY <1>g, <1>p
  <2> QED BY <1>o, <1>t, <2>2, <2>4, <2>5, SerialFrame
<1>f. ASSUME Finish(h), row' = row,
             agent'[t] # 0 => /\ row[t] \notin {"none", "pending"}
                              /\ "cleanup" \notin past[t] => row[t] # "failed",
             row[t] # "running" \/ t \in load'
      PROVE  SerialTask(t)'
  <2>1. thread'[h].task # t
    BY <1>f, <1>t, FinishThreads
  <2>2. agent'[t] # 0 => /\ row'[t] \notin {"none", "pending"}
                         /\ "cleanup" \notin past'[t] => row'[t] # "failed"
    BY <1>f
  <2> QED BY <1>f, <1>o, <1>t, <2>1, <2>2, SerialFrame
<1> USE DEF At
<1>1. CASE ExecCheck(h)
  <2>1. row[t] = "pending" /\ agent[t] = 0
    BY <1>1, <1>t DEF ExecCheck, Knows, Played
  <2> QED BY <1>1, <2>1, <1>g DEF ExecCheck
<1>2. CASE ExecQueue(h)
  <2>1. row[t] = "pending" /\ agent[t] = 0
    BY <1>2, <1>t DEF ExecQueue, Knows, Played
  <2> QED BY <1>2, <2>1, <1>s DEF ExecQueue, Status
<1>3. CASE ExecMark(h)
  <2>1. row[t] = "pending" /\ agent[t] = 0
    BY <1>3, <1>t DEF ExecMark, Knows, Played
  <2> QED BY <1>3, <2>1, <1>s DEF ExecMark, Status
<1>4. CASE ExecCount(h) \/ ExecRecords(h) \/ ExecUndo(h)
  <2>1. agent[t] = 0
    BY <1>4, <1>t DEF ExecCount, ExecRecords, ExecUndo, Local
  <2>2. ~ExecCount(h) /\ row[t] = "running" => t \in load
    BY <1>4, <1>c DEF ExecRecords, ExecUndo, MidStep
  <2>3. ExecCount(h) \/ ExecRecords(h) => row[t] = "running"
    BY <1>t DEF ExecCount, ExecRecords, Local
  <2> QED BY <1>4, <2>1, <2>2, <2>3, <1>g DEF ExecCount, ExecRecords, ExecUndo
<1>5. CASE ExecSend(h)
  <2>1. agent[t] = 0 /\ row[t] = "running" /\ t \in load
    BY <1>5, <1>c, <1>t DEF ExecSend, Local, MidStep
  <2>2. CASE Goto(h, "undo") /\ agent' = agent
    BY <1>5, <2>1, <2>2, <1>g DEF ExecSend
  <2>3. CASE Finish(h)
    BY <1>5, <2>1, <2>3, <1>f DEF ExecSend
  <2> QED BY <1>5, <2>2, <2>3 DEF ExecSend
<1>6. CASE ExecFail(h)
  <2>1. agent[t] = 0
    BY <1>6, <1>t DEF ExecFail, Local
  <2> QED BY <1>6, <2>1, <1>s DEF ExecFail, Status
<1>7. CASE TerminateWrite(h) \/ StopWrite(h) \/ ReassignWrite(h) \/ TimeoutWrite(h)
  BY <1>7, <1>s DEF TerminateWrite, StopWrite, ReassignWrite, TimeoutWrite, Status
<1>8. CASE CleanupWrite(h)
  <2>1. "cleanup" \in past[t]
    BY <1>8, <1>t DEF CleanupWrite, Local
  <2> QED BY <1>8, <2>1, <1>s DEF CleanupWrite, Status
<1>9. CASE CancelRead(h)
  <2>1. row[t] = "cancelled"
    BY <1>9, <1>t DEF CancelRead, Local
  <2> QED BY <1>9, <1>p, <2>1, <1>f DEF CancelRead
<1>10. CASE CancelWrite(h) \/ CancelRelease(h)
  BY <1>10, <1>t DEF CancelWrite, CancelRelease, Local
<1>11. CASE TimeoutRelease(h)
  <2>1. row[t] = "cancelled"
    BY <1>11, <1>t DEF TimeoutRelease, Local
  <2> QED BY <1>11, <2>1, <1>f DEF TimeoutRelease
<1>12. CASE RetryWrite(h)
  <2>1. "cleanup" \notin past[t]
    BY <1>12, <1>t DEF RetryWrite, Local, Counts
  <2>2. agent[t] = 0
    BY <1>12, <1>t, <1>p, <2>1 DEF RetryWrite, Knows
  <2> QED BY <1>12, <2>2, <1>s DEF RetryWrite, Status
<1>13. CASE ReportEffect(h)
  <2>1. row[t] = "running" => t \in load
    BY <1>13, <1>c DEF ReportEffect, MidStep
  <2>2. CASE Finish(h)
    BY <1>13, <2>1, <1>p, <2>2, <1>f DEF ReportEffect
  <2>3. CASE Goto(h, "decide") \/ Goto(h, "resend")
    BY <1>13, <2>1, <2>3, <1>g DEF ReportEffect
  <2> QED BY <1>13, <2>2, <2>3 DEF ReportEffect
<1>14. CASE ReportDecide(h)
  <2>1. /\ row[t] = "running" => t \in load
        /\ thread[h].status = row[t] /\ row[t] \notin {"none", "pending"}
        /\ "cleanup" \notin past[t] /\ row[t] = "failed" => agent[t] = 0
        /\ thread[h].kind = "FAILED" => agent[t] = 0
    BY <1>14, <1>c, <1>t DEF ReportDecide, MidStep, Knows, Local, Played, ReportPC
  <2>2. /\ thread'[h].pc = "write" /\ thread'[h].task = t /\ thread'[h].lag = 0
        /\ thread'[h].status = Outcome(h) /\ thread'[h].kind = thread[h].kind
    BY <1>14, <1>t, ThreadType DEF ReportDecide, ThreadOK, ThreadState, TypeOK, Local
  <2>3. /\ Outcome(h) \notin {"none", "pending"}
        /\ Outcome(h) = "failed" => thread[h].kind = "FAILED" \/ row[t] = "failed"
        /\ Outcome(h) = "running" => row[t] = "running"
        /\ Ends(h) => Outcome(h) \in Terminal
    BY <2>1 DEF Outcome, Ends, Terminal
  <2>4. Local(h)'
    BY <1>14, <2>1, <2>2, <2>3 DEF ReportDecide, Local, ReportPC
  <2>5. row' = row /\ agent' = agent /\ load' = IF Ends(h) THEN load \ {t} ELSE load
    BY <1>14 DEF ReportDecide
  <2>6. row[t] # "running" \/ t \in load' \/ MidStep(h)'
    BY <2>1, <2>2, <2>3, <2>5 DEF MidStep
  <2>7. agent'[t] # 0 => /\ row'[t] \notin {"none", "pending"}
                         /\ "cleanup" \notin past'[t] => row'[t] # "failed"
    BY <1>p, <2>5
  <2> QED BY <1>o, <1>t, <2>2, <2>4, <2>5, <2>6, <2>7, SerialFrame
<1>15. CASE ReportWrite(h)
  <2>1. thread[h].status \in Status
    BY ThreadType DEF ThreadOK, ThreadState
  <2>2. /\ thread[h].status \notin {"none", "pending"}
        /\ "cleanup" \notin past[t] /\ thread[h].status = "failed" => agent[t] = 0
        /\ thread[h].status = "running" => row[t] = "running" /\ ~MidStep(h)
        /\ thread[h].kind = "FAILED" => agent[t] = 0
    BY <1>15, <1>t DEF ReportWrite, Local, MidStep, Terminal, ReportPC
  <2>3. PICK pc \in {"idle", "resend"} : Save(h, thread[h].status, pc)
    BY <1>15 DEF ReportWrite, Answered
  <2> QED BY <1>15, <1>c, <2>1, <2>2, <2>3, <1>s DEF ReportWrite
<1>16. CASE Resend(h)
  <2>1. /\ thread'[h] = ReportJob(t, thread[h].kind, thread[h].acct)
        /\ row' = row /\ agent' = agent /\ load' = load
    BY <1>16, <1>t DEF Resend, TypeOK
  <2>2. /\ thread'[h].pc = "effect" /\ thread'[h].task = t /\ thread'[h].lag = 0
        /\ thread'[h].kind = thread[h].kind
    BY <2>1 DEF ReportJob
  <2>3. /\ row[t] \notin {"none", "pending"}
        /\ thread[h].kind = "FAILED" => agent[t] = 0
        /\ row[t] = "running" => t \in load
    BY <1>16, <1>c, <1>t DEF Resend, Local, ReportPC, MidStep
  <2>4. Local(h)'
    BY <2>1, <2>2, <2>3 DEF Local, ReportPC
  <2>5. agent'[t] # 0 => /\ row'[t] \notin {"none", "pending"}
                         /\ "cleanup" \notin past'[t] => row'[t] # "failed"
    BY <1>p, <2>1
  <2> QED BY <1>o, <1>t, <2>1, <2>2, <2>3, <2>4, <2>5, SerialFrame
<1>17. CASE ControlWrite(h)
  BY <1>17, <1>t DEF ControlWrite, Local
<1> QED BY <1>1, <1>2, <1>3, <1>4, <1>5, <1>6, <1>7, <1>8, <1>9, <1>10, <1>11, <1>12, <1>13,
           <1>14, <1>15, <1>16, <1>17 DEF Step

LEMMA SerialBegin ==
  ASSUME TypeOK, VersionInv, NEW h \in Thread, NEW t \in Task, Begin(h, t), Recall,
         Counts(t)', SerialTask(t)
  PROVE  SerialTask(t)'
<1>r. /\ past[t] \subseteq past'[t] /\ thread'[h].pc \in past'[t]
      /\ \A g \in Thread : thread[g].task # t
      /\ \A g \in Thread \ {h} : thread'[g] = thread[g]
      /\ load' = load /\ thread'[h].pc # "idle"
  BY BeginRecalls, BeginOthers DEF Counts
<1>p. agent[t] # 0 => /\ row[t] \notin {"none", "pending"}
                      /\ "cleanup" \notin past[t] => row[t] # "failed"
  BY DEF SerialTask, Played
<1>c. row[t] # "running" \/ t \in load
  BY <1>r DEF SerialTask, Counted
<1>j. \A pc : Job(t, pc).pc = pc /\ Job(t, pc).task = t /\ Job(t, pc).lag = 0
  BY DEF Job
<1>1. CASE Start(h, t)
  <2>1. thread'[h] = Job(t, "check")
    BY <1>1, SpawnThreads DEF Start
  <2>2. row'[t] = "pending" /\ agent' = agent /\ agent[t] = 0
    BY <1>1, <1>p DEF Start, TypeOK
  <2>3. Local(h)'
    BY <2>1, <1>j DEF Local, ReportPC
  <2> QED BY <1>r, <2>2, <2>3, SerialFrame
<1>b. ASSUME NEW pc \in {"check", "retry", "term", "stop", "cleanup", "reassign", "timeout"},
             NEW op, Spawn(op, h, t, Job(t, pc)), row' = row, agent' = agent
      PROVE  SerialTask(t)'
  <2>1. thread'[h] = Job(t, pc)
    BY <1>b, SpawnThreads
  <2>2. Local(h)'
    BY <1>b, <2>1, <1>j, <1>r DEF Local, ReportPC
  <2> QED BY <1>b, <1>c, <1>p, <1>r, <2>2, SerialFrame
<1>2. CASE Requeue(h, t) \/ Retry(h, t) \/ Terminate(h, t) \/ Timeout(h, t) \/ Select(h, t)
  BY <1>2, <1>b DEF Requeue, Retry, Terminate, Timeout, Select
<1>3. CASE PauseResume(h, t) \/ Session(h, t)
  <2>1. \A s : ControlJob(t, s).pc = "control"
    BY DEF ControlJob, Job
  <2>2. thread'[h].pc = "control"
    BY <1>3, <2>1, SpawnThreads DEF PauseResume, Session
  <2> QED BY <1>r, <2>2 DEF Counts
<1>4. CASE Report(h, t)
  <2>1. PICK m \in Reports(t) :
           /\ Spawn("report", h, t, ReportJob(t, m.kind, m.acct))
           /\ agent' = [agent EXCEPT ![t] = m.next]
    BY <1>4 DEF Report
  <2>2. thread'[h] = ReportJob(t, m.kind, m.acct)
    BY <2>1, SpawnThreads
  <2>3. /\ thread'[h].pc = "effect" /\ thread'[h].task = t /\ thread'[h].lag = 0
        /\ thread'[h].kind = m.kind /\ row' = row
    BY <1>4, <2>2 DEF Report, ReportJob
  <2>4. m.kind = "FAILED" => m.next = 0
    BY DEF Reports, Say
  <2>5. agent[t] # 0 /\ (m.kind = "FAILED" => agent'[t] = 0)
    BY <1>4, <2>1, <2>4 DEF Report, TypeOK
  <2>6. Local(h)'
    BY <1>p, <2>3, <2>5 DEF Local, ReportPC
  <2> QED BY <1>c, <1>p, <1>r, <2>3, <2>5, <2>6, SerialFrame
<1> QED BY <1>1, <1>2, <1>3, <1>4 DEF Begin

LEMMA SerialNext ==
  TypeOK /\ VersionInv /\ SerialInv /\ [HistNext]_histVars => SerialInv'
<1> SUFFICES ASSUME TypeOK, VersionInv, SerialInv, [HistNext]_histVars,
                    NEW u \in Task, Counts(u)'
             PROVE  SerialTask(u)'
  BY DEF SerialInv
<1>n. u # None
  BY NoneAssumption
<1>m. past[u] \subseteq past'[u] => Counts(u) /\ SerialTask(u)
  BY DEF SerialInv, Counts, Orderly
<1>1. ASSUME row' = row, thread' = thread, load' = load, past'[u] = past[u],
             agent[u] = 0 => agent'[u] = 0
      PROVE  SerialTask(u)'
  BY <1>1, <1>m, SerialOther
<1>2. CASE (LinkDown \/ LinkUp \/ AgentRestart) /\ Recall
  BY <1>1, <1>2, RestRecalls DEF LinkDown, LinkUp, AgentRestart
<1>3. CASE UNCHANGED histVars
  BY <1>1, <1>3 DEF histVars, vars
<1>4. ASSUME NEW t \in Task, SkipAccount(t) \/ LoseReport(t), Recall PROVE SerialTask(u)'
  <2>1. agent[u] = 0 => agent'[u] = 0
    BY <1>4, AccountsAssumption DEF SkipAccount, LoseReport, TypeOK
  <2> QED BY <1>1, <1>4, <2>1, RestRecalls DEF SkipAccount, LoseReport
<1>5. ASSUME NEW h \in Thread, Step(h), Recall PROVE SerialTask(u)'
  <2>1. past'[u] = past[u]
    BY <1>5, StepRecalls
  <2>2. CASE thread[h].task = u
    BY <1>5, <1>m, <2>1, <2>2, SerialStep
  <2>3. CASE thread[h].task # u
    BY <1>5, <1>m, <1>n, <2>1, <2>3, StepOthers, SerialOther
  <2> QED BY <2>2, <2>3
<1>6. ASSUME NEW h \in Thread, NEW t \in Task, Begin(h, t), Recall PROVE SerialTask(u)'
  <2>1. CASE t = u
    BY <1>6, <1>m, <2>1, BeginRecalls, SerialBegin
  <2>2. CASE t # u
    <3>1. past'[u] = past[u]
      BY <1>6, <2>2, BeginRecalls
    <3>2. thread[h].task # u
      BY <1>6, <1>n, ThreadType, BeginOthers DEF ThreadOK, WellFormed, Idle, Job
    <3> QED BY <1>6, <1>m, <2>2, <3>1, <3>2, BeginOthers, SerialOther
  <2> QED BY <2>1, <2>2
<1> QED BY <1>2, <1>3, <1>4, <1>5, <1>6 DEF HistNext, Next

LEMMA SerialInit == HistInit => SerialInv
<1> SUFFICES ASSUME HistInit PROVE SerialInv
  OBVIOUS
<1>1. \A h \in Thread : thread[h].task = None
  BY DEF HistInit, Init, Idle, Job
<1> QED BY <1>1, NoneAssumption
        DEF HistInit, Init, SerialInv, SerialTask, Alone, Played, Counted

\* Whatever handlers run and overlap elsewhere, a running task at which no two of
\* them met, that nobody paused and that was not retried after the cleanup, holds a
\* slot of its agent.
THEOREM RunningTasksHoldSlots == HistSpec => []RunningIsCounted
<1>1. TypeOK /\ SerialInv => RunningIsCounted
  BY DEF SerialInv, SerialTask, Counts, Counted, RunningIsCounted, Quiet
<1>2. TypeOK /\ VersionInv /\ SerialInv /\ [HistNext]_histVars => SerialInv'
  BY SerialNext
<1>3. TypeOK /\ VersionInv /\ [Next]_vars => VersionInv'
  BY VersionNext
<1>4. Spec => []VersionInv
  BY <1>3, VersionInit, TypeCorrect, PTL DEF Spec
<1> QED BY <1>1, <1>2, <1>4, SerialInit, TypeCorrect, HistoryOf, PTL DEF HistSpec

-----------------------------------------------------------------------------
(* Nothing but a running task holds a slot, of the tasks that nobody paused  *)
(* or ended from the side.  Every other way out of running takes the slot    *)
(* back before the row is written (a report, a failed dispatch) or right     *)
(* after it (a timeout); the endings from the side do neither.               *)

SidePC == {"term", "termRead", "termWrite", "termRelease", "stop", "cleanup", "reassign"}

Balanced(t) == Orderly(t) /\ past[t] \cap ({"control"} \cup SideEntry) = {}

Released(t) == \/ t \notin load
               \/ row[t] = "running"
               \/ \E h \in Thread : thread[h].task = t /\ At(h, "timeoutRelease")

NotHeld(h) ==
  LET t == thread[h].task
  IN  /\ thread[h].pc = "fail" => t \notin load
      /\ thread[h].pc = "write" /\ thread[h].status # "running" => t \notin load
      /\ thread[h].pc \notin SidePC

ReleasedTask(t) ==
  /\ Released(t)
  /\ \A h \in Thread : thread[h].task = t => NotHeld(h)

ReleasedInv == \A t \in Task : Balanced(t) => ReleasedTask(t)

LEMMA BalancedCounts == ASSUME NEW t, Balanced(t) PROVE Counts(t)
BY DEF Balanced, Counts, SideEntry

\* Thread h moves within task t.
LEMMA ReleasedFrame ==
  ASSUME NEW h \in Thread, NEW t \in Task,
         \A g \in Thread \ {h} : thread'[g] = thread[g] /\ thread[g].task # t,
         thread'[h].task = t => NotHeld(h)',
         \/ t \notin load'
         \/ row'[t] = "running"
         \/ thread'[h].task = t /\ thread'[h].pc = "timeoutRelease"
  PROVE  ReleasedTask(t)'
<1>1. Released(t)'
  BY DEF Released, At
<1>2. \A g \in Thread : thread'[g].task = t => NotHeld(g)'
  BY DEF NotHeld
<1> QED BY <1>1, <1>2 DEF ReleasedTask

\* What happens at other tasks is nothing to u.
LEMMA ReleasedOther ==
  ASSUME NEW u \in Task, ReleasedTask(u),
         \A g \in Thread : thread[g].task = u \/ thread'[g].task = u => thread'[g] = thread[g],
         row'[u] = row[u], u \in load' <=> u \in load
  PROVE  ReleasedTask(u)'
<1>1. Released(u)'
  BY DEF ReleasedTask, Released, At
<1>2. ASSUME NEW g \in Thread, thread'[g].task = u PROVE NotHeld(g)'
  <2>1. NotHeld(g) /\ thread'[g] = thread[g] /\ thread[g].task = u
    BY <1>2 DEF ReleasedTask
  <2> QED BY <2>1 DEF NotHeld
<1> QED BY <1>1, <1>2 DEF ReleasedTask

LEMMA ReleasedStep ==
  ASSUME TypeOK, VersionInv, NEW h \in Thread, NEW t \in Task, thread[h].task = t, Step(h),
         SerialTask(t), ReleasedTask(t)
  PROVE  ReleasedTask(t)'
<1>b. thread[h].pc # "idle"
  BY StepBusy
<1>t. /\ Local(h) /\ Knows(h) /\ Fresh(h) /\ NotHeld(h) /\ Released(t)
      /\ \A g \in Thread \ {h} : thread[g].task # t
      /\ t # None
  BY <1>b, NoneAssumption DEF SerialTask, Alone, VersionInv, ReleasedTask, Local, Fresh
<1>o. \A g \in Thread \ {h} : thread'[g] = thread[g]
  BY <1>t, StepOthers
<1>c. row[t] # "running" /\ thread[h].pc # "timeoutRelease" => t \notin load
  BY <1>t DEF Released, At
<1>s. ASSUME NEW s \in Status, NEW pc, pc \notin SidePC \cup {"fail", "write"},
             Save(h, s, pc), load' = load,
             s = "running" \/ t \notin load \/ pc = "timeoutRelease"
      PROVE  ReleasedTask(t)'
  <2>1. /\ thread'[h].pc = pc
        /\ pc # "idle" => thread'[h].task = t
    BY <1>s, SaveThreads
  <2>2. row'[t] = s
    BY <1>s, <1>t DEF Save, TypeOK
  <2>3. NotHeld(h)'
    BY <1>s, <2>1 DEF NotHeld
  <2>4. pc = "timeoutRelease" => thread'[h].task = t /\ thread'[h].pc = "timeoutRelease"
    BY <2>1
  <2> QED BY <1>s, <1>o, <1>t, <2>2, <2>3, <2>4, ReleasedFrame
<1>g. ASSUME NEW pc, pc \notin SidePC \cup {"idle", "write"}, Goto(h, pc), row' = row,
             row[t] = "running" \/ t \notin load', pc = "fail" => t \notin load'
      PROVE  ReleasedTask(t)'
  <2>1. thread'[h].pc = pc /\ thread'[h].task = t
    BY <1>g, GotoThreads
  <2>2. NotHeld(h)'
    BY <1>g, <2>1 DEF NotHeld
  <2> QED BY <1>g, <1>o, <1>t, <2>2, ReleasedFrame
<1>f. ASSUME Finish(h), row' = row, row[t] = "running" \/ t \notin load'
      PROVE  ReleasedTask(t)'
  <2>1. thread'[h].task # t
    BY <1>f, <1>t, FinishThreads
  <2> QED BY <1>f, <1>o, <1>t, <2>1, ReleasedFrame
<1> USE DEF At
<1>1. CASE ExecCheck(h)
  <2>1. row[t] = "pending" /\ t \notin load
    BY <1>1, <1>c, <1>t DEF ExecCheck, Knows
  <2> QED BY <1>1, <2>1, <1>g DEF ExecCheck, SidePC
<1>2. CASE ExecQueue(h)
  <2>1. row[t] = "pending" /\ t \notin load
    BY <1>2, <1>c, <1>t DEF ExecQueue, Knows
  <2> QED BY <1>2, <2>1, <1>s DEF ExecQueue, Status, SidePC
<1>3. CASE ExecMark(h)
  BY <1>3, <1>s DEF ExecMark, Status, SidePC
<1>4. CASE ExecCount(h)
  <2>1. row[t] = "running"
    BY <1>4, <1>t DEF ExecCount, Local
  <2> QED BY <1>4, <2>1, <1>g DEF ExecCount, SidePC
<1>5. CASE ExecRecords(h)
  <2>1. row[t] = "running"
    BY <1>5, <1>t DEF ExecRecords, Local
  <2> QED BY <1>5, <2>1, <1>g DEF ExecRecords, SidePC
<1>6. CASE ExecSend(h)
  <2>1. row[t] = "running"
    BY <1>6, <1>t DEF ExecSend, Local
  <2> QED BY <1>6, <2>1, <1>f, <1>g DEF ExecSend, SidePC
<1>7. CASE ExecUndo(h)
  <2>1. t \notin load'
    BY <1>7 DEF ExecUndo
  <2> QED BY <1>7, <2>1, <1>g DEF ExecUndo, SidePC
<1>8. CASE ExecFail(h)
  <2>1. t \notin load
    BY <1>8, <1>t DEF ExecFail, NotHeld
  <2> QED BY <1>8, <2>1, <1>s DEF ExecFail, Status, SidePC
<1>9. CASE \/ TerminateWrite(h) \/ CancelRead(h) \/ CancelWrite(h) \/ CancelRelease(h)
           \/ StopWrite(h) \/ CleanupWrite(h) \/ ReassignWrite(h)
  BY <1>9, <1>t DEF NotHeld, SidePC, TerminateWrite, CancelRead, CancelWrite, CancelRelease,
                    StopWrite, CleanupWrite, ReassignWrite
<1>10. CASE TimeoutWrite(h)
  BY <1>10, <1>s DEF TimeoutWrite, Status, SidePC
<1>11. CASE TimeoutRelease(h)
  <2>1. t \notin load'
    BY <1>11 DEF TimeoutRelease
  <2> QED BY <1>11, <2>1, <1>f DEF TimeoutRelease
<1>12. CASE RetryWrite(h)
  <2>1. t \notin load
    BY <1>12, <1>c, <1>t DEF RetryWrite, Knows
  <2> QED BY <1>12, <2>1, <1>s DEF RetryWrite, Status, SidePC
<1>13. CASE ReportEffect(h)
  <2>1. row[t] = "running" \/ t \notin load
    BY <1>13, <1>c DEF ReportEffect
  <2> QED BY <1>13, <2>1, <1>f, <1>g DEF ReportEffect, SidePC
<1>14. CASE ReportDecide(h)
  <2>1. thread[h].status = row[t] /\ (row[t] # "running" => t \notin load)
    BY <1>14, <1>c, <1>t DEF ReportDecide, Knows
  <2>2. /\ thread'[h].pc = "write" /\ thread'[h].task = t /\ thread'[h].status = Outcome(h)
    BY <1>14, <1>t, ThreadType DEF ReportDecide, ThreadOK, ThreadState, TypeOK
  <2>3. row' = row /\ load' = IF Ends(h) THEN load \ {t} ELSE load
    BY <1>14 DEF ReportDecide
  <2>4. Ends(h) \/ Outcome(h) \in {"running", row[t]}
    BY <2>1 DEF Outcome, Ends
  <2>5. row[t] = "running" \/ t \notin load'
    BY <2>1, <2>3
  <2>6. Outcome(h) # "running" => t \notin load'
    BY <2>1, <2>3, <2>4
  <2>7. NotHeld(h)'
    BY <2>2, <2>6 DEF NotHeld, SidePC
  <2> QED BY <1>o, <1>t, <2>3, <2>5, <2>7, ReleasedFrame
<1>15. CASE ReportWrite(h)
  <2>1. thread[h].status \in Status
    BY ThreadType DEF ThreadOK, ThreadState
  <2>2. thread[h].status = "running" \/ t \notin load
    BY <1>15, <1>t DEF ReportWrite, NotHeld
  <2>3. PICK pc \in {"idle", "resend"} : Save(h, thread[h].status, pc)
    BY <1>15 DEF ReportWrite, Answered
  <2> QED BY <1>15, <2>1, <2>2, <2>3, <1>s DEF ReportWrite, SidePC
<1>16. CASE Resend(h)
  <2>1. /\ thread'[h] = ReportJob(t, thread[h].kind, thread[h].acct)
        /\ row' = row /\ load' = load
    BY <1>16, <1>t DEF Resend, TypeOK
  <2>2. thread'[h].pc = "effect"
    BY <2>1 DEF ReportJob
  <2>3. row[t] = "running" \/ t \notin load
    BY <1>16, <1>c DEF Resend
  <2>4. NotHeld(h)'
    BY <2>2 DEF NotHeld, SidePC
  <2> QED BY <1>o, <1>t, <2>1, <2>3, <2>4, ReleasedFrame
<1>17. CASE ControlWrite(h)
  BY <1>17, <1>t DEF ControlWrite, Local
<1> QED BY <1>1, <1>2, <1>3, <1>4, <1>5, <1>6, <1>7, <1>8, <1>9, <1>10, <1>11, <1>12, <1>13,
           <1>14, <1>15, <1>16, <1>17 DEF Step

LEMMA ReleasedBegin ==
  ASSUME TypeOK, VersionInv, NEW h \in Thread, NEW t \in Task, Begin(h, t), Recall,
         Balanced(t)', ReleasedTask(t)
  PROVE  ReleasedTask(t)'
<1>r. /\ thread'[h].pc \in past'[t]
      /\ \A g \in Thread : thread[g].task # t
      /\ \A g \in Thread \ {h} : thread'[g] = thread[g]
      /\ load' = load
  BY BeginRecalls, BeginOthers DEF Balanced
<1>1. t \notin load \/ row[t] = "running"
  BY <1>r DEF ReleasedTask, Released
<1>2. thread'[h].pc \in {"check", "retry", "timeout", "effect"}
  <2>1. PICK op, j : /\ Spawn(op, h, t, j)
                     /\ j.pc \in {"check", "retry", "term", "stop", "cleanup", "reassign",
                                  "timeout", "control", "effect"}
    BY BeginSpawns
  <2>2. thread'[h] = j
    BY <2>1, SpawnThreads
  <2> QED BY <1>r, <2>1, <2>2 DEF Balanced, SideEntry
<1>3. NotHeld(h)'
  BY <1>2 DEF NotHeld, SidePC
<1>4. row'[t] = row[t] \/ row[t] = "none"
  BY DEF Begin, Start, Requeue, Retry, Terminate, Select, Timeout, PauseResume, Report, Session
<1> QED BY <1>1, <1>3, <1>4, <1>r, ReleasedFrame

LEMMA ReleasedNext ==
  TypeOK /\ VersionInv /\ SerialInv /\ ReleasedInv /\ [HistNext]_histVars => ReleasedInv'
<1> SUFFICES ASSUME TypeOK, VersionInv, SerialInv, ReleasedInv, [HistNext]_histVars,
                    NEW u \in Task, Balanced(u)'
             PROVE  ReleasedTask(u)'
  BY DEF ReleasedInv
<1>n. u # None
  BY NoneAssumption
<1>m. past[u] \subseteq past'[u] => Balanced(u) /\ ReleasedTask(u) /\ SerialTask(u)
  <2>1. past[u] \subseteq past'[u] => Balanced(u)
    BY DEF Balanced, Orderly
  <2> QED BY <2>1, BalancedCounts DEF ReleasedInv, SerialInv
<1>1. ASSUME row' = row, thread' = thread, load' = load, past'[u] = past[u]
      PROVE  ReleasedTask(u)'
  BY <1>1, <1>m, ReleasedOther
<1>2. CASE /\ \/ LinkDown \/ LinkUp \/ AgentRestart
              \/ \E t \in Task : SkipAccount(t) \/ LoseReport(t)
           /\ Recall
  <2>1. row' = row /\ thread' = thread /\ load' = load
    BY <1>2 DEF LinkDown, LinkUp, AgentRestart, SkipAccount, LoseReport
  <2> QED BY <1>1, <1>2, <2>1, RestRecalls
<1>3. CASE UNCHANGED histVars
  BY <1>1, <1>3 DEF histVars, vars
<1>4. ASSUME NEW h \in Thread, Step(h), Recall PROVE ReleasedTask(u)'
  <2>1. past'[u] = past[u]
    BY <1>4, StepRecalls
  <2>2. CASE thread[h].task = u
    BY <1>4, <1>m, <2>1, <2>2, ReleasedStep
  <2>3. CASE thread[h].task # u
    BY <1>4, <1>m, <1>n, <2>1, <2>3, StepOthers, ReleasedOther
  <2> QED BY <2>2, <2>3
<1>5. ASSUME NEW h \in Thread, NEW t \in Task, Begin(h, t), Recall PROVE ReleasedTask(u)'
  <2>1. CASE t = u
    BY <1>5, <1>m, <2>1, BeginRecalls, ReleasedBegin
  <2>2. CASE t # u
    <3>1. past'[u] = past[u]
      BY <1>5, <2>2, BeginRecalls
    <3>2. thread[h].task # u
      BY <1>5, <1>n, ThreadType, BeginOthers DEF ThreadOK, WellFormed, Idle, Job
    <3> QED BY <1>5, <1>m, <2>2, <3>1, <3>2, BeginOthers, ReleasedOther
  <2> QED BY <2>1, <2>2
<1> QED BY <1>2, <1>3, <1>4, <1>5 DEF HistNext, Next

\* Whatever handlers run and overlap elsewhere, a task at which no two of them met
\* and that nobody paused or ended from the side holds a slot just while it is
\* running, whenever nobody is at it: reports, timeouts, failed dispatches, retries,
\* lost reports and agent restarts leak no slot and give none back twice.
THEOREM LoadIsTheRunning == HistSpec => []LoadIsExact
<1>1. HistInit => ReleasedInv
  <2> SUFFICES ASSUME HistInit PROVE ReleasedInv
    OBVIOUS
  <2>1. \A h \in Thread : thread[h].task = None
    BY DEF HistInit, Init, Idle, Job
  <2> QED BY <2>1, NoneAssumption DEF HistInit, Init, ReleasedInv, ReleasedTask, Released
<1>2. TypeOK /\ VersionInv /\ SerialInv /\ ReleasedInv /\ [HistNext]_histVars => ReleasedInv'
  BY ReleasedNext
<1>3. SerialInv /\ ReleasedInv => LoadIsExact
  <2> SUFFICES ASSUME SerialInv, ReleasedInv, NEW t \in Task, Quiet(t), Balanced(t)
               PROVE  t \in load <=> row[t] = "running"
    BY DEF LoadIsExact, Balanced
  <2>1. Counted(t) /\ Released(t)
    BY BalancedCounts DEF SerialInv, SerialTask, ReleasedInv, ReleasedTask
  <2> QED BY <2>1 DEF Counted, Released, Quiet
<1>4. TypeOK /\ VersionInv /\ SerialInv /\ [HistNext]_histVars => SerialInv'
  BY SerialNext
<1>5. TypeOK /\ VersionInv /\ [Next]_vars => VersionInv'
  BY VersionNext
<1>6. Spec => []VersionInv
  BY <1>5, VersionInit, TypeCorrect, PTL DEF Spec
<1> QED BY <1>1, <1>2, <1>3, <1>4, <1>6, SerialInit, TypeCorrect, HistoryOf, PTL DEF HistSpec

-----------------------------------------------------------------------------
(* At a task where no two handlers have met, what a report has decided still *)
(* holds when it is written: an account that is skipped meanwhile only adds  *)
(* to those that are through.                                                *)

Decided(h) ==
  LET t == thread[h].task
  IN  /\ thread[h].lag = 0 /\ thread[h].pc # "idle"
      /\ thread[h].pc \in {"write", "control"} /\ thread[h].status = "completed"
           => row[t] = "completed" \/ AllAccountsFinal(t)

SettledTask(t) ==
  /\ Alone(t)
  /\ \A h \in Thread : thread[h].task = t => Decided(h)

SettledInv == \A t \in Task : Orderly(t) => SettledTask(t)

Settles(t) == row[t] # "completed" /\ row'[t] = "completed"
                => HasAccounts(t) /\ \A a \in Account : recs[t][a] \in FinalRec

LEMMA FinalSettles ==
  ASSUME NEW t \in Task, AllAccountsFinal(t)
  PROVE  HasAccounts(t) /\ \A a \in Account : recs[t][a] \in FinalRec
BY DEF AllAccountsFinal, HasRecs, HasAccounts, NoRow

\* Thread h moves within task t.
LEMMA SettledFrame ==
  ASSUME NEW h \in Thread, NEW t \in Task,
         \A g \in Thread \ {h} : thread'[g] = thread[g] /\ thread[g].task # t,
         thread'[h].task = t => Decided(h)'
  PROVE  SettledTask(t)'
<1>1. Alone(t)'
  BY DEF Alone
<1>2. \A g \in Thread : thread'[g].task = t => Decided(g)'
  BY DEF Decided
<1> QED BY <1>1, <1>2 DEF SettledTask

\* What happens at other tasks is nothing to u, nor is an account of u that is skipped.
LEMMA SettledOther ==
  ASSUME NEW u \in Task, SettledTask(u),
         \A g \in Thread : thread[g].task = u \/ thread'[g].task = u => thread'[g] = thread[g],
         row'[u] = row[u], AllAccountsFinal(u) => AllAccountsFinal(u)'
  PROVE  SettledTask(u)'
<1>1. Alone(u)'
  BY DEF SettledTask, Alone
<1>2. ASSUME NEW g \in Thread, thread'[g].task = u PROVE Decided(g)'
  <2>1. Decided(g) /\ thread'[g] = thread[g] /\ thread[g].task = u
    BY <1>2 DEF SettledTask
  <2> QED BY <2>1 DEF Decided
<1> QED BY <1>1, <1>2 DEF SettledTask

LEMMA SettledStep ==
  ASSUME TypeOK, VersionInv, NEW h \in Thread, NEW t \in Task, thread[h].task = t, Step(h),
         SettledTask(t)
  PROVE  SettledTask(t)' /\ Settles(t)
<1>b. thread[h].pc # "idle"
  BY StepBusy
<1>t. /\ Decided(h) /\ Knows(h) /\ thread[h].lag = 0
      /\ \A g \in Thread \ {h} : thread[g].task # t
      /\ t # None
  BY <1>b, NoneAssumption DEF SettledTask, Alone, VersionInv, Decided, Fresh
<1>o. \A g \in Thread \ {h} : thread'[g] = thread[g]
  BY <1>t, StepOthers
<1>r. row' = row => Settles(t)
  BY DEF Settles
<1>s. ASSUME NEW s, NEW pc, pc \notin {"write", "control"}, Save(h, s, pc),
             s = "completed" => row[t] = "completed" \/ AllAccountsFinal(t)
      PROVE  SettledTask(t)' /\ Settles(t)
  <2>1. thread'[h].pc = pc /\ (row'[t] # row[t] => row'[t] = s)
    BY <1>s, <1>t, SaveThreads
  <2>2. pc = "idle" => thread'[h].task # t
    BY <1>s, <1>t DEF Save, Idle, Job
  <2>3. pc # "idle" => thread'[h].task = t /\ thread'[h].lag = 0
    <3>1. pc # "idle" => thread'[h] = [thread[h] EXCEPT !.pc = pc, !.lag = 0]
      BY <1>s, <1>t DEF Save, Fresh
    <3>2. thread[h] \in ThreadState
      BY ThreadType DEF ThreadOK
    <3> QED BY <3>1, <3>2 DEF ThreadState
  <2>4. thread'[h].task = t => Decided(h)'
    BY <1>s, <2>1, <2>2, <2>3 DEF Decided
  <2>5. SettledTask(t)'
    BY <1>o, <1>t, <2>4, SettledFrame
  <2>6. Settles(t)
    BY <1>s, <2>1, FinalSettles DEF Settles
  <2> QED BY <2>5, <2>6
<1>g. ASSUME NEW pc, pc \notin {"idle", "write", "control"}, Goto(h, pc), row' = row
      PROVE  SettledTask(t)' /\ Settles(t)
  <2>1. thread'[h].pc = pc /\ thread'[h].task = t /\ thread'[h].lag = 0
    BY <1>g, <1>t, GotoThreads
  <2>2. Decided(h)'
    BY <1>g, <2>1 DEF Decided
  <2> QED BY <1>g, <1>o, <1>r, <1>t, <2>2, SettledFrame
<1>f. ASSUME Finish(h), row' = row
      PROVE  SettledTask(t)' /\ Settles(t)
  <2>1. thread'[h].task # t
    BY <1>f, <1>t, FinishThreads
  <2> QED BY <1>f, <1>o, <1>r, <1>t, <2>1, SettledFrame
<1>j. ASSUME NEW j, thread' = [thread EXCEPT ![h] = j], j.task = t, j.lag = 0,
             j.pc \notin {"idle", "write", "control"}, row' = row
      PROVE  SettledTask(t)' /\ Settles(t)
  <2>1. thread'[h] = j
    BY <1>j DEF TypeOK
  <2>2. Decided(h)'
    BY <1>j, <2>1 DEF Decided
  <2> QED BY <1>j, <1>o, <1>r, <1>t, <2>2, SettledFrame
<1> USE DEF At
<1>1. CASE ExecCheck(h) \/ ExecCount(h) \/ ExecRecords(h) \/ ExecUndo(h)
  BY <1>1, <1>g DEF ExecCheck, ExecCount, ExecRecords, ExecUndo
<1>2. CASE \/ ExecQueue(h) \/ ExecMark(h) \/ ExecFail(h) \/ TerminateWrite(h) \/ CancelWrite(h)
           \/ StopWrite(h) \/ CleanupWrite(h) \/ ReassignWrite(h) \/ TimeoutWrite(h)
           \/ RetryWrite(h)
  BY <1>2, <1>s DEF ExecQueue, ExecMark, ExecFail, TerminateWrite, CancelWrite, StopWrite,
                    CleanupWrite, ReassignWrite, TimeoutWrite, RetryWrite
<1>3. CASE ExecSend(h)
  BY <1>3, <1>f, <1>g DEF ExecSend
<1>4. CASE CancelRelease(h) \/ TimeoutRelease(h)
  BY <1>4, <1>f DEF CancelRelease, TimeoutRelease
<1>5. CASE CancelRead(h)
  <2>1. /\ Job(t, "termWrite").task = t /\ Job(t, "termWrite").lag = 0
        /\ Job(t, "termWrite").pc = "termWrite"
    BY DEF Job
  <2> QED BY <1>5, <2>1, <1>f, <1>j DEF CancelRead
<1>6. CASE ReportEffect(h)
  BY <1>6, <1>f, <1>g DEF ReportEffect
<1>7. CASE ReportDecide(h)
  <2>1. /\ thread'[h].pc = "write" /\ thread'[h].task = t /\ thread'[h].lag = 0
        /\ thread'[h].status = Outcome(h)
        /\ row' = row /\ recs' = recs
    BY <1>7, <1>t, ThreadType DEF ReportDecide, ThreadOK, ThreadState, TypeOK
  <2>2. Outcome(h) = "completed" => row[t] = "completed" \/ AllAccountsFinal(t)
    <3>1. thread[h].status = row[t]
      BY <1>7, <1>t DEF ReportDecide, Knows
    <3> QED BY <3>1 DEF Outcome, Ends
  <2>3. Decided(h)'
    BY <2>1, <2>2 DEF Decided, AllAccountsFinal, HasRecs
  <2> QED BY <1>o, <1>r, <1>t, <2>1, <2>3, SettledFrame
<1>8. CASE ReportWrite(h)
  <2>1. PICK pc \in {"idle", "resend"} : Save(h, thread[h].status, pc)
    BY <1>8 DEF ReportWrite, Answered
  <2>2. thread[h].status = "completed" => row[t] = "completed" \/ AllAccountsFinal(t)
    BY <1>8, <1>t DEF ReportWrite, Decided
  <2> QED BY <1>8, <2>1, <2>2, <1>s DEF ReportWrite
<1>9. CASE Resend(h)
  <2>1. LET j == ReportJob(t, thread[h].kind, thread[h].acct)
        IN  j.task = t /\ j.lag = 0 /\ j.pc = "effect"
    BY DEF ReportJob
  <2> QED BY <1>9, <2>1, <1>j DEF Resend
<1>10. CASE ControlWrite(h)
  <2>1. thread[h].status = "completed" => row[t] = "completed" \/ AllAccountsFinal(t)
    BY <1>10, <1>t DEF ControlWrite, Decided
  <2> QED BY <1>10, <2>1, <1>s DEF ControlWrite
<1> QED BY <1>1, <1>2, <1>3, <1>4, <1>5, <1>6, <1>7, <1>8, <1>9, <1>10 DEF Step

LEMMA BeginSettles ==
  ASSUME TypeOK, NEW h \in Thread, NEW t \in Task, Begin(h, t)
  PROVE  \A u \in Task : Settles(u)
<1>1. row' = row \/ Start(h, t)
  BY DEF Begin, Start, Requeue, Retry, Terminate, Select, Timeout, PauseResume, Report, Session
<1>2. Start(h, t) => row'[t] = "pending"
  BY DEF Start, TypeOK
<1> QED BY <1>1, <1>2, BeginOthers DEF Settles

LEMMA SettledBegin ==
  ASSUME TypeOK, NEW h \in Thread, NEW t \in Task, Begin(h, t), Recall, Orderly(t)'
  PROVE  SettledTask(t)'
<1>r. /\ \A g \in Thread : thread[g].task # t
      /\ \A g \in Thread \ {h} : thread'[g] = thread[g]
  BY BeginRecalls, BeginOthers
<1>b. ASSUME NEW op, NEW j, Spawn(op, h, t, j), j.lag = 0, j.pc # "idle",
             j.task = t, j.pc \in {"write", "control"} /\ j.status = "completed"
                           => row'[t] = "completed"
      PROVE  SettledTask(t)'
  <2>1. thread'[h] = j
    BY <1>b, SpawnThreads
  <2>2. Decided(h)'
    BY <1>b, <2>1 DEF Decided
  <2> QED BY <1>r, <2>2, SettledFrame
<1>j. \A pc : Job(t, pc).pc = pc /\ Job(t, pc).task = t /\ Job(t, pc).lag = 0
  BY DEF Job
<1>c. \A s : /\ ControlJob(t, s).pc = "control" /\ ControlJob(t, s).task = t
             /\ ControlJob(t, s).status = s /\ ControlJob(t, s).lag = 0
  BY DEF ControlJob, Job
<1>1. CASE \/ Start(h, t) \/ Requeue(h, t) \/ Retry(h, t) \/ Terminate(h, t) \/ Timeout(h, t)
           \/ Select(h, t)
  BY <1>1, <1>b, <1>j DEF Start, Requeue, Retry, Terminate, Timeout, Select
<1>2. CASE PauseResume(h, t)
  BY <1>2, <1>b, <1>c DEF PauseResume
<1>3. CASE Report(h, t)
  <2>1. PICK m \in Reports(t) : Spawn("report", h, t, ReportJob(t, m.kind, m.acct))
    BY <1>3 DEF Report
  <2>2. LET j == ReportJob(t, m.kind, m.acct)
        IN  j.task = t /\ j.lag = 0 /\ j.pc = "effect"
    BY DEF ReportJob
  <2> QED BY <1>b, <2>1, <2>2
<1>4. CASE Session(h, t)
  <2>1. PICK s \in SessionStatus(row[t]) : Spawn("session", h, t, ControlJob(t, s))
    BY <1>4 DEF Session
  <2>2. s = "completed" => row'[t] = "completed"
    BY <1>4, <2>1 DEF Session, SessionStatus
  <2> QED BY <1>b, <1>c, <2>1, <2>2
<1> QED BY <1>1, <1>2, <1>3, <1>4 DEF Begin

LEMMA SkipKeepsFinal ==
  ASSUME TypeOK, NEW t \in Task, SkipAccount(t), NEW u \in Task, AllAccountsFinal(u)
  PROVE  AllAccountsFinal(u)'
<1>1. PICK s \in {"skipped", "failed"} : recs' = SetRec(t, agent[t], s)
  BY DEF SkipAccount
<1>2. \A a \in Account : recs'[u][a] \in {recs[u][a], s}
  BY <1>1 DEF SetRec, TypeOK
<1>3. \A a \in Account : recs'[u][a] \in FinalRec
  BY <1>2 DEF AllAccountsFinal, FinalRec
<1>4. HasRecs(u)'
  BY <1>3 DEF AllAccountsFinal, HasRecs, FinalRec, NoRow
<1> QED BY <1>3, <1>4 DEF AllAccountsFinal

LEMMA SettledNext ==
  TypeOK /\ VersionInv /\ SettledInv /\ [HistNext]_histVars
    => SettledInv' /\ \A t \in Task : Orderly(t) => Settles(t)
<1> SUFFICES ASSUME TypeOK, VersionInv, SettledInv, [HistNext]_histVars, NEW u \in Task
             PROVE  /\ Orderly(u)' => SettledTask(u)'
                    /\ Orderly(u) => Settles(u)
  BY DEF SettledInv
<1>n. u # None
  BY NoneAssumption
<1>m. /\ past[u] \subseteq past'[u] /\ Orderly(u)' => Orderly(u)
      /\ Orderly(u) => SettledTask(u)
  BY DEF SettledInv, Orderly
<1>1. ASSUME row' = row, thread' = thread, AllAccountsFinal(u) => AllAccountsFinal(u)',
             past'[u] = past[u]
      PROVE  (Orderly(u)' => SettledTask(u)') /\ Settles(u)
  <2>1. Settles(u)
    BY <1>1 DEF Settles
  <2>2. Orderly(u)' => SettledTask(u)
    BY <1>1, <1>m
  <2>3. SettledTask(u) => SettledTask(u)'
    BY <1>1, SettledOther
  <2> QED BY <2>1, <2>2, <2>3
<1>2. CASE /\ LinkDown \/ LinkUp \/ AgentRestart \/ \E t \in Task : LoseReport(t)
           /\ Recall
  <2>1. row' = row /\ thread' = thread /\ recs' = recs
    BY <1>2 DEF LinkDown, LinkUp, AgentRestart, LoseReport
  <2>2. AllAccountsFinal(u) => AllAccountsFinal(u)'
    BY <2>1 DEF AllAccountsFinal, HasRecs
  <2> QED BY <1>1, <1>2, <2>1, <2>2, RestRecalls
<1>3. CASE UNCHANGED histVars
  <2>1. row' = row /\ thread' = thread /\ recs' = recs /\ past' = past
    BY <1>3 DEF histVars, vars
  <2>2. AllAccountsFinal(u) => AllAccountsFinal(u)'
    BY <2>1 DEF AllAccountsFinal, HasRecs
  <2> QED BY <1>1, <2>1, <2>2
<1>4. ASSUME NEW t \in Task, SkipAccount(t), Recall
      PROVE  (Orderly(u)' => SettledTask(u)') /\ Settles(u)
  <2>1. row' = row /\ thread' = thread
    BY <1>4 DEF SkipAccount
  <2>2. AllAccountsFinal(u) => AllAccountsFinal(u)'
    BY <1>4, SkipKeepsFinal
  <2> QED BY <1>1, <1>4, <2>1, <2>2, RestRecalls
<1>5. ASSUME NEW h \in Thread, Step(h), Recall
      PROVE  /\ Orderly(u)' => SettledTask(u)'
             /\ Orderly(u) => Settles(u)
  <2>1. past'[u] = past[u]
    BY <1>5, StepRecalls
  <2>m. Orderly(u)' => Orderly(u)
    BY <1>m, <2>1
  <2>2. CASE thread[h].task = u
    <3>1. SettledTask(u) => SettledTask(u)' /\ Settles(u)
      BY <1>5, <2>2, SettledStep
    <3> QED BY <1>m, <2>m, <3>1
  <2>3. CASE thread[h].task # u
    <3>1. /\ row'[u] = row[u] /\ recs'[u] = recs[u]
          /\ \A g \in Thread : thread[g].task = u \/ thread'[g].task = u => thread'[g] = thread[g]
      BY <1>5, <1>n, <2>3, StepOthers
    <3>2. AllAccountsFinal(u) => AllAccountsFinal(u)'
      BY <3>1 DEF AllAccountsFinal, HasRecs
    <3>3. SettledTask(u) => SettledTask(u)'
      BY <3>1, <3>2, SettledOther
    <3>4. Settles(u)
      BY <3>1 DEF Settles
    <3> QED BY <1>m, <2>m, <3>3, <3>4
  <2> QED BY <2>2, <2>3
<1>6. ASSUME NEW h \in Thread, NEW t \in Task, Begin(h, t), Recall
      PROVE  (Orderly(u)' => SettledTask(u)') /\ Settles(u)
  <2>1. Settles(u)
    BY <1>6, BeginSettles
  <2>2. CASE t = u
    BY <1>6, <2>1, <2>2, SettledBegin
  <2>3. CASE t # u
    <3>1. past'[u] = past[u]
      BY <1>6, <2>3, BeginRecalls
    <3>2. thread[h].task # u
      BY <1>6, <1>n, ThreadType, BeginOthers DEF ThreadOK, WellFormed, Idle, Job
    <3>3. /\ row'[u] = row[u] /\ recs' = recs
          /\ \A g \in Thread : thread[g].task = u \/ thread'[g].task = u => thread'[g] = thread[g]
      BY <1>6, <2>3, <3>2, BeginOthers
    <3>4. AllAccountsFinal(u) => AllAccountsFinal(u)'
      BY <3>3 DEF AllAccountsFinal, HasRecs
    <3>5. SettledTask(u) => SettledTask(u)'
      BY <3>3, <3>4, SettledOther
    <3>6. Orderly(u)' => Orderly(u)
      BY <1>m, <3>1
    <3> QED BY <1>m, <2>1, <3>5, <3>6
  <2> QED BY <2>2, <2>3
<1> QED BY <1>2, <1>1, <1>3, <1>4, <1>5, <1>6 DEF HistNext, Next

\* Whatever handlers run and overlap elsewhere, a task at which no two of them have
\* met is completed only when it has accounts and none of them is left to play, under
\* retries, pauses, late and repeated reports and accounts skipped at the console.
THEOREM CompletedTasksAreSettled == HistSpec => CompletedIsSettled
<1>1. HistInit => SettledInv
  <2> SUFFICES ASSUME HistInit PROVE SettledInv
    OBVIOUS
  <2>1. \A h \in Thread : thread[h].task = None
    BY DEF HistInit, Init, Idle, Job
  <2> QED BY <2>1, NoneAssumption DEF SettledInv, SettledTask, Alone
<1>2. TypeOK /\ VersionInv /\ SettledInv /\ [HistNext]_histVars => SettledInv'
  BY SettledNext
<1>3. TypeOK /\ VersionInv /\ SettledInv /\ [HistNext]_histVars =>
        [\A t \in Task : row[t] # "completed" /\ row'[t] = "completed" /\ Orderly(t)
           => HasAccounts(t) /\ \A a \in Account : recs[t][a] \in FinalRec]_histVars
  BY SettledNext DEF Settles
<1>4. TypeOK /\ VersionInv /\ [Next]_vars => VersionInv'
  BY VersionNext
<1>5. Spec => []VersionInv
  BY <1>4, VersionInit, TypeCorrect, PTL DEF Spec
<1> QED BY <1>1, <1>2, <1>3, <1>5, TypeCorrect, HistoryOf, PTL DEF HistSpec, CompletedIsSettled
=============================================================================
