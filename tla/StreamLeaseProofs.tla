-------------------------- MODULE StreamLeaseProofs --------------------------
(* Proofs about StreamLease: the types, and that two leased tasks exclude    *)
(* each other whatever the Redis layer does.                                 *)
EXTENDS StreamLease, TLAPS

LEMMA LeaseTypes ==
  /\ Free \in Lease
  /\ \A t \in Task : Held(t) \in Lease
  /\ \A l \in Lease : AgedKey(l) \in Lease /\ Aged(l) \in Lease
  /\ \A n \in 0..TTL : Older(n) \in 0..TTL
BY TTLAssumption DEF Free, Held, AgedKey, Aged, Older, Lease

LEMMA JobTypes ==
  /\ Idle \in ThreadState
  /\ \A t \in Task \cup {None}, pc \in PC, w \in BOOLEAN : Job(t, pc, w) \in ThreadState
BY LeaseTypes DEF Idle, Job, ThreadState, PC

LEMMA TypeInit == Init => TypeOK
BY LeaseTypes, JobTypes, TTLAssumption DEF Init, TypeOK, Idle, Job, AcquirePC, ReleasePC

\* A thread that keeps its task, and one that has finished.
LEMMA ThreadsGo ==
  ASSUME TypeOK, NEW h \in Thread, NEW pc \in PC,
         thread[h].pc \in AcquirePC \cup ReleasePC, Goto(h, pc)
  PROVE  /\ thread' \in [Thread -> ThreadState]
         /\ \A g \in Thread : thread'[g].pc \in AcquirePC \cup ReleasePC => thread'[g].task \in Task
<1>1. thread[h] \in ThreadState /\ thread[h].task \in Task
  BY DEF TypeOK
<1>2. [thread[h] EXCEPT !.pc = pc] \in ThreadState /\ [thread[h] EXCEPT !.pc = pc].task = thread[h].task
  BY <1>1 DEF ThreadState
<1>3. thread' = [thread EXCEPT ![h] = [thread[h] EXCEPT !.pc = pc]]
  BY DEF Goto
<1> HIDE DEF Goto
<1> QED BY <1>1, <1>2, <1>3 DEF TypeOK

LEMMA ThreadsSet ==
  ASSUME TypeOK, NEW h \in Thread, NEW j \in ThreadState,
         j.pc \in AcquirePC \cup ReleasePC => j.task \in Task,
         thread' = [thread EXCEPT ![h] = j]
  PROVE  /\ thread' \in [Thread -> ThreadState]
         /\ \A g \in Thread : thread'[g].pc \in AcquirePC \cup ReleasePC => thread'[g].task \in Task
BY DEF TypeOK

LEMMA ThreadsFinish ==
  ASSUME TypeOK, NEW h \in Thread, Finish(h)
  PROVE  /\ thread' \in [Thread -> ThreadState]
         /\ \A g \in Thread : thread'[g].pc \in AcquirePC \cup ReleasePC => thread'[g].task \in Task
BY JobTypes, ThreadsSet DEF Finish, Idle, Job, AcquirePC, ReleasePC

LEMMA StepType ==
  ASSUME TypeOK, NEW h \in Thread, Step(h) PROVE TypeOK'
<1> DEFINE Threads == /\ thread' \in [Thread -> ThreadState]
                      /\ \A g \in Thread : thread'[g].pc \in AcquirePC \cup ReleasePC
                                             => thread'[g].task \in Task
<1>t. thread[h] \in ThreadState
  BY DEF TypeOK
<1>f. Finish(h) => Threads
  BY ThreadsFinish
<1>g. ASSUME NEW pc \in PC, Goto(h, pc), thread[h].pc \in AcquirePC \cup ReleasePC PROVE Threads
  BY <1>g, ThreadsGo
<1>p. AcquirePC \cup ReleasePC \subseteq PC
  BY DEF PC
<1> HIDE DEF Threads
<1> USE DEF At
<1>1. CASE AcqGet(h)
  <2>1. Threads
    BY <1>1, <1>g, <1>p DEF AcqGet, AcquirePC
  <2> QED BY <1>1, <2>1 DEF AcqGet, Layers, World, TypeOK, Threads
<1>2. CASE AcqExpire(h)
  <2>1. Threads
    BY <1>2, <1>g, <1>p DEF AcqExpire, AcquirePC
  <2>2. redis' \in Lease
    BY <1>2, TTLAssumption DEF AcqExpire, TypeOK, Lease
  <2> QED BY <1>2, <2>1, <2>2 DEF AcqExpire, World, TypeOK, Threads
<1>3. CASE AcqSetnx(h)
  <2>1. Threads
    BY <1>3, <1>f, <1>g, <1>p DEF AcqSetnx, AcquirePC
  <2>2. redis' \in Lease
    BY <1>3, LeaseTypes DEF AcqSetnx, TypeOK, AcquirePC
  <2> QED BY <1>3, <2>1, <2>2 DEF AcqSetnx, World, TypeOK, Threads
<1>4. CASE AcqLocalGet(h)
  <2>1. Threads
    BY <1>4, <1>f, <1>g, <1>p DEF AcqLocalGet, AcquirePC
  <2> QED BY <1>4, <2>1 DEF AcqLocalGet, Layers, World, TypeOK, Threads
<1>5. CASE AcqLocalRemove(h) \/ AcqLocalAbsent(h) \/ AcqLocalPut(h)
  <2>1. Threads
    BY <1>5, <1>f, <1>g, <1>p DEF AcqLocalRemove, AcqLocalAbsent, AcqLocalPut, AcquirePC
  <2>2. local' \in Lease
    BY <1>5, LeaseTypes DEF AcqLocalRemove, AcqLocalAbsent, AcqLocalPut, TypeOK, AcquirePC
  <2> QED BY <1>5, <2>1, <2>2 DEF AcqLocalRemove, AcqLocalAbsent, AcqLocalPut, World, TypeOK, Threads
<1>6. CASE AcqCas(h)
  <2>1. thread[h].task \in Task
    BY <1>6 DEF AcqCas, TypeOK, AcquirePC
  <2>2. CASE Lockable(thread[h].task) /\ Finish(h)
    BY <1>6, <1>f, <2>1, <2>2, LeaseTypes, TTLAssumption DEF AcqCas, TypeOK, Threads
  <2>3. CASE ~Lockable(thread[h].task)
    <3> DEFINE j == [thread[h] EXCEPT !.pc = "relGet", !.undo = TRUE]
    <3>1. j \in ThreadState /\ j.task \in Task
      BY <1>t, <2>1 DEF ThreadState, PC, ReleasePC
    <3>2. thread' = [thread EXCEPT ![h] = j]
      BY <1>6, <2>3 DEF AcqCas
    <3> HIDE DEF j
    <3>3. Threads
      BY <3>1, <3>2, ThreadsSet DEF Threads
    <3> QED BY <1>6, <2>3, <3>3 DEF AcqCas, TypeOK, Threads
  <2> QED BY <1>6, <2>2, <2>3 DEF AcqCas
<1>7. CASE RelGet(h)
  <2>1. Threads
    BY <1>7, <1>f, <1>g, <1>p DEF RelGet, ReleasePC
  <2> QED BY <1>7, <2>1 DEF RelGet, Layers, World, TypeOK, Threads
<1>8. CASE RelDel(h) \/ RelLocal(h)
  <2>1. Threads
    BY <1>8, <1>f, <1>g, <1>p DEF RelDel, RelLocal, AfterRelease, ReleasePC
  <2> QED BY <1>8, <2>1, LeaseTypes DEF RelDel, RelLocal, World, TypeOK, Threads
<1>9. CASE RelDb(h) \/ WriterSave(h)
  <2>1. Threads
    BY <1>9, <1>f DEF RelDb, WriterSave
  <2>2. thread[h].seen \in Lease
    BY <1>t DEF ThreadState
  <2>3. left' \in [Task -> 0..TTL]
    BY <1>9, TTLAssumption DEF RelDb, WriterSave, TypeOK
  <2> QED BY <1>9, <2>1, <2>2, <2>3, LeaseTypes DEF RelDb, WriterSave, TypeOK, Threads
<1> QED BY <1>1, <1>2, <1>3, <1>4, <1>5, <1>6, <1>7, <1>8, <1>9 DEF Step

LEMMA BeginType ==
  ASSUME TypeOK, NEW h \in Thread, Begin(h) PROVE TypeOK'
<1> DEFINE Threads == /\ thread' \in [Thread -> ThreadState]
                      /\ \A g \in Thread : thread'[g].pc \in AcquirePC \cup ReleasePC
                                             => thread'[g].task \in Task
<1>c. ASSUME NEW t \in Task, NEW pc \in PC, NEW w \in BOOLEAN, Call(h, Job(t, pc, w))
      PROVE  Threads
  <2>1. Job(t, pc, w) \in ThreadState /\ Job(t, pc, w).task = t
    BY <1>c, JobTypes DEF Job
  <2> QED BY <1>c, <2>1, ThreadsSet DEF Call
<1>p. {"get", "relGet", "relDb"} \subseteq PC
  BY DEF PC, AcquirePC, ReleasePC
<1> HIDE DEF Threads
<1>1. ASSUME NEW t \in Task, Ask(h, t) \/ Stop(h, t) \/ End(h, t) PROVE TypeOK'
  <2>1. CASE Ask(h, t) \/ Stop(h, t)
    <3>1. Threads
      BY <2>1, <1>c, <1>p DEF Ask, Stop
    <3> QED BY <2>1, <3>1 DEF Ask, Stop, Layers, World, TypeOK, Threads
  <2>2. CASE End(h, t)
    <3>1. Threads
      BY <2>2, <1>c, <1>p DEF End, TypeOK, Threads
    <3> QED BY <2>2, <3>1 DEF End, Layers, TypeOK, Threads
  <2> QED BY <1>1, <2>1, <2>2
<1>2. CASE Reap(h)
  <2>1. Threads
    BY <1>2, <1>c, <1>p DEF Reap, TypeOK
  <2> QED BY <1>2, <2>1 DEF Reap, Layers, World, TypeOK, Threads
<1>3. CASE GiveUp(h)
  <2> DEFINE j == [thread[h] EXCEPT !.waits = FALSE]
  <2>1. /\ j \in ThreadState
        /\ j.pc \in AcquirePC \cup ReleasePC => j.task \in Task
    BY DEF TypeOK, ThreadState
  <2>2. thread' = [thread EXCEPT ![h] = j]
    BY <1>3 DEF GiveUp
  <2> HIDE DEF j
  <2>3. Threads
    BY <2>1, <2>2, ThreadsSet DEF Threads
  <2> QED BY <1>3, <2>3 DEF GiveUp, Layers, World, TypeOK, Threads
<1>4. CASE WriterLoad(h)
  <2> DEFINE j == [Job(None, "write", FALSE) EXCEPT !.seen = db]
  <2>1. j \in ThreadState /\ j.pc = "write"
    BY DEF TypeOK, Job, ThreadState, PC
  <2>2. thread' = [thread EXCEPT ![h] = j]
    BY <1>4 DEF WriterLoad, Call
  <2>3. j.pc \notin AcquirePC \cup ReleasePC
    BY <2>1 DEF AcquirePC, ReleasePC
  <2> HIDE DEF j
  <2>4. Threads
    BY <2>1, <2>2, <2>3, ThreadsSet DEF Threads
  <2> QED BY <1>4, <2>4 DEF WriterLoad, Layers, World, TypeOK, Threads
<1> QED BY <1>1, <1>2, <1>3, <1>4 DEF Begin

LEMMA TypeNext == TypeOK /\ [Next]_vars => TypeOK'
<1> SUFFICES ASSUME TypeOK, [Next]_vars PROVE TypeOK'
  OBVIOUS
<1>1. CASE Tick
  <2>1. redis' \in Lease /\ local' \in Lease /\ db' \in Lease
    BY <1>1, LeaseTypes DEF Tick, TypeOK
  <2>2. left' \in [Task -> 0..TTL]
    BY <1>1, LeaseTypes DEF Tick, TypeOK
  <2>3. ASSUME NEW h \in Thread
        PROVE  /\ thread'[h] \in ThreadState
               /\ thread'[h].pc = thread[h].pc /\ thread'[h].task = thread[h].task
    <3>1. thread[h] \in ThreadState /\ Aged(thread[h].seen) \in Lease
      BY LeaseTypes DEF TypeOK, ThreadState
    <3>2. thread'[h] = [thread[h] EXCEPT !.seen = Aged(thread[h].seen)]
      BY <1>1 DEF Tick
    <3> QED BY <3>1, <3>2 DEF ThreadState
  <2>4. thread' \in [Thread -> ThreadState]
    BY <1>1, <2>3 DEF Tick
  <2> QED BY <1>1, <2>1, <2>2, <2>3, <2>4 DEF Tick, TypeOK
<1>2. CASE Outage \/ Recover \/ UNCHANGED vars
  BY <1>2 DEF Outage, Recover, vars, Layers, TypeOK
<1>3. ASSUME NEW t \in Task, Crash(t) \/ Reuse(t) PROVE TypeOK'
  BY <1>3 DEF Crash, Reuse, Layers, TypeOK
<1> QED BY <1>1, <1>2, <1>3, StepType, BeginType DEF Next

\* The types, for any number of tasks, threads and ticks and any faults.
THEOREM TypeCorrect == Spec => []TypeOK
BY TypeInit, TypeNext, PTL DEF Spec

-----------------------------------------------------------------------------
(* Exclusion, whatever goes wrong. *)

\* While its agent waits for an answer the task does not stream.
CallsOK ==
  \A h \in Thread :
    thread[h].waits => /\ thread[h].pc \in AcquirePC \cup ReleasePC
                       /\ thread[h].task \notin playing

OneCall ==
  \A g, h \in Thread :
    g # h /\ thread[g].waits /\ thread[h].waits => thread[g].task # thread[h].task

\* The row backs every lease that has not run out.
Backed == \A t \in Leased : db.by = t /\ db.ttl >= left[t]

ExclusionInv == CallsOK /\ OneCall /\ Backed

LEMMA Exclusive == Backed => LeaseExclusive
BY DEF Backed, LeaseExclusive

LEMMA ExclusionInit == Init => ExclusionInv
BY DEF Init, Idle, Job, AcquirePC, ReleasePC, ExclusionInv, CallsOK, OneCall, Backed, Leased

\* A thread that goes on with its call, or ends it.
LEMMA CallGoesOn ==
  ASSUME TypeOK, ExclusionInv, NEW h \in Thread,
         \/ Finish(h)
         \/ /\ thread'[h].pc \in PC \ {"idle", "write"}
            /\ thread'[h].task = thread[h].task /\ thread'[h].waits = thread[h].waits
            /\ \/ thread'[h].pc \in AcquirePC /\ thread[h].pc \in AcquirePC
               \/ thread'[h].pc \in ReleasePC /\ thread[h].pc \in AcquirePC \cup ReleasePC
            /\ \A g \in Thread \ {h} : thread'[g] = thread[g],
         playing' = playing
  PROVE  CallsOK' /\ OneCall'
<1> USE DEF ExclusionInv
<1>1. CASE Finish(h)
  <2>1. thread'[h] = Idle /\ \A g \in Thread \ {h} : thread'[g] = thread[g]
    BY <1>1 DEF Finish, TypeOK
  <2>2. Idle.pc = "idle" /\ Idle.waits = FALSE
    BY DEF Idle, Job
  <2>3. CallsOK'
    BY <2>1, <2>2 DEF CallsOK, AcquirePC, ReleasePC
  <2>4. OneCall'
    BY <2>1, <2>2 DEF OneCall
  <2> QED BY <2>3, <2>4
<1>2. CASE ~Finish(h)
  <2>1. CallsOK'
    BY <1>2 DEF CallsOK, AcquirePC, ReleasePC
  <2>2. OneCall'
    BY <1>2 DEF OneCall
  <2> QED BY <2>1, <2>2
<1> QED BY <1>1, <1>2

LEMMA GotoFrame ==
  ASSUME TypeOK, NEW h \in Thread, NEW pc, Goto(h, pc)
  PROVE  /\ thread'[h].pc = pc
         /\ thread'[h].task = thread[h].task /\ thread'[h].waits = thread[h].waits
         /\ \A g \in Thread \ {h} : thread'[g] = thread[g]
<1>1. thread[h] \in ThreadState
  BY DEF TypeOK
<1> QED BY <1>1 DEF Goto, TypeOK, ThreadState

\* Whoever may lock the row takes it from nobody else who streams under a lease.
LEMMA LockTaken ==
  ASSUME TypeOK, ExclusionInv, NEW t \in Task, Lockable(t)
  PROVE  Leased \subseteq {t}
<1> SUFFICES ASSUME NEW u \in Leased, u # t PROVE FALSE
  OBVIOUS
<1>1. u \in Task /\ left[u] > 0 /\ db.by = u /\ db.ttl >= left[u]
  BY DEF ExclusionInv, Backed, Leased, TypeOK
<1>2. left[u] \in Nat /\ db.ttl \in Nat
  BY <1>1 DEF TypeOK, Lease
<1> QED BY <1>1, <1>2, NobodyAssumption DEF Lockable

\* A release and a rewrite leave the row to whoever still streams under a lease.
LEMMA RobbedStep ==
  ASSUME TypeOK, ExclusionInv, NEW h \in Thread, RelDb(h) \/ WriterSave(h)
  PROVE  \A u \in Leased' : u \in Leased /\ left'[u] = left[u] /\ db' = db
<1> SUFFICES ASSUME NEW u \in Leased' PROVE u \in Leased /\ left'[u] = left[u] /\ db' = db
  OBVIOUS
<1>0. u \in Task /\ u \in playing /\ u \notin over /\ left'[u] > 0
  BY DEF Leased, TypeOK, RelDb, WriterSave
<1>1. CASE RelDb(h)
  <2>1. left'[u] = left[u] /\ u \in Leased
    BY <1>0, <1>1 DEF RelDb, TypeOK, Leased
  <2>2. db.by = u
    BY <2>1 DEF ExclusionInv, Backed
  <2>3. db.by # thread[h].task
    <3> SUFFICES ASSUME thread[h].task = u PROVE FALSE
      BY <2>2
    <3>1. CASE thread[h].waits
      BY <1>0, <3>1 DEF ExclusionInv, CallsOK
    <3>2. CASE ~thread[h].waits
      BY <1>0, <1>1, <2>2, <3>2 DEF RelDb, TypeOK
    <3> QED BY <3>1, <3>2
  <2> QED BY <1>1, <2>1, <2>3 DEF RelDb
<1>2. CASE WriterSave(h)
  <2>1. left'[u] = left[u] /\ u \in Leased
    BY <1>0, <1>2 DEF WriterSave, TypeOK, Leased
  <2>2. db.by = u
    BY <2>1 DEF ExclusionInv, Backed
  <2> QED BY <1>0, <1>2, <2>1, <2>2 DEF WriterSave
<1> QED BY <1>1, <1>2

LEMMA ExclusionStep ==
  ASSUME TypeOK, ExclusionInv, NEW h \in Thread, Step(h) PROVE ExclusionInv'
<1> DEFINE t == thread[h].task
<1> USE DEF At
<1>p. AcquirePC \cup ReleasePC \subseteq PC \ {"idle", "write"}
  BY DEF PC, AcquirePC, ReleasePC
<1>c. ASSUME NEW pc, \/ Finish(h)
                    \/ /\ Goto(h, pc)
                       /\ \/ pc \in AcquirePC /\ thread[h].pc \in AcquirePC
                          \/ pc \in ReleasePC /\ thread[h].pc \in AcquirePC \cup ReleasePC,
             playing' = playing
      PROVE  CallsOK' /\ OneCall'
  BY <1>c, <1>p, GotoFrame, CallGoesOn
<1>s. ASSUME NEW pc, \/ Finish(h)
                    \/ /\ Goto(h, pc)
                       /\ \/ pc \in AcquirePC /\ thread[h].pc \in AcquirePC
                          \/ pc \in ReleasePC /\ thread[h].pc \in AcquirePC \cup ReleasePC,
             playing' = playing, over' = over, left' = left, db' = db
      PROVE  ExclusionInv'
  <2>1. Backed'
    BY <1>s DEF ExclusionInv, Backed, Leased
  <2> QED BY <1>s, <1>c, <2>1 DEF ExclusionInv
<1> HIDE DEF t
<1>1. CASE AcqGet(h) \/ AcqExpire(h) \/ AcqSetnx(h)
  BY <1>1, <1>s DEF AcqGet, AcqExpire, AcqSetnx, AcquirePC, Layers, World
<1>2. CASE AcqLocalGet(h) \/ AcqLocalRemove(h) \/ AcqLocalAbsent(h) \/ AcqLocalPut(h)
  BY <1>2, <1>s DEF AcqLocalGet, AcqLocalRemove, AcqLocalAbsent, AcqLocalPut, AcquirePC,
                    Layers, World
<1>3. CASE AcqCas(h)
  <2>0. /\ t \in Task /\ thread[h].task = t
        /\ thread[h] \in ThreadState
    BY <1>3 DEF AcqCas, AcquirePC, TypeOK, t
  <2>1. CASE Lockable(t) /\ Finish(h)
    <3>1. Leased \subseteq {t}
      BY <2>0, <2>1, LockTaken
    <3>2. /\ db' = Held(t) /\ left' = [left EXCEPT ![t] = TTL] /\ over' = over
          /\ playing' = IF thread[h].waits THEN playing \cup {t} ELSE playing
      BY <1>3, <2>0, <2>1 DEF AcqCas, t
    <3>3. Backed'
      <4> SUFFICES ASSUME NEW u \in Leased' PROVE u = t
        BY <2>0, <3>2, TTLAssumption DEF Backed, Held, TypeOK
      <4>1. u # t => u \in Leased
        BY <2>0, <3>2 DEF Leased, TypeOK
      <4> QED BY <3>1, <4>1
    <3>4. thread'[h] = Idle /\ \A g \in Thread \ {h} : thread'[g] = thread[g]
      BY <2>1 DEF Finish, TypeOK
    <3>5. Idle.waits = FALSE
      BY DEF Idle, Job
    <3>6. \A g \in Thread \ {h} : thread[h].waits /\ thread[g].waits => thread[g].task # t
      BY <2>0 DEF ExclusionInv, OneCall
    <3>7. CallsOK'
      BY <3>2, <3>4, <3>5, <3>6 DEF ExclusionInv, CallsOK
    <3>8. OneCall'
      BY <3>4, <3>5 DEF ExclusionInv, OneCall
    <3> QED BY <3>3, <3>7, <3>8 DEF ExclusionInv
  <2>2. CASE ~Lockable(t)
    <3>1. /\ thread' = [thread EXCEPT ![h].pc = "relGet", ![h].undo = TRUE]
          /\ db' = db /\ left' = left /\ playing' = playing /\ over' = over
      BY <1>3, <2>2 DEF AcqCas, t
    <3>2. /\ thread'[h].pc = "relGet" /\ thread'[h].task = thread[h].task
          /\ thread'[h].waits = thread[h].waits
          /\ \A g \in Thread \ {h} : thread'[g] = thread[g]
      BY <2>0, <3>1 DEF TypeOK, ThreadState
    <3>3. CallsOK' /\ OneCall'
      BY <1>3, <1>p, <3>1, <3>2, CallGoesOn DEF AcqCas, AcquirePC, ReleasePC
    <3>4. Backed'
      BY <3>1 DEF ExclusionInv, Backed, Leased
    <3> QED BY <3>3, <3>4 DEF ExclusionInv
  <2> QED BY <1>3, <2>1, <2>2 DEF AcqCas, t
<1>4. CASE RelGet(h) \/ RelDel(h) \/ RelLocal(h)
  BY <1>4, <1>s DEF RelGet, RelDel, RelLocal, AfterRelease, ReleasePC, Layers, World
<1>5. CASE RelDb(h) \/ WriterSave(h)
  <2>1. Finish(h) /\ playing' = playing /\ over' = over
    BY <1>5 DEF RelDb, WriterSave
  <2>2. \A u \in Leased' : u \in Leased /\ left'[u] = left[u] /\ db' = db
    BY <1>5, RobbedStep
  <2>3. Backed'
    BY <2>2 DEF ExclusionInv, Backed
  <2> QED BY <1>c, <2>1, <2>3 DEF ExclusionInv
<1> QED BY <1>1, <1>2, <1>3, <1>4, <1>5 DEF Step

LEMMA ExclusionBegin ==
  ASSUME TypeOK, ExclusionInv, NEW h \in Thread, Begin(h) PROVE ExclusionInv'
<1>c. ASSUME NEW t \in Task, NEW pc \in {"get", "relGet", "relDb"}, NEW w \in BOOLEAN,
             Call(h, Job(t, pc, w)),
             w => ~Awaiting(t) /\ t \notin playing',
             playing' \subseteq playing, over \subseteq over', db' = db, left' = left
      PROVE  ExclusionInv'
  <2>1. /\ thread'[h].pc = pc /\ thread'[h].task = t /\ thread'[h].waits = w
        /\ thread[h].pc = "idle"
        /\ \A g \in Thread \ {h} : thread'[g] = thread[g]
    BY <1>c DEF Call, Job, TypeOK
  <2>2. CallsOK'
    BY <1>c, <2>1 DEF ExclusionInv, CallsOK, AcquirePC, ReleasePC
  <2>3. OneCall'
    BY <1>c, <2>1 DEF ExclusionInv, OneCall, Awaiting
  <2>4. Backed'
    BY <1>c DEF ExclusionInv, Backed, Leased
  <2> QED BY <2>2, <2>3, <2>4 DEF ExclusionInv
<1>1. ASSUME NEW t \in Task, Ask(h, t) PROVE ExclusionInv'
  BY <1>1, <1>c DEF Ask, Layers, World
<1>2. ASSUME NEW t \in Task, Stop(h, t) PROVE ExclusionInv'
  BY <1>2, <1>c DEF Stop, Layers
<1>3. ASSUME NEW t \in Task, End(h, t) PROVE ExclusionInv'
  <2>1. /\ over' = over \cup {t} /\ playing' = playing /\ db' = db /\ left' = left
    BY <1>3 DEF End, Layers
  <2>2. CASE thread' = thread
    BY <2>1, <2>2 DEF ExclusionInv, CallsOK, OneCall, Backed, Leased
  <2>3. CASE Call(h, Job(t, "relGet", FALSE)) \/ Call(h, Job(t, "relDb", FALSE))
    BY <2>1, <2>3, <1>c
  <2> QED BY <1>3, <2>2, <2>3 DEF End
<1>4. CASE Reap(h)
  <2>1. db.by \in Task
    BY <1>4 DEF Reap, TypeOK
  <2> QED BY <1>4, <1>c, <2>1 DEF Reap, Layers, World
<1>5. CASE GiveUp(h) \/ WriterLoad(h)
  <2>1. UNCHANGED <<db, left, playing, over>>
    BY <1>5 DEF GiveUp, WriterLoad, Layers, World
  <2>2. ~thread'[h].waits /\ \A g \in Thread \ {h} : thread'[g] = thread[g]
    <3>1. CASE GiveUp(h)
      <4>1. thread[h] \in ThreadState /\ thread' = [thread EXCEPT ![h] = [thread[h] EXCEPT !.waits = FALSE]]
        BY <3>1 DEF GiveUp, TypeOK
      <4> QED BY <4>1 DEF TypeOK, ThreadState
    <3>2. CASE WriterLoad(h)
      BY <3>2 DEF WriterLoad, Call, Job, TypeOK
    <3> QED BY <1>5, <3>1, <3>2
  <2>3. CallsOK' /\ OneCall'
    BY <2>1, <2>2 DEF ExclusionInv, CallsOK, OneCall
  <2>4. Backed'
    BY <2>1 DEF ExclusionInv, Backed, Leased
  <2> QED BY <2>3, <2>4 DEF ExclusionInv
<1> QED BY <1>1, <1>2, <1>3, <1>4, <1>5 DEF Begin

LEMMA ExclusionNext ==
  TypeOK /\ ExclusionInv /\ [Next]_vars => ExclusionInv'
<1> SUFFICES ASSUME TypeOK, ExclusionInv, [Next]_vars PROVE ExclusionInv'
  OBVIOUS
<1>1. CASE Tick
  <2>1. ASSUME NEW h \in Thread
        PROVE  /\ thread'[h].pc = thread[h].pc /\ thread'[h].task = thread[h].task
               /\ thread'[h].waits = thread[h].waits
    <3>1. thread[h] \in ThreadState /\ thread'[h] = [thread[h] EXCEPT !.seen = Aged(@)]
      BY <1>1 DEF TypeOK, Tick
    <3> QED BY <3>1 DEF ThreadState
  <2>2. CallsOK' /\ OneCall'
    <3>1. playing' = playing
      BY <1>1 DEF Tick
    <3>2. CallsOK'
      BY <2>1, <3>1 DEF ExclusionInv, CallsOK
    <3>3. OneCall'
      BY <2>1 DEF ExclusionInv, OneCall
    <3> QED BY <3>2, <3>3
  <2>3. Backed'
    <3> SUFFICES ASSUME NEW t \in Leased' PROVE db'.by = t /\ db'.ttl >= left'[t]
      BY DEF Backed
    <3>1. /\ t \in Task /\ left'[t] = Older(left[t]) /\ left'[t] > 0 /\ t \in playing \ over
          /\ left[t] \in Nat /\ db \in Lease
      BY <1>1 DEF Tick, Leased, TypeOK
    <3>2. left[t] > 0 /\ left'[t] = left[t] - 1
      BY <3>1 DEF Older
    <3>3. db.by = t /\ db.ttl >= left[t] /\ db.ttl \in Nat
      BY <3>1, <3>2 DEF ExclusionInv, Backed, Leased, Lease
    <3>4. db'.by = db.by /\ db'.ttl = Older(db.ttl)
      BY <1>1, <3>1 DEF Tick, Aged, Lease
    <3> QED BY <3>1, <3>2, <3>3, <3>4 DEF Older
  <2> QED BY <2>2, <2>3 DEF ExclusionInv
<1>2. CASE Outage \/ Recover \/ UNCHANGED vars
  BY <1>2 DEF Outage, Recover, vars, Layers, ExclusionInv, CallsOK, OneCall, Backed, Leased
<1>3. ASSUME NEW t \in Task, Crash(t) PROVE ExclusionInv'
  BY <1>3 DEF Crash, Layers, ExclusionInv, CallsOK, OneCall, Backed, Leased
<1>4. ASSUME NEW t \in Task, Reuse(t) PROVE ExclusionInv'
  BY <1>4 DEF Reuse, Layers, ExclusionInv, CallsOK, OneCall, Backed, Leased
<1> QED BY <1>1, <1>2, <1>3, <1>4, ExclusionStep, ExclusionBegin DEF Next

\* However Redis fails, whatever runs out in the middle of a call, whether agents die or
\* give up their calls, tasks come back under their ids or reports rewrite the row: two
\* tasks never both stream under an unexpired lease that nobody robbed.
THEOREM LeasesExclude == Spec => []LeaseExclusive
<1>1. TypeOK /\ ExclusionInv /\ [Next]_vars => ExclusionInv'
  BY ExclusionNext
<1>2. ExclusionInv => LeaseExclusive
  BY Exclusive DEF ExclusionInv
<1> QED BY <1>1, <1>2, ExclusionInit, TypeCorrect, PTL DEF Spec

-----------------------------------------------------------------------------
(* One lease.  Of all the layers and steps only the row and who streams      *)
(* under it show in ConsoleUse.                                              *)

\* A step that touches neither the row nor those who stream is no step of the lease.
LEMMA UnseenStep ==
  ASSUME db' = db, Leased' = Leased
  PROVE  [Use!UseNext]_(Use!useVars)
BY DEF Use!useVars, Holder

\* One task stops streaming, or none.
LEMMA LeaveStep ==
  ASSUME db' = db, NEW t \in Task, Leased' = Leased \ {t}
  PROVE  [Use!UseNext]_(Use!useVars)
<1>1. CASE t \in Leased
  <2>1. Use!Leave(t)
    BY <1>1 DEF Use!Leave, Holder
  <2> QED BY <2>1 DEF Use!UseNext
<1>2. CASE t \notin Leased
  BY <1>2, UnseenStep
<1> QED BY <1>1, <1>2

\* The row changes hands only while nobody streams under its lease.
LEMMA GrantStep ==
  ASSUME TypeOK, ExclusionInv, NEW h \in Thread, AcqCas(h)
  PROVE  [Use!UseNext]_(Use!useVars)
<1> DEFINE t == thread[h].task
<1>1. t \in Task /\ thread[h].task = t
  BY DEF AcqCas, At, AcquirePC, TypeOK
<1> HIDE DEF t
<1>2. CASE ~Lockable(t)
  <2>1. db' = db /\ left' = left /\ playing' = playing /\ over' = over
    BY <1>2 DEF AcqCas, t
  <2> QED BY <2>1, UnseenStep DEF Leased
<1>3. CASE Lockable(t)
  <2>1. /\ db' = Held(t) /\ left' = [left EXCEPT ![t] = TTL] /\ over' = over
        /\ playing' \in {playing, playing \cup {t}}
    BY <1>1, <1>3 DEF AcqCas, t
  <2>2. Leased \subseteq {t}
    BY <1>1, <1>3, LockTaken
  <2>3. Leased \subseteq Leased' /\ Leased' \subseteq {t}
    <3>1. \A u \in Task \ {t} : left'[u] = left[u] /\ (u \in playing' <=> u \in playing)
      BY <1>1, <2>1 DEF TypeOK
    <3>2. left'[t] > 0
      BY <1>1, <2>1, TTLAssumption DEF TypeOK
    <3> QED BY <1>1, <2>1, <2>2, <3>1, <3>2 DEF Leased, TypeOK
  <2>4. Holder \in {None, t} /\ Holder' = t /\ db'.ttl = TTL
    BY <1>3, <2>1, TTLAssumption DEF Lockable, Holder, Held
  <2>5. Leased' \in {Leased, {t}}
    BY <2>3
  <2>6. Use!Grant(t)
    BY <2>4, <2>5 DEF Use!Grant
  <2> QED BY <1>1, <2>6 DEF Use!UseNext
<1> QED BY <1>2, <1>3

\* The row is given back by its holder, who does not stream, or lost by one who does.
LEMMA ReturnStep ==
  ASSUME TypeOK, ExclusionInv, NEW h \in Thread, RelDb(h)
  PROVE  [Use!UseNext]_(Use!useVars)
<1> DEFINE t == thread[h].task
<1>1. t \in Task /\ thread[h].task = t
  BY DEF RelDb, At, ReleasePC, TypeOK
<1>2. /\ UNCHANGED <<playing, over>>
      /\ db' = (IF db.by = t THEN Free ELSE db)
      /\ db.by # t => left' = left
  BY <1>1 DEF RelDb
<1> HIDE DEF t
<1>3. CASE db.by # t
  BY <1>2, <1>3, UnseenStep DEF Leased
<1>4. CASE db.by = t
  <2>1. db'.ttl = 0 /\ Holder' = None /\ db'.by = None
    BY <1>2, <1>4 DEF Holder, Free
  <2>2. Leased' = {}
    <3> SUFFICES ASSUME NEW u \in Leased' PROVE FALSE
      OBVIOUS
    <3>1. u \in Leased /\ db' = db
      BY RobbedStep
    <3> QED BY <1>1, <1>4, <2>1, <3>1, NobodyAssumption
  <2>3. Use!Lose
    BY <2>1, <2>2, TTLAssumption DEF Use!Lose
  <2> QED BY <2>3 DEF Use!UseNext
<1> QED BY <1>3, <1>4

\* The row as it was read, written back over whatever it has become.
LEMMA RewriteStep ==
  ASSUME TypeOK, ExclusionInv, NEW h \in Thread, WriterSave(h)
  PROVE  [Use!UseNext]_(Use!useVars)
<1>1. CASE db' = db
  <2>1. Leased' = Leased
    BY <1>1 DEF WriterSave, Leased
  <2> QED BY <1>1, <2>1, UnseenStep
<1>2. CASE db' # db
  <2>1. Leased' = {}
    BY <1>2, RobbedStep
  <2>2. db' \in Lease
    BY DEF WriterSave, TypeOK, ThreadState
  <2>3. Holder' \in Task \cup {None} /\ db'.ttl \in 0..TTL /\ (db'.ttl = 0 => Holder' = None)
    BY <2>2 DEF Holder, Lease
  <2>4. Use!Lose
    BY <2>1, <2>3 DEF Use!Lose
  <2> QED BY <2>4 DEF Use!UseNext
<1> QED BY <1>1, <1>2

LEMMA PassStep ==
  ASSUME TypeOK, ExclusionInv, Tick
  PROVE  [Use!UseNext]_(Use!useVars)
<1>1. /\ playing' = playing /\ over' = over /\ \A t \in Task : left'[t] = Older(left[t]) /\ left[t] \in Nat
      /\ playing \subseteq Task
  BY DEF Tick, TypeOK
<1>2. db.ttl \in Nat /\ db'.by = db.by /\ db'.ttl = Older(db.ttl)
  BY DEF Tick, TypeOK, Aged, Lease
<1>3. Leased' \subseteq Leased
  BY <1>1 DEF Leased, Older
<1>4. \A t \in Leased : t \in Task /\ left[t] > 0 /\ db.ttl >= left[t]
  BY <1>1 DEF ExclusionInv, Backed, Leased
<1>5. db'.ttl = 0 => Leased' = {}
  <2> SUFFICES ASSUME db'.ttl = 0, NEW t \in Leased' PROVE FALSE
    OBVIOUS
  <2>1. t \in Task /\ left'[t] = left[t] - 1 /\ left[t] <= db.ttl /\ left'[t] > 0
    BY <1>1, <1>3, <1>4 DEF Leased, Older
  <2> QED BY <1>1, <1>2, <2>1 DEF Older
<1>6. CASE db.ttl = 0
  <2>1. db'.ttl = 0 /\ Holder' = Holder
    BY <1>2, <1>6 DEF Older, Holder
  <2>2. Leased = {} /\ Leased' = {}
    BY <1>1, <1>3, <1>4, <1>6
  <2> QED BY <1>6, <2>1, <2>2 DEF Use!useVars
<1>7. CASE db.ttl # 0
  <2>1. db'.ttl = db.ttl - 1 /\ db.ttl > 0
    BY <1>2, <1>7 DEF Older
  <2>2. Holder' = IF db'.ttl = 0 THEN None ELSE Holder
    BY <1>2, <1>7 DEF Holder
  <2>3. Use!Pass
    BY <1>3, <1>5, <2>1, <2>2 DEF Use!Pass
  <2> QED BY <2>3 DEF Use!UseNext
<1> QED BY <1>6, <1>7

LEMMA UseStep ==
  ASSUME TypeOK, ExclusionInv, [Next]_vars
  PROVE  [Use!UseNext]_(Use!useVars)
<1>1. ASSUME UNCHANGED <<db, playing, left, over>> PROVE [Use!UseNext]_(Use!useVars)
  BY <1>1, UnseenStep DEF Leased
<1>2. ASSUME NEW t \in Task, db' = db, left' = left,
             (playing \ over)' = (playing \ over) \ {t}
      PROVE  [Use!UseNext]_(Use!useVars)
  <2>1. Leased' = Leased \ {t}
    BY <1>2 DEF Leased
  <2> QED BY <1>2, <2>1, LeaveStep
<1>3. ASSUME NEW h \in Thread, Step(h) PROVE [Use!UseNext]_(Use!useVars)
  <2>1. CASE AcqCas(h)
    BY <2>1, GrantStep
  <2>2. CASE RelDb(h)
    BY <2>2, ReturnStep
  <2>3. CASE WriterSave(h)
    BY <2>3, RewriteStep
  <2>4. CASE AcqGet(h) \/ AcqExpire(h) \/ AcqSetnx(h) \/ AcqLocalGet(h) \/ AcqLocalRemove(h)
             \/ AcqLocalAbsent(h) \/ AcqLocalPut(h) \/ RelGet(h) \/ RelDel(h) \/ RelLocal(h)
    BY <1>1, <2>4 DEF AcqGet, AcqExpire, AcqSetnx, AcqLocalGet, AcqLocalRemove, AcqLocalAbsent, AcqLocalPut,
                      RelGet, RelDel, RelLocal, Layers, World
  <2> QED BY <1>3, <2>1, <2>2, <2>3, <2>4 DEF Step
<1>4. ASSUME NEW t \in Task, NEW h \in Thread, Stop(h, t) \/ End(h, t) PROVE [Use!UseNext]_(Use!useVars)
  <2>1. db' = db /\ left' = left
    BY <1>4 DEF Stop, End, Layers
  <2>2. (playing \ over)' = (playing \ over) \ {t}
    BY <1>4 DEF Stop, End
  <2> QED BY <1>2, <2>1, <2>2
<1>5. ASSUME NEW t \in Task, Crash(t) PROVE [Use!UseNext]_(Use!useVars)
  <2>1. db' = db /\ left' = left /\ (playing \ over)' = (playing \ over) \ {t}
    BY <1>5 DEF Crash, Layers
  <2> QED BY <1>2, <2>1
<1>6. ASSUME NEW h \in Thread, \/ \E t \in Task : Ask(h, t)
                               \/ Reap(h) \/ GiveUp(h) \/ WriterLoad(h)
      PROVE  [Use!UseNext]_(Use!useVars)
  BY <1>1, <1>6 DEF Ask, Reap, GiveUp, WriterLoad, Layers, World
<1>7. CASE Tick
  BY <1>7, PassStep
<1>8. CASE Outage \/ Recover \/ UNCHANGED vars
  BY <1>1, <1>8 DEF Outage, Recover, vars, Layers
<1>9. ASSUME NEW t \in Task, Reuse(t) PROVE [Use!UseNext]_(Use!useVars)
  <2>1. Leased' = Leased
    BY <1>9 DEF Reuse, Leased, Layers
  <2> QED BY <1>9, <2>1, UnseenStep DEF Reuse, Layers
<1>10. ASSUME NEW h \in Thread, Begin(h) PROVE [Use!UseNext]_(Use!useVars)
  BY ONLY <1>4, <1>6, <1>10 DEF Begin
<1>11. CASE \E t \in Task : Crash(t) \/ Reuse(t)
  BY ONLY <1>5, <1>9, <1>11
<1>12. CASE \E h \in Thread : Step(h) \/ Begin(h)
  BY ONLY <1>3, <1>10, <1>12
<1> QED BY <1>7, <1>8, <1>11, <1>12 DEF Next

\* Key, map and row, read and written step by step by any number of threads under any faults,
\* are one lease to those who stream: granted when it is free, and taken from nobody who
\* streams but by the two robberies.
THEOREM LeaseIsOne == Spec => ImplementsUse
<1>1. Init => Use!UseInit
  BY NobodyAssumption DEF Init, Use!UseInit, Holder, Free, Leased
<1>2. TypeOK /\ ExclusionInv /\ [Next]_vars => [Use!UseNext]_(Use!useVars)
  BY UseStep
<1>3. TypeOK /\ ExclusionInv /\ [Next]_vars => ExclusionInv'
  BY ExclusionNext
<1> QED BY <1>1, <1>2, <1>3, ExclusionInit, TypeCorrect, PTL DEF Spec, ImplementsUse, Use!UseSpec
=============================================================================
