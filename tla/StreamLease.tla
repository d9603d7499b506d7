----------------------------- MODULE StreamLease -----------------------------
(***************************************************************************)
(* The lease on one registered console (a row of xbox_host) that the tasks *)
(* of several agents want to stream from.  AgentCallbackServiceImpl takes  *)
(* it in two layers: a key in Redis (StreamLeaseServiceImpl; a map inside  *)
(* the JVM while Redis does not answer), then the lock columns of the      *)
(* console's row (XboxHostMapper.casLock).  Both run out by themselves.    *)
(*                                                                         *)
(* Each access to Redis, to the map or to the row is a step of its own: a  *)
(* GET and the DEL or EXPIRE that follows it are not one operation.  Time  *)
(* counts in ticks; a lease lasts TTL of them.                             *)
(***************************************************************************)
EXTENDS Integers, FiniteSets

CONSTANTS
  Task,    \* tasks that may stream from the console, each with its agent
  Thread,  \* platform threads
  None,    \* nobody
  TTL,     \* the length of a lease (DEFAULT_CONNECT_LEASE_SEC)
  Faults   \* what may go wrong, a subset of AllFaults

\* slow: time passes while a call runs.  outage: Redis stops answering.
\* timeout: the agent gives up on a call that still runs.  crash: the agent
\* dies with its streams.  reuse: an ended task is started again under its old
\* id.  writer: a discovery report rewrites the console's row.
AllFaults == {"slow", "outage", "timeout", "crash", "reuse", "writer"}

ASSUME TTLAssumption    == TTL \in Nat \ {0}
ASSUME NobodyAssumption == None \notin Task
ASSUME FaultsAssumption == Faults \subseteq AllFaults

VARIABLES
  redis,    \* the Redis key: who holds it and for how long
  local,    \* the entry of localLeases
  db,       \* locked_by_task_id and lock_expires_time of the row
  up,       \* Redis answers
  thread,   \* thread[h]: what platform thread h is doing
  playing,  \* the tasks whose agent streams from the console
  left,     \* left[t]: what is left of the lease that t was granted last, 0 once a late
            \* release or a stale rewrite robbed it of the row (no action asks for it)
  over      \* the tasks in a terminal status

vars == <<redis, local, db, up, thread, playing, left, over>>

Lease == [by: Task \cup {None}, ttl: 0..TTL]
Free  == [by |-> None, ttl |-> 0]
Held(t) == [by |-> t, ttl |-> TTL]

AcquirePC == {"get", "expire", "setnx", "localGet", "localRemove", "localAbsent",
              "localPut", "cas"}
ReleasePC == {"relGet", "relDel", "relLocal", "relDb"}
PC == {"idle", "write"} \cup AcquirePC \cup ReleasePC

\* waits: the agent is waiting for the answer.  undo: the release is the one
\* that takes an acquired Redis lease back.  seen: the row a writer has loaded.
Job(t, pc, waits) == [task |-> t, pc |-> pc, waits |-> waits, undo |-> FALSE, seen |-> Free]
Idle == Job(None, "idle", FALSE)

ThreadState == [task: Task \cup {None}, pc: PC, waits: BOOLEAN, undo: BOOLEAN, seen: Lease]

TypeOK ==
  /\ redis \in Lease /\ local \in Lease /\ db \in Lease
  /\ up \in BOOLEAN
  /\ thread \in [Thread -> ThreadState]
  /\ \A h \in Thread : thread[h].pc \in AcquirePC \cup ReleasePC => thread[h].task \in Task
  /\ playing \subseteq Task
  /\ left \in [Task -> 0..TTL]
  /\ over \subseteq Task

Init ==
  /\ redis = Free /\ local = Free /\ db = Free
  /\ up = TRUE
  /\ thread = [h \in Thread |-> Idle]
  /\ playing = {}
  /\ left = [t \in Task |-> 0]
  /\ over = {}

-----------------------------------------------------------------------------
At(h, pc)   == thread[h].pc = pc
Goto(h, pc) == thread' = [thread EXCEPT ![h].pc = pc]
Finish(h)   == thread' = [thread EXCEPT ![h] = Idle]

\* A call for t begins on an idle thread.
Call(h, job) ==
  /\ thread[h].pc = "idle"
  /\ thread' = [thread EXCEPT ![h] = job]

\* The agent awaits its own calls one at a time.
Awaiting(t) == \E h \in Thread : thread[h].task = t /\ thread[h].waits

Layers == <<redis, local, db>>
World  == <<up, playing, left, over>>

-----------------------------------------------------------------------------
(* console_lease.try_acquire_server_id and acquireStreamLease. *)

Ask(h, t) ==
  /\ t \notin playing \cup over
  /\ ~Awaiting(t)
  /\ Call(h, Job(t, "get", TRUE))
  /\ UNCHANGED <<Layers, World>>

\* tryAcquire over Redis: GET, then EXPIRE on the own key or SETNX.  Whatever
\* throws falls through to the local map.
AcqGet(h) ==
  /\ At(h, "get")
  /\ Goto(h, IF ~up THEN "localGet" ELSE IF redis.by = thread[h].task THEN "expire" ELSE "setnx")
  /\ UNCHANGED <<Layers, World>>

\* EXPIRE lengthens whatever key is there; its answer is not looked at.
AcqExpire(h) ==
  /\ At(h, "expire")
  /\ redis' = IF up /\ redis.by # None THEN [redis EXCEPT !.ttl = TTL] ELSE redis
  /\ Goto(h, IF up THEN "cas" ELSE "localGet")
  /\ UNCHANGED <<local, db, World>>

AcqSetnx(h) ==
  /\ At(h, "setnx")
  /\ \/ ~up /\ Goto(h, "localGet") /\ UNCHANGED redis
     \/ up /\ redis.by # None /\ Finish(h) /\ UNCHANGED redis
     \/ up /\ redis.by = None /\ redis' = Held(thread[h].task) /\ Goto(h, "cas")
  /\ UNCHANGED <<local, db, World>>

\* The local map keeps an expired entry until somebody removes it.
AcqLocalGet(h) ==
  /\ At(h, "localGet")
  /\ \/ local.by = None /\ Goto(h, "localAbsent")
     \/ local.by # None /\ local.ttl = 0 /\ Goto(h, "localRemove")
     \/ local.ttl > 0 /\ local.by = thread[h].task /\ Goto(h, "localPut")
     \/ local.ttl > 0 /\ local.by # thread[h].task /\ Finish(h)
  /\ UNCHANGED <<Layers, World>>

AcqLocalRemove(h) ==
  /\ At(h, "localRemove")
  /\ local' = Free
  /\ Goto(h, "localAbsent")
  /\ UNCHANGED <<redis, db, World>>

\* putIfAbsent, and a put over the own entry or an expired one.
AcqLocalAbsent(h) ==
  LET t == thread[h].task IN
  /\ At(h, "localAbsent")
  /\ local' = IF local.by = None THEN Held(t) ELSE local
  /\ IF local.by \in {None, t} \/ local.ttl = 0 THEN Goto(h, "localPut") ELSE Finish(h)
  /\ UNCHANGED <<redis, db, World>>

AcqLocalPut(h) ==
  /\ At(h, "localPut")
  /\ local' = Held(thread[h].task)
  /\ Goto(h, "cas")
  /\ UNCHANGED <<redis, db, World>>

Lockable(t) == db.by \in {None, t} \/ db.ttl = 0

\* casLock.  When it changes no row the Redis lease is given back, and the
\* agent, if it still waits, hears that the console is taken.
AcqCas(h) ==
  LET t == thread[h].task IN
  /\ At(h, "cas")
  /\ \/ /\ Lockable(t)
        /\ db' = Held(t)
        /\ left' = [left EXCEPT ![t] = TTL]
        /\ playing' = IF thread[h].waits THEN playing \cup {t} ELSE playing
        /\ Finish(h)
     \/ /\ ~Lockable(t)
        /\ thread' = [thread EXCEPT ![h].pc = "relGet", ![h].undo = TRUE]
        /\ UNCHANGED <<db, left, playing>>
  /\ UNCHANGED <<redis, local, up, over>>

-----------------------------------------------------------------------------
(* releaseStreamLease. *)

\* Mutant: the release is asked for while the stream is still open.
Stop_Open(h, t) ==
  /\ t \in playing /\ ~Awaiting(t)
  /\ Call(h, Job(t, "relGet", TRUE))
  /\ UNCHANGED <<Layers, World>>

\* The stream is closed first; then the agent asks for the release.
Stop(h, t) ==
  /\ t \in playing /\ ~Awaiting(t)
  /\ playing' = playing \ {t}
  /\ Call(h, Job(t, "relGet", TRUE))
  /\ UNCHANGED <<Layers, up, left, over>>

\* A task ends: failed and cancelled reports and the offline cleanup release
\* both layers, terminateTask the row alone, completion and the timeout checker
\* nothing.  A stream that still runs belongs to no live task any more.
End(h, t) ==
  /\ t \notin over
  /\ over' = over \cup {t}
  /\ \/ Call(h, Job(t, "relGet", FALSE))
     \/ Call(h, Job(t, "relDb", FALSE))
     \/ UNCHANGED thread
  /\ UNCHANGED <<Layers, up, playing, left>>

\* releaseStaleHostLockIfNeeded and enrichLeaseStatus: whoever looks at the row
\* and finds the lock of an ended task unlocks in that task's name.
Reap(h) ==
  /\ db.by \in over
  /\ Call(h, Job(db.by, "relDb", FALSE))
  /\ UNCHANGED <<Layers, World>>

RelGet(h) ==
  /\ At(h, "relGet")
  /\ IF up /\ redis.by # thread[h].task
     THEN IF thread[h].undo THEN Finish(h) ELSE Goto(h, "relDb")
     ELSE Goto(h, IF up THEN "relDel" ELSE "relLocal")
  /\ UNCHANGED <<Layers, World>>

\* After the own lease is gone from Redis or the map, the row; an undo has
\* nothing there.
AfterRelease(h) == IF thread[h].undo THEN Finish(h) ELSE Goto(h, "relDb")

\* DEL removes the key, whoever holds it by now.
RelDel(h) ==
  /\ At(h, "relDel")
  /\ redis' = IF up THEN Free ELSE redis
  /\ IF up THEN AfterRelease(h) ELSE Goto(h, "relLocal")
  /\ UNCHANGED <<local, db, World>>

RelLocal(h) ==
  /\ At(h, "relLocal")
  /\ local' = IF local.by = thread[h].task THEN Free ELSE local
  /\ AfterRelease(h)
  /\ UNCHANGED <<redis, db, World>>

\* Mutant: casUnlock without the holder in its WHERE clause.
RelDb_Anybody(h) ==
  /\ At(h, "relDb")
  /\ db' = Free
  /\ Finish(h)
  /\ UNCHANGED <<redis, local, World>>

\* casUnlock.  A release nobody waits for any more may find its task streaming
\* again and rob it.
RelDb(h) ==
  LET t == thread[h].task IN
  /\ At(h, "relDb")
  /\ db' = IF db.by = t THEN Free ELSE db
  /\ left' = IF db.by = t /\ ~thread[h].waits THEN [left EXCEPT ![t] = 0] ELSE left
  /\ Finish(h)
  /\ UNCHANGED <<redis, local, up, playing, over>>

-----------------------------------------------------------------------------
(* Time and what goes wrong. *)

Older(n) == IF n = 0 THEN 0 ELSE n - 1

\* A Redis key vanishes; the map and the row keep the name of a lease that ran
\* out.
AgedKey(l) == IF l.ttl <= 1 THEN Free ELSE [l EXCEPT !.ttl = @ - 1]
Aged(l)    == [l EXCEPT !.ttl = Older(@)]

\* Mutant: a lock without an expiry.
Tick_NoExpiry ==
  /\ "slow" \in Faults \/ \A h \in Thread : thread[h].pc = "idle"
  /\ redis' = AgedKey(redis) /\ local' = Aged(local) /\ db' = db
  /\ left' = [t \in Task |-> Older(left[t])]
  /\ UNCHANGED <<up, thread, playing, over>>

Tick ==
  /\ "slow" \in Faults \/ \A h \in Thread : thread[h].pc = "idle"
  /\ redis' = AgedKey(redis) /\ local' = Aged(local) /\ db' = Aged(db)
  /\ left' = [t \in Task |-> Older(left[t])]
  /\ thread' = [h \in Thread |-> [thread[h] EXCEPT !.seen = Aged(@)]]
  /\ UNCHANGED <<up, playing, over>>

Outage ==
  /\ "outage" \in Faults /\ up
  /\ up' = FALSE
  /\ UNCHANGED <<Layers, thread, playing, left, over>>

Recover ==
  /\ ~up
  /\ up' = TRUE
  /\ UNCHANGED <<Layers, thread, playing, left, over>>

\* The agent's HTTP client waits 10 s and takes silence for a refusal.
GiveUp(h) ==
  /\ "timeout" \in Faults
  /\ thread[h].waits
  /\ thread' = [thread EXCEPT ![h].waits = FALSE]
  /\ UNCHANGED <<Layers, World>>

\* The agent process dies: its stream ends and nobody releases the lease.
Crash(t) ==
  /\ "crash" \in Faults
  /\ t \in playing
  /\ playing' = playing \ {t}
  /\ UNCHANGED <<Layers, up, thread, left, over>>

\* reactivateStreamingTask.
Reuse(t) ==
  /\ "reuse" \in Faults
  /\ t \in over \ playing
  /\ over' = over \ {t}
  /\ UNCHANGED <<Layers, up, thread, playing, left>>

\* XboxHostServiceImpl.createOrUpdate, on every discovery report: loads the row
\* and writes all of its columns back, the lock's as they were: the lock taken or
\* lengthened in between is gone.
WriterLoad(h) ==
  /\ "writer" \in Faults
  /\ Call(h, [Job(None, "write", FALSE) EXCEPT !.seen = db])
  /\ UNCHANGED <<Layers, World>>

WriterSave(h) ==
  /\ At(h, "write")
  /\ db' = thread[h].seen
  /\ left' = IF db' = db THEN left ELSE [t \in Task |-> IF t = db.by THEN 0 ELSE left[t]]
  /\ Finish(h)
  /\ UNCHANGED <<redis, local, up, playing, over>>

Step(h) ==
  \/ AcqGet(h) \/ AcqExpire(h) \/ AcqSetnx(h)
  \/ AcqLocalGet(h) \/ AcqLocalRemove(h) \/ AcqLocalAbsent(h) \/ AcqLocalPut(h)
  \/ AcqCas(h)
  \/ RelGet(h) \/ RelDel(h) \/ RelLocal(h) \/ RelDb(h)
  \/ WriterSave(h)

Begin(h) ==
  \/ \E t \in Task : Ask(h, t) \/ Stop(h, t) \/ End(h, t)
  \/ Reap(h) \/ GiveUp(h) \/ WriterLoad(h)

Next ==
  \/ \E h \in Thread : Step(h) \/ Begin(h)
  \/ \E t \in Task : Crash(t) \/ Reuse(t)
  \/ Tick \/ Outage \/ Recover

Spec == Init /\ [][Next]_vars

\* Threads go on and time passes; nobody has to ask, stop or clean up.
Fairness == WF_vars(Tick) /\ \A h \in Thread : WF_vars(Step(h))
FairSpec == Spec /\ Fairness

-----------------------------------------------------------------------------
(* Properties. *)

\* Two live tasks never both stream under a lease that has not run out, whatever
\* becomes of the Redis layer: stale GETs, an outage, a key that runs out in the
\* middle of a call, calls the agent gave up on, old releases under a reused id.  The
\* row's compare-and-set decides, and fails only a task whose lock on the row a release
\* nobody waited for or a stale rewrite took away while it streamed.
Leased == {t \in playing \ over : left[t] > 0}
LeaseExclusive == \A t, u \in Leased : t = u

\* The key, the map, the row and all their steps amount to one lease: granted when it is
\* free or the asker's own, lengthened by no one else, and taken from nobody who streams
\* but by the two robberies.  The row carries it.
Holder == IF db.ttl = 0 THEN None ELSE db.by
Use == INSTANCE ConsoleUse WITH holder <- Holder, time <- db.ttl, users <- Leased
ImplementsUse == Use!UseSpec

\* A task that has ended for good keeps the console from nobody: no crash of an agent,
\* outage of Redis, stale rewrite of the row or call that outlives its task leaves a lease
\* that never runs out.
LeaseRunsOut ==
  \A t \in Task :
    <>[](t \in over) => <>[](redis.by # t /\ (db.by = t => db.ttl = 0))

\* The tasks of a merchant never stream from one console at the same time
\* (StreamLeaseService: the key excludes others from the physical host). Does not hold:
\* the lease is never renewed.
OneStreamer == \A t, u \in playing \ over : t = u

\* StreamLeaseService.release: only the holder can release.
OnlyHolderReleases ==
  [][\A h \in Thread, t \in Task :
       At(h, "relDel") /\ redis.by = t /\ redis' = Free /\ thread'[h] # thread[h]
         => thread[h].task = t]_vars
=============================================================================
