---------------------------- MODULE TaskHostProofs ----------------------------
(* Proofs about TaskHost: the types, the permits, one coroutine per task,    *)
(* one coroutine per console, whose result is whose, and that TaskHost       *)
(* implements TaskPool.  No set is assumed to be finite.                     *)
EXTENDS TaskHost, SequenceTheorems, FiniteSetTheorems, TLAPS

USE SlotsAssumption, NoOneAssumption, UserAssumption

-----------------------------------------------------------------------------
(* The inductive invariant. *)

\* In the executor: holds one of its permits.
InExec   == {"begin", "login", "permit", "await", "failing"}
InFlight == {"queued", "notify"} \cup InExec
Executing == {d \in Copy : handler[d] \in InExec}
Unstarted == {"new", "ignored", "queued", "begin", "login", "permit"}

\* A handler that has not created its coroutine has none; the one in flight for a
\* task is the task's entry; a kill belongs to a handler in stop_task.
HandlersTied ==
  /\ \A d \in Copy : handler[d] \in Unstarted => run[d] = "none"
  /\ \A d \in Copy : handler[d] \in InFlight => inflight[task[d]] = d
  /\ \A d \in Copy : kill[d] # NoKill <=> handler[d] = "failing"
  /\ \A k \in Killer : kill[k] # NoKill => kill[k].task \in HostedTask

\* Whoever holds a permit is the task's running entry, and no other copy is its
\* context: a later message cannot have come past ensure_task_slot.
MapsTied ==
  /\ \A d \in Holders : Entry(task[d], "running") = d /\ Entry(task[d], "context") \in {d, NoOne}
  /\ \A d \in Copy : handler[d] \in {"login", "permit"} =>
       Entry(task[d], "running") = NoOne /\ Entry(task[d], "result") = NoOne
  /\ \A d \in Copy : handler[d] = "permit" => Entry(task[d], "context") \in {d, NoOne}
  /\ \A d \in Copy : handler[d] = "await" =>
       Entry(task[d], "running") \in {d, NoOne} /\ Entry(task[d], "result") \in {d, NoOne}

\* A console that a session is connected to is entered for the session's task; before
\* its first step a coroutine has none.
ConsolesTied ==
  /\ \A d \in Copy : Runs(d, {"open", "live"}) /\ conn[d] # NoOne => host[conn[d]] = task[d]
  /\ \A d \in Copy : Runs(d, {"none", "created"}) => conn[d] = NoOne

\* Both pools of permits, with what holds them: finitely many, as the permits are.
PermitsTied ==
  /\ IsFiniteSet(Holders) /\ PermitsAccounted
  /\ IsFiniteSet(Executing) /\ execFree + Cardinality(Executing) = Slots

HostInv == HandlersTied /\ MapsTied /\ ConsolesTied /\ PermitsTied

-----------------------------------------------------------------------------
(* Types. *)

\* Taking one element out of a sequence leaves a sequence.
LEMMA RemovesOne ==
  ASSUME NEW S, NEW s \in Seq(S), NEW i \in DOMAIN s
  PROVE  RemoveAt(s, i) \in Seq(S)
BY SubSeqProperties, ConcatProperties DEF RemoveAt

\* The stack of the input focus stays a sequence of tasks.
LEMMA StackTypes ==
  ASSUME focus \in Seq(HostedTask), NEW t \in HostedTask
  PROVE  Unstacked(t) \in Seq(HostedTask) /\ Append(Unstacked(t), t) \in Seq(HostedTask)
<1>1. Unstacked(t) \in Seq(HostedTask)
  <2>1. CASE InStack(t)
    <3>1. (CHOOSE i \in DOMAIN focus : focus[i] = t) \in DOMAIN focus
      BY <2>1 DEF InStack
    <3>2. RemoveAt(focus, CHOOSE i \in DOMAIN focus : focus[i] = t) \in Seq(HostedTask)
      BY <3>1, RemovesOne
    <3> QED BY <2>1, <3>2 DEF Unstacked
  <2> QED BY <2>1 DEF Unstacked
<1> QED BY <1>1, AppendProperties

\* What an entry of the maps and a kill are made of.
LEMMA EntryTypes ==
  ASSUME HostTypeOK, NEW t \in HostedTask
  PROVE  /\ NoEntry \in [DOMAIN NoEntry -> Copy \cup {NoOne}]
         /\ DOMAIN NoEntry = {"running", "event", "context", "registry", "result"}
         /\ \A f \in DOMAIN NoEntry : Entry(t, f) \in Copy \cup {NoOne}
         /\ \A fs \in SUBSET DOMAIN NoEntry : Drop(t, fs) \in [DOMAIN NoEntry -> Copy \cup {NoOne}]
         /\ Terminating(t) \in [task: HostedTask \cup {NoOne}, event: BOOLEAN, victim: Copy \cup {NoOne}]
         /\ Terminating(t).task = t /\ Terminating(t) # NoKill
         /\ NoKill \in [task: HostedTask \cup {NoOne}, event: BOOLEAN, victim: Copy \cup {NoOne}]
BY DEF HostTypeOK, NoEntry, Entry, Drop, Terminating, NoKill

\* Cancelling keeps run typed; only a created coroutine is lost by it, and nothing
\* is done or created.
LEMMA Cancels ==
  ASSUME HostTypeOK, NEW ts \in SUBSET HostedTask, CancelRuns(ts)
  PROVE  /\ run' \in [Copy -> RunPC]
         /\ \A d \in Copy : \/ run'[d] = run[d]
                            \/ run[d] = "created" /\ run'[d] = "lost"
                            \/ run[d] \in {"open", "live"} /\ run'[d] = "ending"
         /\ Holders' = Holders
         /\ \A d \in Copy : Runs(d, {"open", "live"})' => Runs(d, {"open", "live"})
BY DEF HostTypeOK, CancelRuns, RunPC, Holders, Alive, Runs

\* The except branch of a handler.
LEMMA FailingTypes ==
  ASSUME HostTypeOK, NEW d \in Copy, task[d] \in HostedTask, Failing(d)
  PROVE  /\ handler' \in [Copy -> HandlerPC] /\ run' \in [Copy -> RunPC]
         /\ kill' \in [Killer -> [task: HostedTask \cup {NoOne}, event: BOOLEAN,
                                  victim: Copy \cup {NoOne}]]
<1>1. run' \in [Copy -> RunPC]
  BY Cancels DEF Failing
<1>2. Terminating(task[d]) \in [task: HostedTask \cup {NoOne}, event: BOOLEAN, victim: Copy \cup {NoOne}]
  BY EntryTypes
<1>3. kill' = [kill EXCEPT ![d] = Terminating(task[d])] /\ d \in Killer
  BY DEF Failing, Killer
<1>4. kill' \in [Killer -> [task: HostedTask \cup {NoOne}, event: BOOLEAN, victim: Copy \cup {NoOne}]]
  BY <1>2, <1>3 DEF HostTypeOK
<1>5. handler' \in [Copy -> HandlerPC]
  BY DEF HostTypeOK, Failing, HandlerAt, HandlerPC
<1> QED BY <1>1, <1>4, <1>5

\* The permits of the executor that are in use are finitely many, and so are those
\* of the scheduler: giving one back stays within Slots.
LEMMA GivesBack ==
  ASSUME NEW n \in Nat, NEW S, IsFiniteSet(S), n + Cardinality(S) = Slots, NEW T \in SUBSET S
  PROVE  /\ IsFiniteSet(T) /\ IsFiniteSet(S \ T)
         /\ n + Cardinality(T) \in 0..Slots
         /\ n + Cardinality(T) + Cardinality(S \ T) = Slots
<1>1. IsFiniteSet(T) /\ IsFiniteSet(S \ T) /\ S \cap T = T
  BY FS_Subset
<1>2. Cardinality(S \ T) = Cardinality(S) - Cardinality(T)
  BY <1>1, FS_Difference
<1>3. Cardinality(S) \in Nat /\ Cardinality(T) \in Nat /\ Cardinality(S \ T) \in Nat
  BY <1>1, FS_CardinalityType
<1> QED BY <1>1, <1>2, <1>3

LEMMA GivesOneBack ==
  ASSUME NEW n \in Nat, NEW S, IsFiniteSet(S), n + Cardinality(S) = Slots, NEW x \in S
  PROVE  IsFiniteSet(S \ {x}) /\ n + 1 \in 0..Slots /\ n + 1 + Cardinality(S \ {x}) = Slots
<1>1. {x} \in SUBSET S
  OBVIOUS
<1>2. Cardinality({x}) = 1
  BY FS_Singleton
<1> QED BY <1>1, <1>2, GivesBack

LEMMA TakesOne ==
  ASSUME NEW n \in Nat, NEW S, IsFiniteSet(S), n + Cardinality(S) = Slots, NEW x, x \notin S, n > 0
  PROVE  /\ IsFiniteSet(S \cup {x}) /\ n - 1 \in 0..Slots
         /\ n - 1 + Cardinality(S \cup {x}) = Slots
<1>1. IsFiniteSet(S \cup {x}) /\ Cardinality(S \cup {x}) = Cardinality(S) + 1
  BY FS_AddElement
<1>2. Cardinality(S) \in Nat
  BY FS_CardinalityType
<1> QED BY <1>1, <1>2

-----------------------------------------------------------------------------
(* Steps that several actions share. *)

\* A handler inside the executor that stays there leaves its permits alone.
LEMMA StaysInExecutor ==
  ASSUME HostTypeOK, HostInv, NEW d \in Copy, handler[d] \in InExec, NEW pc \in InExec,
         HandlerAt(d, pc), UNCHANGED execFree
  PROVE  IsFiniteSet(Executing)' /\ execFree' + Cardinality(Executing') = Slots
<1>1. Executing' = Executing
  BY DEF HostTypeOK, HandlerAt, Executing
<1> QED BY <1>1 DEF HostInv, PermitsTied

\* execute_task's finally.
LEMMA Returns ==
  ASSUME HostTypeOK, HostInv, NEW d \in Copy, handler[d] \in InExec, Returned(d)
  PROVE  /\ handler' \in [Copy -> HandlerPC] /\ execFree' \in 0..Slots
         /\ IsFiniteSet(Executing)' /\ execFree' + Cardinality(Executing') = Slots
<1>1. handler' = [handler EXCEPT ![d] = "notify"] /\ execFree' = execFree + 1
  BY DEF Returned, HandlerAt
<1>2. Executing' = Executing \ {d} /\ d \in Executing
  BY <1>1 DEF HostTypeOK, Executing, InExec
<1>3. execFree \in Nat /\ IsFiniteSet(Executing) /\ execFree + Cardinality(Executing) = Slots
  BY DEF HostTypeOK, HostInv, PermitsTied
<1>4. handler' \in [Copy -> HandlerPC]
  BY <1>1 DEF HostTypeOK, HandlerPC
<1> QED BY <1>1, <1>2, <1>3, <1>4, GivesOneBack

\* The permit of the scheduler is taken and the coroutine created.
LEMMA Creates ==
  ASSUME HostTypeOK, HostInv, NEW d \in Copy, handler[d] \in {"login", "permit"}, free > 0,
         NEW entry \in [DOMAIN NoEntry -> Copy \cup {NoOne}], CreateTask(d, entry)
  PROVE  /\ handler' \in [Copy -> HandlerPC] /\ execFree' \in 0..Slots /\ free' \in 0..Slots
         /\ run' \in [Copy -> RunPC] /\ run[d] = "none" /\ run' = [run EXCEPT ![d] = "created"]
         /\ handler' \in {[handler EXCEPT ![d] = "await"], [handler EXCEPT ![d] = "notify"]}
         /\ task[d] \in HostedTask
         /\ maps' = [maps EXCEPT ![task[d]] = [entry EXCEPT !.running = d]]
         /\ maps' \in [HostedTask -> [DOMAIN NoEntry -> Copy \cup {NoOne}]]
         /\ IsFiniteSet(Executing)' /\ execFree' + Cardinality(Executing') = Slots
         /\ IsFiniteSet(Holders)' /\ free' + Cardinality(Holders') = Slots
<1>1. run[d] = "none" /\ task[d] \in HostedTask /\ handler[d] \in InExec
  BY DEF HostTypeOK, HostInv, HandlersTied, Unstarted, InExec
<1>2. /\ run' = [run EXCEPT ![d] = "created"] /\ run' \in [Copy -> RunPC]
      /\ free' = free - 1
      /\ maps' = [maps EXCEPT ![task[d]] = [entry EXCEPT !.running = d]]
  BY DEF CreateTask, HostTypeOK, RunPC
<1>3. Holders' = Holders \cup {d} /\ d \notin Holders
  BY <1>1, <1>2 DEF HostTypeOK, Holders, Alive
<1>4. free \in Nat /\ IsFiniteSet(Holders) /\ free + Cardinality(Holders) = Slots
  BY DEF HostTypeOK, HostInv, PermitsTied, PermitsAccounted
<1>5. free' \in 0..Slots /\ IsFiniteSet(Holders)' /\ free' + Cardinality(Holders') = Slots
  BY <1>2, <1>3, <1>4, TakesOne
<1>6. maps' \in [HostedTask -> [DOMAIN NoEntry -> Copy \cup {NoOne}]]
  <2>1. [entry EXCEPT !.running = d] \in [DOMAIN NoEntry -> Copy \cup {NoOne}]
    OBVIOUS
  <2> QED BY <1>1, <1>2, <2>1 DEF HostTypeOK
<1>7. CASE task[d] \in OneStep
  <2>1. HandlerAt(d, "await") /\ UNCHANGED execFree
    BY <1>7 DEF CreateTask
  <2>2. IsFiniteSet(Executing)' /\ execFree' + Cardinality(Executing') = Slots
    BY <1>1, <2>1, StaysInExecutor, "await" \in InExec DEF InExec
  <2>3. handler' = [handler EXCEPT ![d] = "await"] /\ handler' \in [Copy -> HandlerPC]
    BY <2>1 DEF HandlerAt, HostTypeOK, HandlerPC
  <2>4. execFree' \in 0..Slots
    BY <2>1 DEF HostTypeOK
  <2> QED BY <1>1, <1>2, <1>5, <1>6, <2>2, <2>3, <2>4
<1>8. CASE task[d] \notin OneStep
  <2>1. Returned(d)
    BY <1>8 DEF CreateTask
  <2>2. handler' = [handler EXCEPT ![d] = "notify"]
    BY <2>1 DEF Returned, HandlerAt
  <2> QED BY <1>1, <1>2, <1>5, <1>6, <2>1, <2>2, Returns
<1> QED BY <1>7, <1>8

\* A coroutine is done and gives its permit back.
LEMMA Finishes ==
  ASSUME HostTypeOK, HostInv, NEW d \in Copy, RunFinally(d)
  PROVE  /\ d \in Holders /\ task[d] \in HostedTask
         /\ free' \in 0..Slots /\ run' \in [Copy -> RunPC]
         /\ IsFiniteSet(Holders)' /\ free' + Cardinality(Holders') = Slots
<1>1. run[d] = "ending" /\ run' = [run EXCEPT ![d] = "done"] /\ free' = free + 1
  BY DEF RunFinally, Runs, RunBecomes
<1>2. Holders' = Holders \ {d} /\ d \in Holders
  BY <1>1 DEF HostTypeOK, Holders, Alive
<1>3. free \in Nat /\ IsFiniteSet(Holders) /\ free + Cardinality(Holders) = Slots
  BY DEF HostTypeOK, HostInv, PermitsTied, PermitsAccounted
<1>4. free' \in 0..Slots /\ IsFiniteSet(Holders)' /\ free' + Cardinality(Holders') = Slots
  BY <1>1, <1>2, <1>3, GivesOneBack
<1>5. run' \in [Copy -> RunPC]
  BY <1>1 DEF HostTypeOK, RunPC
<1>6. task[d] \in HostedTask
  BY <1>1 DEF HostTypeOK, HostInv, HandlersTied, Unstarted
<1> QED BY <1>2, <1>4, <1>5, <1>6

\* cancel_all: every handler in the executor is waiting or not yet, and those that
\* are not waiting give their permit back.
LEMMA Stops ==
  ASSUME HostTypeOK, HostInv, StopAutomation
  PROVE  /\ handler' \in [Copy -> HandlerPC] /\ execFree' \in 0..Slots
         /\ run' \in [Copy -> RunPC]
         /\ kill' \in [Killer -> [task: HostedTask \cup {NoOne}, event: BOOLEAN,
                                  victim: Copy \cup {NoOne}]]
         /\ IsFiniteSet(Executing)' /\ execFree' + Cardinality(Executing') = Slots
<1> DEFINE before  == {d \in Copy : handler[d] \in {"begin", "failing"}}
           waiting == {d \in Copy : handler[d] \in {"login", "permit", "await"}}
<1>1. /\ handler' = [d \in Copy |-> IF d \in before THEN "notify"
                                    ELSE IF d \in waiting THEN "failing" ELSE handler[d]]
      /\ execFree' = execFree + Cardinality(before)
      /\ CancelRuns({task[d] : d \in waiting})
      /\ kill' = [k \in Killer |-> IF k \in waiting THEN Terminating(task[k])
                                   ELSE IF k \in before THEN NoKill ELSE kill[k]]
  BY DEF StopAutomation
<1>2. before \in SUBSET Executing /\ Executing' = Executing \ before
  BY <1>1 DEF Executing, InExec
<1>3. execFree \in Nat /\ IsFiniteSet(Executing) /\ execFree + Cardinality(Executing) = Slots
  BY DEF HostTypeOK, HostInv, PermitsTied
<1>4. /\ execFree' \in 0..Slots
      /\ IsFiniteSet(Executing)' /\ execFree' + Cardinality(Executing') = Slots
  BY <1>1, <1>2, <1>3, GivesBack
<1>5. \A d \in waiting : task[d] \in HostedTask
  BY DEF HostTypeOK
<1>6. run' \in [Copy -> RunPC]
  <2>1. {task[d] : d \in waiting} \in SUBSET HostedTask
    BY <1>5
  <2> QED BY <1>1, <2>1, Cancels
<1>7. handler' \in [Copy -> HandlerPC]
  BY <1>1 DEF HostTypeOK, HandlerPC
<1>8. ASSUME NEW k \in Killer
      PROVE  kill'[k] \in [task: HostedTask \cup {NoOne}, event: BOOLEAN, victim: Copy \cup {NoOne}]
  <2>1. k \in waiting => Terminating(task[k]) \in [task: HostedTask \cup {NoOne}, event: BOOLEAN,
                                                   victim: Copy \cup {NoOne}]
    BY <1>5, EntryTypes
  <2>2. NoKill \in [task: HostedTask \cup {NoOne}, event: BOOLEAN, victim: Copy \cup {NoOne}]
    BY DEF NoKill
  <2>3. kill[k] \in [task: HostedTask \cup {NoOne}, event: BOOLEAN, victim: Copy \cup {NoOne}]
    BY DEF HostTypeOK
  <2>4. kill'[k] = IF k \in waiting THEN Terminating(task[k])
                   ELSE IF k \in before THEN NoKill ELSE kill[k]
    BY <1>1
  <2> HIDE DEF before, waiting
  <2> QED BY <2>1, <2>2, <2>3, <2>4
<1>9. kill' \in [Killer -> [task: HostedTask \cup {NoOne}, event: BOOLEAN, victim: Copy \cup {NoOne}]]
  BY <1>1, <1>8
<1> QED BY <1>4, <1>6, <1>7, <1>9

LEMMA TypeStep ==
  ASSUME HostTypeOK, HostInv, HostNext PROVE HostTypeOK'
<1> DEFINE Kills == [task: HostedTask \cup {NoOne}, event: BOOLEAN, victim: Copy \cup {NoOne}]
           Row   == [DOMAIN NoEntry -> Copy \cup {NoOne}]
<1>t. \A d \in Copy : handler[d] # "new" => task[d] \in HostedTask
  BY DEF HostTypeOK
<1>n. NoEntry \in Row
  BY DEF NoEntry
<1>1. ASSUME NEW d \in Copy, NEW t \in HostedTask, Deliver(d, t) PROVE HostTypeOK'
  BY <1>1 DEF HostTypeOK, Deliver, HandlerAt, HandlerPC
<1>2. ASSUME NEW d \in Copy, ExecuteTask(d) PROVE HostTypeOK'
  BY <1>2 DEF HostTypeOK, ExecuteTask, HandlerAt, HandlerPC
<1>f. ASSUME NEW d \in Copy, Failing(d), handler[d] # "new",
             maps' \in [HostedTask -> Row], host' \in [Console -> HostedTask \cup {NoOne}],
             UNCHANGED <<task, inflight, execFree, free, synced, conn, focus>>
      PROVE  HostTypeOK'
  <2>1. handler' = [handler EXCEPT ![d] = "failing"]
    BY <1>f DEF Failing, HandlerAt
  <2>2. handler' \in [Copy -> HandlerPC] /\ run' \in [Copy -> RunPC] /\ kill' \in [Killer -> Kills]
    BY <1>f, <1>t, FailingTypes
  <2> QED BY <1>f, <1>t, <2>1, <2>2 DEF HostTypeOK
<1>3. ASSUME NEW d \in Copy, EnsureTaskSlot(d) PROVE HostTypeOK'
  <2>1. CASE Entry(task[d], "running") # NoOne
    <3>1. Failing(d) /\ UNCHANGED <<maps, host, task, inflight, execFree, free, synced, conn, focus>>
      BY <1>3, <2>1 DEF EnsureTaskSlot
    <3> QED BY <1>3, <3>1, <1>f DEF HostTypeOK, EnsureTaskSlot
  <2>2. CASE Entry(task[d], "running") = NoOne
    <3>1. /\ maps' = [maps EXCEPT ![task[d]] = NoEntry]
          /\ host' = HostsWithout(task[d])
          /\ handler' = [handler EXCEPT ![d] = "login"]
          /\ UNCHANGED <<task, inflight, execFree, free, run, synced, conn, focus, kill>>
      BY <1>3, <2>2 DEF EnsureTaskSlot, HandlerAt
    <3>2. maps' \in [HostedTask -> Row]
      BY <3>1, <1>n DEF HostTypeOK
    <3>3. host' \in [Console -> HostedTask \cup {NoOne}] /\ handler' \in [Copy -> HandlerPC]
      BY <3>1 DEF HostTypeOK, HostsWithout, HandlerPC
    <3> QED BY <1>3, <1>t, <3>1, <3>2, <3>3 DEF HostTypeOK, EnsureTaskSlot
  <2> QED BY <2>1, <2>2
<1>4. ASSUME NEW d \in Copy, PrepareFails(d) PROVE HostTypeOK'
  BY <1>4, <1>f DEF PrepareFails, HostTypeOK
<1>5. ASSUME NEW d \in Copy, AwaitTimeout(d) PROVE HostTypeOK'
  BY <1>5, <1>f DEF AwaitTimeout, HostTypeOK
<1>c. ASSUME NEW d \in Copy, NEW entry \in Row, handler[d] \in {"login", "permit"}, free > 0,
             CreateTask(d, entry), UNCHANGED <<task, inflight, synced, conn, host, focus, kill>>
      PROVE  HostTypeOK'
  <2> HIDE DEF Kills
  <2>1. /\ handler' \in [Copy -> HandlerPC] /\ execFree' \in 0..Slots /\ free' \in 0..Slots
        /\ run' \in [Copy -> RunPC] /\ task[d] \in HostedTask
        /\ maps' \in [HostedTask -> Row]
        /\ handler' \in {[handler EXCEPT ![d] = "await"], [handler EXCEPT ![d] = "notify"]}
    BY <1>c, Creates
  <2> QED BY <1>c, <1>t, <2>1 DEF HostTypeOK
<1>6. ASSUME NEW d \in Copy, Register(d) PROVE HostTypeOK'
  <2> DEFINE entry == [maps[task[d]] EXCEPT !.event = d, !.context = d]
             registered == [entry EXCEPT !.registry = d]
  <2>1. handler[d] = "login" /\ task[d] \in HostedTask
    BY <1>6, <1>t DEF Register
  <2>2. maps[task[d]] \in Row
    BY <2>1 DEF HostTypeOK
  <2>3. entry \in Row /\ registered \in Row
    BY <2>2 DEF NoEntry
  <2>4. CASE Entry(task[d], "registry") # NoOne
    <3>1. /\ maps' = [maps EXCEPT ![task[d]] = entry] /\ Failing(d)
          /\ UNCHANGED <<task, inflight, execFree, free, synced, conn, host, focus>>
      BY <1>6, <2>4 DEF Register
    <3>2. maps' \in [HostedTask -> Row]
      BY <2>1, <2>3, <3>1 DEF HostTypeOK
    <3> QED BY <2>1, <3>1, <3>2, <1>f DEF HostTypeOK
  <2>5. CASE Entry(task[d], "registry") = NoOne /\ free = 0
    <3>1. /\ maps' = [maps EXCEPT ![task[d]] = registered]
          /\ handler' = [handler EXCEPT ![d] = "permit"]
          /\ UNCHANGED <<task, inflight, execFree, free, run, kill, synced, conn, host, focus>>
      BY <1>6, <2>5 DEF Register, HandlerAt
    <3>2. maps' \in [HostedTask -> Row]
      BY <2>1, <2>3, <3>1 DEF HostTypeOK
    <3>3. handler' \in [Copy -> HandlerPC]
      BY <3>1 DEF HostTypeOK, HandlerPC
    <3> HIDE DEF Row
    <3> QED BY <2>1, <1>t, <3>1, <3>2, <3>3 DEF HostTypeOK, Row
  <2>6. CASE Entry(task[d], "registry") = NoOne /\ free # 0
    <3>1. CreateTask(d, registered) /\ UNCHANGED <<task, inflight, synced, conn, host, focus, kill>>
      BY <1>6, <2>6 DEF Register
    <3>2. free > 0
      BY <2>6 DEF HostTypeOK
    <3> HIDE DEF registered
    <3> QED BY <2>1, <2>3, <3>1, <3>2, <1>c
  <2> QED BY <2>4, <2>5, <2>6
<1>7. ASSUME NEW d \in Copy, Launch(d) PROVE HostTypeOK'
  <2>1. maps[task[d]] \in Row
    BY <1>7, <1>t DEF HostTypeOK, Launch
  <2> QED BY <1>7, <2>1, <1>c DEF Launch
<1>r. ASSUME NEW d \in Copy, handler[d] \in InExec, Returned(d),
             maps' \in [HostedTask -> Row], conn' \in [Copy -> Console \cup {NoOne}],
             host' \in [Console -> HostedTask \cup {NoOne}], kill' \in [Killer -> Kills],
             UNCHANGED <<task, inflight, free, run, synced, focus>>
      PROVE  HostTypeOK'
  <2>1. handler' \in [Copy -> HandlerPC] /\ execFree' \in 0..Slots
    BY <1>r, Returns
  <2>2. handler' = [handler EXCEPT ![d] = "notify"] /\ task[d] \in HostedTask
    BY <1>r, <1>t DEF Returned, HandlerAt, InExec
  <2> QED BY <1>r, <1>t, <2>1, <2>2 DEF HostTypeOK
<1>8. ASSUME NEW d \in Copy, TakeResult(d) PROVE HostTypeOK'
  BY <1>8, <1>r DEF TakeResult, InExec, HostTypeOK
<1>9. ASSUME NEW d \in Copy, Notify(d) PROVE HostTypeOK'
  BY <1>9 DEF HostTypeOK, Notify, HandlerAt, HandlerPC
<1>10. ASSUME NEW d \in Copy, FirstStep(d) PROVE HostTypeOK'
  <2>1. run[d] = "created" /\ run' = [run EXCEPT ![d] = "open"]
    BY <1>10 DEF FirstStep, Runs, RunBecomes
  <2>2. task[d] \in HostedTask
    BY <2>1 DEF HostTypeOK, HostInv, HandlersTied, Unstarted
  <2>3. focus' \in Seq(HostedTask)
    BY <1>10, <2>2, StackTypes DEF FirstStep, HostTypeOK
  <2> QED BY <1>10, <2>1, <2>3 DEF HostTypeOK, FirstStep, RunPC
<1>11. ASSUME NEW d \in Copy, RunFinally(d) PROVE HostTypeOK'
  <2>1. task[d] \in HostedTask /\ free' \in 0..Slots /\ run' \in [Copy -> RunPC]
    BY <1>11, Finishes
  <2>2. focus' \in Seq(HostedTask)
    BY <1>11, <2>1, StackTypes DEF RunFinally, HostTypeOK
  <2>3. [NoEntry EXCEPT !.result = d] \in Row
    BY DEF NoEntry
  <2>4. maps' \in [HostedTask -> Row]
    BY <1>11, <2>1, <2>3 DEF RunFinally, HostTypeOK
  <2> HIDE DEF Row
  <2> QED BY <1>11, <2>1, <2>2, <2>4 DEF HostTypeOK, RunFinally, Row
<1>12. ASSUME NEW d \in Copy, Opened(d) \/ Ends(d) PROVE HostTypeOK'
  BY <1>12 DEF HostTypeOK, Opened, Ends, Runs, RunBecomes, RunPC
<1>13. ASSUME NEW d \in Copy, ReleaseHost(d) PROVE HostTypeOK'
  BY <1>13 DEF HostTypeOK, ReleaseHost, Runs
<1>14. ASSUME NEW d \in Copy, NEW c \in Console, AcquireHost(d, c) PROVE HostTypeOK'
  <2>1. task[d] \in HostedTask
    BY <1>14 DEF HostTypeOK, HostInv, HandlersTied, Unstarted, AcquireHost, Runs
  <2> QED BY <1>14, <2>1 DEF HostTypeOK, AcquireHost
<1>15. ASSUME StopAutomation PROVE HostTypeOK'
  <2>1. \A d \in Copy : handler'[d] # "new" => handler[d] # "new"
    BY <1>15 DEF StopAutomation
  <2>2. UNCHANGED <<task, inflight, free, maps, synced, conn, host, focus>>
    BY <1>15 DEF StopAutomation
  <2>3. /\ handler' \in [Copy -> HandlerPC] /\ execFree' \in 0..Slots
        /\ run' \in [Copy -> RunPC] /\ kill' \in [Killer -> Kills]
    BY <1>15, Stops
  <2> QED BY <2>1, <2>2, <2>3 DEF HostTypeOK
<1>16. ASSUME NEW t \in HostedTask, UserTerminate(t) PROVE HostTypeOK'
  <2>1. run' \in [Copy -> RunPC]
    BY <1>16, Cancels DEF UserTerminate
  <2>2. Terminating(t) \in Kills
    BY EntryTypes
  <2>3. kill' \in [Killer -> Kills]
    BY <1>16, <2>2 DEF UserTerminate, HostTypeOK
  <2> QED BY <1>16, <2>1, <2>3 DEF HostTypeOK, UserTerminate
<1>17. ASSUME NEW t \in HostedTask, FocusWindow(t) PROVE HostTypeOK'
  <2>1. focus' \in Seq(HostedTask)
    BY <1>17, StackTypes DEF FocusWindow, HostTypeOK
  <2> QED BY <1>17, <2>1 DEF HostTypeOK, FocusWindow
<1>18. ASSUME NEW k \in Killer, AfterWait(k) PROVE HostTypeOK'
  <2> DEFINE t == kill[k].task
             x == Entry(t, "context")
  <2>1. t \in HostedTask /\ kill[k] # NoKill
    BY <1>18 DEF AfterWait, HostInv, HandlersTied
  <2>2. \A fs \in SUBSET DOMAIN NoEntry : Drop(t, fs) \in Row
    BY <2>1, EntryTypes
  <2>3. {"context", "result"} \in SUBSET DOMAIN NoEntry
    BY DEF NoEntry
  <2>4. maps' = maps \/ maps' = [maps EXCEPT ![t] = Drop(t, {"context", "result"})]
    BY <1>18 DEF AfterWait
  <2>5. maps' \in [HostedTask -> Row]
    BY <2>1, <2>2, <2>3, <2>4 DEF HostTypeOK
  <2>6. host' \in [Console -> HostedTask \cup {NoOne}] /\ conn' \in [Copy -> Console \cup {NoOne}]
    <3>1. \/ UNCHANGED <<host, conn>>
          \/ /\ host' = IF conn[x] = NoOne THEN host
                        ELSE [host EXCEPT ![conn[x]] = IF @ = t THEN NoOne ELSE @]
             /\ conn' = [conn EXCEPT ![x] = NoOne]
      BY <1>18 DEF AfterWait
    <3>2. host \in [Console -> HostedTask \cup {NoOne}] /\ conn \in [Copy -> Console \cup {NoOne}]
      BY DEF HostTypeOK
    <3> HIDE DEF x, t
    <3> QED BY <3>1, <3>2
  <2>7. kill' \in [Killer -> Kills]
    BY <1>18 DEF AfterWait, HostTypeOK, NoKill
  <2>8. UNCHANGED <<task, inflight, free, run, synced, focus>>
    BY <1>18 DEF AfterWait
  <2>9. CASE k \in Copy
    <3>1. Returned(k) /\ handler[k] \in InExec
      BY <1>18, <2>1, <2>9 DEF AfterWait, HostInv, HandlersTied, InExec
    <3> QED BY <2>5, <2>6, <2>7, <2>8, <2>9, <3>1, <1>r
  <2>10. CASE k \notin Copy
    <3>1. UNCHANGED <<handler, execFree>>
      BY <1>18, <2>10 DEF AfterWait
    <3> QED BY <2>5, <2>6, <2>7, <2>8, <3>1 DEF HostTypeOK
  <2> QED BY <2>9, <2>10
<1> QED
  BY <1>1, <1>2, <1>3, <1>4, <1>5, <1>6, <1>7, <1>8, <1>9, <1>10, <1>11, <1>12, <1>13, <1>14,
     <1>15, <1>16, <1>17, <1>18
  DEF HostNext, Handles, Proceeds

-----------------------------------------------------------------------------
(* The invariant, part by part. *)

LEMMA InvInit == HostInit => HostTypeOK /\ HostInv
<1> SUFFICES ASSUME HostInit PROVE HostTypeOK /\ HostInv
  OBVIOUS
<1>1. HostTypeOK
  <2>1. focus \in Seq(HostedTask)
    BY DEF HostInit
  <2>2. NoKill \in [task: HostedTask \cup {NoOne}, event: BOOLEAN, victim: Copy \cup {NoOne}]
    BY DEF NoKill
  <2>3. NoEntry \in [DOMAIN NoEntry -> Copy \cup {NoOne}]
    BY DEF NoEntry
  <2> QED BY <2>1, <2>2, <2>3 DEF HostTypeOK, HostInit, HandlerPC, RunPC
<1>2. HandlersTied /\ ConsolesTied
  BY DEF HostInit, HandlersTied, ConsolesTied, Unstarted, InFlight, InExec, Runs, Killer
<1>3. Holders = {} /\ Executing = {}
  BY DEF HostInit, Holders, Executing, Alive, InExec
<1>4. MapsTied
  BY <1>3 DEF HostInit, MapsTied
<1>5. PermitsTied
  BY <1>3, FS_EmptySet DEF HostInit, PermitsTied, PermitsAccounted
<1> QED BY <1>1, <1>2, <1>4, <1>5 DEF HostInv

\* Where a handler may be after a step, and what that says of its coroutine.
LEMMA HandlersStep ==
  ASSUME HostTypeOK, HostInv, HostNext PROVE HandlersTied'
<1> USE DEF HostTypeOK, HandlersTied, Unstarted, InFlight, InExec
<1>i. HandlersTied
  BY DEF HostInv
<1>t. \A d \in Copy : handler[d] # "new" => task[d] \in HostedTask
  OBVIOUS
<1>f. ASSUME NEW d \in Copy, Failing(d), handler[d] \in {"begin", "login", "await"},
             UNCHANGED <<task, inflight>>
      PROVE  HandlersTied'
  <2>1. Terminating(task[d]) # NoKill /\ Terminating(task[d]).task = task[d]
    BY <1>f, <1>t, EntryTypes
  <2>2. /\ handler' = [handler EXCEPT ![d] = "failing"]
        /\ kill' = [kill EXCEPT ![d] = Terminating(task[d])]
    BY <1>f DEF Failing, HandlerAt
  <2>3. \A e \in Copy : run[e] = "none" => run'[e] = "none"
    BY <1>f, <1>t, Cancels DEF Failing
  <2> QED BY <1>f, <1>i, <1>t, <2>1, <2>2, <2>3 DEF Killer
<1>1. ASSUME NEW d \in Copy, NEW t \in HostedTask, Deliver(d, t) PROVE HandlersTied'
  BY <1>1, <1>i DEF Deliver, HandlerAt
<1>2. ASSUME NEW d \in Copy, ExecuteTask(d) PROVE HandlersTied'
  BY <1>2, <1>i DEF ExecuteTask, HandlerAt
<1>3. ASSUME NEW d \in Copy, EnsureTaskSlot(d) PROVE HandlersTied'
  <2>1. CASE Failing(d)
    BY <1>3, <2>1, <1>f DEF EnsureTaskSlot
  <2>2. CASE ~Failing(d)
    BY <1>3, <2>2, <1>i DEF EnsureTaskSlot, HandlerAt
  <2> QED BY <2>1, <2>2
<1>4. ASSUME NEW d \in Copy, PrepareFails(d) \/ AwaitTimeout(d) PROVE HandlersTied'
  BY <1>4, <1>f DEF PrepareFails, AwaitTimeout
<1>5. ASSUME NEW d \in Copy, NEW entry, handler[d] \in {"login", "permit"},
             CreateTask(d, entry), UNCHANGED <<task, inflight, kill>>
      PROVE  HandlersTied'
  <2>1. /\ handler' \in {[handler EXCEPT ![d] = "await"], [handler EXCEPT ![d] = "notify"]}
        /\ run' = [run EXCEPT ![d] = "created"]
    BY <1>5 DEF CreateTask, HandlerAt, Returned
  <2> QED BY <1>5, <1>i, <2>1
<1>6. ASSUME NEW d \in Copy, Register(d) PROVE HandlersTied'
  <2>1. CASE Failing(d)
    BY <1>6, <2>1, <1>f DEF Register
  <2>2. CASE HandlerAt(d, "permit") /\ UNCHANGED <<run, kill>>
    BY <1>6, <2>2, <1>i DEF Register, HandlerAt
  <2>3. CASE \E entry : CreateTask(d, entry) /\ UNCHANGED kill
    BY <1>6, <2>3, <1>5 DEF Register
  <2> QED BY <1>6, <2>1, <2>2, <2>3 DEF Register
<1>7. ASSUME NEW d \in Copy, Launch(d) PROVE HandlersTied'
  BY <1>7, <1>5 DEF Launch
<1>8. ASSUME NEW d \in Copy, TakeResult(d) PROVE HandlersTied'
  BY <1>8, <1>i DEF TakeResult, Returned, HandlerAt
<1>9. ASSUME NEW d \in Copy, Notify(d) PROVE HandlersTied'
  BY <1>9, <1>i, <1>t DEF Notify, HandlerAt
<1>10. ASSUME NEW d \in Copy, FirstStep(d) \/ RunFinally(d) \/ Opened(d) \/ Ends(d) PROVE HandlersTied'
  <2>1. run[d] # "none" /\ UNCHANGED <<task, handler, inflight, kill>>
    BY <1>10 DEF FirstStep, RunFinally, Opened, Ends, Runs
  <2>2. \A e \in Copy : e # d => run'[e] = run[e]
    BY <1>10 DEF FirstStep, RunFinally, Opened, Ends, RunBecomes
  <2> QED BY <1>i, <2>1, <2>2
<1>11. ASSUME NEW d \in Copy, ReleaseHost(d) PROVE HandlersTied'
  BY <1>11, <1>i DEF ReleaseHost
<1>12. ASSUME NEW d \in Copy, NEW c \in Console, AcquireHost(d, c) PROVE HandlersTied'
  BY <1>12, <1>i DEF AcquireHost
<1>13. ASSUME StopAutomation PROVE HandlersTied'
  <2> DEFINE before  == {d \in Copy : handler[d] \in {"begin", "failing"}}
             waiting == {d \in Copy : handler[d] \in {"login", "permit", "await"}}
  <2>1. /\ handler' = [d \in Copy |-> IF d \in before THEN "notify"
                                      ELSE IF d \in waiting THEN "failing" ELSE handler[d]]
        /\ CancelRuns({task[d] : d \in waiting})
        /\ kill' = [k \in Killer |-> IF k \in waiting THEN Terminating(task[k])
                                     ELSE IF k \in before THEN NoKill ELSE kill[k]]
        /\ UNCHANGED <<task, inflight>>
    BY <1>13 DEF StopAutomation
  <2>2. {task[d] : d \in waiting} \in SUBSET HostedTask
    BY <1>t
  <2>3. \A e \in Copy : run[e] = "none" => run'[e] = "none"
    BY <2>1, <2>2, Cancels
  <2>4. \A d \in waiting : Terminating(task[d]) # NoKill /\ Terminating(task[d]).task = task[d]
    BY <1>t, EntryTypes
  <2>5. \A d \in Copy : handler'[d] \in Unstarted => run'[d] = "none"
    BY <1>i, <2>1, <2>3
  <2>6. \A d \in Copy : handler'[d] \in InFlight => inflight'[task'[d]] = d
    BY <1>i, <2>1
  <2>7. \A d \in Copy : kill'[d] # NoKill <=> handler'[d] = "failing"
    BY <1>i, <2>1, <2>4 DEF Killer
  <2>8. \A k \in Killer : kill'[k] # NoKill => kill'[k].task \in HostedTask
    BY <1>i, <1>t, <2>1, <2>4
  <2> QED BY <2>5, <2>6, <2>7, <2>8
<1>14. ASSUME NEW t \in HostedTask, UserTerminate(t) PROVE HandlersTied'
  <2>1. \A e \in Copy : run[e] = "none" => run'[e] = "none"
    BY <1>14, Cancels DEF UserTerminate
  <2>2. Terminating(t) # NoKill /\ Terminating(t).task = t
    BY EntryTypes
  <2> QED BY <1>14, <1>i, <2>1, <2>2 DEF UserTerminate, Killer
<1>15. ASSUME NEW t \in HostedTask, FocusWindow(t) PROVE HandlersTied'
  BY <1>15, <1>i DEF FocusWindow
<1>16. ASSUME NEW k \in Killer, AfterWait(k) PROVE HandlersTied'
  <2>1. kill' = [kill EXCEPT ![k] = NoKill] /\ kill[k] # NoKill /\ UNCHANGED <<task, inflight, run>>
    BY <1>16 DEF AfterWait
  <2>2. IF k \in Copy THEN handler' = [handler EXCEPT ![k] = "notify"] ELSE UNCHANGED handler
    BY <1>16 DEF AfterWait, Returned, HandlerAt
  <2> QED BY <1>i, <2>1, <2>2 DEF Killer
<1> QED
  BY <1>1, <1>2, <1>3, <1>4, <1>6, <1>7, <1>8, <1>9, <1>10, <1>11, <1>12, <1>13, <1>14, <1>15, <1>16
  DEF HostNext, Handles, Proceeds

\* A handler before its coroutine, and the coroutine of another message of its
\* task: they never meet.
LEMMA NobodyElse ==
  ASSUME HostTypeOK, HostInv, NEW d \in Copy, handler[d] \in {"login", "permit"},
         NEW e \in Holders
  PROVE  task[e] # task[d]
<1>1. Entry(task[d], "running") = NoOne /\ Entry(task[e], "running") = e
  BY DEF HostInv, MapsTied
<1>2. e # NoOne
  BY DEF Holders
<1> QED BY <1>1, <1>2

\* Two handlers in flight have different tasks.
LEMMA OneInFlight ==
  ASSUME HostTypeOK, HostInv, NEW d \in Copy, handler[d] \in InFlight,
         NEW e \in Copy, handler[e] \in InFlight, task[d] = task[e]
  PROVE  d = e
BY DEF HostInv, HandlersTied

\* Two coroutines that hold a permit have different tasks.
LEMMA OneHolder ==
  ASSUME HostTypeOK, HostInv, NEW d \in Holders, NEW e \in Holders, task[d] = task[e]
  PROVE  d = e
BY DEF HostInv, MapsTied

\* What the maps say when nothing is created and the entries of one task change to a
\* part of what they were.
LEMMA MapsStep ==
  ASSUME HostTypeOK, HostInv, HostNext PROVE MapsTied'
<1> USE DEF HostTypeOK
<1>i. MapsTied
  BY DEF HostInv
<1>h. \A d \in Holders : task[d] \in HostedTask /\ handler[d] \notin Unstarted
  BY DEF HostInv, HandlersTied, Unstarted, Holders, Alive
<1>s. ASSUME Holders' \in SUBSET Holders, UNCHANGED <<task, maps>>,
             \A d \in Copy : handler'[d] \in {"login", "permit", "await"} => handler'[d] = handler[d]
      PROVE  MapsTied'
  BY <1>s, <1>i, <1>h DEF MapsTied, Entry
<1>f. ASSUME NEW d \in Copy, Failing(d), handler[d] # "new", UNCHANGED <<task, maps>>
      PROVE  MapsTied'
  <2>1. Holders' = Holders
    BY <1>f, Cancels DEF Failing
  <2> QED BY <1>f, <2>1, <1>s DEF Failing, HandlerAt
<1>1. ASSUME NEW d \in Copy, NEW t \in HostedTask, Deliver(d, t) PROVE MapsTied'
  <2>1. Holders' = Holders /\ d \notin Holders /\ UNCHANGED maps
    BY <1>1, <1>h DEF Deliver, Holders, Unstarted
  <2>2. \A e \in Copy : e # d => task'[e] = task[e] /\ handler'[e] = handler[e]
    BY <1>1 DEF Deliver, HandlerAt
  <2>3. handler'[d] \in {"queued", "ignored"}
    BY <1>1 DEF Deliver, HandlerAt
  <2> QED BY <1>i, <2>1, <2>2, <2>3 DEF MapsTied, Entry, Holders
<1>2. ASSUME NEW d \in Copy, ExecuteTask(d) PROVE MapsTied'
  BY <1>2, <1>s DEF ExecuteTask, HandlerAt, Holders
<1>3. ASSUME NEW d \in Copy, EnsureTaskSlot(d) PROVE MapsTied'
  <2>1. CASE Entry(task[d], "running") # NoOne
    BY <1>3, <2>1, <1>f DEF EnsureTaskSlot
  <2>2. CASE Entry(task[d], "running") = NoOne
    <3>1. /\ maps' = [maps EXCEPT ![task[d]] = NoEntry]
          /\ handler' = [handler EXCEPT ![d] = "login"] /\ UNCHANGED <<task, run>>
          /\ handler[d] = "begin"
      BY <1>3, <2>2 DEF EnsureTaskSlot, HandlerAt
    <3>2. Holders' = Holders /\ \A e \in Holders : task[e] # task[d]
      BY <3>1, <2>2, <1>i DEF Holders, MapsTied
    <3>3. \A e \in Copy : handler[e] \in InFlight /\ task[e] = task[d] => e = d
      BY <3>1, OneInFlight DEF InFlight, InExec
    <3>4. /\ NoEntry.running = NoOne /\ NoEntry.result = NoOne /\ NoEntry.context = NoOne
          /\ \A t \in HostedTask : t # task[d] => maps'[t] = maps[t]
          /\ maps'[task[d]] = NoEntry
      BY <3>1 DEF NoEntry
    <3> QED BY <1>i, <1>h, <3>1, <3>2, <3>3, <3>4 DEF MapsTied, Entry, InFlight, InExec
  <2> QED BY <2>1, <2>2
<1>4. ASSUME NEW d \in Copy, PrepareFails(d) \/ AwaitTimeout(d) PROVE MapsTied'
  BY <1>4, <1>f DEF PrepareFails, AwaitTimeout
<1>5. ASSUME NEW d \in Copy, handler[d] \in {"login", "permit"}, UNCHANGED task, free > 0,
             NEW entry \in [DOMAIN NoEntry -> Copy \cup {NoOne}], CreateTask(d, entry),
             entry.context \in {d, NoOne}, entry.result = NoOne
      PROVE  MapsTied'
  <2>1. /\ maps' = [maps EXCEPT ![task[d]] = [entry EXCEPT !.running = d]]
        /\ run' = [run EXCEPT ![d] = "created"] /\ task[d] \in HostedTask
        /\ handler' \in {[handler EXCEPT ![d] = "await"], [handler EXCEPT ![d] = "notify"]}
    BY <1>5, Creates
  <2>2. /\ maps'[task[d]]["running"] = d /\ maps'[task[d]]["context"] \in {d, NoOne}
        /\ maps'[task[d]]["result"] = NoOne
        /\ \A t \in HostedTask : t # task[d] => maps'[t] = maps[t]
    BY <1>5, <2>1 DEF NoEntry
  <2>3. Holders' = Holders \cup {d}
    BY <2>1 DEF Holders, Alive
  <2>4. \A e \in Holders : task[e] # task[d]
    BY <1>5, NobodyElse
  <2>5. \A e \in Copy : handler[e] \in InFlight /\ task[e] = task[d] => e = d
    BY <1>5, OneInFlight DEF InFlight, InExec
  <2>6. \A e \in Copy : e # d => handler'[e] = handler[e]
    BY <2>1
  <2>7. handler'[d] \in {"await", "notify"}
    BY <2>1
  <2>8. \A e \in Holders' : /\ maps'[task[e]]["running"] = e
                            /\ maps'[task[e]]["context"] \in {e, NoOne}
    BY <1>i, <1>h, <2>2, <2>3, <2>4 DEF MapsTied, Entry
  <2>9. ASSUME NEW e \in Copy, handler'[e] \in {"login", "permit", "await"}, e # d
        PROVE  handler'[e] = handler[e] /\ task[e] # task[d] /\ maps'[task[e]] = maps[task[e]]
    BY <2>2, <2>5, <2>6, <2>9 DEF InFlight, InExec
  <2>10. UNCHANGED task
    BY <1>5
  <2>11. \A e \in Copy : handler'[e] \in {"login", "permit"} =>
           Entry(task[e], "running")' = NoOne /\ Entry(task[e], "result")' = NoOne
    BY <1>i, <2>7, <2>9, <2>10 DEF MapsTied, Entry
  <2>12. \A e \in Copy : handler'[e] = "permit" => Entry(task[e], "context")' \in {e, NoOne}
    BY <1>i, <2>7, <2>9, <2>10 DEF MapsTied, Entry
  <2>13. \A e \in Copy : handler'[e] = "await" =>
           Entry(task[e], "running")' \in {e, NoOne} /\ Entry(task[e], "result")' \in {e, NoOne}
    BY <1>i, <2>2, <2>9, <2>10 DEF MapsTied, Entry
  <2> QED BY <2>8, <2>10, <2>11, <2>12, <2>13 DEF MapsTied, Entry
<1>6. ASSUME NEW d \in Copy, Register(d) PROVE MapsTied'
  <2> DEFINE entry == [maps[task[d]] EXCEPT !.event = d, !.context = d]
             registered == [entry EXCEPT !.registry = d]
  <2>1. handler[d] = "login" /\ task[d] \in HostedTask
        /\ maps[task[d]].running = NoOne /\ maps[task[d]].result = NoOne
    BY <1>6, <1>i DEF Register, MapsTied, Entry
  <2>2. maps[task[d]] \in [DOMAIN NoEntry -> Copy \cup {NoOne}]
    BY <2>1
  <2>3. /\ entry \in [DOMAIN NoEntry -> Copy \cup {NoOne}]
        /\ registered \in [DOMAIN NoEntry -> Copy \cup {NoOne}]
        /\ entry.running = NoOne /\ entry.context = d /\ entry.result = NoOne
        /\ registered.running = NoOne /\ registered.context = d /\ registered.result = NoOne
    BY <2>1, <2>2 DEF NoEntry
  <2>4. \A e \in Holders : task[e] # task[d]
    BY <2>1, NobodyElse
  <2>5. \A e \in Copy : handler[e] \in InFlight /\ task[e] = task[d] => e = d
    BY <2>1, OneInFlight DEF InFlight, InExec
  <2> HIDE DEF entry, registered
  <2>6. CASE Entry(task[d], "registry") # NoOne
    <3>1. maps' = [maps EXCEPT ![task[d]] = entry] /\ Failing(d) /\ UNCHANGED task
      BY <1>6, <2>6 DEF Register, entry
    <3>2. Holders' = Holders /\ handler' = [handler EXCEPT ![d] = "failing"]
      BY <2>1, <3>1, Cancels DEF Failing, HandlerAt
    <3> QED BY <1>i, <1>h, <2>1, <2>3, <2>4, <2>5, <3>1, <3>2 DEF MapsTied, Entry, InFlight, InExec
  <2>7. CASE Entry(task[d], "registry") = NoOne /\ free = 0
    <3>1. /\ maps' = [maps EXCEPT ![task[d]] = registered]
          /\ handler' = [handler EXCEPT ![d] = "permit"] /\ UNCHANGED <<run, task>>
      BY <1>6, <2>7 DEF Register, HandlerAt, entry, registered
    <3>2. Holders' = Holders
      BY <3>1 DEF Holders
    <3> QED BY <1>i, <1>h, <2>1, <2>3, <2>4, <2>5, <3>1, <3>2 DEF MapsTied, Entry, InFlight, InExec
  <2>8. CASE Entry(task[d], "registry") = NoOne /\ free # 0
    <3>1. CreateTask(d, registered) /\ UNCHANGED task
      BY <1>6, <2>8 DEF Register, entry, registered
    <3> QED BY <2>1, <2>3, <2>8, <3>1, <1>5
  <2> QED BY <2>6, <2>7, <2>8
<1>7. ASSUME NEW d \in Copy, Launch(d) PROVE MapsTied'
  <2>1. /\ task[d] \in HostedTask /\ handler[d] = "permit" /\ free > 0
        /\ CreateTask(d, maps[task[d]]) /\ UNCHANGED task
    BY <1>7 DEF Launch
  <2>2. maps[task[d]].context \in {d, NoOne} /\ maps[task[d]].result = NoOne
    BY <2>1, <1>i DEF MapsTied, Entry
  <2>3. maps[task[d]] \in [DOMAIN NoEntry -> Copy \cup {NoOne}]
    BY <2>1
  <2> QED BY <2>1, <2>2, <2>3, <1>5
<1>8. ASSUME NEW d \in Copy, TakeResult(d) PROVE MapsTied'
  BY <1>8, <1>s DEF TakeResult, Returned, HandlerAt, Holders
<1>9. ASSUME NEW d \in Copy, Notify(d) PROVE MapsTied'
  BY <1>9, <1>s DEF Notify, HandlerAt, Holders
<1>10. ASSUME NEW d \in Copy, FirstStep(d) \/ Opened(d) \/ Ends(d) PROVE MapsTied'
  <2>1. Holders' = Holders
    BY <1>10 DEF FirstStep, Opened, Ends, Runs, RunBecomes, Holders, Alive
  <2> QED BY <1>10, <2>1, <1>s DEF FirstStep, Opened, Ends
<1>11. ASSUME NEW d \in Copy, RunFinally(d) PROVE MapsTied'
  <2>1. d \in Holders /\ task[d] \in HostedTask
    BY <1>11, Finishes
  <2>2. /\ maps' = [maps EXCEPT ![task[d]] = [NoEntry EXCEPT !.result = d]]
        /\ run' = [run EXCEPT ![d] = "done"] /\ UNCHANGED <<task, handler>>
    BY <1>11 DEF RunFinally, RunBecomes
  <2>3. Holders' = Holders \ {d}
    BY <2>2 DEF Holders, Alive
  <2>4. \A e \in Holders' : e \in Holders /\ task[e] # task[d]
    BY <2>1, <2>3, OneHolder
  <2>5. \A e \in Copy : handler[e] \in {"login", "permit"} => task[e] # task[d]
    BY <2>1, NobodyElse
  <2>6. \A e \in Copy : handler[e] = "await" /\ task[e] = task[d] => e = d
    BY <2>1, <1>i DEF MapsTied, Entry
  <2>7. /\ maps'[task[d]]["running"] = NoOne /\ maps'[task[d]]["result"] = d
        /\ \A t \in HostedTask : t # task[d] => maps'[t] = maps[t]
    BY <2>1, <2>2 DEF NoEntry
  <2> QED BY <1>i, <1>h, <2>1, <2>2, <2>4, <2>5, <2>6, <2>7 DEF MapsTied, Entry
<1>12. ASSUME NEW d \in Copy, ReleaseHost(d) PROVE MapsTied'
  BY <1>12, <1>s DEF ReleaseHost, Holders
<1>13. ASSUME NEW d \in Copy, NEW c \in Console, AcquireHost(d, c) PROVE MapsTied'
  BY <1>13, <1>s DEF AcquireHost, Holders
<1>14. ASSUME StopAutomation PROVE MapsTied'
  <2> DEFINE waiting == {d \in Copy : handler[d] \in {"login", "permit", "await"}}
  <2>1. {task[d] : d \in waiting} \in SUBSET HostedTask /\ CancelRuns({task[d] : d \in waiting})
    BY <1>14 DEF StopAutomation
  <2>2. Holders' = Holders
    BY <2>1, Cancels
  <2> QED BY <1>14, <2>2, <1>s DEF StopAutomation
<1>15. ASSUME NEW t \in HostedTask, UserTerminate(t) PROVE MapsTied'
  <2>1. Holders' = Holders
    BY <1>15, Cancels DEF UserTerminate
  <2> QED BY <1>15, <2>1, <1>s DEF UserTerminate
<1>16. ASSUME NEW t \in HostedTask, FocusWindow(t) PROVE MapsTied'
  BY <1>16, <1>s DEF FocusWindow, Holders
<1>17. ASSUME NEW k \in Killer, AfterWait(k) PROVE MapsTied'
  <2> DEFINE t == kill[k].task
  <2>1. t \in HostedTask /\ UNCHANGED <<task, run>>
    BY <1>17 DEF AfterWait, HostInv, HandlersTied
  <2>2. Holders' = Holders
    BY <2>1 DEF Holders
  <2>3. \A d \in Copy : handler'[d] \in {"login", "permit", "await"} => handler'[d] = handler[d]
    BY <1>17 DEF AfterWait, Returned, HandlerAt
  <2>4. maps' = maps \/ maps' = [maps EXCEPT ![t] = Drop(t, {"context", "result"})]
    BY <1>17 DEF AfterWait
  <2>5. \A u \in HostedTask :
          /\ maps'[u]["running"] = maps[u]["running"]
          /\ maps'[u]["context"] \in {maps[u]["context"], NoOne}
          /\ maps'[u]["result"] \in {maps[u]["result"], NoOne}
    BY <2>1, <2>4 DEF Drop, NoEntry
  <2> QED BY <1>i, <1>h, <2>1, <2>2, <2>3, <2>5 DEF MapsTied, Entry
<1> QED
  BY <1>1, <1>2, <1>3, <1>4, <1>6, <1>7, <1>8, <1>9, <1>10, <1>11, <1>12, <1>13, <1>14, <1>15,
     <1>16, <1>17
  DEF HostNext, Handles, Proceeds

LEMMA ConsolesStep ==
  ASSUME HostTypeOK, HostInv, HostNext PROVE ConsolesTied'
<1> USE DEF HostTypeOK
<1>i. ConsolesTied
  BY DEF HostInv
<1> DEFINE Streams(d) == Runs(d, {"open", "live"})
<1>h. \A d \in Copy : Streams(d) => d \in Holders /\ task[d] \in HostedTask /\ handler[d] # "new"
  BY DEF HostInv, HandlersTied, Unstarted, Holders, Alive, Runs
<1>s. ASSUME \A d \in Copy : Streams(d)' => Streams(d), UNCHANGED <<task, conn, host>>,
             \A d \in Copy : Runs(d, {"none", "created"})' => Runs(d, {"none", "created"})
      PROVE  ConsolesTied'
  BY <1>s, <1>i DEF ConsolesTied, Runs
<1>c. ASSUME NEW ts \in SUBSET HostedTask, CancelRuns(ts), UNCHANGED <<task, conn, host>>
      PROVE  ConsolesTied'
  BY <1>c, <1>s, Cancels DEF Runs
<1>f. ASSUME NEW d \in Copy, Failing(d), handler[d] # "new", UNCHANGED <<task, conn, host>>
      PROVE  ConsolesTied'
  <2>1. CancelRuns({task[d]}) /\ {task[d]} \in SUBSET HostedTask
    BY <1>f DEF Failing
  <2> QED BY <2>1, <1>c, <1>f
<1>1. ASSUME NEW d \in Copy, NEW t \in HostedTask, Deliver(d, t) PROVE ConsolesTied'
  BY <1>1, <1>i, <1>h DEF Deliver, ConsolesTied, Runs
<1>2. ASSUME NEW d \in Copy, ExecuteTask(d) \/ TakeResult(d) \/ Notify(d) PROVE ConsolesTied'
  BY <1>2, <1>s DEF ExecuteTask, TakeResult, Notify, Runs
<1>3. ASSUME NEW d \in Copy, EnsureTaskSlot(d) PROVE ConsolesTied'
  <2>1. CASE Entry(task[d], "running") # NoOne
    BY <1>3, <2>1, <1>f DEF EnsureTaskSlot
  <2>2. CASE Entry(task[d], "running") = NoOne
    <3>1. host' = HostsWithout(task[d]) /\ UNCHANGED <<task, run, conn>>
      BY <1>3, <2>2 DEF EnsureTaskSlot
    <3>2. \A e \in Holders : task[e] # task[d]
      BY <2>2 DEF HostInv, MapsTied, Holders
    <3> QED BY <1>i, <1>h, <3>1, <3>2 DEF ConsolesTied, HostsWithout, Runs
  <2> QED BY <2>1, <2>2
<1>4. ASSUME NEW d \in Copy, PrepareFails(d) \/ AwaitTimeout(d) PROVE ConsolesTied'
  BY <1>4, <1>f DEF PrepareFails, AwaitTimeout
<1>5. ASSUME NEW d \in Copy, NEW entry, handler[d] \in {"login", "permit"}, CreateTask(d, entry), UNCHANGED <<task, conn, host>>
      PROVE  ConsolesTied'
  <2>1. run' = [run EXCEPT ![d] = "created"] /\ run[d] = "none"
    BY <1>5 DEF CreateTask, HostInv, HandlersTied, Unstarted
  <2> QED BY <1>5, <2>1, <1>s DEF Runs
<1>6. ASSUME NEW d \in Copy, Register(d) PROVE ConsolesTied'
  <2>1. CASE Failing(d)
    BY <1>6, <2>1, <1>f DEF Register
  <2>2. CASE UNCHANGED run
    BY <1>6, <2>2, <1>s DEF Register, Runs
  <2>3. CASE \E entry : CreateTask(d, entry)
    BY <1>6, <2>3, <1>5 DEF Register
  <2> QED BY <1>6, <2>1, <2>2, <2>3 DEF Register
<1>7. ASSUME NEW d \in Copy, Launch(d) PROVE ConsolesTied'
  BY <1>7, <1>5 DEF Launch
<1>8. ASSUME NEW d \in Copy, FirstStep(d) PROVE ConsolesTied'
  <2>1. run[d] = "created" /\ run' = [run EXCEPT ![d] = "open"] /\ UNCHANGED <<task, conn, host>>
    BY <1>8 DEF FirstStep, Runs, RunBecomes
  <2>2. conn[d] = NoOne
    BY <1>i, <2>1 DEF ConsolesTied, Runs
  <2> QED BY <1>i, <2>1, <2>2 DEF ConsolesTied, Runs
<1>9. ASSUME NEW d \in Copy, RunFinally(d) PROVE ConsolesTied'
  BY <1>9, <1>s DEF RunFinally, Runs, RunBecomes
<1>10. ASSUME NEW d \in Copy, Opened(d) \/ Ends(d) PROVE ConsolesTied'
  BY <1>10, <1>s DEF Opened, Ends, Runs, RunBecomes
<1>11. ASSUME NEW d \in Copy, ReleaseHost(d) PROVE ConsolesTied'
  <2>1. /\ run[d] = "open" /\ conn[d] \in Console
        /\ host' = [host EXCEPT ![conn[d]] = IF @ = task[d] THEN NoOne ELSE @]
        /\ conn' = [conn EXCEPT ![d] = NoOne] /\ UNCHANGED <<task, run>>
    BY <1>11 DEF ReleaseHost, Runs
  <2>2. \A e \in Copy : e # d /\ Streams(e) => task[e] # task[d]
    BY <2>1, <1>h, OneHolder DEF Runs
  <2> QED BY <1>i, <2>1, <2>2 DEF ConsolesTied, Runs
<1>12. ASSUME NEW d \in Copy, NEW c \in Console, AcquireHost(d, c) PROVE ConsolesTied'
  <2>1. /\ run[d] = "open" /\ host[c] = NoOne
        /\ host' = [host EXCEPT ![c] = task[d]] /\ conn' = [conn EXCEPT ![d] = c]
        /\ UNCHANGED <<task, run>>
    BY <1>12 DEF AcquireHost, Runs
  <2>2. \A e \in Copy : Streams(e) => conn[e] # c
    BY <1>i, <1>h, <2>1 DEF ConsolesTied
  <2> QED BY <1>i, <2>1, <2>2 DEF ConsolesTied, Runs
<1>13. ASSUME StopAutomation PROVE ConsolesTied'
  <2> DEFINE waiting == {d \in Copy : handler[d] \in {"login", "permit", "await"}}
  <2>1. {task[d] : d \in waiting} \in SUBSET HostedTask /\ CancelRuns({task[d] : d \in waiting})
        /\ UNCHANGED <<task, conn, host>>
    BY <1>13 DEF StopAutomation
  <2> HIDE DEF waiting
  <2> QED BY <2>1, <1>c
<1>14. ASSUME NEW t \in HostedTask, UserTerminate(t) PROVE ConsolesTied'
  BY <1>14, <1>c DEF UserTerminate
<1>15. ASSUME NEW t \in HostedTask, FocusWindow(t) PROVE ConsolesTied'
  BY <1>15, <1>s DEF FocusWindow, Runs
<1>16. ASSUME NEW k \in Killer, AfterWait(k) PROVE ConsolesTied'
  <2> DEFINE t == kill[k].task
             x == Entry(t, "context")
  <2>1. t \in HostedTask /\ UNCHANGED <<task, run>>
    BY <1>16 DEF AfterWait, HostInv, HandlersTied
  <2>2. \/ UNCHANGED <<host, conn>>
        \/ /\ host' = IF conn[x] = NoOne THEN host
                      ELSE [host EXCEPT ![conn[x]] = IF @ = t THEN NoOne ELSE @]
           /\ conn' = [conn EXCEPT ![x] = NoOne] /\ x # NoOne
    BY <1>16 DEF AfterWait
  <2>3. \A e \in Copy : Streams(e) /\ task[e] = t => x \in {e, NoOne}
    BY <1>h DEF HostInv, MapsTied
  <2>4. x \in Copy \cup {NoOne}
    BY <2>1, EntryTypes DEF NoEntry
  <2> HIDE DEF t, x
  <2> QED BY <1>i, <2>1, <2>2, <2>3, <2>4 DEF ConsolesTied, Runs
<1> QED
  BY <1>1, <1>2, <1>3, <1>4, <1>6, <1>7, <1>8, <1>9, <1>10, <1>11, <1>12, <1>13, <1>14, <1>15,
     <1>16
  DEF HostNext, Handles, Proceeds

LEMMA PermitsStep ==
  ASSUME HostTypeOK, HostInv, HostNext PROVE PermitsTied'
<1> USE DEF HostTypeOK
<1> DEFINE HoldersOK   == IsFiniteSet(Holders)' /\ free' + Cardinality(Holders') = Slots
           ExecutingOK == IsFiniteSet(Executing)' /\ execFree' + Cardinality(Executing') = Slots
<1>q. HoldersOK /\ ExecutingOK => PermitsTied'
  BY DEF PermitsTied, PermitsAccounted
<1>h. ASSUME Holders' = Holders, UNCHANGED free PROVE HoldersOK
  BY <1>h DEF HostInv, PermitsTied, PermitsAccounted
<1>e. ASSUME Executing' = Executing, UNCHANGED execFree PROVE ExecutingOK
  BY <1>e DEF HostInv, PermitsTied
<1>f. ASSUME NEW d \in Copy, handler[d] \in InExec, Failing(d), UNCHANGED <<free, execFree>>
      PROVE  PermitsTied'
  <2>1. HoldersOK
    BY <1>f, <1>h, Cancels DEF Failing, InExec
  <2>2. ExecutingOK
    BY <1>f, <1>e DEF Failing, HandlerAt, Executing, InExec
  <2> QED BY <2>1, <2>2, <1>q
<1>r. ASSUME NEW d \in Copy, handler[d] \in InExec, Returned(d), UNCHANGED <<free, run>>
      PROVE  PermitsTied'
  <2>1. HoldersOK
    BY <1>r, <1>h DEF Holders
  <2>2. ExecutingOK
    BY <1>r, Returns
  <2> QED BY <2>1, <2>2, <1>q
<1>s. ASSUME UNCHANGED <<handler, execFree, free>>, Holders' = Holders PROVE PermitsTied'
  BY <1>s, <1>h, <1>e, <1>q DEF Executing
<1>1. ASSUME NEW d \in Copy, NEW t \in HostedTask, Deliver(d, t) PROVE PermitsTied'
  <2>1. Holders' = Holders /\ Executing' = Executing
    BY <1>1 DEF Deliver, HandlerAt, Holders, Executing, InExec
  <2> QED BY <1>1, <2>1, <1>h, <1>e, <1>q DEF Deliver
<1>2. ASSUME NEW d \in Copy, ExecuteTask(d) PROVE PermitsTied'
  <2>1. HoldersOK
    BY <1>2, <1>h DEF ExecuteTask, Holders
  <2>2. Executing' = Executing \cup {d} /\ d \notin Executing
    BY <1>2 DEF ExecuteTask, HandlerAt, Executing, InExec
  <2>3. execFree' = execFree - 1 /\ execFree > 0
    BY <1>2 DEF ExecuteTask
  <2>4. execFree \in Nat /\ IsFiniteSet(Executing) /\ execFree + Cardinality(Executing) = Slots
    BY DEF HostInv, PermitsTied
  <2>5. ExecutingOK
    BY <2>2, <2>3, <2>4, TakesOne
  <2> QED BY <2>1, <2>5, <1>q
<1>3. ASSUME NEW d \in Copy, EnsureTaskSlot(d) PROVE PermitsTied'
  <2>1. CASE Failing(d)
    BY <1>3, <2>1, <1>f DEF EnsureTaskSlot, InExec
  <2>2. CASE ~Failing(d)
    <3>1. Holders' = Holders /\ Executing' = Executing /\ UNCHANGED <<free, execFree>>
      BY <1>3, <2>2 DEF EnsureTaskSlot, HandlerAt, Holders, Executing, InExec
    <3> QED BY <3>1, <1>h, <1>e, <1>q
  <2> QED BY <2>1, <2>2
<1>4. ASSUME NEW d \in Copy, PrepareFails(d) \/ AwaitTimeout(d) PROVE PermitsTied'
  BY <1>4, <1>f DEF PrepareFails, AwaitTimeout, InExec
<1>5. ASSUME NEW d \in Copy, NEW entry \in [DOMAIN NoEntry -> Copy \cup {NoOne}],
             handler[d] \in {"login", "permit"}, free > 0, CreateTask(d, entry)
      PROVE  PermitsTied'
  BY <1>5, Creates, <1>q
<1>6. ASSUME NEW d \in Copy, Register(d) PROVE PermitsTied'
  <2> DEFINE entry == [maps[task[d]] EXCEPT !.event = d, !.context = d]
             registered == [entry EXCEPT !.registry = d]
  <2>1. handler[d] = "login" /\ maps[task[d]] \in [DOMAIN NoEntry -> Copy \cup {NoOne}]
    BY <1>6 DEF Register
  <2>2. registered \in [DOMAIN NoEntry -> Copy \cup {NoOne}]
    BY <2>1 DEF NoEntry
  <2> HIDE DEF entry, registered
  <2>3. CASE Entry(task[d], "registry") # NoOne
    BY <1>6, <2>1, <2>3, <1>f DEF Register, InExec
  <2>4. CASE Entry(task[d], "registry") = NoOne /\ free = 0
    <3>1. Holders' = Holders /\ Executing' = Executing /\ UNCHANGED <<free, execFree>>
      BY <1>6, <2>4 DEF Register, HandlerAt, Holders, Executing, InExec
    <3> QED BY <3>1, <1>h, <1>e, <1>q
  <2>5. CASE Entry(task[d], "registry") = NoOne /\ free # 0
    <3>1. CreateTask(d, registered)
      BY <1>6, <2>5 DEF Register, entry, registered
    <3> QED BY <2>1, <2>2, <2>5, <3>1, <1>5
  <2> QED BY <2>3, <2>4, <2>5
<1>7. ASSUME NEW d \in Copy, Launch(d) PROVE PermitsTied'
  <2>1. maps[task[d]] \in [DOMAIN NoEntry -> Copy \cup {NoOne}]
    BY <1>7 DEF Launch
  <2> QED BY <1>7, <2>1, <1>5 DEF Launch
<1>8. ASSUME NEW d \in Copy, TakeResult(d) PROVE PermitsTied'
  BY <1>8, <1>r DEF TakeResult, InExec
<1>9. ASSUME NEW d \in Copy, Notify(d) PROVE PermitsTied'
  <2>1. Holders' = Holders /\ Executing' = Executing
    BY <1>9 DEF Notify, HandlerAt, Holders, Executing, InExec
  <2> QED BY <1>9, <2>1, <1>h, <1>e, <1>q DEF Notify
<1>10. ASSUME NEW d \in Copy, FirstStep(d) \/ Opened(d) \/ Ends(d) PROVE PermitsTied'
  <2>1. Holders' = Holders
    BY <1>10 DEF FirstStep, Opened, Ends, Runs, RunBecomes, Holders, Alive
  <2> QED BY <1>10, <2>1, <1>s DEF FirstStep, Opened, Ends
<1>11. ASSUME NEW d \in Copy, RunFinally(d) PROVE PermitsTied'
  <2>1. ExecutingOK
    BY <1>11, <1>e DEF RunFinally, Executing
  <2> QED BY <1>11, <2>1, Finishes, <1>q
<1>12. ASSUME NEW d \in Copy, ReleaseHost(d) PROVE PermitsTied'
  BY <1>12, <1>s DEF ReleaseHost, Holders
<1>13. ASSUME NEW d \in Copy, NEW c \in Console, AcquireHost(d, c) PROVE PermitsTied'
  BY <1>13, <1>s DEF AcquireHost, Holders
<1>14. ASSUME StopAutomation PROVE PermitsTied'
  <2> DEFINE waiting == {d \in Copy : handler[d] \in {"login", "permit", "await"}}
  <2>1. {task[d] : d \in waiting} \in SUBSET HostedTask /\ CancelRuns({task[d] : d \in waiting})
        /\ UNCHANGED free
    BY <1>14 DEF StopAutomation
  <2>2. HoldersOK
    BY <2>1, <1>h, Cancels
  <2> QED BY <1>14, <2>2, Stops, <1>q
<1>15. ASSUME NEW t \in HostedTask, UserTerminate(t) PROVE PermitsTied'
  <2>1. Holders' = Holders
    BY <1>15, Cancels DEF UserTerminate
  <2> QED BY <1>15, <2>1, <1>s DEF UserTerminate
<1>16. ASSUME NEW t \in HostedTask, FocusWindow(t) PROVE PermitsTied'
  BY <1>16, <1>s DEF FocusWindow, Holders
<1>17. ASSUME NEW k \in Killer, AfterWait(k) PROVE PermitsTied'
  <2>1. CASE k \in Copy
    <3>1. Returned(k) /\ handler[k] \in InExec /\ UNCHANGED <<free, run>>
      BY <1>17, <2>1 DEF AfterWait, HostInv, HandlersTied, InExec
    <3> QED BY <2>1, <3>1, <1>r
  <2>2. CASE k \notin Copy
    BY <1>17, <2>2, <1>s DEF AfterWait, Holders
  <2> QED BY <2>1, <2>2
<1> QED
  BY <1>1, <1>2, <1>3, <1>4, <1>6, <1>7, <1>8, <1>9, <1>10, <1>11, <1>12, <1>13, <1>14, <1>15,
     <1>16, <1>17
  DEF HostNext, Handles, Proceeds

-----------------------------------------------------------------------------
(* The theorems. *)

LEMMA InvStutter ==
  ASSUME HostTypeOK, HostInv, UNCHANGED hostVars PROVE HostTypeOK' /\ HostInv'
<1>1. HostTypeOK'
  BY DEF hostVars, HostTypeOK
<1>2. HandlersTied' /\ MapsTied' /\ ConsolesTied'
  BY DEF hostVars, HostInv, HandlersTied, MapsTied, ConsolesTied, Entry, Runs, Holders
<1>3. Holders' = Holders /\ Executing' = Executing
  BY DEF hostVars, Holders, Executing
<1>4. PermitsTied'
  BY <1>3 DEF hostVars, HostInv, PermitsTied, PermitsAccounted
<1> QED BY <1>1, <1>2, <1>4 DEF HostInv

LEMMA InvStep ==
  ASSUME HostTypeOK, HostInv, [HostNext]_hostVars PROVE HostTypeOK' /\ HostInv'
BY TypeStep, HandlersStep, MapsStep, ConsolesStep, PermitsStep, InvStutter DEF HostInv

\* The agent's maps, permits and handlers keep their types, and what ties them
\* together holds in every state.
THEOREM HostIsTied == HostSpec => [](HostTypeOK /\ HostInv)
<1>1. HostTypeOK /\ HostInv /\ [HostNext]_hostVars => (HostTypeOK /\ HostInv)'
  BY InvStep
<1> QED BY <1>1, InvInit, PTL DEF HostSpec

\* Every permit of the scheduler is free or with one coroutine: no start that fails,
\* no cancellation and no ending loses or doubles one.
THEOREM PermitsAreAccounted == HostSpec => []PermitsAccounted
<1>1. HostInv => PermitsAccounted
  BY DEF HostInv, PermitsTied
<1> QED BY <1>1, HostIsTied, PTL

\* A task id has one coroutine at a time.
THEOREM TasksRunOnce == HostSpec => []OneCopyPerTask
<1>1. HostTypeOK /\ HostInv => OneCopyPerTask
  BY OneHolder DEF OneCopyPerTask, Runs, Holders
<1> QED BY <1>1, HostIsTied, PTL

\* Two coroutines of one agent are never connected to one console.
THEOREM ConsolesExclude == HostSpec => []ConsoleExclusive
<1>1. ASSUME HostTypeOK, HostInv PROVE ConsoleExclusive
  <2> SUFFICES ASSUME NEW d \in Copy, NEW e \in Copy, Runs(d, {"open", "live"}),
                      Runs(e, {"open", "live"}), conn[d] # NoOne, conn[d] = conn[e]
               PROVE  d = e
    BY DEF ConsoleExclusive
  <2>1. host[conn[d]] = task[d] /\ host[conn[e]] = task[e]
    BY <1>1 DEF HostInv, ConsolesTied
  <2>2. d \in Holders /\ e \in Holders
    BY DEF Holders, Alive, Runs
  <2> QED BY <1>1, <2>1, <2>2, OneHolder
<1> QED BY <1>1, HostIsTied, PTL

\* The handler of a one-step task takes the result of its own coroutine, although
\* results are kept by task id.
THEOREM ResultsAreOwn == HostSpec => ResultIsOwn
<1> DEFINE A == \A d \in Copy : handler[d] = "await" /\ handler'[d] = "notify"
                                => Entry(task[d], "result") = d
<1>1. ASSUME HostTypeOK, HostInv, [HostNext]_hostVars PROVE [A]_hostVars
  <2> SUFFICES ASSUME HostNext, NEW d \in Copy, handler[d] = "await", handler'[d] = "notify"
               PROVE  Entry(task[d], "result") = d
    BY <1>1
  <2> USE <1>1
  <2>1. Entry(task[d], "result") \in {d, NoOne}
    BY DEF HostInv, MapsTied
  <2>2. Entry(task[d], "result") # NoOne
    <3> SUFFICES ASSUME Entry(task[d], "result") = NoOne PROVE FALSE
      OBVIOUS
    <3>1. ASSUME NEW e \in Copy, \/ \E t \in HostedTask : Deliver(e, t)
                                 \/ Handles(e) \/ PrepareFails(e) \/ AwaitTimeout(e)
                                 \/ Proceeds(e) \/ Ends(e) \/ ReleaseHost(e)
                                 \/ \E c \in Console : AcquireHost(e, c)
          PROVE FALSE
      <4>1. CASE \E t \in HostedTask : Deliver(e, t)
        BY <4>1 DEF Deliver, HandlerAt, HostTypeOK
      <4>2. CASE ExecuteTask(e) \/ EnsureTaskSlot(e) \/ Notify(e) \/ PrepareFails(e)
        BY <4>2 DEF ExecuteTask, EnsureTaskSlot, Notify, PrepareFails, Failing, HandlerAt, HostTypeOK
      <4>3. CASE Register(e) \/ Launch(e)
        BY <4>3 DEF Register, Launch, CreateTask, Returned, Failing, HandlerAt, HostTypeOK
      <4>4. CASE TakeResult(e) \/ AwaitTimeout(e)
        BY <4>4 DEF TakeResult, AwaitTimeout, Returned, Failing, HandlerAt, HostTypeOK
      <4>5. CASE Proceeds(e) \/ Ends(e) \/ ReleaseHost(e) \/ \E c \in Console : AcquireHost(e, c)
        BY <4>5 DEF Proceeds, FirstStep, RunFinally, Opened, Ends, ReleaseHost, AcquireHost
      <4> QED BY <3>1, <4>1, <4>2, <4>3, <4>4, <4>5 DEF Handles
    <3>2. ASSUME StopAutomation PROVE FALSE
      BY <3>2 DEF StopAutomation
    <3>3. ASSUME NEW t \in HostedTask, UserTerminate(t) \/ FocusWindow(t) PROVE FALSE
      BY <3>3 DEF UserTerminate, FocusWindow
    <3>4. ASSUME NEW k \in Killer, AfterWait(k) PROVE FALSE
      <4>1. k \in Copy => handler[k] = "failing"
        BY <3>4 DEF AfterWait, HostInv, HandlersTied
      <4> QED BY <3>4, <4>1 DEF AfterWait, Returned, HandlerAt, HostTypeOK
    <3> QED BY <3>1, <3>2, <3>3, <3>4 DEF HostNext
  <2> QED BY <2>1, <2>2
<1>2. HostTypeOK /\ HostInv /\ [HostNext]_hostVars => [A]_hostVars
  BY <1>1
<1> QED BY <1>2, HostIsTied, PTL DEF HostSpec, ResultIsOwn

-----------------------------------------------------------------------------
(* TaskHost implements TaskPool. *)

\* What the pool sees of the coroutines.
LEMMA PoolIs ==
  ASSUME HostTypeOK
  PROVE  \A d \in Copy :
           /\ PoolState[d] = "idle" <=> run[d] = "none"
           /\ PoolState[d] = "ended" <=> run[d] = "done"
           /\ PoolState[d] = "stranded" <=> run[d] = "lost"
           /\ PoolState[d] = "running" <=> run[d] \in Alive
BY DEF PoolState, HostTypeOK, RunPC, Alive

\* The slots in use are the permits held.
LEMMA OccupiedIs ==
  ASSUME HostTypeOK, HostInv PROVE Pool!Occupied = Cardinality(Holders)
<1> DEFINE R == Pool!Of("running")
           S == Pool!Of("stranded")
<1>1. Holders = R \cup S /\ R \cap S = {} /\ R \in SUBSET Holders /\ S \in SUBSET Holders
  BY PoolIs DEF Pool!Of, Holders, Alive
<1>2. IsFiniteSet(R) /\ IsFiniteSet(S)
  BY <1>1, FS_Subset DEF HostInv, PermitsTied
<1>3. Cardinality(Holders) = Cardinality(R) + Cardinality(S) - Cardinality(R \cap S)
  <2> HIDE DEF R, S
  <2> QED BY <1>1, <1>2, FS_Union
<1>4. Cardinality(R \cap S) = 0 /\ Cardinality(R) \in Nat /\ Cardinality(S) \in Nat
  BY <1>1, <1>2, FS_EmptySet, FS_CardinalityType
<1>5. Pool!Occupied = Cardinality(R) + Cardinality(S)
  <2>1. \A T : Pool!Cardinality(T) = Cardinality(T)
    BY DEF Pool!Cardinality, Cardinality
  <2> QED BY <2>1 DEF Pool!Occupied
<1>6. Cardinality(Holders) = Cardinality(R) + Cardinality(S)
  BY <1>3, <1>4
<1> QED BY <1>5, <1>6

LEMMA PoolStutters ==
  ASSUME HostTypeOK,
         \A d \in Copy : \/ run'[d] = run[d]
                         \/ run[d] \in Alive /\ run'[d] \in Alive,
         \A d \in Copy : run[d] # "none" => task'[d] = task[d]
  PROVE  UNCHANGED <<PoolOwner, PoolState>>
<1>1. PoolOwner' = PoolOwner
  BY DEF PoolOwner, Alive
<1>2. PoolState' = PoolState
  BY DEF PoolState, Alive
<1> QED BY <1>1, <1>2

\* A cancellation strands what has not begun, or is a stutter.
LEMMA PoolStrands ==
  ASSUME HostTypeOK, NEW ts \in SUBSET HostedTask, CancelRuns(ts), UNCHANGED task
  PROVE  [Pool!PoolNext]_<<PoolOwner, PoolState>>
<1> DEFINE ds == {d \in Copy : run[d] = "created" /\ run'[d] = "lost"}
<1>1. \A d \in Copy : \/ run'[d] = run[d] \/ d \in ds
                      \/ run[d] \in Alive /\ run'[d] \in Alive
  BY Cancels DEF Alive
<1>2. CASE ds = {}
  BY <1>1, <1>2, PoolStutters
<1>3. CASE ds # {}
  <2>1. ds \in SUBSET Pool!Of("running")
    BY PoolIs DEF Pool!Of, Alive
  <2>2. PoolOwner' = PoolOwner
    BY <1>1 DEF PoolOwner, Alive
  <2>3. PoolState' = [d \in Copy |-> IF d \in ds THEN "stranded" ELSE PoolState[d]]
    BY <1>1 DEF PoolState, Alive
  <2>4. PoolState' # PoolState
    <3>1. PICK d \in ds : TRUE
      BY <1>3
    <3>2. d \in Copy /\ run[d] = "created"
      BY <3>1
    <3>3. PoolState[d] = "running"
      BY <3>2, PoolIs DEF Alive
    <3>4. PoolState'[d] = "stranded"
      BY <3>1, <3>2, <2>3
    <3> QED BY <3>3, <3>4
  <2>5. Pool!Strand(ds)
    BY <1>3, <2>1, <2>2, <2>3 DEF Pool!Strand
  <2>6. ds \in SUBSET Copy
    OBVIOUS
  <2> QED BY <2>4, <2>5, <2>6 DEF Pool!PoolNext
<1> QED BY <1>2, <1>3

\* A coroutine that is created is admitted: it has a slot, and no other runs its task.
LEMMA PoolAdmits ==
  ASSUME HostTypeOK, HostInv, NEW d \in Copy, handler[d] \in {"login", "permit"}, free > 0,
         NEW entry, CreateTask(d, entry), UNCHANGED task
  PROVE  Pool!PoolNext
<1>1. /\ run[d] = "none" /\ run' = [run EXCEPT ![d] = "created"] /\ task[d] \in HostedTask
  BY DEF CreateTask, HostTypeOK, HostInv, HandlersTied, Unstarted
<1>2. Pool!Occupied < Slots
  <2>1. free \in Nat /\ Cardinality(Holders) \in Nat /\ free + Cardinality(Holders) = Slots
    BY FS_CardinalityType DEF HostTypeOK, HostInv, PermitsTied, PermitsAccounted
  <2> QED BY <2>1, OccupiedIs
<1>3. \A e \in Pool!Of("running") : PoolOwner[e] # task[d]
  <2>1. \A e \in Pool!Of("running") : e \in Holders /\ e \in Copy /\ run[e] # "none"
    BY PoolIs DEF Pool!Of, Holders, Alive
  <2> QED BY <2>1, NobodyElse DEF PoolOwner
<1>4. PoolState[d] = "idle"
  BY <1>1, PoolIs
<1>5. PoolState' = [PoolState EXCEPT ![d] = "running"] /\ PoolOwner' = [PoolOwner EXCEPT ![d] = task[d]]
  BY <1>1 DEF PoolState, PoolOwner, HostTypeOK
<1>6. PoolState' # PoolState
  BY <1>4, <1>5 DEF PoolState
<1>7. Pool!Admit(d, task[d])
  BY <1>2, <1>3, <1>4, <1>5 DEF Pool!Admit
<1> QED BY <1>1, <1>6, <1>7 DEF Pool!PoolNext

\* Every step of the agent is one of the pool's or leaves the pool as it is: a task
\* runs once at a time, within the slots, and ends once.
THEOREM HostImplementsPool == HostSpec => ImplementsPool
<1>1. HostInit => Pool!PoolInit
  BY DEF HostInit, Pool!PoolInit, PoolOwner, PoolState
<1>2. ASSUME HostTypeOK, HostInv, [HostNext]_hostVars PROVE [Pool!PoolNext]_<<PoolOwner, PoolState>>
  <2> USE <1>2
  <2>u. CASE UNCHANGED hostVars
    BY <2>u, PoolStutters DEF hostVars
  <2>s. ASSUME UNCHANGED <<run, task>> PROVE UNCHANGED <<PoolOwner, PoolState>>
    BY <2>s, PoolStutters
  <2>f. ASSUME NEW d \in Copy, Failing(d), handler[d] # "new", UNCHANGED task
        PROVE  [Pool!PoolNext]_<<PoolOwner, PoolState>>
    <3>1. {task[d]} \in SUBSET HostedTask /\ CancelRuns({task[d]})
      BY <2>f DEF HostTypeOK, Failing
    <3> QED BY <3>1, <2>f, PoolStrands
  <2>1. ASSUME NEW d \in Copy, NEW t \in HostedTask, Deliver(d, t)
        PROVE  UNCHANGED <<PoolOwner, PoolState>>
    <3>1. run[d] = "none" /\ run' = run /\ task' = [task EXCEPT ![d] = t]
      BY <2>1 DEF Deliver, HostInv, HandlersTied, Unstarted
    <3> QED BY <3>1, PoolStutters DEF HostTypeOK
  <2>2. ASSUME NEW d \in Copy, ExecuteTask(d) \/ TakeResult(d) \/ Notify(d) \/ ReleaseHost(d)
        PROVE  UNCHANGED <<PoolOwner, PoolState>>
    BY <2>2, <2>s DEF ExecuteTask, TakeResult, Notify, ReleaseHost
  <2>3. ASSUME NEW d \in Copy, EnsureTaskSlot(d) PROVE [Pool!PoolNext]_<<PoolOwner, PoolState>>
    <3>1. CASE Failing(d)
      BY <2>3, <3>1, <2>f DEF EnsureTaskSlot
    <3>2. CASE ~Failing(d)
      BY <2>3, <3>2, <2>s DEF EnsureTaskSlot
    <3> QED BY <3>1, <3>2
  <2>4. ASSUME NEW d \in Copy, PrepareFails(d) \/ AwaitTimeout(d)
        PROVE  [Pool!PoolNext]_<<PoolOwner, PoolState>>
    BY <2>4, <2>f DEF PrepareFails, AwaitTimeout
  <2>5. ASSUME NEW d \in Copy, Register(d) PROVE [Pool!PoolNext]_<<PoolOwner, PoolState>>
    <3>1. handler[d] = "login" /\ UNCHANGED task
      BY <2>5 DEF Register
    <3>2. CASE Failing(d)
      BY <3>1, <3>2, <2>f
    <3>3. CASE UNCHANGED run
      BY <3>1, <3>3, <2>s
    <3>4. CASE free # 0 /\ \E entry : CreateTask(d, entry)
      BY <3>1, <3>4, PoolAdmits DEF HostTypeOK
    <3> QED BY <2>5, <3>2, <3>3, <3>4 DEF Register
  <2>6. ASSUME NEW d \in Copy, Launch(d) PROVE Pool!PoolNext
    BY <2>6, PoolAdmits DEF Launch
  <2>7. ASSUME NEW d \in Copy, FirstStep(d) \/ Opened(d) \/ Ends(d)
        PROVE  UNCHANGED <<PoolOwner, PoolState>>
    <3>1. /\ UNCHANGED task
          /\ \A e \in Copy : \/ run'[e] = run[e]
                             \/ run[e] \in Alive /\ run'[e] \in Alive
      BY <2>7 DEF FirstStep, Opened, Ends, Runs, RunBecomes, HostTypeOK, Alive
    <3> QED BY <3>1, PoolStutters
  <2>8. ASSUME NEW d \in Copy, RunFinally(d) PROVE Pool!PoolNext
    <3>1. run[d] = "ending" /\ run' = [run EXCEPT ![d] = "done"] /\ UNCHANGED task
      BY <2>8 DEF RunFinally, Runs, RunBecomes
    <3>2. PoolState[d] = "running"
      BY <3>1, PoolIs DEF Alive
    <3>3. PoolState' = [PoolState EXCEPT ![d] = "ended"] /\ PoolOwner' = PoolOwner
      BY <3>1 DEF PoolState, PoolOwner, HostTypeOK
    <3>4. PoolState' # PoolState
      BY <3>2, <3>3 DEF PoolState
    <3>5. Pool!Retire(d)
      BY <3>2, <3>3 DEF Pool!Retire
    <3> QED BY <3>4, <3>5 DEF Pool!PoolNext
  <2>9. ASSUME NEW d \in Copy, NEW c \in Console, AcquireHost(d, c)
        PROVE  UNCHANGED <<PoolOwner, PoolState>>
    BY <2>9, <2>s DEF AcquireHost
  <2>10. ASSUME StopAutomation PROVE [Pool!PoolNext]_<<PoolOwner, PoolState>>
    <3> DEFINE ts == {task[d] : d \in {d \in Copy : handler[d] \in {"login", "permit", "await"}}}
    <3>1. ts \in SUBSET HostedTask /\ CancelRuns(ts) /\ UNCHANGED task
      BY <2>10 DEF StopAutomation, HostTypeOK
    <3> HIDE DEF ts
    <3> QED BY <3>1, PoolStrands
  <2>11. ASSUME NEW t \in HostedTask, UserTerminate(t)
         PROVE  [Pool!PoolNext]_<<PoolOwner, PoolState>>
    BY <2>11, PoolStrands DEF UserTerminate
  <2>12. ASSUME NEW t \in HostedTask, FocusWindow(t) PROVE UNCHANGED <<PoolOwner, PoolState>>
    BY <2>12, <2>s DEF FocusWindow
  <2>13. ASSUME NEW k \in Killer, AfterWait(k) PROVE UNCHANGED <<PoolOwner, PoolState>>
    BY <2>13, <2>s DEF AfterWait
  <2> QED
    BY <2>u, <2>1, <2>2, <2>3, <2>4, <2>5, <2>6, <2>7, <2>8, <2>9, <2>10, <2>11, <2>12, <2>13
    DEF HostNext, Handles, Proceeds
<1>3. HostTypeOK /\ HostInv /\ [HostNext]_hostVars => [Pool!PoolNext]_<<PoolOwner, PoolState>>
  BY <1>2
<1> QED BY <1>1, <1>3, HostIsTied, PTL DEF HostSpec, ImplementsPool, Pool!PoolSpec
=============================================================================
