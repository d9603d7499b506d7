------------------------------- MODULE TaskHost -------------------------------
(***************************************************************************)
(* The tasks of one agent: messages that start a task (CentralManager),    *)
(* the handler that waits for it (HighConcurrencyTaskExecutor), the        *)
(* coroutine that runs it (AutomationScheduler) and everything that        *)
(* terminates one.  All of it is one asyncio loop, so a step here lasts    *)
(* from one await to the next.  The scheduler's maps are keyed by the      *)
(* platform's task id, while every message makes a copy of its own: an     *)
(* entry of a map names the copy that wrote it.                            *)
(***************************************************************************)
EXTENDS Integers, FiniteSets, Sequences, SequencesExt

CONSTANTS
  HostedTask,  \* task ids of the platform
  Copy,        \* the messages received; a copy is what one of them starts
  Console,     \* consoles a task may stream from
  NoOne,
  OneStep,     \* the tasks of the single-coroutine kind
  Slots        \* task.max_concurrent

ASSUME SlotsAssumption == Slots \in Nat \ {0}
ASSUME NoOneAssumption == NoOne \notin HostedTask \cup Copy \cup Console
ASSUME UserAssumption == "user" \notin Copy

VARIABLES
  task,      \* task[d]: the task id in message d
  handler,   \* handler[d]: how far its handler is
  inflight,  \* CentralManager._inflight_task_handles
  execFree,  \* free permits of the executor
  free,      \* free permits of the scheduler
  maps,      \* maps[t]: the scheduler's and the registry's entries for task t
  run,       \* run[d]: the coroutine of copy d
  synced,    \* synced[d]: its context has the stream's lease and handles
  conn,      \* conn[d]: the console copy d is connected to
  host,      \* _streaming_xbox_hosts
  focus,     \* the stack of InputFocusManager
  kill       \* kill[k]: the force_terminate_task that k waits in

hostVars == <<task, handler, inflight, execFree, free, maps, run, synced, conn,
              host, focus, kill>>

Killer  == Copy \cup {"user"}

\* begin: start_task is about to run.  login: decrypting, then waiting for the
\* login interval.  permit: registered.  await: a one-step task is waited for.
\* failing: in the except branch, inside stop_task.  notify: reporting.
HandlerPC == {"new", "ignored", "queued", "begin", "login", "permit", "await", "failing",
              "notify", "over"}
\* lost: cancelled before its first step, so that its finally never runs.
RunPC   == {"none", "created", "open", "live", "ending", "done", "lost"}
Alive   == {"created", "open", "live", "ending"}
NoEntry == [running |-> NoOne, event |-> NoOne, context |-> NoOne, registry |-> NoOne,
            result |-> NoOne]
NoKill  == [task |-> NoOne, event |-> FALSE, victim |-> NoOne]

HostTypeOK ==
  /\ task \in [Copy -> HostedTask \cup {NoOne}]
  /\ handler \in [Copy -> HandlerPC]
  /\ \A d \in Copy : handler[d] # "new" => task[d] \in HostedTask
  /\ inflight \in [HostedTask -> Copy \cup {NoOne}]
  /\ execFree \in 0..Slots /\ free \in 0..Slots
  /\ maps \in [HostedTask -> [DOMAIN NoEntry -> Copy \cup {NoOne}]]
  /\ run \in [Copy -> RunPC]
  /\ synced \in [Copy -> BOOLEAN]
  /\ conn \in [Copy -> Console \cup {NoOne}]
  /\ host \in [Console -> HostedTask \cup {NoOne}]
  /\ focus \in Seq(HostedTask)
  /\ kill \in [Killer -> [task: HostedTask \cup {NoOne}, event: BOOLEAN,
                          victim: Copy \cup {NoOne}]]

HostInit ==
  /\ task = [d \in Copy |-> NoOne] /\ handler = [d \in Copy |-> "new"]
  /\ inflight = [t \in HostedTask |-> NoOne]
  /\ execFree = Slots /\ free = Slots
  /\ maps = [t \in HostedTask |-> NoEntry]
  /\ run = [d \in Copy |-> "none"]
  /\ synced = [d \in Copy |-> FALSE]
  /\ conn = [d \in Copy |-> NoOne] /\ host = [c \in Console |-> NoOne]
  /\ focus = <<>>
  /\ kill = [k \in Killer |-> NoKill]

-----------------------------------------------------------------------------
Entry(t, f)    == maps[t][f]
Drop(t, fs)    == [f \in DOMAIN NoEntry |-> IF f \in fs THEN NoOne ELSE maps[t][f]]
HandlerAt(d, pc)    == handler' = [handler EXCEPT ![d] = pc]
HostsWithout(t) == [c \in Console |-> IF host[c] = t THEN NoOne ELSE host[c]]
InStack(t)      == \E i \in DOMAIN focus : focus[i] = t
\* A task is in the stack once at most: list.remove takes it out.
Unstacked(t) == IF InStack(t) THEN RemoveAt(focus, CHOOSE i \in DOMAIN focus : focus[i] = t) ELSE focus

\* force_terminate_task up to its wait: the event is set, the coroutines of the
\* tasks in ts are cancelled.  Step 2 turns a cancellation into a failed result
\* without giving the console back; one that has not begun never will.
SetsEventOnly(ts) == UNCHANGED run
CancelRuns(ts) ==
  run' = [d \in Copy |->
            IF ~(\E t \in ts : Entry(t, "running") = d) THEN run[d]
            ELSE IF run[d] = "created" THEN "lost"
            ELSE IF run[d] \in {"open", "live"} THEN "ending" ELSE run[d]]
Terminating(t) ==
  [task |-> t, event |-> Entry(t, "event") # NoOne, victim |-> Entry(t, "running")]

\* _handle_task: a task whose handler is still there is not started again.
Deliver(d, t) ==
  /\ handler[d] = "new"
  /\ task' = [task EXCEPT ![d] = t]
  /\ IF inflight[t] # NoOne
     THEN HandlerAt(d, "ignored") /\ UNCHANGED inflight
     ELSE HandlerAt(d, "queued") /\ inflight' = [inflight EXCEPT ![t] = d]
  /\ UNCHANGED <<execFree, free, maps, run, synced, conn, host, focus, kill>>

\* execute_task up to the handler's first step.
ExecuteTask(d) ==
  /\ handler[d] = "queued" /\ execFree > 0
  /\ execFree' = execFree - 1
  /\ HandlerAt(d, "begin")
  /\ UNCHANGED <<task, inflight, free, maps, run, synced, conn, host, focus, kill>>

\* handle_stream_control's except: whatever went wrong, stop_task(task_id).
Failing(d) ==
  /\ HandlerAt(d, "failing")
  /\ CancelRuns({task[d]})
  /\ kill' = [kill EXCEPT ![d] = Terminating(task[d])]

\* start_task looks for a running copy first, ensure_task_slot clears what an
\* older one left: its registered runtime, its map entries, its consoles.
PurgeKeepsResult(d) ==
  /\ handler[d] = "begin"
  /\ IF Entry(task[d], "running") # NoOne
     THEN Failing(d) /\ UNCHANGED <<maps, host>>
     ELSE /\ maps' = [maps EXCEPT ![task[d]] = Drop(task[d], {"registry", "event", "context"})]
          /\ host' = HostsWithout(task[d])
          /\ HandlerAt(d, "login") /\ UNCHANGED <<run, kill>>
  /\ UNCHANGED <<task, inflight, execFree, free, synced, conn, focus>>

UntestedSlot(d) ==
  /\ handler[d] = "begin"
  /\ maps' = [maps EXCEPT ![task[d]] = NoEntry]
  /\ host' = HostsWithout(task[d])
  /\ HandlerAt(d, "login")
  /\ UNCHANGED <<task, inflight, execFree, free, run, synced, conn, focus, kill>>

EnsureTaskSlot(d) ==
  /\ handler[d] = "begin"
  /\ IF Entry(task[d], "running") # NoOne
     THEN Failing(d) /\ UNCHANGED <<maps, host>>
     ELSE /\ maps' = [maps EXCEPT ![task[d]] = NoEntry]
          /\ host' = HostsWithout(task[d])
          /\ HandlerAt(d, "login") /\ UNCHANGED <<run, kill>>
  /\ UNCHANGED <<task, inflight, execFree, free, synced, conn, focus>>

\* The password cannot be decrypted, or something else in start_task throws.
PrepareFails(d) ==
  /\ handler[d] = "login"
  /\ Failing(d)
  /\ UNCHANGED <<task, inflight, execFree, free, maps, synced, conn, host, focus>>

\* The handler's result is known: execute_task's finally.
Returned(d) == HandlerAt(d, "notify") /\ execFree' = execFree + 1

\* The permit is there: the coroutine is created.  The handler of a two-phase
\* task is done with that, the one of a one-step task polls for the result.
CreateTask(d, entry) ==
  /\ free' = free - 1
  /\ run' = [run EXCEPT ![d] = "created"]
  /\ maps' = [maps EXCEPT ![task[d]] = [entry EXCEPT !.running = d]]
  /\ IF task[d] \in OneStep THEN HandlerAt(d, "await") /\ UNCHANGED execFree ELSE Returned(d)

\* After the login interval: the maps are written, then register may throw.
Register(d) ==
  LET entry == [maps[task[d]] EXCEPT !.event = d, !.context = d]
      refused == Entry(task[d], "registry") # NoOne
      registered == [entry EXCEPT !.registry = d] IN
  /\ handler[d] = "login"
  /\ IF refused
     THEN /\ maps' = [maps EXCEPT ![task[d]] = entry]
          /\ Failing(d) /\ UNCHANGED <<free, execFree>>
     ELSE IF free = 0
     THEN /\ maps' = [maps EXCEPT ![task[d]] = registered]
          /\ HandlerAt(d, "permit") /\ UNCHANGED <<free, execFree, run, kill>>
     ELSE CreateTask(d, registered) /\ UNCHANGED kill
  /\ UNCHANGED <<task, inflight, synced, conn, host, focus>>

Launch(d) ==
  /\ handler[d] = "permit" /\ free > 0
  /\ CreateTask(d, maps[task[d]])
  /\ UNCHANGED <<task, inflight, synced, conn, host, focus, kill>>

TakeResult(d) ==
  /\ handler[d] = "await" /\ Entry(task[d], "result") # NoOne
  /\ Returned(d)
  /\ UNCHANGED <<task, inflight, free, maps, run, synced, conn, host, focus, kill>>

\* 3600 seconds are over.
AwaitTimeout(d) ==
  /\ handler[d] = "await" /\ Entry(task[d], "result") = NoOne
  /\ Failing(d)
  /\ UNCHANGED <<task, inflight, execFree, free, maps, synced, conn, host, focus>>

\* The platform is told; _run_task_and_notify's finally.
Notify(d) ==
  /\ handler[d] = "notify"
  /\ HandlerAt(d, "over")
  /\ inflight' = [inflight EXCEPT ![task[d]] = NoOne]
  /\ UNCHANGED <<task, execFree, free, maps, run, synced, conn, host, focus, kill>>

\* automation_control stop: cancel_all cancels what the executor waits for.  A
\* handler that is cancelled inside stop_task leaves it where it is.
StopReleasesAll ==
  LET before  == {d \in Copy : handler[d] \in {"begin", "failing"}}
      waiting == {d \in Copy : handler[d] \in {"login", "permit", "await"}} IN
  /\ before \cup waiting # {}
  /\ handler' = [d \in Copy |-> IF d \in before THEN "notify"
                                ELSE IF d \in waiting THEN "failing" ELSE handler[d]]
  /\ execFree' = execFree + Cardinality(before \cup waiting)
  /\ CancelRuns({task[d] : d \in waiting})
  /\ kill' = [k \in Killer |-> IF k \in waiting THEN Terminating(task[k])
                               ELSE IF k \in before THEN NoKill ELSE kill[k]]
  /\ UNCHANGED <<task, inflight, free, maps, synced, conn, host, focus>>

StopAutomation ==
  LET before  == {d \in Copy : handler[d] \in {"begin", "failing"}}
      waiting == {d \in Copy : handler[d] \in {"login", "permit", "await"}} IN
  /\ before \cup waiting # {}
  /\ handler' = [d \in Copy |-> IF d \in before THEN "notify"
                                ELSE IF d \in waiting THEN "failing" ELSE handler[d]]
  /\ execFree' = execFree + Cardinality(before)
  /\ CancelRuns({task[d] : d \in waiting})
  /\ kill' = [k \in Killer |-> IF k \in waiting THEN Terminating(task[k])
                               ELSE IF k \in before THEN NoKill ELSE kill[k]]
  /\ UNCHANGED <<task, inflight, free, maps, synced, conn, host, focus>>

-----------------------------------------------------------------------------
(* The coroutine of a copy. *)

Runs(d, pcs) == run[d] \in pcs
RunBecomes(d, pc) == run' = [run EXCEPT ![d] = pc]

\* StreamingAccountTask.execute takes the input focus and opens the session.
FirstStep(d) ==
  /\ Runs(d, {"created"}) /\ RunBecomes(d, "open")
  /\ focus' = Append(Unstacked(task[d]), task[d])
  /\ UNCHANGED <<task, handler, inflight, execFree, free, maps, synced, conn, host, kill>>

\* focus_window and pause: a task in the stack is put on top.
FocusWindow(t) ==
  /\ Entry(t, "registry") # NoOne /\ InStack(t)
  /\ focus' = Append(Unstacked(t), t)
  /\ UNCHANGED <<task, handler, inflight, execFree, free, maps, run, synced, conn, host, kill>>

\* try_acquire_server_id, as far as it stays on this agent.
UncheckedAcquire(d, c) ==
  /\ Runs(d, {"open"}) /\ conn[d] = NoOne
  /\ host' = [host EXCEPT ![c] = task[d]]
  /\ conn' = [conn EXCEPT ![d] = c]
  /\ UNCHANGED <<task, handler, inflight, execFree, free, maps, run, synced, focus, kill>>

AcquireHost(d, c) ==
  /\ Runs(d, {"open"}) /\ conn[d] = NoOne
  /\ host[c] = NoOne
  /\ host' = [host EXCEPT ![c] = task[d]]
  /\ conn' = [conn EXCEPT ![d] = c]
  /\ UNCHANGED <<task, handler, inflight, execFree, free, maps, run, synced, focus, kill>>

\* The platform refuses the lease, or the handshake or Step 3 fails: the console
\* is given back and the next candidate tried.
ReleaseHost(d) ==
  /\ Runs(d, {"open"}) /\ conn[d] # NoOne
  /\ host' = [host EXCEPT ![conn[d]] = IF @ = task[d] THEN NoOne ELSE @]
  /\ conn' = [conn EXCEPT ![d] = NoOne]
  /\ UNCHANGED <<task, handler, inflight, execFree, free, maps, run, synced, focus, kill>>

\* READY: the stream's artefacts are copied into the task's context.
Opened(d) ==
  /\ Runs(d, {"open"}) /\ conn[d] # NoOne
  /\ RunBecomes(d, "live")
  /\ synced' = [synced EXCEPT ![d] = TRUE]
  /\ UNCHANGED <<task, handler, inflight, execFree, free, maps, conn, host, focus, kill>>

\* No console answers, Step 4 ends, something throws, the cancel event is seen.
\* _cleanup_session follows; XHomeStreamService.close_context imports a module
\* that does not exist, so the stream and its console stay as they are.
Ends(d) ==
  /\ Runs(d, {"open", "live"})
  /\ run[d] = "open" => conn[d] = NoOne
  /\ RunBecomes(d, "ending")
  /\ UNCHANGED <<task, handler, inflight, execFree, free, maps, synced, conn, host, focus, kill>>

Unpermitted(d) ==
  /\ Runs(d, {"ending"}) /\ RunBecomes(d, "done")
  /\ maps' = [maps EXCEPT ![task[d]] = [NoEntry EXCEPT !.result = d]]
  /\ focus' = Unstacked(task[d])
  /\ UNCHANGED <<task, handler, inflight, execFree, free, synced, conn, host, kill>>

\* The result is stored; _run_task_finally clears the entries of the task id.
RunFinally(d) ==
  /\ Runs(d, {"ending"}) /\ RunBecomes(d, "done")
  /\ maps' = [maps EXCEPT ![task[d]] = [NoEntry EXCEPT !.result = d]]
  /\ focus' = Unstacked(task[d])
  /\ free' = free + 1
  /\ UNCHANGED <<task, handler, inflight, execFree, synced, conn, host, kill>>

-----------------------------------------------------------------------------
(* force_terminate_task, by a handler, the platform or the user's window. *)

\* stop_task and cancel_task messages, the terminate of task_control, and the user
\* who closes the window.  One of them at a time.
UserTerminate(t) ==
  /\ kill["user"] = NoKill
  /\ CancelRuns({t})
  /\ kill' = [kill EXCEPT !["user"] = Terminating(t)]
  /\ UNCHANGED <<task, handler, inflight, execFree, free, maps, synced, conn, host, focus>>

\* The coroutine is over, or five seconds are: a task that is still listed, or
\* that never was, is cleaned up.
AfterWait(k) ==
  LET t == kill[k].task
      x == Entry(t, "context")
      cleans == Entry(t, "running") # NoOne \/ (~kill[k].event /\ kill[k].victim = NoOne) IN
  /\ kill[k] # NoKill
  /\ maps' = IF cleans THEN [maps EXCEPT ![t] = Drop(t, {"context", "result"})] ELSE maps
  /\ IF cleans /\ x # NoOne /\ synced[x]
     THEN /\ host' = IF conn[x] = NoOne THEN host
                     ELSE [host EXCEPT ![conn[x]] = IF @ = t THEN NoOne ELSE @]
          /\ conn' = [conn EXCEPT ![x] = NoOne]
     ELSE UNCHANGED <<host, conn>>
  /\ kill' = [kill EXCEPT ![k] = NoKill]
  /\ IF k \in Copy THEN Returned(k) ELSE UNCHANGED <<handler, execFree>>
  /\ UNCHANGED <<task, inflight, free, run, synced, focus>>

-----------------------------------------------------------------------------
Handles(d) ==
  \/ ExecuteTask(d) \/ EnsureTaskSlot(d) \/ Register(d) \/ Launch(d)
  \/ TakeResult(d) \/ Notify(d)
Proceeds(d) == FirstStep(d) \/ RunFinally(d) \/ Opened(d)

HostNext ==
  \/ \E d \in Copy :
       \/ \E t \in HostedTask : Deliver(d, t)
       \/ Handles(d) \/ PrepareFails(d) \/ AwaitTimeout(d)
       \/ Proceeds(d) \/ Ends(d) \/ ReleaseHost(d)
       \/ \E c \in Console : AcquireHost(d, c)
  \/ StopAutomation
  \/ \E t \in HostedTask : UserTerminate(t) \/ FocusWindow(t)
  \/ \E k \in Killer : AfterWait(k)

HostSpec == HostInit /\ [][HostNext]_hostVars

\* The loop runs what is ready.  Nobody has to send, and a session may stay open.
HostFairness ==
  /\ \A d \in Copy : WF_hostVars(FirstStep(d)) /\ WF_hostVars(RunFinally(d))
  /\ \A k \in Killer : WF_hostVars(AfterWait(k))
HostFairSpec == HostSpec /\ HostFairness

-----------------------------------------------------------------------------
(* Properties. *)

Holders == {d \in Copy : run[d] \in Alive \cup {"lost"}}

\* A task id has one coroutine at a time, although an older one may still be ending
\* when the next message for its task comes: what the handlers in flight and the
\* running map refuse is enough together.
OneCopyPerTask ==
  \A d, e \in Copy : d # e /\ Runs(d, Alive) /\ Runs(e, Alive) => task[d] # task[e]

\* Every permit is free or with one coroutine: neither a start that fails half
\* way nor a termination loses or doubles one.  A coroutine that is cancelled
\* before its first step keeps its permit for good, and nothing else does.
PermitsAccounted == free + Cardinality(Holders) = Slots

\* Two coroutines are never connected to one console, however their endings,
\* terminations and restarts mix with new connections.
ConsoleExclusive ==
  \A d, e \in Copy : d # e /\ Runs(d, {"open", "live"}) /\ Runs(e, {"open", "live"})
                     /\ conn[d] # NoOne => conn[d] # conn[e]

\* A one-step task is answered with the result of its own coroutine, although
\* results are kept by task id and outlive the coroutine that left them.
ResultIsOwn ==
  [][\A d \in Copy : handler[d] = "await" /\ handler'[d] = "notify"
                     => Entry(task[d], "result") = d]_hostVars

\* What a coroutine's state is for the platform.
PoolOwner == [d \in Copy |-> IF run[d] = "none" THEN NoOne ELSE task[d]]
PoolState == [d \in Copy |-> CASE run[d] = "none" -> "idle" [] run[d] = "done" -> "ended"
                               [] run[d] = "lost" -> "stranded" [] OTHER -> "running"]
Pool == INSTANCE TaskPool WITH owner <- PoolOwner, pool <- PoolState

\* The maps, permits and handlers together keep the promise of TaskPool: a task
\* runs once at a time, within the slots, and ends once.
ImplementsPool == Pool!PoolSpec

\* A terminated task comes to an end and gives its permit back.
TerminatedEnds ==
  \A d \in Copy :
    (run[d] # "lost" /\ \E k \in Killer : kill[k].victim = d) ~> (run[d] = "done")

\* _handle_task: a second message for a running task is ignored; ensure_task_slot: a
\* relaunch ends the old copy and runs again.  Neither leaves the task ended without a
\* new copy on its way. Does not hold: the refused message's handler stops the task.
RefusedStartIsHarmless ==
  [][\A d \in Copy : handler[d] = "begin" /\ handler'[d] = "failing"
       => \A e \in Copy : Runs(e, {"live"}) => run'[e] = "live"]_hostVars

\* StreamingAccountTask: a task must not leave anything behind.  A console is with a
\* task that runs or is being terminated. Does not hold: closing the session throws
\* before the console is released.
NoConsoleLeftBehind ==
  \A c \in Console : host[c] # NoOne =>
    \/ \E d \in Copy : Runs(d, Alive) /\ task[d] = host[c]
    \/ \E k \in Killer : kill[k].task = host[c]
=============================================================================
