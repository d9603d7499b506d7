# Formal models of the game-management platform

TLA+ models of the platform that runs game automation on remote consoles and of its agents,
the TLC runs that check them, and theorems about them checked by TLAPS. Paths are relative to
the repository; `J/` stands for `bend-platform/src/main/java/com/bend/platform/` and `A/` for
`bend-agent/src/agent/`.

## 1. The system

A **platform** (Spring Boot, MySQL, Redis) keeps tasks, accounts, consoles and points.
**Agents** (Python, one per Windows machine) hold a WebSocket to the platform, receive tasks
on it, stream from Xbox consoles, play the accounts of a task one after the other and report
their progress over HTTP. A **web front end** drives the platform; a **gateway** stands in
front of it.

| Component | State | Operations | Hard behaviour |
|---|---|---|---|
| Task lifecycle (`J/service/impl/AutomationServiceImpl`, `TaskExecutorServiceImpl`, `TaskServiceImpl`, `TaskControlServiceImpl`) | `task.status`, `task.version` | start, dispatch, terminate, stop, pause, resume, retry | handlers overlap; every one loads the row, works, and writes all of it back |
| Reports (`AgentCallbackServiceImpl`) | task row, account rows, load counter | RUNNING … CANCELLED, session phases, lock and unlock | reports late, repeated or lost; each write is seen by itself |
| Account rows (`TaskGameAccountStatusServiceImpl`) | `task_game_account_status` | create, update, sweep, "all final?" | written by reports, timeout, user and cleanup |
| Load control (`AgentLoadControlServiceImpl`) | hash `agent:task:count:<agent>` | may accept?, increment, decrement | test and increment apart; every way a task ends has to decrement |
| Schedulers (`J/task/`) | none of their own | 30 s dispatch, 60 s timeout, heartbeat, grace period | run beside everything else |
| Console lease (`StreamLeaseServiceImpl`, `XboxHostMapper`) | Redis key, map in the JVM, lock columns of `xbox_host` | acquire, release | two layers, several commands each, both with an expiry |
| Console registry and discovery (`XboxHostServiceImpl`, `A/xbox/xbox_discovery.py`) | `xbox_host` | report, adopt, merge, bind, edit | a console has three names and changes its address |
| Presence (`AgentWebSocketEndpoint`, `AgentDisconnectGraceServiceImpl`, `TaskHealthCheckService`, checkers) | session map, grace marks, the agent's row | open, close, error, heartbeat, mark, clean | four witnesses of one fact, any of them late |
| Credential tokens (`CredentialTokenService`) | Redis keys or two maps | make, exchange once, sweep | two maps, a lost answer, a life of 300 s |
| Points (`MerchantBalanceServiceImpl`, cards, codes, billing) | balance with a version, transactions | add, deduct, redeem | retries, check-then-act, snapshots |
| Agent scheduler (`A/core/central_manager.py`, `A/task/`) | running tasks, consoles, permits, results, all keyed by task id | start, wait, terminate, clean up | awaits between check and registration |
| Agent session and Step 4 (`A/runtime/`, `A/task/streaming_account_task.py`, `A/automation/step4/`) | phase, pause, start and cancel events; account, matches | open, start, pause, resume, skip, terminate; play | messages and coroutine set the same fields around awaits |
| Agent link (`A/api/websocket.py`) | socket, three coroutines | listen, beat, reconnect, stop | each notices a broken socket |
| Agent installation (`A/api/registration.py`, `A/core/install_guard.py`) | registry marker, secrets on disk | register, activate again, uninstall | a crash between any two, two processes at once |
| Agent update (`A/core/update_manager.py`) | offer, path, package files | notice, download, install | notices and commands during a download, one file for all of them |
| Agent login (`A/auth/xblive/`, platform's token cache) | chain of tokens, file, versioned row | refresh, write, retry, drop | two agents, lost answers |
| Agent stream (`A/xbox/`, `A/gssv/`) | hold, lease, session, WebRTC channels, picture | open, watch, reconnect, close | callbacks, two contexts per task, termination |
| Agent control of the game (`A/input/`, `A/game/account_switcher.py`, `A/runtime/stream_runtime.py`, `configs/scene_transitions.py`) | what is pressed, which profile, which screen | switch, navigate, play, hand over to a person | several writers to one pad; presses get lost, screens are misread |

**Interactions.** `startAutomation` inserts a pending row and, after its commit, hands it to
the executor's threads. `executeTask` asks the load counter and the WebSocket map, marks the
row running, increments, creates the account rows, sends. The agent's message handler exchanges
the password tokens, waits its turn and makes a coroutine that logs in, opens a stream under the
console's lease, waits for an automation to be chosen and plays. Its reports change account
rows first, then the counter, then the task row. The timeout checker, the user and the offline
cleanup end tasks without asking the agent; `task_control` messages do ask it.

**What makes it correct**
- Tasks: a task that ended stays ended, except by retry and by the pause and session paths; a
  task is dispatched once; a completed task has no open account; a queued task is dispatched.
- Load: a running task holds a slot and nothing else does; the limit is overshot by a bounded
  amount.
- Lease: two live tasks do not stream from a console at once; a lease that nobody holds goes.
- Registry: an address has one row, unless a user or two handlers crossing make it two. Presence: a dead agent's tasks are cleaned up, a lasting
  connection is shown.
- Tokens: a password is given out once. Points: the balance is the sum of its entries, and no
  merchant gains twice from a card.
- Agent: one coroutine for a task, within the slots, every permit accounted for; a terminated
  task ends; no account is forgotten or transferred twice; one stream, reopened when it dies;
  the profile that plays is the target's unless something outside the code misled it; nothing
  stays pressed.

All hazards are in `PROJECT.json`, each at its line with the properties that guard against it.

## 2. Modules

| Module | Contents |
|---|---|
| `TaskDispatch`, `MCTaskDispatch`, `TaskDispatchProofs` | automation tasks on the platform: task row with optimistic lock, account rows, load counter, threads, agent and link |
| `TaskHistory`, `MCTaskHistory` | `TaskDispatch` with a memory of the handlers each task has seen, for the promises some handlers break |
| `StreamLease`, `MCStreamLease`, `StreamLeaseProofs` | the lease on one console: Redis key, local map, row, calls and streams |
| `ConsoleUse` | abstract: a console has one lease that changes hands in one step, and while its holder streams only by a loss |
| `TaskPool` | abstract: a task id runs at most once at a time, at most `Slots` together |
| `TaskHost` | the agent's message handlers, permits, maps by task id, coroutines and terminations; implements `TaskPool` |
| `SessionControl` | one session: its coroutine and the `task_control` messages |
| `StepFour` | extends `SessionControl` with Step 4's accounts, transfer rounds and matches |
| `AgentLink` | WebSocket client: listener, heartbeat, reconnect, rediscovery, stop |
| `AgentInstall` | install guard, registration, credentials, uninstallation |
| `AgentUpdate` | update notices, downloads, package files, installs |
| `HostRegistry` | found consoles, the rows they get, and the handlers that write them |
| `AgentPresence` | what the platform knows of an agent's being there |
| `PointsLedger` | cards, codes, deductions and billing events under snapshots |
| `CredentialToken` | one-time tokens for passwords, and their exchange |
| `MCAgent` | `TaskHost` … `CredentialToken` side by side |
| `StreamOpen` | Step 2 and 3: consoles tried one after the other |
| `StreamHealth` | the stream watched and reconnected |
| `Login` | Step 1's chain of tokens and its two caches |
| `ProfileSwitch` | the console's profile list |
| `Navigation` | the game's menus |
| `RemotePlay` | picture, window, the two loops of remote play, match ends |
| `ManualInput` | the writers to the pad, and a person among them |
| `MCStream` | the seven stream modules side by side |
| `TaskHostProofs`, `AgentProofs`, `StepFourProofs`, `StreamProofs`, `PlayProofs`, `PlatformProofs` | theorems about `TaskHost`; the link, tokens, installation, update and all of `MCAgent`; `StepFour`; opening, recovery, login and all of `MCStream`; matches, keys, profiles and menus; points, presence and registry |

`MCAgent` and `MCStream` choose one of their parts in the initial state and run only that one.
The parts share no variable, so that running them together would multiply states and show
nothing more. Where two components do share state they are one module (`StepFour` extends
`SessionControl`; lease, row and stream are all in `StreamLease`; both agents of a login are in
`Login`).

### TaskDispatch

`row[t]`, `recs[t][a]`, `load` are the task table, the account rows and the Redis hash;
`online` is the agent's session; `agent[t]` the account the agent is at. `thread[h]` is a
platform thread: the task it handles, where it is, the status in the entity it loaded, the
report it handles, and the **lag**: how many committed writes its entity is behind the row.
MyBatis-Plus adds one to the version in the entity before it sends `UPDATE … WHERE version = ?`,
whether or not the row takes it, and nobody looks at the row count: `Save` commits only with lag
0, ages every other entity of the row, and takes one off the writer's lag if the row refused.
No thread writes more than twice with one entity, so a lag above 2 is as good as 2 (`MaxLag`).

The load of the row is a handler's first step (`Start`, `Requeue`, `Terminate`, `Select`,
`Timeout`, `Retry`, `Report`, `Session`, `PauseResume`); after it every access to a database row,
to the counter or to the session map is a step: `Exec…` is `executeTask`, `TerminateWrite` and
`Cancel…` are `terminateTask` followed by `cancelTask`, `ReportEffect`, `ReportDecide` and
`ReportWrite` the account row, the counter and the task row of a report. `StopWrite`,
`CleanupWrite` and `ReassignWrite` are transactions and write task and account rows in one step.
`Overlap` says whether two threads may handle the same task at a time; without it handlers of
different tasks still interleave. A task may have no accounts (`HasAccounts`, chosen at the start):
both ways of selecting them let such a task through (`AutomationServiceImpl:203-219`,
`TaskExecutorServiceImpl:208-218`), and it inserts no account row for a second dispatch to fail on.

Three promises do not survive every meeting of handlers: `RunningIsCounted`, `LoadIsExact` and
`CompletedIsSettled`. `TaskHistory` gives each task a `past`, the kinds of handlers it has seen and
whether two of them met, and states the promise of a task as long as its own past has nothing that
breaks it. No action reads `past`: all behaviours of `TaskDispatch` are there.

Abstractions. `sessionId` is null for an automation task, so the branches of long-lived
streaming tasks do not apply. One agent is modelled: tasks of different agents share only the
console. GAMING stands for GAME_PREPARING too. Session phases closing and closed, with which the
agent leaves, are left out (they change the status only after a FAILED report of the same task
had been undone by automation_failed). A user's skip of a later account is made when the agent
comes to it. A repeated report starts after the first handling has ended. The database may learn
that the agent is offline later than the session map does (`ExecCheck` chooses).

### StreamLease

`redis`, `local`, `db` are the key, the entry of `localLeases` and the row's lock columns, each
a holder and the ticks left; `up` says that Redis answers; `thread[h]` is a call and where it is;
`playing` the tasks that stream; `left[t]` what is left of the lease last granted to t, nothing
once it was robbed of its lock on the row; `over` the ended tasks. `tryAcquire` is GET, then EXPIRE or SET NX, or the four accesses to the map
when Redis throws; `casLock` and `casUnlock` are one SQL statement and one step each. `release`
is GET and DEL, then the row. `Faults` chooses what may go wrong: time passing inside a call,
outages, an agent that gives up after 10 s, crashes, reused task ids, and the whole-row write of
`createOrUpdate` with a stale copy of the lock columns. Two of these rob a task
that streams of its lock: a release nobody waits for any more, after a call given up or for a former
life of the id, and the stale row. `LeaseExclusive` is about the tasks that were not robbed; that
robbing is the only way to lose the protection is what it says. `ConsoleUse` is the promise,
`ImplementsUse` the refinement: the lease is the row's, its users are those who stream with time left
and were not robbed (`Lose` is the robbery). A renewal by a task that streams is not there: the agent
asks only before it connects.

### TaskHost and TaskPool

One asyncio loop: a step lasts from one await to the next. `maps[t]` are the entries of the
scheduler's and the registry's maps for a task id; a **copy** is what one message starts, and an
entry names the copy that wrote it, so that what the code keys by id can be told apart. A copy
cancelled before its first step never runs its `finally` (`run = "lost"`) and keeps its permit.
`TaskPool` is the promise to the platform, `ImplementsPool` the refinement: `owner` is the task of
a copy that runs, `pool` its state with "lost" as stranded.

### SessionControl and StepFour

The fields that messages and coroutine share (`phase`, `begun`, `before`, `paused`, `after`, `start`,
`gate`, `reanchor`, `cancel`) are variables; every message has a coroutine, which may be in an await
(`pausing`, `resuming`). `resolved` says which of three kinds of names
are defined in the places that use them: the clean-up that `xhome_stream_api.py` imports, and the helpers of
`sqb_phase.py` and `transfer_phase.py`. In this commit none is, and it never changes. `agent_session` starts
from both: none of them, which is the code as it is, and all, so that what lies behind them is explored too.
Without them a transfer round ends in an exception after it was made and before it is recorded, Step 4 stops
at its first match, and closing a session with a stream throws. With them the call after a round may still
throw (`TransferRound`). `rounds[a]` counts the rounds that this Step 4 made in the game. What is seen on the screen is a nondeterministic outcome.

### AgentLink, AgentInstall, HostRegistry, AgentPresence, PointsLedger, CredentialToken

`AgentLink`: every stretch under `_connection_lock` is a step; `home` is where the platform is,
`known` where the agent believes it to be. `AgentInstall`: several directories on one computer
share a machine id, one registry marker and one row of the platform. Processes may be started at any time, twice
in one directory or in two; a registration code on the command line is activated again whatever is stored
(`Chooses`); the guard's test and the mark are apart, an uninstallation takes the marker from beneath a running
agent, and a process may die between any two steps. Nothing in the code keeps two starts apart, so the promise is
about agents that met none: `disturbed` collects those that did, or beneath which somebody uninstalled.
`AgentUpdate`: one offer and one path for all, one file for each version, which every download of it opens and
empties; a file is none, partial or whole, and one that was emptied by another download before its own was written
out ends as either. Answers other than 200 leave what lies there. `met` marks the downloads that met another
one or another offer.

`HostRegistry`: a console is known by the cloud's id, by what it announces and by an md5 of its
address. A report is handled row by row, each in a transaction: `LookUp` is its selects, `Insert`, `UpdateById` or
`Refuse` (the unique key on `xboxId`) its write, and handlers of several agents, edits, deletions and merges come
between. `crossed` marks a handler whose look-up is of an older registry. An edit and a merge are one step each.
`AgentPresence`: a minute is the
unit of time, as it is of the jobs; a callback is cut at every write that another thread can see.
`PointsLedger`: a transaction reads from the snapshot of its first read, writes rows as they are
now, and holds what it wrote until it ends; controllers without `@Transactional` commit call by
call. `CredentialToken`: Redis or the two maps, the choice made at the start; GETDEL is one step,
the maps' operations are one each.

### The stream modules

A task has **two contexts**: discovery makes one (`"media"`), on which the stream is opened, and
`_sync_media_context` copies some of its attributes to the task's. Loops, locks and marks belong to one
of them, which `StreamHealth` and `ManualInput` keep apart. `StreamOpen` follows Step 2 to the first
frame; `RemotePlay` has the console's picture, the two loops that ask the FC server, which is
external and answers anything, and the match that waits for them. `ProfileSwitch` and `Navigation`
model the console as external: a press leads where the console's own menus or the table lead, if
it arrives; a screen may not be recognised. `doubt` and `slips` record the first thing outside the code
that went wrong, so that the properties can say what happens without it. `Login` knows a token by the
login that fetched it; age is a choice at each test. `mapper` in `ManualInput` is whether the keyboard
mapper could be made: in this commit it cannot (`agent.automation.debug` does not exist), both
are initial states.

## 3. Runs

Passing runs (distinct states in the order of the run):

| Run | Instance | Shows |
|---|---|---|
| `lease_exclusive` | 2 tasks, 2 threads, TTL 1; every fault; 1.66 M | `LeaseExclusive`: under any interleaving of two calls with every fault, two live tasks never stream under leases that last and of which nobody robbed them. The row's compare-and-set decides; the Redis layer alone would not. `ImplementsUse`: the layers and their steps are one lease to those who stream (`ConsoleUse`) |
| `lease_expiry` | 2 tasks, 2 threads; slow calls, outages, crashes, stale rows; 735 k, liveness | `LeaseRunsOut`: what an ended task leaves in key and row runs out, also when Redis fails between the layers, its agent died or a stale write brings it back |
| `dispatch_concurrent` | 1 task, 2 threads, all operations, overlap; 1.24 M | `OneDispatch`, `AgentHasRecords`, `OnlyControlRevives` under every pair of overlapping handlers |
| `dispatch_clean` | 1 task with 2 accounts or none, 2 threads, all operations, until two handlers meet; 58 k | `RunningIsCounted`, `LoadIsExact`, `CompletedIsSettled` through any sequence of handlers, repeated reports, retries, cleanups and restarts |
| `dispatch_capacity` | 3 tasks without accounts on 1 slot, 2 threads, overlap; 236 k | `BoundedOvershoot`: at most one task too many with two threads |
| `dispatch_liveness` | 2 tasks on 1 slot, 2 threads; 57 k, liveness | `QueuedIsDispatched` with reports and sends that are lost |
| `agent_parts` | see below; 662 k, liveness, refinement | tasks: `ImplementsPool`, `PermitsAccounted`, `ConsoleExclusive`, `ResultIsOwn`, `TerminatedEnds`; link: `LoopsFollowLink`, `LinkSettles`; installation: `OneKnownAgent`; update: `LoneUpdateIsWhole`; registry: `OneRowPerAddress`; presence: `PresenceIsTrue`; points: `LedgerIsSound`; tokens: `TokensAreOnce` |
| `agent_session` | 1 session, 2 accounts, 1 match each, 2 messages in an await, names missing or defined; 1.2 M, liveness | `NobodyForgotten`, `TransferOnce`, `OverIsTerminal`, `TerminatedCloses` |
| `stream_parts` | see below; 536 k, liveness | opening: `OnlyTheConsoleTried`; recovery: `ReconnectIsWhole`, `DeadIsReplaced`; profiles: `RightProfile`; login: `ChainsWhole`; pad: `LetsGo`; matches: `OverIsThisMatch`; menus: `WayIsFound` |

Runs that find a disagreement between the code and what a comment or document says:

| Run | Violated | What happens |
|---|---|---|
| `resurrection` | `NoResurrection` | a `paused_*` session phase after a timeout turns cancelled into paused |
| `lease_streaming` | `OneStreamer` | a stream outlasts its 120 s lease, which nobody renews; a second agent acquires |
| `agent_restart` | `RefusedStartIsHarmless` | a second message for a running two-phase task is refused, and the refusal's handler stops the running session |

Every property of a passing run has a mutant of a mapped definition (`PROJECT.json`, `mutants`;
the operators just before the definition) that breaks it.

**Bounds.** Two threads make every pair of handlers or calls overlap; that three calls of the lease do no
harm either is in the theorems, which bound no number of threads. `lease_expiry` has no calls given up and no reused ids
beside its other faults: with all six the liveness check does not end in minutes. One task is enough for the questions about one row, two for what tasks do to
each other over the counter, three to overshoot a limit of one. Two accounts tell "one final" from
"all final". A TTL of 1 lets a lease run out between any two steps. The lag is bounded by `MaxLag`,
exactly.
- `agent_parts`: two copies of two task ids, one of them of the one-step kind, on two slots and one
  console: two copies are enough for an ending one and its successor, or for two of one id.
  `MaxAttempts` 4 with `DiscoverAt` 3 lets one attempt follow a discovery, `Moves` 1 lets the platform
  move once. Two directories, two processes, two `Secrets`, so that one may
  replace the other, two versions and two `Downloads` of a process: one can overtake or empty the other. One console,
  two addresses, two handlers and two rows: two reports can insert both rows. A computer that answers like a console
  and the merge of three is out of reach. Two sessions:
  an old one and its successor; `Grace` 3, `Timeout` 2 and `Idle` 3 minutes are the defaults of
  `application.yml`.
  Two merchants, two requests, a card, a code (`Repeats` 1), an event and a key. Two
  tokens, two exchanges, a `Life` of one minute, which may end between any two steps.
- `agent_session`: no names and all three kinds of them (`Resolutions`), `Controls` 2 messages at a time, `MaxFailures` 2 for 3, one match a day per account,
  the second account may be skipped.
- `stream_parts`: three consoles, of which two are bound; two streams (`Stream`), two `Strikes`,
  one `Tries` within the window; two profiles of which one is to be added, two rows of the list; two
  logins with two write `Attempts` (three in the code) and versions up to `LastVersion` 2; two `Games`;
  `Presses` 2 for the table's 20.

**Deadlock** is checked in the passing runs of the platform. In `agent_parts`, `agent_session` and
`stream_parts` it is not: sessions, tasks and installations do come to their end, and the bounded
supplies run out. What has to come to an end there is stated as liveness.

**Symmetry** is used in the runs of the platform without liveness, on tasks and threads. Three runs
also take states as equal that differ only in what no later step reads: `dispatch_concurrent` and
`dispatch_clean` by `Essence` of `MCTaskDispatch` (which of several final marks an account row has, the lag of
a handler that writes the task row no more), `dispatch_clean` also what of a task's past its properties still
ask for (`Remembered`), `lease_expiry` what is left of a granted lease (`Essence` of `MCStreamLease`). Guards
and properties do not tell such states apart. `dispatch_clean` goes no further than the meeting of two
handlers (`Apart`): its properties speak of no later state.

**Fairness.** Platform: `WF` on a thread's steps. `SF` on `Requeue` of each pending task: the scheduler
selects all pending rows every 30 s and a thread is found for each in the end. `SF` on `Timeout` of
each running task: the checker comes every 60 s and the start time that it compares with is set
once, however many reports arrive. `WF` on `Tick` and on lease steps. Nobody has to start, pause,
report or release. `QueuedIsDispatched` assumes that the link holds from some time on and that no
task stays paused: no timer in the code gets a paused task's slot back.
Agent: the event loop runs a coroutine that is ready, so `WF` on a created task's first step, on a
cancelled one's `finally`, on `force_terminate_task` after its wait (`asyncio.wait_for` with 5 s); on the
reconnect loop, the heartbeat and the listener; on the session's coroutine outside Step 4 and,
once a session is cancelled, on what delivers the cancellation; on the monitor of a stream, the
sliding of its 60 s window and the steps of a reconnect, each of which has a timeout. Nobody
has to send a message, press a key or answer; a broken socket need not be repaired
(`LinkSettles`: it is, or the client gives up).

### What does not hold

Properties that a comment, a name or the design suggests and that TLC refutes stay in the modules
with a comment "Does not hold" and the reason. None is an invariant of a run, and each can be
checked by naming it in the module's part of a configuration.

| Module | Properties |
|---|---|
| `TaskDispatch` | `TerminateReleasesSlot`, `TimeoutSettlesAccounts`, `NoResurrection`, `EveryDispatchOnce` (a task without accounts) |
| `StreamLease` | `OneStreamer` |
| `TaskHost` | `RefusedStartIsHarmless`, `NoConsoleLeftBehind` |
| `StepFour` | `RoundsAreRecorded` and `OverIsClosed` (the missing names), `PausedCanResume`, `StartTakesEffect`, `SkipIsHonoured`, `LetsGoAfterMatch`, `PauseWaitsForMatch` |
| `AgentLink` | `ListensWhileUp`, `OneAddress` |
| `AgentInstall` | `RunningAuthenticates`, `ReportsAuthenticate` |
| `AgentUpdate` | `InstalledIsWhole` (a second notice or download) |
| `HostRegistry` | `ReportsKeepApart` (two handlers that cross), `RowIsOneDevice`, `OneRowPerDevice`, `DedupeWorks` |
| `AgentPresence` | `ConnectedIsReachable` (a late error of an old session), `GraceIsGranted` |
| `PointsLedger` | `CardPaysOnce`, `CodePaysOnce`, `KeyChargesOnce`, `RecordedIsCharged` |
| `CredentialToken` | `StartsWithPassword`, `NoGarbage` |
| `StreamOpen` | `BoundHostsOnly`, `StartsAuthorised` |
| `StreamHealth` | `BlindIsReplaced`, `NothingLeftOpen` |
| `Login` | `DropsWhatItRead`, `VersionsNameDocs` |
| `ProfileSwitch` | `SwitchIsReal` |
| `Navigation` | `UtMenuIsEnough`, `EndedWasPlayed`, `NoStrayMatch` |
| `RemotePlay` | `NoOldPicture`, `KeepsItsSession`, `PausedDoesNotPlay`, `WaitedIsPlayed`, `OneHand` |
| `ManualInput` | `NoGuideInMatch`, `HoldIsWhole`, `PausedIsManual` |

## 4. Proofs

Every invariant, every action property and both refinements that a passing run checks is a theorem too. What
the runs show on small instances the theorems show for every set of tasks, threads, messages, consoles,
sessions, merchants, logins and profiles and every limit, under the named assumptions of the modules.
Most of these say that a special value (`None`, `NoOne`, `NoToken`, …) is not one of the things it stands
apart from, or that a limit is positive. Sets are assumed to be finite where the code counts them
(tasks and threads, consoles to be put in order, sessions) and nowhere else. A theorem that needs
more says so in its own ASSUME.

### The platform

- **`TypeCorrect`** (`TaskDispatch`, `StreamLease`): `Spec => []TypeOK`. For `StreamLease` it is only proved.
- **`LeasesExclude`**: `Spec => []LeaseExclusive`, under every set of faults. `LeaseExclusive` is not
  inductive. `ExclusionInv` adds that an agent awaits one call at a time (`OneCall`) and none while it plays
  (`CallsOK`), and that whoever plays with a lease that lasts and was not robbed is the row's holder with as much
  time left there (`Backed`). Redis and the map do not occur in it: the argument says that the row
  alone excludes.
- **`LeaseIsOne`**: `StreamLease` implements `ConsoleUse`, under every set of faults. The row's holder and
  time are the lease, those who stream under it its users; an acquisition is granted by `casLock`, given
  back by `casUnlock`, and everything done to Redis and to the map is a stutter. A grant finds no user
  (the asker awaits its call and does not stream); a late release and a stale row are the loss.
- **`OvershootIsBounded`**: a task in the counter was counted by a thread that passed the test; the
  tasks claimed by threads are at most the threads.
- **`DispatchIsUnique`**, **`ReportsFindTheirRows`**: from `DispatchInv`: account rows come as a full set,
  they are there before a thread is about to send, and only the thread that inserted them sends, if the task has
  accounts; `NAccounts` may be 0.
- **`OnlyControlRevivesTasks`**: the argument of the optimistic lock. `VersionInv` says what a thread
  whose entity would still pass the version check (now or after the refusals that bring its own
  version forward, `Knows`) knows of its row. A stale entity knows nothing and need not.
- **`RunningTasksHoldSlots`**, **`LoadIsTheRunning`**, **`CompletedTasksAreSettled`**: of `HistSpec`, with no
  assumption about which handlers run. Each has an invariant per task, for as long as its past allows the promise,
  while other tasks and their handlers may be in any disorder: `SerialInv` (for each place of the one handler,
  what row and counter are), `ReleasedInv` (what is counted is running; a handler that is going to fail a
  dispatch or to write an ended status has given the slot back) and `SettledInv` (a report that is about to write
  completed has seen all accounts final and nobody reopened them).
- **`BalancesAddUp`** (`PointsLedger`): a balance is the sum of its transactions and not negative, a
  merchant is paid once for a card, an event is charged once. The invariant is about the snapshots:
  what a transaction has read is of the past, and if its version still stands it is the account
  (`Past`); a merchant paid for a card is newer than each of its requests that took the card
  for unused (`CardsOnce`); the one request that inserted an event charges it (`EventsOnce`). `Booked`
  keeps the transactions finite, for `Merchant`, `Card` and the rest need not be.
- **`DeathsAreCleaned`**, **`PresenceIsKnown`** (`AgentPresence`): an agent that dies is cleaned up within
  `Idle + Grace` minutes, if `Timeout <= Idle + Grace`; and a connection that lasts is shown for as long as the map
  holds it, whatever late callbacks and errors of earlier sessions write. `application.yml:162-166` has
  120, 180 and 180 s. Without the bound TLC refutes it. `GoneInv` follows the death:
  the last session is on its way to its mark, no longer than it may be idle, and from then on the mark
  grows with the wait and nobody takes it away. `ShownInv`: an open session is the map's and the only one.
- **`RegistryIsSound`**, **`AddressesStayApart`** (`HostRegistry`): from a registry whose rows have
  different addresses only a user who types one, or a write whose look-up was crossed, leads to another.
  `RegistryInv`: a handler has found at most one row (`OneIsFound`), and what one that was not crossed
  has found is still what the registry says (`LookUpsStand`). Merging duplicates runs over a
  sequence; that it keeps rows apart is shown by the least round in which it would not (`LeastOf`), with
  `Kept` for what each round leaves.

### The agent

- **`HostIsTied`**: `TaskHost`'s types and `HostInv`, which ties maps, handlers, coroutines and permits
  together: a handler before its coroutine has none, the one in flight is the task's entry, whoever has
  a permit is its task's running entry and no other copy is the task's context, a connected
  console is entered for the session's task. **`PermitsAreAccounted`**, **`TasksRunOnce`**,
  **`ConsolesExclude`** and **`ResultsAreOwn`** follow.
- **`HostImplementsPool`**: `HostSpec` implements `TaskPool` under the mapping that takes a coroutine that
  lost its `finally` for a stranded one. Each action is one of the pool's or leaves it as it is;
  that a coroutine is admitted only with a slot free and its task not running is `HostInv`.
- **`LoopsAreTheLinks`** (`AgentLink`): with `StopInv`: after a disconnect nothing is left that could start
  anything again.
- **`TokensAreSpentOnce`** (`CredentialToken`): what is stored has not been paid for, a token being
  made is not among those sent, and a start has all its tokens (`SentTied`).
- **`LoneUpdatesAreWhole`** (`AgentUpdate`): a download that has met nothing is the only one, path and offer
  are its own, and the file it has open was emptied by itself and by nobody since (`LoneInv`).
- **`AgentsAreKnown`** (`AgentInstall`), without assumptions about who registers or uninstalls. `Alone`: while an
  undisturbed process is up every other one runs and is disturbed itself. `Guarded`: the marker names an
  undisturbed process's directory, at the latest when it is through with its registration. `Leads` and `Holds`: what
  the kept file and the memory of an undisturbed process have to do with the platform's secret.
- **`StepFourIsTied`**, **`NobodyIsForgotten`**, **`RoundsAreOnce`**, **`OverStaysClosed`**, whichever of the names are
  defined. `RoundsTied`: until Step 4 ends, a round made in the game is a round recorded and none is asked for
  again; the one that cannot be recorded takes Step 4 with it. `OverTied`: a session is closed in the phase it had
  while it opened or in one of an end, where no pause comes through and, of the first, no resume knows; with the
  clean-up's module found the close sets closed, which goes nowhere.

### The stream

- **`OneConsoleAtATime`** (`StreamOpen`): `HoldInv` says for each step of Step 2 whether something is held.
- **`ReconnectsAreWhole`** (`StreamHealth`): whoever asks, one reconnect at a time holds the lock of a
  context (`OneDial`), and a media context that is connected is watched and written to (`Watched`).
- **`ChainsAreWhole`** (`Login`): how much of a chain a login has at each of its places (`ChainInv`).
- **`OverIsOfItsMatch`** (`RemotePlay`): what the play loop has asked and been told is about its own
  match (`AskedOfThis`).
- **`NothingStaysPressed`** (`ManualInput`): what is pressed is held (`KeysHeld`); who has the
  stream has the loop that writes to it (`LoopsSpeak`).
- **`GameIsForItsAccount`** (`ProfileSwitch`): `Relies` lists what the switcher goes by at each of its
  stages, as long as nothing outside the code has misled it.
- **`TheWayIsFound`** (`Navigation`): each link of a chain leads to the screen of the next (`Chained`), and
  trimming or lengthening a chain keeps it so, for the code's own table of screens.

### Types

**`AgentsAreTyped`** and **`StreamsAreTyped`** state the type invariants of `MCAgent` and `MCStream`. Types alone are
seldom inductive: the removal of a task's entry, a head of a sequence or a decrement stays in its
range by the invariants above, so each part brings its own and `PartsInv` is their conjunction.

### What the proofs changed

- `InstalledIsWhole` held while a run had one notice and one download: a second of either lets a partial package
  be installed. `LoneUpdateIsWhole` says what does hold.
- Promises that had been proved from assumptions which the code does not secure (handlers one at a time, no
  stale writer, no late error, one installer, the missing names defined) are now stated with what breaks
  them, and proved without: a history variable or an exception that names the step takes the assumption's place.
- `LedgerTypeOK` bounded the number of transactions by a sum true only of the run's one card and one code.
- `Deduped` of `HostRegistry` chose between overlapping guards with CASE, which is any of them; the
  code's order of tests is an IF.
- `AgentPresence` bounded its clocks by more than they reach.

**Model-checked only.** The liveness properties `LeaseRunsOut`, `QueuedIsDispatched`, `TerminatedEnds`,
`LinkSettles`, `TerminatedCloses` and `DeadIsReplaced`: liveness under fairness and ENABLED are out of the
proof system's reach here. And what does not hold, where TLC's counterexample is all there is to have. Induction
over data is not available either; the two places that needed it (the rounds of `Deduped` and the flattening of a
sequence) argue from a least counterexample. No module declares a RECURSIVE operator.

**Where the exceptions matter.** Each is a hazard with its line, and TLC violates the property without it.
Once two handlers have met, `CompletedIsSettled`, `LoadIsExact` and `RunningIsCounted` fail: a late RUNNING report
reopens an account between decision and write, and a timeout between a dispatch's running mark and its increment
leaks the slot. With pauses `RunningIsCounted` fails, which is the `resurrection` finding; with the ways of ending a
task from the side `LoadIsExact` does (`TerminateReleasesSlot`). The late success of a call given up, a release
of a former life or a stale row takes a lease from its holder. Two agents of one computer that met while starting
replace each other's secret. Two reports that both found no row insert two. A task without accounts is sent again. The
only conditions that theorems still make on the numbers are `Timeout <= Idle + Grace` and those of the
modules' own assumptions.

## 5. Not modelled

- **Streaming-session tasks** (`StreamingSessionServiceImpl`, `startStreaming`, reuse and promotion): planned.
- **Load control's failover** to a map in the JVM and its 60 s probe of Redis.
- **REST paths** start, complete, fail and delete of `TaskServiceImpl`; the web front end's editing of consoles
  beyond typing an address and deleting a row; accounts and bindings beyond what a report ensures; the
  bindings a merge moves.
- **Period codes, subscriptions, sale and batches of cards**, refunds (no caller), the tenant's proxy to
  the master, and the platform's own calls to billing, which are commented out in this commit.
- **An exception between a reconnect and its verification** (`stream_recovery.py:399-403`), which counts as a
  failure although the new stream is connected; `prepare_without_switch` (`account_switcher.py:315-353`), the
  preparation of an account when switching is off.
- **Device-code login** (`microsoft_auth_msal.py`, `browser_automation.py`): nothing outside these two files
  calls them. Step 4's early return when account switching is switched off.
- **Vision, decoding, local football play**, video and audio protocols: numeric work on single frames.
- **Licence and tenant synchronisation**: periodic HTTP copies without state shared with the rest.
- **Gateway filters, web front end, deployment, development tools.**

`PROJECT.json` lists each component with its status.

## 6. Plan

1. *Done*: the platform's `TaskDispatch` and `StreamLease`, their runs and theorems.
2. *Done*: the agent from the message that starts a task to the last press on the pad, and the
   platform's presence, registry, points and tokens; the refinement of `TaskPool`.
3. *Done*: theorems for every safety property of the runs, `TaskHost` implements `TaskPool`, and
   `StreamLease` implements `ConsoleUse`.
4. `TaskSession`: streaming tasks with a session id: start, reuse under the old id, promotion back to
   running, phases of older sessions. Question: an older session's report never moves the current one.
