----------------------------- MODULE AgentPresence -----------------------------
(***************************************************************************)
(* How the platform knows whether an agent is there: the map of WebSocket  *)
(* sessions (AgentWebSocketEndpoint), the mark a lost session leaves       *)
(* (AgentDisconnectGraceServiceImpl), the agent's row, and the three       *)
(* scheduled jobs that draw conclusions from them.  One agent.  A callback *)
(* of the container is cut at each write another thread can see; it and a  *)
(* job end within the minute, and a minute is the unit of time.            *)
(***************************************************************************)
EXTENDS Integers, FiniteSets

CONSTANTS
  Sess,        \* the sessions that may exist at a time
  NoSess,
  Grace,       \* agent.disconnect_grace_seconds
  Timeout,     \* agent.heartbeat_timeout
  Idle         \* agent.ws_max_idle_timeout_ms

ASSUME PresenceAssumption ==
  /\ NoSess \notin Sess /\ IsFiniteSet(Sess)
  /\ {Grace, Timeout, Idle} \subseteq Nat \ {0}

VARIABLES
  alive,     \* the agent's process runs
  wire,      \* the connection of a session, as the agent knows it
  phase,     \* where the container is with a session
  quiet,     \* minutes since the newest open session's last message; one that the map
             \* has lost may be as late
  current,   \* AGENT_SESSIONS.get(agentId)
  mark,      \* the Redis key agent:ws_disconnect: its age
  local,     \* localDisconnectAt: its age
  redis,     \* there is a redisTemplate; its failures are left out
  shown,     \* AgentInstance.status
  heard,      \* the age of AgentInstance.lastHeartbeat
  job,       \* where the scheduled job is that is concerned with the agent
  held,      \* the age of the heartbeat in the row a job has read
  orphaned,  \* ghost: minutes its tasks wait for a cleanup since it died connected
  steady     \* ghost: minutes for which its connection has lasted

presenceVars == <<alive, wire, phase, quiet, current, mark, local, redis, shown, heard,
                  job, held, orphaned, steady>>
sessionVars == <<wire, phase, quiet, current>>
markVars == <<mark, local, redis>>
rowVars == <<shown, heard>>
jobVars == <<job, held>>
ghosts == <<orphaned, steady>>

Never == -1
GraceTtl == Grace
\* The key lives as long as the grace, the heartbeat's timeout and a minute.
MarkTtl == Grace + Timeout + 1
\* An agent that dies is cleaned after this many minutes.
CleanedAfter == Idle + Grace + 1
OldBeat == Timeout + 1

IsOpen(s) == s # NoSess /\ phase[s] \in {"put", "clear", "beat", "open"}
IsAgentOnline == IsOpen(current)

PresenceTypeOK ==
  /\ {alive, redis} \subseteq BOOLEAN
  /\ wire \in [Sess -> BOOLEAN] /\ quiet \in 0..Idle
  /\ phase \in [Sess -> {"none", "put", "clear", "beat", "open", "erring", "lost", "mark", "row"}]
  /\ current \in Sess \cup {NoSess}
  /\ mark \in Never..MarkTtl - 1 /\ local \in Never..Grace
  /\ shown \in {"online", "reconnecting", "offline"} /\ heard \in 0..OldBeat
  /\ job \in {"none", "tasks", "row", "clear", "stale", "offline", "reassign"} /\ held \in 0..OldBeat
  /\ orphaned \in Never..CleanedAfter /\ steady \in 0..2

PresenceInit ==
  /\ alive = TRUE /\ wire = [s \in Sess |-> FALSE] /\ phase = [s \in Sess |-> "none"]
  /\ quiet = 0 /\ current = NoSess
  /\ mark = Never /\ local = Never /\ redis \in BOOLEAN
  /\ shown = "offline" /\ heard = OldBeat
  /\ job = "none" /\ held = 0
  /\ orphaned = Never /\ steady = 0

-----------------------------------------------------------------------------
(* The mark: in Redis, or in the map where there is none. *)

StoreDisconnectTime ==
  IF redis THEN mark' = 0 /\ local' = Never ELSE local' = 0 /\ UNCHANGED mark

RemoveDisconnectTime ==
  /\ mark' = IF redis THEN Never ELSE mark
  /\ local' = Never

Listed == local # Never \/ (redis /\ mark # Never)
DisconnectTime == IF redis /\ mark # Never THEN mark ELSE local

\* updateHeartbeat
UpdateHeartbeat(status) == shown' = status /\ heard' = 0

-----------------------------------------------------------------------------
(* The endpoint's callbacks. *)

\* onOpen: an open predecessor is closed, its onClose runs at once and does no more
\* than take it from the map.
Open(s) ==
  /\ alive /\ \A x \in Sess : ~wire[x]
  /\ phase[s] = "none" /\ s = CHOOSE x \in Sess : phase[x] = "none"
  /\ \A x \in Sess : phase[x] \notin {"put", "clear", "beat"}
  /\ wire' = [wire EXCEPT ![s] = TRUE] /\ quiet' = 0
  /\ IF IsAgentOnline
     THEN phase' = [phase EXCEPT ![s] = "put", ![current] = "none"] /\ current' = NoSess
     ELSE phase' = [phase EXCEPT ![s] = "put"] /\ UNCHANGED current
  /\ steady' = 0
  /\ UNCHANGED <<alive, markVars, rowVars, jobVars, orphaned>>

OpenPut(s) ==
  /\ phase[s] = "put" /\ phase' = [phase EXCEPT ![s] = "clear"]
  /\ current' = s
  /\ UNCHANGED <<alive, wire, quiet, markVars, rowVars, jobVars, ghosts>>

OpenClear(s) ==
  /\ phase[s] = "clear" /\ phase' = [phase EXCEPT ![s] = "beat"]
  /\ RemoveDisconnectTime
  /\ UNCHANGED <<alive, wire, quiet, current, redis, rowVars, jobVars, ghosts>>

OpenBeat(s) ==
  /\ phase[s] = "beat" /\ phase' = [phase EXCEPT ![s] = "open"]
  /\ UpdateHeartbeat("online")
  /\ UNCHANGED <<alive, wire, quiet, current, markVars, jobVars, ghosts>>

\* handleHeartbeat: the message carries no status.
Heartbeat(s) ==
  /\ alive /\ wire[s] /\ phase[s] = "open"
  /\ quiet' = 0
  /\ UpdateHeartbeat("online")
  /\ UNCHANGED <<alive, wire, phase, current, markVars, jobVars, ghosts>>

\* The container finds a session broken, by the network or by its idle timeout.
Broken(s, how) ==
  /\ phase[s] = "open" /\ ~wire[s]
  /\ phase' = [phase EXCEPT ![s] = how]
  /\ UNCHANGED <<alive, wire, quiet, current, markVars, rowVars, jobVars, ghosts>>

\* onError, on a thread of the container: it takes away whatever session the map holds,
\* which may be the successor's.
OnError(s) ==
  /\ phase[s] = "erring" /\ phase' = [phase EXCEPT ![s] = "lost"]
  /\ current' = NoSess
  /\ UNCHANGED <<alive, wire, quiet, markVars, rowVars, jobVars, ghosts>>

\* onClose: the session of a successor stays, and nothing more is done.
OnClose(s) ==
  /\ phase[s] = "lost"
  /\ IF current \notin {s, NoSess}
     THEN phase' = [phase EXCEPT ![s] = "none"] /\ UNCHANGED current
     ELSE phase' = [phase EXCEPT ![s] = "mark"] /\ current' = NoSess
  /\ UNCHANGED <<alive, wire, quiet, markVars, rowVars, jobVars, ghosts>>

\* markWsDisconnected: the mark ...
StoreMark(s) ==
  /\ phase[s] = "mark" /\ phase' = [phase EXCEPT ![s] = "row"]
  /\ StoreDisconnectTime
  /\ UNCHANGED <<alive, wire, quiet, current, redis, rowVars, jobVars, ghosts>>

\* ... and the row, read and written back.
MarkRow(s) ==
  /\ phase[s] = "row" /\ phase' = [phase EXCEPT ![s] = "none"]
  /\ shown' = "reconnecting"
  /\ UNCHANGED <<alive, wire, quiet, current, markVars, heard, jobVars, ghosts>>

-----------------------------------------------------------------------------
(* The scheduled jobs; one at a time is concerned with the agent. *)

JobOnly == UNCHANGED <<alive, sessionVars, markVars, held, ghosts>>

\* findAgentsReadyForCleanup, for the agent if it is listed.
Due == DisconnectTime >= Grace /\ heard >= Timeout
FindReady ==
  /\ job = "none" /\ Listed
  /\ IF IsAgentOnline
     THEN RemoveDisconnectTime /\ UNCHANGED job
     ELSE Due /\ job' = "tasks" /\ UNCHANGED <<mark, local>>
  /\ UNCHANGED <<alive, sessionVars, redis, rowVars, held, ghosts>>

\* performOfflineCleanup: bindings and tasks, the row, the mark.
CleanTasks ==
  /\ job = "tasks" /\ job' = "row" /\ orphaned' = Never
  /\ UNCHANGED <<alive, sessionVars, markVars, rowVars, held, steady>>
CleanRow ==
  /\ job = "row" /\ job' = "clear" /\ UpdateHeartbeat("offline")
  /\ JobOnly
CleanMark ==
  /\ job = "clear" /\ job' = "none" /\ RemoveDisconnectTime
  /\ UNCHANGED <<alive, sessionVars, redis, rowVars, held, ghosts>>

\* AgentHeartbeatChecker reads the rows that say online with an old heartbeat,
\* TaskHealthCheckService.checkOfflineAgents those that say online without a session:
\* it knows no grace.
FindStale ==
  /\ job = "none" /\ shown = "online" /\ ~IsAgentOnline
  /\ job' \in {"offline"} \cup (IF heard > Timeout THEN {"stale"} ELSE {})
  /\ held' = heard
  /\ UNCHANGED <<alive, sessionVars, markVars, rowVars, ghosts>>
\* The row is written back as it was read, but offline.
WriteOffline ==
  /\ job \in {"stale", "offline"}
  /\ job' = IF job = "offline" THEN "reassign" ELSE "none"
  /\ shown' = "offline" /\ heard' = held /\ held' = 0
  /\ UNCHANGED <<alive, sessionVars, markVars, ghosts>>
\* reassignTasksFromOfflineAgent cancels what runs.
Reassign ==
  /\ job = "reassign" /\ job' = "none"
  /\ JobOnly /\ UNCHANGED rowVars

-----------------------------------------------------------------------------
(* The agent, the network, the platform and time. *)

\* _agent_info.status is set to online once and never again.
ReportedStatus == "online"
AcceptHeartbeat == UpdateHeartbeat(ReportedStatus)

\* The agent's HTTP heartbeat, with or without a session.
HttpHeartbeat ==
  /\ alive /\ AcceptHeartbeat
  /\ UNCHANGED <<alive, sessionVars, markVars, jobVars, ghosts>>

Unplug(s) ==
  /\ wire[s] /\ wire' = [wire EXCEPT ![s] = FALSE] /\ steady' = 0
  /\ UNCHANGED <<alive, phase, quiet, current, markVars, rowVars, jobVars, orphaned>>

Gone ==
  /\ alive /\ alive' = FALSE
  /\ orphaned' = IF job \notin {"tasks", "row", "clear"} /\ \E s \in Sess : wire[s] THEN 0 ELSE Never
  /\ wire' = [s \in Sess |-> FALSE]
  /\ steady' = 0
  /\ UNCHANGED <<quiet, current, markVars, rowVars, jobVars>>

\* The computer goes down.
Die == Gone /\ UNCHANGED phase

\* The process is told to stop, and closes its socket.  It means to report that it is
\* offline, when no loop is left to do it: only the socket tells.
Quit ==
  /\ Gone
  /\ phase' = [s \in Sess |-> IF phase[s] = "open" /\ wire[s] THEN "lost" ELSE phase[s]]

\* start: with a registration code the row is online at once.
Return ==
  /\ ~alive /\ alive' = TRUE
  /\ orphaned' = Never
  /\ AcceptHeartbeat \/ UNCHANGED rowVars
  /\ UNCHANGED <<sessionVars, markVars, jobVars, steady>>

\* ApiClient.uninstall: clearRegistry goes in the body, and the platform reads it from
\* the query: the row becomes offline, never uninstalled.
TellUninstall ==
  /\ ~alive /\ shown' = "offline"
  /\ UNCHANGED <<alive, sessionVars, markVars, heard, jobVars, ghosts>>

\* The sessions and the local mark are gone, without any callback.
PlatformRestarts ==
  /\ wire' = [s \in Sess |-> FALSE] /\ phase' = [s \in Sess |-> "none"]
  /\ quiet' = 0 /\ current' = NoSess /\ local' = Never
  /\ job' = "none" /\ held' = 0 /\ steady' = 0 /\ orphaned' = Never
  /\ UNCHANGED <<alive, mark, redis, rowVars>>

Older(age, cap) == IF age = Never THEN Never ELSE IF age < cap THEN age + 1 ELSE cap

\* A minute: callbacks and jobs have ended, the grace checker has done what it had to, a session
\* that works has brought a heartbeat, and one that has been idle too long is closed.
Tick ==
  /\ \A s \in Sess : phase[s] \in {"none", "open"} /\ (wire[s] => phase[s] = "open" /\ quiet = 0)
  /\ (\E s \in Sess : phase[s] = "open") => quiet < Idle
  /\ job = "none" /\ ~(Listed /\ (IsAgentOnline \/ Due))
  /\ quiet' = IF \E s \in Sess : phase[s] = "open" THEN quiet + 1 ELSE 0
  /\ mark' = IF mark + 1 = MarkTtl THEN Never ELSE Older(mark, MarkTtl)
  /\ local' = Older(local, Grace) /\ heard' = Older(heard, OldBeat)
  /\ orphaned' = Older(orphaned, CleanedAfter)
  /\ steady' = IF \E s \in Sess : wire[s] THEN Older(steady, 2) ELSE 0
  /\ UNCHANGED <<alive, wire, phase, current, redis, shown, job, held>>

-----------------------------------------------------------------------------
PresenceNext ==
  \/ \E s \in Sess : \/ Open(s) \/ OpenPut(s) \/ OpenClear(s) \/ OpenBeat(s) \/ Heartbeat(s)
                     \/ \E how \in {"lost", "erring"} : Broken(s, how)
                     \/ OnError(s) \/ OnClose(s) \/ StoreMark(s) \/ MarkRow(s) \/ Unplug(s)
  \/ FindReady \/ CleanTasks \/ CleanRow \/ CleanMark
  \/ FindStale \/ WriteOffline \/ Reassign
  \/ HttpHeartbeat \/ Die \/ Quit \/ Return \/ TellUninstall \/ PlatformRestarts \/ Tick

PresenceSpec == PresenceInit /\ [][PresenceNext]_presenceVars

-----------------------------------------------------------------------------
(* Properties. *)

\* An agent that dies with its session open and does not come back has its tasks
\* cleaned in a bounded time: the mark outlives the grace and the heartbeat's timeout,
\* whichever of Redis and the map holds it, and no late callback removes it.
GoneIsCleaned == orphaned < CleanedAfter

\* A connection that lasts, and that no error of an older session has taken out of the
\* map, is shown: what late callbacks and jobs of an earlier one write to the row does
\* not stay.
ConnectedIsOnline == steady = 2 /\ IsAgentOnline => shown = "online"

PresenceIsTrue == GoneIsCleaned /\ ConnectedIsOnline

\* A connection that lasts can be sent tasks. Does not hold: an error of an older
\* session takes the current one out of the map.
ConnectedIsReachable == steady = 2 => IsAgentOnline

\* AgentDisconnectGraceChecker's first comment: unfinished tasks are only touched when
\* both the WebSocket and the HTTP heartbeats have timed out. Does not hold: the health
\* check cleans up whatever is online in the table without a session.
GraceIsGranted ==
  [][Reassign => DisconnectTime >= Grace /\ heard >= Timeout]_presenceVars
=============================================================================
