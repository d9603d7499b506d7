------------------------------- MODULE AgentLink -------------------------------
(***************************************************************************)
(* The agent's WebSocket to the platform (WSClient), kept by three         *)
(* coroutines: the listener, the heartbeat and the one that reconnects,    *)
(* which whoever notices a broken socket starts; the platform's address    *)
(* that is discovered again; and the agent's stop (CentralManager).  Every *)
(* stretch under _connection_lock is a step.                               *)
(***************************************************************************)
EXTENDS Integers

CONSTANTS
  MaxAttempts,  \* agent.max_reconnect_attempts
  DiscoverAt,   \* a discovery every so many failures in a row: 3
  Moves         \* how often the platform's address may change

ASSUME LinkAssumption ==
  MaxAttempts \in Nat /\ DiscoverAt \in Nat \ {0} /\ Moves \in Nat

VARIABLES
  link,      \* _connection_state
  sock,      \* _ws: none, open or broken
  up,        \* WSClient._running
  listener,  \* where listen() is
  beat,      \* the heartbeat's coroutine
  dialer,    \* the coroutine of _reconnect_task
  attempt,   \* its attempts so far
  home,      \* the platform's address: how often it has changed
  known,     \* the address in the configuration
  stopping   \* how far CentralManager.stop is

linkVars == <<link, sock, up, listener, beat, dialer, attempt, home, known, stopping>>

\* ApiClient reads its base URL when it is made, and never again.
HttpAddress == 0

LinkTypeOK ==
  /\ link \in {"disconnected", "connecting", "connected", "reconnecting"}
  /\ sock \in {"none", "open", "broken"}
  /\ up \in BOOLEAN
  /\ listener \in {"off", "dial", "beat", "top", "recv", "handle", "await", "over"}
  /\ beat \in {"none", "sleep", "send"}
  /\ dialer \in {"none", "start", "try", "dial", "beat", "pause"}
  /\ attempt \in 0..MaxAttempts
  /\ home \in 0..Moves /\ known \in 0..home
  /\ stopping \in {"no", "cancelled", "disconnecting", "yes"}

LinkInit ==
  /\ link = "disconnected" /\ sock = "none" /\ up = FALSE
  /\ listener = "off" /\ beat = "none" /\ dialer = "none" /\ attempt = 0
  /\ home = 0 /\ known = 0 /\ stopping = "no"

-----------------------------------------------------------------------------
(* listen() *)

ListenerOnly == UNCHANGED <<link, sock, up, beat, dialer, attempt, home, known, stopping>>

\* start() creates the listener, connect() dials.
Listen ==
  /\ listener = "off" /\ stopping = "no"
  /\ listener' = "dial" /\ up' = TRUE /\ link' = "connecting"
  /\ UNCHANGED <<sock, beat, dialer, attempt, home, known, stopping>>

\* A failed first dial ends the listener: nothing dials again.
Dialled(ok) ==
  /\ listener = "dial"
  /\ IF ok /\ up
     THEN link' = "connected" /\ sock' = "open" /\ listener' = "beat"
     ELSE /\ link' = IF ok THEN link ELSE "disconnected"
          /\ listener' = "over" /\ UNCHANGED sock
  /\ ok => known = home
  /\ UNCHANGED <<up, beat, dialer, attempt, home, known, stopping>>

\* _ensure_heartbeat_task: the old one is cancelled.
StartBeat ==
  /\ listener = "beat" /\ listener' = "top" /\ beat' = "sleep"
  /\ UNCHANGED <<link, sock, up, dialer, attempt, home, known, stopping>>

\* The loop's top: unless connected, the listener is done.
ListenTop ==
  /\ listener = "top"
  /\ listener' = IF up /\ link = "connected" /\ sock # "none" THEN "recv" ELSE "over"
  /\ ListenerOnly

\* A message; its handler may take seconds: discovery and downloads are awaited.
Message == listener = "recv" /\ sock = "open" /\ listener' = "handle" /\ ListenerOnly
Handled == listener = "handle" /\ listener' = "top" /\ ListenerOnly

\* _schedule_reconnect: one at a time.
Schedule == dialer' = IF dialer = "none" THEN "start" ELSE dialer

\* recv finds the socket closed, by the network or by the one who reconnects.
RecvFails ==
  /\ listener = "recv" /\ sock # "open"
  /\ IF up THEN Schedule /\ listener' = "await" ELSE listener' = "top" /\ UNCHANGED dialer
  /\ UNCHANGED <<link, sock, up, beat, attempt, home, known, stopping>>

Awaited == listener = "await" /\ dialer = "none" /\ listener' = "top" /\ ListenerOnly

-----------------------------------------------------------------------------
(* _heartbeat_loop and send() *)

BeatWakes ==
  /\ beat = "sleep"
  /\ beat' = IF up /\ link = "connected" THEN "send" ELSE "none"
  /\ UNCHANGED <<link, sock, up, listener, dialer, attempt, home, known, stopping>>

\* A send that raises asks for a reconnect; so do results, acknowledgements and
\* discovery reports.
Sends ==
  IF link = "connected" /\ sock = "broken" /\ up THEN Schedule ELSE UNCHANGED dialer
BeatSends ==
  /\ beat = "send" /\ beat' = "sleep"
  /\ Sends
  /\ UNCHANGED <<link, sock, up, listener, attempt, home, known, stopping>>
OtherSend ==
  /\ link = "connected" /\ sock = "broken" /\ up
  /\ Sends
  /\ UNCHANGED <<link, sock, up, listener, beat, attempt, home, known, stopping>>

-----------------------------------------------------------------------------
(* reconnect() *)

DialerOnly == UNCHANGED <<up, listener, home, stopping>>

Reconnect ==
  /\ dialer = "start"
  /\ IF up /\ link # "reconnecting"
     THEN dialer' = "try" /\ link' = "reconnecting" /\ attempt' = 0
     ELSE dialer' = "none" /\ UNCHANGED <<link, attempt>>
  /\ DialerOnly /\ UNCHANGED <<sock, beat, known>>

\* The loop's head: close what there is and dial, or give up for good.
TriesForever ==
  /\ dialer = "try"
  /\ IF up
     THEN /\ dialer' = "dial" /\ link' = "connecting" /\ sock' = "none"
          /\ UNCHANGED attempt
     ELSE /\ dialer' = "none" /\ link' = "disconnected"
          /\ UNCHANGED <<sock, attempt>>
  /\ DialerOnly /\ UNCHANGED <<beat, known>>

Attempt ==
  /\ dialer = "try"
  /\ IF up /\ attempt < MaxAttempts
     THEN /\ dialer' = "dial" /\ link' = "connecting" /\ sock' = "none"
          /\ attempt' = attempt + 1
     ELSE /\ dialer' = "none" /\ link' = "disconnected"
          /\ UNCHANGED <<sock, attempt>>
  /\ DialerOnly /\ UNCHANGED <<beat, known>>

\* The address in the configuration answers.  Somebody may have stopped meanwhile.
DialSucceeds ==
  /\ dialer = "dial" /\ known = home
  /\ IF up THEN link' = "connected" /\ sock' = "open" /\ dialer' = "beat"
     ELSE dialer' = "try" /\ UNCHANGED <<link, sock>>
  /\ DialerOnly /\ UNCHANGED <<beat, attempt, known>>

\* rediscover: the platform's broadcast is heard, or not, within 8 seconds.
Rediscover(heard) == known' = IF heard /\ attempt % DiscoverAt = 0 THEN home ELSE known
DialFails ==
  /\ dialer = "dial"
  /\ link' = "reconnecting" /\ dialer' = "pause"
  /\ \E heard \in BOOLEAN : Rediscover(heard)
  /\ DialerOnly /\ UNCHANGED <<sock, beat, attempt>>

Paused5 == dialer = "pause" /\ dialer' = "try"
           /\ DialerOnly /\ UNCHANGED <<link, sock, beat, attempt, known>>

KeepsBeat ==
  /\ dialer = "beat" /\ dialer' = "none"
  /\ DialerOnly /\ UNCHANGED <<link, sock, attempt, known, beat>>

RestartBeat ==
  /\ dialer = "beat" /\ dialer' = "none" /\ beat' = "sleep"
  /\ DialerOnly /\ UNCHANGED <<link, sock, attempt, known>>

-----------------------------------------------------------------------------
(* The network, the platform and CentralManager.stop. *)

Break ==
  /\ sock = "open" /\ sock' = "broken"
  /\ UNCHANGED <<link, up, listener, beat, dialer, attempt, home, known, stopping>>

\* DHCP gives the platform another address.
Move ==
  /\ home < Moves /\ home' = home + 1
  /\ sock' = IF sock = "open" THEN "broken" ELSE sock
  /\ UNCHANGED <<link, up, listener, beat, dialer, attempt, known, stopping>>

\* stop() cancels the listener, and with it the reconnect it awaits.
CancelListener ==
  /\ stopping = "no" /\ stopping' = "cancelled"
  /\ listener' = "over"
  /\ dialer' = IF listener = "await" THEN "none" ELSE dialer
  /\ UNCHANGED <<link, sock, up, beat, attempt, home, known>>

\* disconnect(): first the flag and the two coroutines ...
Disconnect ==
  /\ stopping = "cancelled" /\ stopping' = "disconnecting"
  /\ up' = FALSE /\ dialer' = "none" /\ beat' = "none"
  /\ UNCHANGED <<link, sock, listener, attempt, home, known>>

\* ... then the socket.
CloseSocket ==
  /\ stopping = "disconnecting" /\ stopping' = "yes"
  /\ sock' = "none" /\ link' = "disconnected"
  /\ UNCHANGED <<up, listener, beat, dialer, attempt, home, known>>

-----------------------------------------------------------------------------
Dialling == Reconnect \/ Attempt \/ DialSucceeds \/ DialFails \/ Paused5 \/ RestartBeat
LinkNext ==
  \/ Listen \/ StartBeat \/ ListenTop \/ Message \/ Handled \/ RecvFails \/ Awaited
  \/ \E ok \in BOOLEAN : Dialled(ok)
  \/ BeatWakes \/ BeatSends \/ OtherSend
  \/ Dialling
  \/ Break \/ Move \/ CancelListener \/ Disconnect \/ CloseSocket

LinkSpec == LinkInit /\ [][LinkNext]_linkVars

\* The loop runs what is ready, and a dial ends one way or the other.
LinkFairness ==
  /\ WF_linkVars(Dialling) /\ WF_linkVars(BeatWakes) /\ WF_linkVars(BeatSends)
  /\ WF_linkVars(StartBeat) /\ WF_linkVars(ListenTop) /\ WF_linkVars(RecvFails) /\ WF_linkVars(Awaited)
LinkFairSpec == LinkSpec /\ LinkFairness

-----------------------------------------------------------------------------
(* Properties. *)

\* A link that is connected, first or again, has a heartbeat: the one that saw the
\* link gone and ended is replaced by the coroutine that reconnects.
HeartbeatFollowsLink ==
  link = "connected" /\ up /\ stopping = "no" => beat # "none" \/ listener = "beat" \/ dialer = "beat"

\* After stop() nothing of the link is left, whatever was reconnecting then.
StoppedIsQuiet ==
  stopping = "yes" =>
    /\ sock = "none" /\ link = "disconnected" /\ listener = "over"
    /\ dialer = "none" /\ beat = "none"

\* The link's coroutines are there as long as it is, and no longer.
LoopsFollowLink == HeartbeatFollowsLink /\ StoppedIsQuiet

\* A broken socket is noticed and replaced, or the client gives up or is stopped:
\* it never stays in between.
LinkSettles ==
  (up /\ sock = "broken" /\ link = "connected")
    ~> (sock = "open" \/ link = "disconnected" \/ stopping # "no")

\* listen(): it blocks, and runs until _running is false. Does not hold: a first
\* connection that fails ends the listener for good.
ListensWhileUp == up /\ link = "connected" => listener # "over" \/ stopping # "no"

\* update_tenant_url_in_memory: HTTP and WebSocket use the new address. Does not hold:
\* the HTTP client keeps the address it was made with.
OneAddress == link = "connected" /\ sock = "open" => HttpAddress = known
=============================================================================
