------------------------------ MODULE StreamOpen ------------------------------
(***************************************************************************)
(* Step 2: the consoles of an account are listed, tried one after the      *)
(* other and connected to, each under a hold of the agent's own scheduler  *)
(* and a lease of the platform.  Every failure gives both back before the  *)
(* next console is tried.  Requests to the cloud succeed or fail; what     *)
(* they carry is left out.                                                 *)
(***************************************************************************)
EXTENDS Naturals, FiniteSets, Sequences

CONSTANTS
  Host,
  Bound,      \* the hosts the platform bound the account to; {} is auto match
  Preloaded,  \* the console Step 1 looked up
  NoHost

ASSUME OpenAssumption ==
  IsFiniteSet(Host) /\ Bound \subseteq Host /\ Preloaded \in Host /\ NoHost \notin Host

VARIABLES
  step,       \* where Step 2 is
  playstation, \* the account's platform
  todo,       \* the candidates left, in their order
  console,    \* context.current_xbox
  held,       \* the scheduler's map: consoles of this task
  leased,     \* the platform's lease of each console
  peer,       \* the console the WebRTC session is with
  opened,     \* its data channels that are open
  authorised, \* the console has the control channel's authorization request
  ready,      \* _input_ready
  frame       \* a picture has come

openVars == <<step, playstation, todo, console, held, leased, peer, opened, authorised, ready, frame>>
leaseVars == <<held, leased>>
channelVars == <<opened, authorised, ready, frame>>

Connecting == {"play", "poll", "offer", "answer", "ice", "link", "input", "frame"}
Step == {"route", "creds", "list", "try", "wake", "power", "ask", "hold", "lock", "unopened",
         "step3", "release", "giveup", "bind", "done", "media", "failed", "thrown"} \cup Connecting
Channel == {"message", "control"}

OpenTypeOK ==
  /\ step \in Step /\ playstation \in BOOLEAN /\ console \in Host \cup {NoHost} /\ peer \in Host \cup {NoHost}
  /\ todo \in Seq(Host)
  /\ held \subseteq Host /\ leased \in [Host -> {"free", "us", "other"}]
  /\ opened \subseteq Channel /\ {authorised, ready, frame} \subseteq BOOLEAN

OpenInit ==
  /\ step = "route" /\ playstation = FALSE /\ todo = <<>> /\ console = NoHost
  /\ held = {} /\ leased = [h \in Host |-> "free"]
  /\ peer = NoHost /\ opened = {} /\ authorised = FALSE /\ ready = FALSE /\ frame = FALSE

-----------------------------------------------------------------------------
(* Which consoles, and in which order. *)

Route ==
  /\ step = "route" /\ playstation' \in BOOLEAN
  /\ step' = (IF playstation' THEN "list" ELSE "creds")
  /\ UNCHANGED <<todo, console, leaseVars, peer, channelVars>>

Credentials ==
  /\ step = "creds" /\ step' \in {"list", "failed"}
  /\ UNCHANGED <<playstation, todo, console, leaseVars, peer, channelVars>>

\* build_cloud_candidates
OfTheAccount(cloud) == IF Bound = {} THEN cloud ELSE cloud \cap Bound
\* Without one, the console of Step 1 is taken, bound or not.
Candidates(cloud) == IF OfTheAccount(cloud) = {} THEN {Preloaded} ELSE OfTheAccount(cloud)
\* prioritize_candidates_by_step1
Prioritised(s) == \A i \in 2..Len(s) : s[i] # Preloaded

Orders(c) ==
  {s \in [1..Cardinality(c) -> c] : \A i, j \in DOMAIN s : s[i] = s[j] => i = j}

ListConsoles ==
  /\ step = "list" /\ ~playstation
  /\ \/ \E cloud \in SUBSET Host \ {{}} :
          \E s \in Orders(Candidates(cloud)) : Prioritised(s) /\ todo' = s /\ step' = "try"
     \/ step' = "failed" /\ UNCHANGED todo        \* CLOUD_NO_HOST
  /\ UNCHANGED <<playstation, console, leaseVars, peer, channelVars>>

\* get_lan_discovery_cache: what another agent of the network saw up to 90 s before.
CachedAnswers == SUBSET Host \ {{}}
\* Without them, the answers to a broadcast.  The hosts bound to the account count only
\* if one is assigned.
LanAnswers == SUBSET Host
ListPlayStations ==
  /\ step = "list" /\ playstation
  /\ \/ \E lan \in CachedAnswers \cup LanAnswers : \E c \in {lan, OfTheAccount(lan)} :
          \E s \in Orders(c) : todo' = s /\ step' = "try"
     \/ step' = "failed" /\ UNCHANGED todo        \* LAN_NO_HOST
  /\ UNCHANGED <<playstation, console, leaseVars, peer, channelVars>>

Skip == step' = "try" /\ UNCHANGED <<playstation, console, leaseVars, peer, channelVars>>

\* The power state is the one in the list.
TryNext ==
  /\ step = "try" /\ todo # <<>>
  /\ todo' = Tail(todo) /\ console' = Head(todo)
  /\ step' \in (IF playstation THEN {"ask"} ELSE {"ask", "wake", "try"})
  /\ UNCHANGED <<playstation, leaseVars, peer, channelVars>>

\* ALL_HOSTS_FAILED, or check_cancel.
NoneLeft ==
  /\ step = "try" /\ step' = "failed"
  /\ UNCHANGED <<playstation, todo, console, leaseVars, peer, channelVars>>

\* Up to two commands, each with 30 s for the console to come up.
WakeUp ==
  /\ step = "wake" /\ step' \in {"power", "try"}
  /\ UNCHANGED <<playstation, todo, console, leaseVars, peer, channelVars>>
PowerOn ==
  /\ step = "power" /\ step' \in {"ask", "wake", "try"}
  /\ UNCHANGED <<playstation, todo, console, leaseVars, peer, channelVars>>

\* get_xbox_status_by_device_id: no answer is no status.
StatusByDevice == {leased[console], "unknown"}

\* is_host_occupied_by_server_id
AskOccupied ==
  /\ step = "ask" /\ UNCHANGED todo
  /\ \E status \in StatusByDevice :
       IF status = "other" THEN Skip
       ELSE step' = "hold" /\ UNCHANGED <<playstation, console, leaseVars, peer, channelVars>>

-----------------------------------------------------------------------------
(* console_lease *)

\* acquire_xbox_host: refused when another task of the agent has the console.
AcquireHost ==
  /\ step = "hold" /\ UNCHANGED todo
  /\ \/ step' = "lock" /\ held' = held \cup {console}
        /\ UNCHANGED <<playstation, console, leased, peer, channelVars>>
     \/ Skip

ReleaseLocal == held' = held \ {console}

\* lock_xbox_by_device_id; when its answer is lost the lease is ours for all that.
Lock ==
  /\ step = "lock"
  /\ \/ leased[console] # "other" /\ step' = (IF playstation THEN "unopened" ELSE "play")
        /\ leased' = [leased EXCEPT ![console] = "us"] /\ UNCHANGED held
     \/ leased[console] # "other" /\ step' = "try" /\ ReleaseLocal
        /\ leased' = [leased EXCEPT ![console] = "us"]
     \/ step' = "try" /\ ReleaseLocal /\ UNCHANGED leased
  /\ UNCHANGED <<playstation, todo, console, peer, channelVars>>

GivenBack == leased' = [leased EXCEPT ![console] = IF @ = "us" THEN "free" ELSE @]

\* release_server_id: the platform may not hear of it, the scheduler always does.
Release ==
  /\ step \in {"release", "giveup"} /\ ReleaseLocal
  /\ GivenBack \/ UNCHANGED leased
  /\ step' = (IF step = "release" THEN "try" ELSE "failed")
  /\ UNCHANGED <<playstation, todo, console, peer, channelVars>>

\* The other agents, and the lease's end.
Rival(h) ==
  /\ leased' = [leased EXCEPT ![h] = CASE @ = "free"  -> "other" [] OTHER -> "free"]
  /\ UNCHANGED <<step, playstation, todo, console, held, peer, channelVars>>

\* A PlayStation's stream is not there yet: the console is given back at once.
Unopened ==
  /\ step = "unopened" /\ step' = "giveup"
  /\ UNCHANGED <<playstation, todo, console, leaseVars, peer, channelVars>>

-----------------------------------------------------------------------------
(* connect_xsrp_cloud *)

Onward(s, t) == step = s /\ step' = t /\ UNCHANGED <<playstation, todo, console, leaseVars>>

Play == \E next \in {"poll", "offer"} : Onward("play", next) /\ UNCHANGED <<peer, channelVars>>
Poll == Onward("poll", "offer") /\ UNCHANGED <<peer, channelVars>>
Offer == Onward("offer", "answer") /\ peer' = console /\ UNCHANGED channelVars
Answer == \E next \in {"ice", "link"} : Onward("answer", next) /\ UNCHANGED <<peer, channelVars>>
\* An exchange that times out or fails is only logged.
Ice == Onward("ice", "link") /\ UNCHANGED <<peer, channelVars>>

ChannelOpens(c) ==
  /\ peer # NoHost /\ step \notin {"answer", "thrown"} /\ opened' = opened \cup {c}
  /\ UNCHANGED <<step, playstation, todo, console, leaseVars, peer, authorised, ready, frame>>

\* What goes to a channel that is not open is dropped.
Authorise == authorised' = (authorised \/ "control" \in opened) /\ ready' = TRUE

HandshakeAck ==
  /\ "message" \in opened /\ Authorise
  /\ UNCHANGED <<step, playstation, todo, console, leaseVars, peer, opened, frame>>

FrameComes ==
  /\ step \in {"ice", "link", "input", "frame", "step3", "bind", "done", "media"} /\ frame' = TRUE
  /\ UNCHANGED <<step, playstation, todo, console, leaseVars, peer, opened, authorised, ready>>

\* Connected, or what comes only over a connection has come.
Linked == Onward("link", "input") /\ UNCHANGED <<peer, channelVars>>

\* The handshake, or at least a message channel to hold it on.
InputReady ==
  /\ Onward("input", "frame") /\ UNCHANGED <<peer, opened, frame>>
  /\ \/ ready /\ UNCHANGED <<authorised, ready>>
     \/ "message" \in opened /\ Authorise

FirstFrame == frame /\ Onward("frame", "step3") /\ UNCHANGED <<peer, channelVars>>

\* cleanup_xsrp_cloud_attempt
Close ==
  /\ peer' = NoHost /\ opened' = {}
  /\ authorised' = FALSE /\ ready' = FALSE /\ frame' = FALSE

LeavesOpen ==
  /\ step \in Connecting /\ step' = "release"
  /\ UNCHANGED <<playstation, todo, console, leaseVars, peer, channelVars>>

\* Any request, wait or the time for the console fails.
ConnectFails ==
  /\ step \in Connecting /\ step' = "release" /\ Close
  /\ UNCHANGED <<playstation, todo, console, leaseVars>>

\* Step 3 runs within Step 2; when it fails no other console is tried.
StepThree ==
  /\ step = "step3" /\ UNCHANGED <<playstation, todo, console, leaseVars>>
  /\ \/ step' = "bind" /\ UNCHANGED <<peer, channelVars>>
     \/ step' = "giveup" /\ Close

EnsureBinding == Onward("bind", "done") /\ UNCHANGED <<peer, channelVars>>

\* open_stream: Step 3 has run; if the input closed meanwhile it runs again, and its
\* failure keeps the console.
OpenStream ==
  /\ \E next \in {"media", "thrown"} : Onward("done", next)
  /\ UNCHANGED <<peer, channelVars>>

\* The task is cancelled at an await, or something is thrown: Step 2 answers CANCELLED
\* or EXCEPTION and keeps what it has.
Cancelled ==
  /\ step \notin {"done", "media", "failed", "thrown"} /\ step' = "thrown"
  /\ UNCHANGED <<playstation, todo, console, leaseVars, peer, channelVars>>

-----------------------------------------------------------------------------
OpenNext ==
  \/ Route \/ Credentials \/ ListConsoles \/ ListPlayStations \/ TryNext \/ NoneLeft \/ WakeUp \/ PowerOn
  \/ AskOccupied \/ AcquireHost \/ Lock \/ Release \/ Unopened \/ \E h \in Host : Rival(h)
  \/ Play \/ Poll \/ Offer \/ Answer \/ Ice \/ \E c \in Channel : ChannelOpens(c)
  \/ HandshakeAck \/ FrameComes \/ Linked \/ InputReady \/ FirstFrame
  \/ ConnectFails \/ StepThree \/ EnsureBinding \/ OpenStream \/ Cancelled

OpenSpec == OpenInit /\ [][OpenNext]_openVars

-----------------------------------------------------------------------------
(* Properties. *)

\* console_lease, discover_and_connect_xsrp: at most one console is held, the one that
\* is tried; a WebRTC session exists with no other; and a Step 2 that reports failure
\* holds and streams nothing.
OnlyTheConsoleTried ==
  /\ held \subseteq {console} /\ (peer # NoHost => peer \in held)
  /\ step \in {"try", "wake", "power", "ask", "failed"} => held = {} /\ peer = NoHost

\* build_cloud_candidates: an account with bound hosts streams from one of them.  The
\* console of Step 1, taken when none of them is in the cloud's list, breaks it.
BoundHostsOnly == peer # NoHost /\ Bound # {} => peer \in Bound

\* Step 3 starts with a console that takes the controller's input.  A message channel
\* that opens before the control channel breaks it: ready is set all the same.
StartsAuthorised == step = "step3" => authorised
=============================================================================
