----------------------------- MODULE StreamHealth -----------------------------
(***************************************************************************)
(* Keeping the stream of one task alive after Step 3: the loop that writes *)
(* to the console (access), the liveness monitor, and the reconnects that  *)
(* the monitor, the callbacks of WebRTC, Step 4 and the platform ask for.  *)
(* A task has two contexts: discovery makes one of its own, on which the   *)
(* stream is opened ("media"), and StreamingAccountTask copies some of its *)
(* attributes to the task's ("task").  Loops, locks and background         *)
(* reconnects are attributes of one context each.  _input_channel_dirty is *)
(* left out: it says what the next write would find out.                   *)
(***************************************************************************)
EXTENDS Integers

CONSTANTS
  Stream,    \* the WebRTC sessions there may be, one after the other
  First,     \* the one Step 3 has opened
  NoStream,
  Strikes,   \* gssv.liveness_reconnect_after_failures
  Tries      \* _RECONNECT_MAX_IN_WINDOW

ASSUME StreamAssumption ==
  First \in Stream /\ NoStream \notin Stream /\ Strikes \in Nat \ {0} /\ Tries \in Nat \ {0}

VARIABLES
  stream,   \* open; blind: no picture any more; dead: the input is closed too
  owner,    \* owner[s]: the context its close handlers are bound to
  at,       \* at[c]: context.xbox_session
  web,      \* web[c]: context._cloud_webrtc
  redo,     \* redo[w]: a coroutine in reconnect_input_channel
  tried,    \* tried[c]: its attempts in the last 60 seconds
  writer,   \* writer[c]: the access loop runs
  monitor,  \* monitor[c]: the liveness monitor runs
  strike,   \* strike[c]: its consecutive_input_stale
  ended     \* force_terminate_task has closed the task's context

healthVars == <<stream, owner, at, web, redo, tried, writer, monitor, strike, ended>>

Ctx  == {"media", "task"}
\* A context's background reconnect, and the one Step 4 or reconnect_stream waits for.
Who  == Ctx \cup {"command"}
CtxOf(w) == IF w = "command" THEN "task" ELSE w
Locked   == {"closing", "dial", "verify"}
RedoPC   == {"off", "asked"} \cup Locked

HealthTypeOK ==
  /\ stream \in [Stream -> {"none", "open", "blind", "dead", "closed"}]
  /\ owner \in [Stream -> Ctx \cup {"nobody"}]
  /\ at \in [Ctx -> Stream \cup {NoStream}] /\ web \in [Ctx -> Stream \cup {NoStream}]
  /\ redo \in [Who -> RedoPC]
  /\ tried \in [Ctx -> 0..Tries] /\ strike \in [Ctx -> 0..(Strikes - 1)]
  /\ writer \in [Ctx -> BOOLEAN] /\ monitor \in [Ctx -> BOOLEAN] /\ ended \in BOOLEAN

\* Step 3 is over, _sync_media_context done, Step 4 under way.
HealthInit ==
  /\ stream = [s \in Stream |-> IF s = First THEN "open" ELSE "none"]
  /\ owner = [s \in Stream |-> IF s = First THEN "media" ELSE "nobody"]
  /\ at = [c \in Ctx |-> First]
  /\ web = [c \in Ctx |-> IF c = "media" THEN First ELSE NoStream]
  /\ redo = [w \in Who |-> "off"] /\ tried = [c \in Ctx |-> 0]
  /\ writer = [c \in Ctx |-> c = "media"] /\ monitor = [c \in Ctx |-> c = "media"]
  /\ strike = [c \in Ctx |-> 0]
  /\ ended = FALSE

-----------------------------------------------------------------------------
\* is_input_channel_open: open and input_ready.  try_restore_input mends the flag only.
Healthy(c)   == at[c] # NoStream /\ stream[at[c]] \in {"open", "blind"}
\* is_connected is WebRTC's _ready: nothing but close() resets it.
Connected(c) == at[c] # NoStream /\ stream[at[c]] \in {"open", "blind", "dead"}

\* Streams are closed, by us or by the other side: those with an open input tell
\* the context that their handlers are bound to.
Told(S) == {owner[s] : s \in {x \in S : stream[x] \in {"open", "blind"}}} \ {"nobody"}
\* schedule_input_reconnect, not forced: one in the background at a time, and
\* none within ten seconds of the last.
Ring(C, r) ==
  {q \in [Who -> RedoPC] :
     /\ \A w \in Who \ C : q[w] = r[w]
     /\ \A c \in C : q[c] = r[c] \/ (r[c] = "off" /\ q[c] = "asked")}
CloseAll(S, r) ==
  /\ stream' = [s \in Stream |-> IF s \in S THEN "closed" ELSE stream[s]]
  /\ redo' \in Ring(Told(S), r)

-----------------------------------------------------------------------------
(* The network and the console. *)

InputCloses(s) ==
  /\ stream[s] \in {"open", "blind"}
  /\ stream' = [stream EXCEPT ![s] = "dead"]
  /\ redo' \in Ring({owner[s]} \ {"nobody"}, redo)
  /\ UNCHANGED <<owner, at, web, tried, writer, monitor, strike, ended>>

\* The video track ends, and its handler is called, or frames just stop coming.
VideoEnds(s) ==
  /\ stream[s] = "open"
  /\ stream' = [stream EXCEPT ![s] = "blind"]
  /\ \/ /\ redo' \in Ring({owner[s]} \ {"nobody"}, redo)
           \/ UNCHANGED <<redo>>
  /\ UNCHANGED <<owner, at, web, tried, writer, monitor, strike, ended>>

-----------------------------------------------------------------------------
(* reconnect_input_channel *)

\* Step 4 after a failed launch, or task_control's reconnect_stream.
Command ==
  /\ ~ended /\ redo["command"] = "off"
  /\ redo' = [redo EXCEPT !["command"] = "asked"]
  /\ UNCHANGED <<stream, owner, at, web, tried, writer, monitor, strike, ended>>

Goes(w, pc) == redo' = [redo EXCEPT ![w] = pc]

\* The lock, the limit of attempts (the platform's command is exempt), and an
\* input that is open after all: each lets the caller return at once.
Enter(w) ==
  LET c == CtxOf(w) IN
  /\ redo[w] = "asked"
  /\ IF \/ \E v \in Who : CtxOf(v) = c /\ redo[v] \in Locked
        \/ w # "command" /\ tried[c] = Tries
     THEN Goes(w, "off") /\ UNCHANGED tried
     ELSE /\ tried' = [tried EXCEPT ![c] = IF @ = Tries THEN @ ELSE @ + 1]
          /\ Goes(w, IF Healthy(c) THEN "off" ELSE "closing")
  /\ UNCHANGED <<stream, owner, at, web, writer, monitor, strike, ended>>

\* cleanup_xsrp_cloud_attempt.
TearDown(w) ==
  LET c == CtxOf(w)
      S == {at[c], web[c]} \ {NoStream} IN
  /\ redo[w] = "closing"
  /\ CloseAll(S, [redo EXCEPT ![w] = "dial"])
  /\ at' = [at EXCEPT ![c] = NoStream] /\ web' = [web EXCEPT ![c] = NoStream]
  /\ UNCHANGED <<owner, tried, writer, monitor, strike, ended>>

Fresh == {s \in Stream : stream[s] = "none"}
NextStream == CHOOSE s \in Fresh : TRUE

\* connect_xsrp_cloud succeeds: bindings, handlers, access loop.
DialSucceeds(w) ==
  LET c == CtxOf(w)
      s == NextStream IN
  /\ redo[w] = "dial" /\ Fresh # {}
  /\ stream' = [stream EXCEPT ![s] = "open"] /\ owner' = [owner EXCEPT ![s] = c]
  /\ at' = [at EXCEPT ![c] = s] /\ web' = [web EXCEPT ![c] = s]
  /\ writer' = [writer EXCEPT ![c] = TRUE]
  /\ Goes(w, "verify")
  /\ UNCHANGED <<tried, monitor, strike, ended>>

\* An exception closes what there was; a missing first frame or the 45 seconds
\* leave it on the context, without handlers.
DialFails(w) ==
  /\ redo[w] = "dial" /\ Goes(w, "off")
  /\ \/ UNCHANGED <<stream, web>>
     \/ /\ Fresh # {}
        /\ stream' = [stream EXCEPT ![NextStream] = "open"]
        /\ web' = [web EXCEPT ![CtxOf(w)] = NextStream]
  /\ UNCHANGED <<owner, at, tried, writer, monitor, strike, ended>>

\* ensure_stream_subsystems_alive: what does not run is started.
Revive(c) ==
  /\ writer' = [writer EXCEPT ![c] = TRUE]
  /\ monitor' = [monitor EXCEPT ![c] = TRUE]
  /\ strike' = [strike EXCEPT ![c] = IF monitor[c] THEN @ ELSE 0]

\* Twenty seconds for a new picture, a look at the input, Nexus; whatever they
\* give, the attempt counts as a success.
VerifiedOnly(w) ==
  /\ redo[w] = "verify" /\ Goes(w, "off")
  /\ UNCHANGED <<stream, owner, at, web, tried, writer, monitor, strike, ended>>

Verified(w) ==
  /\ redo[w] = "verify" /\ Goes(w, "off")
  /\ IF Connected(CtxOf(w)) THEN Revive(CtxOf(w)) ELSE UNCHANGED <<writer, monitor, strike>>
  /\ UNCHANGED <<stream, owner, at, web, tried, ended>>

WindowSlides(c) ==
  /\ tried[c] > 0 /\ tried' = [tried EXCEPT ![c] = 0]
  /\ UNCHANGED <<stream, owner, at, web, redo, writer, monitor, strike, ended>>

-----------------------------------------------------------------------------
(* The loops of a context. *)

\* The capture pump is the media context's and takes the last picture again and
\* again; each time it sets the time of the last frame on that context's WebRTC.
\* The task's context without a WebRTC of its own has no such time.
Unseen(c) == c = "media" \/ web[c] = NoStream

\* The monitor every tenth second: a stream without a picture is reconnected, if
\* that is seen; for an input nothing can be written to, the light repair first,
\* which cannot open it, and after Strikes times the reconnect.  It sees its own
\* context's background reconnect only.
MonitorSees(c, strikes) ==
  /\ monitor[c]
  /\ \/ /\ ~Connected(c)
        /\ monitor' = [monitor EXCEPT ![c] = FALSE] /\ strike' = [strike EXCEPT ![c] = 0]
        /\ UNCHANGED redo
     \/ /\ Connected(c) /\ redo[c] = "off"
        /\ stream[at[c]] = "open" \/ (stream[at[c]] = "blind" /\ Unseen(c))
        /\ strike' = [strike EXCEPT ![c] = 0]
        /\ UNCHANGED <<redo, monitor>>
     \/ /\ Connected(c) /\ redo[c] = "off" /\ stream[at[c]] = "blind" /\ ~Unseen(c)
        /\ Goes(c, "asked") /\ strike' = [strike EXCEPT ![c] = 0]
        /\ UNCHANGED monitor
     \/ /\ Connected(c) /\ redo[c] = "off" /\ stream[at[c]] = "dead"
        /\ IF strikes = Strikes THEN Goes(c, "asked") ELSE UNCHANGED redo
        /\ strike' = [strike EXCEPT ![c] = strikes % Strikes]
        /\ UNCHANGED monitor
  /\ UNCHANGED <<stream, owner, at, web, tried, writer, ended>>

ForgetfulTick(c) == MonitorSees(c, 1)
MonitorTick(c)   == MonitorSees(c, strike[c] + 1)

\* Every sixth tick of a monitor, F8, and on the task's context the end of Step 4.
Survive(c) ==
  /\ Connected(c) /\ c = "task" => ~ended
  /\ Revive(c)
  /\ UNCHANGED <<stream, owner, at, web, redo, tried, ended>>

\* The access loop ends when it finds its session closed.
WriterTick(c) ==
  /\ writer[c] /\ ~Connected(c)
  /\ writer' = [writer EXCEPT ![c] = FALSE]
  /\ UNCHANGED <<stream, owner, at, web, redo, tried, monitor, strike, ended>>

\* close_media_context on the task's context.  _streaming_stack is not one of the
\* copied attributes: without a reconnect of its own the rest is not stopped here.
Terminate ==
  LET own == web["task"] # NoStream
      S   == ({at["task"]} \cup (IF own THEN {web["task"]} ELSE {})) \ {NoStream} IN
  /\ ~ended /\ ended' = TRUE
  /\ CloseAll(S, redo)
  /\ at' = [at EXCEPT !["task"] = NoStream] /\ web' = [web EXCEPT !["task"] = NoStream]
  /\ writer' = [writer EXCEPT !["task"] = @ /\ ~own]
  /\ monitor' = [monitor EXCEPT !["task"] = @ /\ ~own]
  /\ strike' = [strike EXCEPT !["task"] = IF own THEN 0 ELSE @]
  /\ UNCHANGED <<owner, tried>>

-----------------------------------------------------------------------------
HealthNext ==
  \/ \E s \in Stream : InputCloses(s) \/ VideoEnds(s)
  \/ Command \/ Terminate
  \/ \E w \in Who : Enter(w) \/ TearDown(w) \/ DialSucceeds(w) \/ DialFails(w) \/ Verified(w)
  \/ \E c \in Ctx : MonitorTick(c) \/ Survive(c) \/ WriterTick(c) \/ WindowSlides(c)

HealthSpec == HealthInit /\ [][HealthNext]_healthVars

\* The loops of the media context wake up, its coroutines go on, time passes.
HealthFairSpec ==
  /\ HealthSpec
  /\ WF_healthVars(MonitorTick("media")) /\ WF_healthVars(WindowSlides("media"))
  /\ WF_healthVars(Enter("media")) /\ WF_healthVars(TearDown("media"))
  /\ WF_healthVars(Verified("media"))

-----------------------------------------------------------------------------
(* Properties. *)

\* One reconnect of a context at a time, whoever asks: the monitor, a callback in
\* the middle of another's clean-up, Step 4 or the platform.
OneDial ==
  \A v, w \in Who : v # w /\ CtxOf(v) = CtxOf(w) => ~(redo[v] \in Locked /\ redo[w] \in Locked)

\* A connected stream is watched and written to.  Both loops end when they wake up
\* in the middle of a reconnect, and have to be there again after it.
Watched == Connected("media") /\ redo["media"] # "verify" => monitor["media"] /\ writer["media"]

\* A reconnect is made once, and leaves nothing out.
ReconnectIsWhole == OneDial /\ Watched

\* A stream whose input has been closed by the other side is taken down for a new
\* one, although callbacks are dropped during a pause of ten seconds and attempts
\* are limited.
DeadIsReplaced ==
  \A s \in Stream : (at["media"] = s /\ stream[s] = "dead") ~> (stream[s] = "closed")

\* monitor, stream_recovery: a picture that is gone is a reason to reconnect.  The
\* monitor does not see it, and the reconnect of a callback finds the input open
\* and leaves the stream as it is.
BlindIsReplaced ==
  \A s \in Stream : (at["media"] = s /\ stream[s] = "blind") ~> (stream[s] # "blind")

\* close_media_context: nothing of a terminated task's stream remains. Does not hold:
\* closing the input calls the handler that opens the next stream.
NothingLeftOpen == ended => \A s \in Stream : stream[s] \in {"none", "dead", "closed"}
=============================================================================
