------------------------------ MODULE RemotePlay ------------------------------
(***************************************************************************)
(* What runs on the picture of one task's stream: the capture pump, the    *)
(* window it is shown in, and Step 4's two loops, of which one recognises  *)
(* scenes and the other lets the FC server play a match (StreamRuntime,    *)
(* match_lifecycle, setup, post_match, display_helpers, sdl_window).  The  *)
(* FC server is external: any reply, at any time.                          *)
(***************************************************************************)
EXTENDS Naturals

CONSTANT Games   \* how many matches are tried; bounds the run

ASSUME MatchAssumption == Games \in Nat \ {0}

VARIABLES
  film,      \* StreamRuntime._latest_frame: none, a new picture or the old stream's last
  dark,      \* context._stream_video_stale
  net,       \* the WebRTC session: up, lost, being checked, again
  rolling,   \* the capture pump runs
  win,       \* context.sdl_window; dead: closed by the user
  shows,     \* the display pump runs
  autoGraph, autoPlay,
  seer,      \* the graph loop's task: none, idle, or the session its request names
  player,    \* the play loop's task: none, idle, or the match its picture is of
  token,     \* session_token of the FC client, as the match it was given for
  hand,      \* who is in the middle of pressing a button on the one controller
  over,      \* _match_over: the match the answer was about, 0 when clear
  round,     \* the match being tried
  act,       \* where Step 4 is
  remote,    \* context._fc_remote_play
  halt,      \* context.is_paused()
  anchor     \* _resume_reanchor_home

pictureVars == <<film, dark, net, rolling>>
windowVars  == <<win, shows>>
loopVars    == <<autoGraph, autoPlay, seer, player, hand, over>>
matchVars   == <<token, round, act, remote, halt, anchor>>
playVars    == <<pictureVars, windowVars, loopVars, matchVars>>

None  == Games + 1   \* no task
Idle  == Games + 2   \* a task between two requests
Game == 0..Games

PlayTypeOK ==
  /\ film \in {"none", "new", "old"} /\ net \in {"up", "lost", "check", "again"}
  /\ win \in {"none", "shown", "hidden", "closing", "dead"}
  /\ {dark, rolling, shows, autoGraph, autoPlay, remote, halt, anchor} \subseteq BOOLEAN
  /\ hand \subseteq {"graph", "play", "match"}
  /\ {seer, player} \subseteq Game \cup {None, Idle}
  /\ {token, over, round} \subseteq Game
  /\ act \in {"off", "menu", "ready", "wait", "held", "done", "closed"}

\* Step 3 is over: the first picture is there and the pump runs.
PlayInit ==
  /\ film = "new" /\ dark = FALSE /\ net = "up" /\ rolling = TRUE
  /\ win = "none" /\ shows = FALSE
  /\ autoGraph = FALSE /\ autoPlay = FALSE /\ seer = None /\ player = None /\ over = 0
  /\ token = 0 /\ round = 0 /\ act = "off" /\ hand = {} /\ remote = FALSE /\ halt = FALSE /\ anchor = FALSE

-----------------------------------------------------------------------------
(* The picture. *)

\* XsrpFrameCapture stays on the session of Step 2, whose get_latest_frame gives
\* its last picture for ever.
Source == IF net = "up" THEN "new" ELSE "old"

Capture ==
  /\ rolling /\ film' = Source
  /\ UNCHANGED <<dark, net, rolling, windowVars, loopVars, matchVars>>

\* The stream is lost, once: invalidate_stream_video.
Lost ==
  /\ net = "up" /\ net' = "lost" /\ film' = "none" /\ dark' = TRUE
  /\ UNCHANGED <<rolling, windowVars, loopVars, matchVars>>

\* A new session; rebind_stream_bindings finds no way to give it to the capture.
Rebound ==
  /\ net = "lost" /\ net' = "check" /\ film' = "none"
  /\ UNCHANGED <<dark, rolling, windowVars, loopVars, matchVars>>

\* _await_fresh_video_after_reconnect takes any picture for a fresh one.
SeedLatest ==
  /\ net = "check" /\ film # "none"
  /\ net' = "again" /\ dark' = FALSE
  /\ UNCHANGED <<film, rolling, windowVars, loopVars, matchVars>>

\* Twenty seconds without one: nobody clears the mark any more.
NoFreshVideo ==
  /\ net = "check" /\ film = "none" /\ net' = "again"
  /\ UNCHANGED <<film, dark, rolling, windowVars, loopVars, matchVars>>

\* What the display pump puts into the window.
OnDisplay == IF shows /\ win = "shown" /\ ~dark THEN film ELSE "none"

-----------------------------------------------------------------------------
(* The window. *)

WindowActive == win \in {"shown", "hidden", "closing"}

\* step3_ensure_display, step3_reopen_display: an open window is shown again, a
\* new one may fail to open; one display pump at a time.
EnsureDisplay ==
  /\ rolling
  /\ \/ /\ shows' = TRUE
        /\ win' = IF win = "closing" THEN win ELSE "shown"
     \/ ~WindowActive /\ win' = "none" /\ UNCHANGED shows
  /\ UNCHANGED <<pictureVars, loopVars, matchVars>>

\* The title bar's X, seen by the pump: hide_on_close, a callback, or close().
UserQuits ==
  /\ shows /\ win = "shown" /\ win' \in {"hidden", "dead"}
  /\ UNCHANGED <<shows, pictureVars, loopVars, matchVars>>

\* step3_close_display: the pump first, then the window.
CloseWindow ==
  /\ WindowActive /\ win # "closing" /\ win' = "closing" /\ shows' = FALSE
  /\ UNCHANGED <<pictureVars, loopVars, matchVars>>
Destroyed ==
  /\ win = "closing" /\ win' = "none"
  /\ UNCHANGED <<shows, pictureVars, loopVars, matchVars>>

\* The display pump finds its window gone.
DisplayEnds ==
  /\ shows /\ ~WindowActive /\ shows' = FALSE
  /\ UNCHANGED <<win, pictureVars, loopVars, matchVars>>

-----------------------------------------------------------------------------
(* The loops. *)

\* A mutant: the last match's word is not cleared.
EntersWithOver ==
  /\ autoGraph' = FALSE /\ autoPlay' = TRUE /\ over' = over
  /\ player' = IF player = None THEN Idle ELSE player

enter_play_mode ==
  /\ autoGraph' = FALSE /\ autoPlay' = TRUE /\ over' = 0
  /\ player' = IF player = None THEN Idle ELSE player

\* The task is cancelled where it waits: in a request, or with a button down.
exit_play_mode ==
  autoPlay' = FALSE /\ autoGraph' = TRUE /\ player' = None /\ hand' = hand \ {"play"}

\* Once a second: the scene of a picture, from the FC server.
AskScene ==
  /\ seer = Idle /\ autoGraph /\ film # "none"
  /\ seer' = token
  /\ UNCHANGED <<autoGraph, autoPlay, player, hand, over, pictureVars, windowVars, matchVars>>

\* A reply may name a session, which becomes the client's.
Session(t) == token' \in {token, t}

\* The answer: its actions are pressed, whatever began in the meantime.
Scene ==
  /\ seer \in Game /\ "graph" \notin hand
  /\ Session(seer)
  /\ \/ seer' = Idle /\ UNCHANGED hand
     \/ hand' = hand \cup {"graph"} /\ UNCHANGED seer
  /\ UNCHANGED <<autoGraph, autoPlay, player, over, round, act, remote, halt, anchor, pictureVars, windowVars>>

\* _apply_fc_controller_actions: each for its time, then zero.
SceneActed ==
  /\ "graph" \in hand /\ hand' = hand \ {"graph"} /\ seer' = Idle
  /\ UNCHANGED <<autoGraph, autoPlay, player, over, pictureVars, windowVars, matchVars>>

\* Twenty times a second: a picture of the match.  The pause asked for is that of
\* another context, which never pauses.
AskPlay ==
  /\ player = Idle /\ remote /\ autoPlay /\ film # "none"
  /\ player' = round
  /\ UNCHANGED <<autoGraph, autoPlay, seer, hand, over, pictureVars, windowVars, matchVars>>

PlayActs ==
  /\ player \in Game /\ "play" \notin hand /\ hand' = hand \cup {"play"}
  /\ UNCHANGED <<autoGraph, autoPlay, seer, player, over, pictureVars, windowVars, matchVars>>

\* What play_frame makes of its reply, of a failed request, of one it cannot read.
Errno == {"ok", "network", "over", "other"}

\* _handler makes a network error of errno 0, which is FC_ERR_OK.
Played(errno) ==
  /\ player \in Game
  /\ CASE errno = "over" -> over' = player /\ exit_play_mode
       [] errno \in {"ok", "network"} ->
            /\ autoPlay' = FALSE /\ autoGraph' = FALSE
            /\ player' = Idle /\ hand' = hand \ {"play"} /\ UNCHANGED over
       [] OTHER -> player' = Idle /\ hand' = hand \ {"play"} /\ UNCHANGED <<autoGraph, autoPlay, over>>
  /\ UNCHANGED <<seer, pictureVars, windowVars, matchVars>>

\* start_automation, stop_automation.
StartLoops ==
  /\ act = "off" /\ act' = "menu"
  /\ autoGraph' = TRUE /\ autoPlay' = FALSE
  /\ seer' = IF seer = None THEN Idle ELSE seer
  /\ remote' \in BOOLEAN
  /\ UNCHANGED <<player, hand, over, token, round, halt, anchor, pictureVars, windowVars>>

LoopsStop ==
  autoGraph' = FALSE /\ autoPlay' = FALSE /\ seer' = None /\ player' = None /\ hand' = {}
StopLoops ==
  /\ act \notin {"off", "closed"} /\ act' = "off" /\ LoopsStop
  /\ UNCHANGED <<over, token, round, remote, halt, anchor, pictureVars, windowVars>>

\* stop_long_lived, when the session is closed.
StopLongLived ==
  /\ act # "closed" /\ act' = "closed" /\ LoopsStop
  /\ rolling' = FALSE /\ film' = "none"
  /\ UNCHANGED <<over, dark, net, token, round, remote, halt, anchor, windowVars>>

-----------------------------------------------------------------------------
(* The matches of an account. *)

At(from, to) == act = from /\ act' = to

\* _enter_match; when the way to the match is not found, the next is tried.
EnterMatch ==
  /\ act = "menu" /\ ~halt /\ ~anchor /\ round < Games
  /\ round' = round + 1 /\ act' \in {"menu", "ready"}
  /\ UNCHANGED <<token, remote, halt, anchor, loopVars, pictureVars, windowVars>>

\* _wait_for_match_start: INIT, which may fail, and the play loop all the same.
MatchStarts ==
  /\ At("ready", "wait")
  /\ IF remote THEN Session(round) ELSE UNCHANGED token
  /\ enter_play_mode
  /\ UNCHANGED <<seer, hand, round, remote, halt, anchor, pictureVars, windowVars>>

\* _play_match: the FC server's word is waited for, two seconds at a time; without
\* it the match is played here, tick by tick, until its end is seen.
NoticesPause ==
  /\ At("wait", "held") /\ halt /\ "match" \notin hand
  /\ UNCHANGED <<token, round, remote, halt, anchor, loopVars, pictureVars, windowVars>>
SeesOver ==
  /\ At("wait", "done") /\ remote /\ over # 0
  /\ UNCHANGED <<token, round, remote, halt, anchor, loopVars, pictureVars, windowVars>>

Ticks ==
  /\ act = "wait" /\ ~remote
  /\ hand' = IF "match" \in hand THEN hand \ {"match"} ELSE hand \cup {"match"}
  /\ UNCHANGED <<autoGraph, autoPlay, seer, player, over, pictureVars, windowVars, matchVars>>
EndSeen ==
  /\ At("wait", "done") /\ ~remote /\ "match" \notin hand
  /\ UNCHANGED <<token, round, remote, halt, anchor, loopVars, pictureVars, windowVars>>

\* match_duration is over: counted all the same.
TimesOut ==
  /\ At("wait", "done") /\ (remote => over = 0) /\ "match" \notin hand
  /\ UNCHANGED <<token, round, remote, halt, anchor, loopVars, pictureVars, windowVars>>

\* _finish_match.  The settlement is not skipped: post_match lacks an import.
FinishMatch ==
  /\ At("done", "menu") /\ exit_play_mode
  /\ UNCHANGED <<seer, over, token, round, remote, halt, anchor, pictureVars, windowVars>>

\* ResumeReanchor is raised, or seen at the loop's top: checkpoint_resume_reanchor.
Reanchored ==
  /\ act \in {"menu", "held"} /\ ~halt /\ anchor
  /\ act' = "menu" /\ anchor' = FALSE /\ exit_play_mode
  /\ UNCHANGED <<seer, over, token, round, remote, halt, pictureVars, windowVars>>

\* The platform's pause (release_automation_input) and resume.
PausePlay ==
  /\ act # "closed" /\ ~halt /\ halt' = TRUE /\ exit_play_mode
  /\ UNCHANGED <<seer, over, token, round, act, remote, anchor, pictureVars, windowVars>>
ResumePlay ==
  /\ halt /\ halt' = FALSE /\ anchor' = TRUE
  /\ UNCHANGED <<token, round, act, remote, loopVars, pictureVars, windowVars>>

-----------------------------------------------------------------------------
PlayNext ==
  \/ Capture \/ Lost \/ Rebound \/ SeedLatest \/ NoFreshVideo
  \/ EnsureDisplay \/ UserQuits \/ CloseWindow \/ Destroyed \/ DisplayEnds
  \/ AskScene \/ Scene \/ SceneActed \/ AskPlay \/ PlayActs
  \/ \E errno \in Errno : Played(errno)
  \/ StartLoops \/ StopLoops \/ StopLongLived
  \/ EnterMatch \/ MatchStarts \/ NoticesPause \/ SeesOver \/ Ticks \/ EndSeen \/ TimesOut
  \/ FinishMatch \/ Reanchored \/ PausePlay \/ ResumePlay

PlaySpec == PlayInit /\ [][PlayNext]_playVars

-----------------------------------------------------------------------------
(* Properties. *)

\* _play_match takes a match for over, which is counted and billed, only on an
\* answer to a picture of this match: not on that of the last one, of a request
\* still on its way when it ended by time, or of a match left by a pause.
OverIsThisMatch == act \in {"wait", "held", "done"} => over \in {0, round}

\* _await_fresh_video_after_reconnect: after a reconnect a new picture is waited for,
\* not the one from before. Does not hold: the picture cannot be bound to the new
\* stream.
NoOldPicture == ~dark => film # "old"

\* While a match is played, PLAY carries one session: a scene asked for before the match
\* does not bring back an older one. Does not hold: a late GRAPH answer brings its own.
KeepsItsSession == [][act = "wait" /\ act' = "wait" => token' = token]_playVars

\* release_automation_input: a pause ends the play loop. Does not hold: a match that
\* begins during the pause starts the loop.
PausedDoesNotPlay == halt => ~autoPlay

\* A match that is waited for is played, or has been said to be over. Does not hold: an
\* error of the scene service switches both loops off for good.
WaitedIsPlayed == act = "wait" /\ ~halt => autoPlay \/ over # 0

\* One loop at a time holds the controller's buttons. Does not hold: a late GRAPH answer
\* presses in play mode.
OneHand == \A x, y \in hand : x = y
=============================================================================
