----------------------------- MODULE ManualInput -----------------------------
(***************************************************************************)
(* Who writes to the console's input channel, and what stays pressed on    *)
(* it.  Writers are the automation of Step 4, the access loop, which says  *)
(* "nothing is pressed" thirty times a second, and the input pump, which   *)
(* sends what a human holds while he has taken over with F8 or the task is *)
(* paused.  Loops, pumps and the F8 mark are attributes of a context, and  *)
(* a task has two: Step 3 works on "media", Step 4 and the task's control  *)
(* on "task" (_sync_media_context copies some attributes only).  A pass of *)
(* a loop is one step: with a channel that is ready no write suspends.     *)
(***************************************************************************)
EXTENDS Naturals, FiniteSets

VARIABLES
  mapper,    \* the keyboard mapper is there (see InputInit)
  begun,  \* Step 4 has begun and, with a mapper, taken F8 over
  takeover,  \* takeover[c]: context._manual_takeover
  resting,   \* the task is paused
  gate,      \* the automation of Step 4 may send
  playing,   \* in a match, as is_manual_in_match sees it
  live,      \* the contexts whose xbox_session is the open stream
  access,    \* access[c]: its access loop runs
  pump,      \* pump[c]: its input pump runs
  stalled,   \* no access loop has written for a minute
  finger,    \* the key or stick that the human holds
  pressed,   \* _pressed_keys of the mapper
  taps,      \* keys whose _auto_tap_release sleeps
  mapping,   \* _physical_mapping_enabled
  hold,      \* _manual_face_hold
  polled,    \* _allow_focused_win32_poll
  script,    \* how the press under way, if any, will be let go
  shown      \* what the console has been told last to be pressed

keyVars == <<pressed, taps, mapping, hold, polled>>
ruleVars == <<mapper, begun, takeover, resting, gate, playing>>
linkVars == <<live, access, pump>>
inputVars == <<ruleVars, linkVars, stalled, finger, keyVars, script, shown>>

Side == {"media", "task"}
\* A stick or trigger, a face button; and the stick of a gamepad.
Board == {"stick", "face"}
Key == Board \cup {"pad"}

InputTypeOK ==
  /\ {mapper, begun, resting, gate, playing, stalled, mapping, hold, polled} \subseteq BOOLEAN
  /\ takeover \in [Side -> BOOLEAN] /\ access \in [Side -> BOOLEAN] /\ pump \in [Side -> BOOLEAN]
  /\ live \subseteq Side /\ finger \in Key \cup {"none"}
  /\ pressed \subseteq Board /\ taps \subseteq pressed \cup Board
  /\ script \in {"none", "match", "action", "switcher"}
  /\ shown \subseteq Key \cup {"auto", "guide"}

\* Step 3 is over.  _init_keyboard_mapper imports a package that is not in the repository
\* and gives up: mapper is FALSE in the code as it stands, TRUE as if the import were there.
InputInit ==
  /\ mapper \in BOOLEAN /\ begun = FALSE
  /\ takeover = [c \in Side |-> FALSE] /\ resting = FALSE /\ gate = FALSE /\ playing = FALSE
  /\ live = Side /\ access = [c \in Side |-> c = "media"] /\ pump = [c \in Side |-> c = "media"]
  /\ stalled = FALSE /\ finger = "none" /\ pressed = {} /\ taps = {}
  /\ mapping = FALSE /\ hold = FALSE /\ polled = FALSE
  /\ script = "none" /\ shown = {}

\* The pause event is the task context's own.
Manual(c) == takeover[c] \/ (c = "task" /\ resting)
\* ensure_channel_writable
Writable(c) == c \in live
\* write_controller_final: a write that reaches the console, on the context's session.
Tells(c, what) == Writable(c) /\ shown' = what

-----------------------------------------------------------------------------
(* The keyboard. *)

Active == pressed \cup (IF (hold \/ polled) /\ finger \in Board THEN {finger} ELSE {})
BuildSignal == Active

\* A mutant: the mapping goes off and the keys stay pressed.
MapKeeps(on) == mapping' = on /\ UNCHANGED pressed

\* _clear_binding_pressed_keys when the mapping goes off
Map(on) == mapping' = on /\ pressed' = IF mapping /\ ~on THEN {} ELSE pressed

\* A face button is held down in a match, A before one too; else it is let go in 100 ms.
MayHold(k) == IF k # "face" \/ playing THEN {TRUE} ELSE IF gate THEN BOOLEAN ELSE {FALSE}

\* feed_pygame_event: with the window in front the event is fed, and kept when mapped.
KeyDown(k) ==
  /\ finger = "none" /\ finger' = k /\ (k = "pad" \/ mapper)
  /\ \/ /\ k \in Board /\ mapping /\ pressed' = pressed \cup {k}
        /\ \E whole \in MayHold(k) : taps' = IF k \in pressed \/ whole THEN taps ELSE taps \cup {k}
     \/ UNCHANGED <<pressed, taps>>
  /\ UNCHANGED <<ruleVars, linkVars, stalled, mapping, hold, polled, script, shown>>
KeyUp ==
  /\ finger # "none" /\ finger' = "none"
  /\ pressed' = IF mapping THEN pressed \ {finger} ELSE pressed
  /\ UNCHANGED <<ruleVars, linkVars, stalled, taps, mapping, hold, polled, script, shown>>
\* The release of a tap may find a later press of the key, and ends that.
AutoTapRelease(k) ==
  /\ k \in taps /\ taps' = taps \ {k} /\ pressed' = pressed \ {k}
  /\ UNCHANGED <<ruleVars, linkVars, stalled, finger, mapping, hold, polled, script, shown>>
ApplyBindings ==
  /\ mapper /\ pressed' = {}
  /\ UNCHANGED <<ruleVars, linkVars, stalled, finger, taps, mapping, hold, polled, script, shown>>

-----------------------------------------------------------------------------
(* The input pump. *)

\* _prepare_keyboard_poll: each pump sets the mapper, which both share, for its own context.
PrepareKeyboardPoll(c) ==
  IF ~mapper THEN UNCHANGED keyVars
  ELSE /\ Map(Manual(c)) /\ UNCHANGED <<taps, hold>>
       /\ polled' \in IF ~Manual(c) THEN {FALSE} ELSE IF takeover[c] THEN {TRUE} ELSE BOOLEAN

\* _collect_signal: what the mapper and the gamepad have, once the poll is prepared.
Collected(c) ==
  IF ~Manual(c) THEN {}
  ELSE (IF mapper THEN BuildSignal' ELSE {}) \cup ({finger} \cap {"pad"})
\* _send_manual_sustained_or_idle: nothing is held; the guide button now and then, never
\* while a human plays.
SustainedOrIdle(c) == Tells(c, {}) \/ (~takeover[c] /\ ~playing /\ Tells(c, {"guide"}))

\* _send_void_or_pulse
SendManual(c) ==
  IF Collected(c) = {} THEN SustainedOrIdle(c) ELSE Tells(c, Collected(c))
PumpPass(c) ==
  /\ pump[c] /\ PrepareKeyboardPoll(c)
  /\ UNCHANGED <<ruleVars, linkVars, stalled, finger, script>>
  /\ \/ (c \notin live \/ (~Manual(c) /\ access[c])) /\ UNCHANGED shown
     \/ Manual(c) /\ SendManual(c)
     \/ ~Manual(c) /\ ~access[c] /\ Tells(c, {})

\* The loops ask the runtime's context, which is media's, for F8 and for a pause.
AccessPass(c) ==
  /\ access[c] /\ c \in live /\ ~Manual("media")
  /\ shown' = IF stalled THEN {"guide"} ELSE {}
  /\ stalled' = FALSE
  /\ UNCHANGED <<ruleVars, linkVars, finger, keyVars, script>>
AMinutePasses ==
  /\ \A c \in Side : ~access[c] \/ c \notin live \/ Manual("media")
  /\ stalled' = TRUE
  /\ UNCHANGED <<ruleVars, linkVars, finger, keyVars, script, shown>>

-----------------------------------------------------------------------------
(* F8, which belongs to the context that registered it last. *)

Owner == IF begun THEN "task" ELSE "media"

\* ensure_stream_subsystems_alive
KeepAlive(c) ==
  /\ access' = [access EXCEPT ![c] = @ \/ c \in live]
  /\ pump' = [pump EXCEPT ![c] = @ \/ c \in live]

TakeoverOn(c) ==
  /\ mapper /\ c = Owner /\ ~takeover[c]
  /\ takeover' = [takeover EXCEPT ![c] = TRUE]
  /\ Map(TRUE) /\ hold' = TRUE /\ polled' = TRUE /\ KeepAlive(c)
  /\ UNCHANGED <<mapper, begun, resting, gate, playing, live, stalled, finger, taps, script, shown>>
\* The pressed keys are forgotten; a task sends that nothing is pressed, now or after others.
TakeoverOff(c) ==
  /\ mapper /\ c = Owner /\ takeover[c]
  /\ takeover' = [takeover EXCEPT ![c] = FALSE]
  /\ pressed' = {} /\ mapping' = FALSE /\ hold' = FALSE /\ polled' = FALSE
  /\ shown' \in {shown, IF live = {} THEN shown ELSE {}}
  /\ UNCHANGED <<mapper, begun, resting, gate, playing, linkVars, stalled, finger, taps, script>>

-----------------------------------------------------------------------------
(* Step 4, the task's control, and the stream. *)

\* attach_manual_debug_controls, with the context of Step 4
StartAutomation ==
  /\ ~gate /\ gate' = TRUE /\ begun' = TRUE
  /\ takeover' = IF mapper /\ ~begun THEN [takeover EXCEPT !["task"] = FALSE] ELSE takeover
  /\ UNCHANGED <<mapper, resting, playing, linkVars, stalled, finger, keyVars, script, shown>>
StopAutomation ==
  /\ gate /\ script = "none" /\ gate' = FALSE /\ playing' = FALSE
  /\ UNCHANGED <<mapper, begun, takeover, resting, linkVars, stalled, finger, keyVars, script, shown>>
\* A failure of Step 4 keeps the stream's loops alive, on the task's context.
AutomationFails ==
  /\ gate /\ KeepAlive("task")
  /\ UNCHANGED <<ruleVars, live, stalled, finger, keyVars, script, shown>>
Match ==
  /\ gate /\ playing' = ~playing
  /\ UNCHANGED <<mapper, begun, takeover, resting, gate, linkVars, stalled, finger, keyVars, script, shown>>

\* A press by the match loop's protocol, the action executor or the account switcher.
MaySend(how) == gate /\ ~resting /\ ~takeover[IF how = "match" THEN "media" ELSE "task"]
Press(how) ==
  /\ script = "none" /\ MaySend(how) /\ ~takeover["task"] /\ Tells("task", {"auto"}) /\ script' = how
  /\ UNCHANGED <<ruleVars, linkVars, stalled, finger, keyVars>>
\* It is let go after a while; but for the switcher's, only if it may still send.
LetGo ==
  /\ script # "none" /\ script' = "none"
  /\ shown' = IF "task" \in live /\ (script = "switcher" \/ MaySend(script)) THEN {} ELSE shown
  /\ UNCHANGED <<ruleVars, linkVars, stalled, finger, keyVars>>

\* release_automation_input, past the gate
Pause ==
  /\ gate /\ ~resting /\ resting' = TRUE /\ playing' = FALSE
  /\ shown' = IF live = {} THEN shown ELSE {}
  /\ UNCHANGED <<mapper, begun, takeover, gate, linkVars, stalled, finger, keyVars, script>>
Resume ==
  /\ resting /\ resting' = FALSE
  /\ UNCHANGED <<mapper, begun, takeover, gate, playing, linkVars, stalled, finger, keyVars, script, shown>>

\* step3_close_display of the task's context: media's pump goes on.
CloseDisplay ==
  /\ pump["task"] /\ pump' = [pump EXCEPT !["task"] = FALSE]
  /\ UNCHANGED <<ruleVars, live, access, stalled, finger, keyVars, script, shown>>

\* The stream breaks; the console forgets what was pressed.  The access loops see it and end.
StreamBreaks ==
  /\ live # {} /\ live' = {} /\ access' = [c \in Side |-> FALSE] /\ shown' = {}
  /\ UNCHANGED <<ruleVars, pump, stalled, finger, keyVars, script>>
\* It is opened again by one context, for that context (StreamHealth).
Reconnected(c) ==
  /\ live = {} /\ live' = {c} /\ (c = "task" => begun)
  /\ access' = [access EXCEPT ![c] = TRUE] /\ pump' = [pump EXCEPT ![c] = TRUE]
  /\ UNCHANGED <<ruleVars, stalled, finger, keyVars, script, shown>>

InputNext ==
  \/ \E k \in Key : KeyDown(k)
  \/ \E k \in Board : AutoTapRelease(k)
  \/ KeyUp \/ ApplyBindings \/ AMinutePasses
  \/ \E c \in Side : PumpPass(c) \/ AccessPass(c) \/ TakeoverOn(c) \/ TakeoverOff(c) \/ Reconnected(c)
  \/ StartAutomation \/ StopAutomation \/ AutomationFails \/ Match
  \/ \E how \in {"match", "action", "switcher"} : Press(how)
  \/ LetGo \/ Pause \/ Resume \/ CloseDisplay \/ StreamBreaks

-----------------------------------------------------------------------------
InputSpec == InputInit /\ [][InputNext]_inputVars

\* A loop of the context writes on its next pass, whatever it finds held.
Speaks(c) == (access[c] /\ ~Manual("media")) \/ (pump[c] /\ (Manual(c) \/ ~access[c]))

\* Nothing stays pressed on the console: a script whose release F8 or a pause refused, a pump
\* that was stopped and a stream that was reopened leave a loop that writes again, and that
\* one finds no key that was let go while the mapping was off.  F8 of Step 3 that Step 4
\* inherits is left out: its mark can never be cleared, and silences a stream of the task's.
LetsGo ==
  /\ pressed \subseteq {finger}
  /\ live = {} \/ (begun /\ takeover["media"]) \/ \E c \in live : Speaks(c)

\* Does not hold: the guide button is not pressed in a match (pump_scheduler.py:187).  After
\* a minute of F8 the first packet of the access loop is that button, match or not.
NoGuideInMatch == [][playing /\ "guide" \notin shown => "guide" \notin shown']_inputVars

\* Does not hold: what a human holds under F8 is not cut by "nothing is pressed"
\* (pump_scheduler.py:270).  F8 of Step 4 marks the task's context, and media's access loop
\* goes on.
HoldIsWhole == [][\A c \in Side, k \in {"stick", "pad"} :
  takeover[c] /\ takeover'[c] /\ finger = k /\ finger' = k /\ k \in shown /\ live' = live
    => k \in shown']_inputVars

\* Does not hold: a human may play while the task is paused (pump_scheduler.py:48).  The pump
\* of Step 3 looks at the context that is never paused.
PausedIsManual == (resting /\ finger = "pad") ~> ("pad" \in shown \/ ~resting \/ finger # "pad" \/ live = {})
=============================================================================
