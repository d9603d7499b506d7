---------------------------- MODULE SessionControl ----------------------------
(***************************************************************************)
(* One streaming session on the agent: the coroutine that opens it, waits  *)
(* for an automation to be chosen, runs Step 4 and closes it               *)
(* (StreamingAccountTask, StreamingSession), and the task_control messages *)
(* that change it meanwhile (TaskControlHandler).  Each message has a      *)
(* coroutine of its own, and the phase, the pause event and the start      *)
(* event are set by both sides.  What Step 4 does is in StepFour.          *)
(***************************************************************************)
EXTENDS Integers, FiniteSets, Sequences

CONSTANTS
  Controls,  \* how many messages may be awaiting something at a time
  Type,      \* values of gameActionType
  NoType,    \* none chosen
  Resolutions \* the values of resolved

ASSUME SessionAssumption == NoType \notin Type /\ Controls \in Nat

VARIABLES
  phase,     \* PhaseFSM._phase
  begun,     \* PhaseFSM._automation_started
  before,    \* runtime.phase_before_pause is READY or AUTOMATION_FAILED
  paused,    \* context.pause_event is cleared
  after,     \* runtime.pause_after_match
  chosen,    \* context.game_action_type
  start,     \* automation_start_event is set
  gate,      \* InputGate._automation_active
  reanchor,  \* context._resume_reanchor_home
  cancel,    \* the cancel event is set
  stage,     \* how many phases session.open has reported
  sess,      \* where the session's coroutine is
  pausing,   \* how many pauses are sending the pad's zero
  resuming,  \* how many resumes are looking at the screen
  resolved   \* which of the names that "cleanup", "sqb" and "transfer" stand for are
             \* defined where the code uses them; none is in this commit

sessionVars == <<phase, begun, before, paused, after, chosen, start, gate, reanchor,
                 cancel, stage, sess, pausing, resuming>>

Opening == <<"authenticating", "discovering", "streaming", "initializing_display",
             "initializing_input", "ready">>
Paused  == {"paused_immediate", "paused_after_match"}
Ended   == {"closed", "failed"}
Phase   == {Opening[i] : i \in DOMAIN Opening} \cup Paused \cup Ended
             \cup {"opening", "automating", "automation_failed", "closing"}
SessPC  == {"open", "top", "arm", "wait", "held", "begin", "step4", "closing",
            "cancelled", "over"}

SessionTypeOK ==
  /\ phase \in Phase
  /\ {begun, before, paused, after, start, gate, reanchor, cancel} \subseteq BOOLEAN
  /\ chosen \in Type \cup {NoType}
  /\ stage \in 0..Len(Opening) /\ sess \in SessPC
  /\ pausing \in Nat /\ resuming \in Nat /\ pausing + resuming <= Controls

SessionInit ==
  /\ phase = "opening" /\ before = FALSE /\ chosen = NoType
  /\ begun = FALSE /\ paused = FALSE /\ after = FALSE /\ start = FALSE /\ gate = FALSE
  /\ reanchor = FALSE /\ cancel = FALSE
  /\ stage = 0 /\ sess = "open" /\ pausing = 0 /\ resuming = 0
  /\ resolved \in Resolutions

-----------------------------------------------------------------------------
(* The phase machine. *)

ClosedIsForgotten(p) ==
  CASE p \in {"paused_immediate"}   -> {"automating", "ready", "closing", "failed"}
    [] p \in {"paused_after_match"} -> {"automating", "paused_immediate", "closing", "failed"}
    [] p = "closing" -> {"failed"}
    [] OTHER -> Phase

\* _TRANSITIONS.
AllowedFrom(p) ==
  CASE p = "opening"              -> {"authenticating"} \cup Ended
    [] p = "authenticating"       -> {"discovering"} \cup Ended
    [] p = "discovering"          -> {"streaming"} \cup Ended
    [] p = "streaming"            -> {"initializing_display", "ready"} \cup Ended
    [] p = "initializing_display" -> {"initializing_input", "ready"} \cup Ended
    [] p = "initializing_input"   -> {"ready"} \cup Ended
    [] p = "ready"                -> {"automating", "paused_immediate", "closing"} \cup Ended
    [] p = "automation_failed"    -> {"automating", "ready", "closing"} \cup Ended
    [] p = "automating"           -> Paused \cup {"closing", "ready", "automation_failed"} \cup Ended
    [] p = "paused_immediate"     -> {"automating", "ready", "closing"} \cup Ended
    [] p = "paused_after_match"   -> {"automating", "paused_immediate", "closing"} \cup Ended
    [] p = "closing"              -> Ended
    [] p = "closed"               -> {}
    [] p = "failed"               -> {"closed"}

\* runtime.set_phase: an illegal transition is logged and ignored.
Moved(p, q) == IF q \in AllowedFrom(p) THEN q ELSE p
SetPhase(q) == /\ phase' = Moved(phase, q)
               /\ begun' = (begun \/ phase' = "automating")

-----------------------------------------------------------------------------
(* The coroutine of the session. *)

\* session.open reports one phase after the other.
OpenStep ==
  /\ sess = "open" /\ stage < Len(Opening)
  /\ stage' = stage + 1
  /\ SetPhase(Opening[stage + 1])
  /\ sess' = IF stage' = Len(Opening) THEN "top" ELSE "open"
  /\ UNCHANGED <<before, paused, after, chosen, start, gate, reanchor, cancel, pausing, resuming>>

\* Login, discovery or the stream fails: what there is is closed.
OpenFails ==
  /\ sess = "open" /\ stage \in 1..(Len(Opening) - 1)
  /\ SetPhase("failed")
  /\ sess' = "closing"
  /\ UNCHANGED <<before, paused, after, chosen, start, gate, reanchor, cancel, stage, pausing, resuming>>

\* The loop's top: nothing is chosen, so READY, or still AUTOMATION_FAILED, is
\* reported to the platform.
Top ==
  /\ sess = "top"
  /\ IF chosen = NoType
     THEN /\ sess' = "arm"
          /\ IF phase = "automation_failed" THEN UNCHANGED <<phase, begun>> ELSE SetPhase("ready")
     ELSE sess' = "begin" /\ SetPhase("automating")
  /\ UNCHANGED <<before, paused, after, chosen, start, gate, reanchor, cancel, stage, pausing, resuming>>

\* The report is answered; only now is the start event cleared.
Arm ==
  /\ sess = "arm" /\ sess' = "wait"
  /\ start' = FALSE
  /\ UNCHANGED <<phase, begun, before, paused, after, chosen, gate, reanchor, cancel, stage, pausing, resuming>>

\* The wait polls the start event and is held by a pause.
Hold ==
  /\ \/ sess = "wait" /\ ~start /\ paused /\ sess' = "held"
     \/ sess = "held" /\ ~paused /\ sess' = "wait"
  /\ UNCHANGED <<phase, begun, before, paused, after, chosen, start, gate, reanchor, cancel,
                 stage, pausing, resuming>>

Wake ==
  /\ sess = "wait" /\ start
  /\ sess' = "begin" /\ SetPhase("automating")
  /\ UNCHANGED <<before, paused, after, chosen, start, gate, reanchor, cancel, stage, pausing, resuming>>

\* Step 4 has the virtual pad from here on.
Begin ==
  /\ sess = "begin" /\ sess' = "step4"
  /\ gate' = TRUE
  /\ UNCHANGED <<phase, begun, before, paused, after, chosen, start, reanchor, cancel, stage, pausing, resuming>>

\* Step 4 is through with all accounts.
Succeeded ==
  /\ gate' = FALSE /\ sess' = "closing" /\ SetPhase("closing")
  /\ UNCHANGED <<before, paused, after, chosen, start, reanchor, cancel, stage, pausing, resuming>>

\* Step 4 fails: the stream is kept and another start awaited, unless the task is
\* cancelled.
Failed ==
  /\ gate' = FALSE
  /\ IF cancel THEN sess' = "closing" /\ UNCHANGED <<phase, begun, chosen, start>>
     ELSE /\ sess' = "top" /\ SetPhase("automation_failed")
          /\ chosen' = NoType /\ start' = FALSE
  /\ UNCHANGED <<before, paused, after, reanchor, cancel, stage, pausing, resuming>>

\* _cleanup_session and the finally.  close_context imports its module from a
\* path that does not exist: with a stream there, the close throws, and an
\* exception of the cancelled branch is caught by no other one.
Close ==
  /\ sess \in {"closing", "cancelled"} /\ sess' = "over"
  /\ gate' = FALSE
  /\ IF "cleanup" \in resolved \/ stage < 3 THEN SetPhase("closed")
     ELSE SetPhase(IF sess = "closing" THEN "failed" ELSE "closing")
  /\ UNCHANGED <<before, paused, after, chosen, start, reanchor, cancel, stage, pausing, resuming>>

-----------------------------------------------------------------------------
(* task_control messages, while the runtime is registered. *)

Startable == phase \in {"ready", "automation_failed"}
Receives  == sess # "over" /\ pausing + resuming < Controls

\* context.pause() and what the pause phases go with, for both modes.
Stops(mode) ==
  /\ paused' = TRUE
  /\ SetPhase(IF mode = "after_match" THEN "paused_after_match" ELSE "paused_immediate")
  /\ after' = (mode = "after_match")

\* after_match awaits nothing on the way.
PauseAfterMatch ==
  /\ sess # "over"
  /\ before' = Startable
  /\ Stops("after_match")
  /\ UNCHANGED <<chosen, start, gate, reanchor, cancel, stage, sess, pausing, resuming>>

\* immediate sends the pad's zero first.
PauseBegin ==
  /\ Receives /\ pausing' = pausing + 1
  /\ after' = FALSE /\ before' = Startable
  /\ UNCHANGED <<phase, begun, paused, chosen, start, gate, reanchor, cancel, stage, sess, resuming>>
PauseEnd ==
  /\ pausing > 0 /\ pausing' = pausing - 1
  /\ Stops("immediate")
  /\ UNCHANGED <<before, chosen, start, gate, reanchor, cancel, stage, sess, resuming>>

\* A resume looks at the screen before it lets the pause go.
ResumeBegin ==
  /\ Receives /\ resuming' = resuming + 1
  /\ phase \in Paused
  /\ after' = FALSE /\ reanchor' = TRUE
  /\ UNCHANGED <<phase, begun, before, paused, chosen, start, gate, cancel, stage, sess, pausing>>

ResumeEnd ==
  /\ resuming > 0 /\ resuming' = resuming - 1
  /\ paused' = FALSE /\ after' = FALSE
  /\ before' = FALSE
  /\ SetPhase(IF before \/ ~begun THEN "ready" ELSE "automating")
  /\ UNCHANGED <<chosen, start, gate, reanchor, cancel, stage, sess, pausing>>

\* The detector throws: the message fails half way.
ResumeFails ==
  /\ resuming > 0 /\ resuming' = resuming - 1
  /\ UNCHANGED <<phase, begun, before, paused, after, chosen, start, gate, reanchor, cancel,
                 stage, sess, pausing>>

StartAutomation(t) ==
  /\ sess # "over" /\ Startable
  /\ chosen' = IF t = NoType THEN chosen ELSE t
  /\ start' = TRUE
  /\ SetPhase("automating")
  /\ UNCHANGED <<before, paused, after, gate, reanchor, cancel, stage, sess, pausing, resuming>>

FlagOnly ==
  /\ sess # "over" /\ ~cancel
  /\ cancel' = TRUE
  /\ SetPhase("closing")
  /\ UNCHANGED <<before, paused, after, chosen, start, gate, reanchor, stage, sess, pausing, resuming>>

\* The cancellation reaches the coroutine where it waits.  Step 4 returns a
\* result for it, and so may Step 2; a match takes it for a failure of its own.
TerminateSession ==
  /\ sess # "over" /\ ~cancel
  /\ cancel' = TRUE
  /\ SetPhase("closing")
  /\ \/ sess \in {"open", "step4"} /\ sess' = "closing"
     \/ sess # "step4" /\ sess' = "cancelled"
     \/ sess = "step4" /\ UNCHANGED sess
  /\ UNCHANGED <<before, paused, after, chosen, start, gate, reanchor, stage, pausing, resuming>>

-----------------------------------------------------------------------------
(* Everything but Step 4. *)

Lives == OpenStep \/ Top \/ Arm \/ Hold \/ Wake \/ Begin \/ Close
Controlled ==
  \/ PauseAfterMatch \/ TerminateSession
  \/ \E t \in Type \cup {NoType} : StartAutomation(t)
  \/ PauseBegin \/ PauseEnd \/ ResumeBegin \/ ResumeEnd \/ ResumeFails
=============================================================================
