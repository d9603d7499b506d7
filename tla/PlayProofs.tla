------------------------------ MODULE PlayProofs ------------------------------
(***************************************************************************)
(* What holds of the matches of one task, of a human's keys, of the switch *)
(* of accounts and of the way through the menus, for every number of       *)
(* profiles, matches and presses: a match is over by its own answer,       *)
(* nothing stays pressed, a game is started under the account it is        *)
(* counted for unless the switcher has been misled, and the chains of      *)
(* transitions lead where they are to lead.                                *)
(***************************************************************************)
EXTENDS ProfileSwitch, ManualInput, RemotePlay, Navigation, SequenceTheorems, TLAPS

-----------------------------------------------------------------------------
(* RemotePlay *)

\* A task of the play loop exists while a match is waited for, and what it has asked about
\* is that match; what it has been told is about that match too.
AskedOfThis ==
  /\ act \in {"off", "menu", "ready", "closed"} => player = None
  /\ act \in {"wait", "held", "done"} => player \in {None, Idle, round} /\ over \in {0, round}

\* The word a match is taken to be over by is its own.
AskedInv == PlayTypeOK /\ AskedOfThis

LEMMA AskedInit == PlayInit => AskedInv
<1> SUFFICES ASSUME PlayInit PROVE AskedInv
  OBVIOUS
<1> USE MatchAssumption DEF PlayInit, Game
<1>1. {dark, rolling, shows, autoGraph, autoPlay, remote, halt, anchor} \subseteq BOOLEAN
  OBVIOUS
<1>2. {token, over, round} \subseteq Game /\ {seer, player} \subseteq Game \cup {None, Idle}
  OBVIOUS
<1>3. film \in {"none", "new", "old"} /\ net \in {"up", "lost", "check", "again"}
      /\ win \in {"none", "shown", "hidden", "closing", "dead"} /\ hand \subseteq {"graph", "play", "match"}
      /\ act \in {"off", "menu", "ready", "wait", "held", "done", "closed"}
  OBVIOUS
<1>4. AskedOfThis
  BY DEF AskedOfThis
<1> QED BY ONLY <1>1, <1>2, <1>3, <1>4 DEF AskedInv, PlayTypeOK

LEMMA PlayTypeStep ==
  ASSUME AskedInv, PlayNext
  PROVE  PlayTypeOK'
<1> USE MatchAssumption DEF Game, None, Idle
<1>c. PlayTypeOK /\ AskedOfThis
  BY DEF AskedInv
<1>1. ASSUME Capture PROVE PlayTypeOK'
  BY <1>1, <1>c DEF Capture, Source, PlayTypeOK, pictureVars, windowVars, loopVars, matchVars
<1>2. ASSUME Lost PROVE PlayTypeOK'
  BY <1>2, <1>c DEF Lost, PlayTypeOK, pictureVars, windowVars, loopVars, matchVars
<1>3. ASSUME Rebound PROVE PlayTypeOK'
  BY <1>3, <1>c DEF Rebound, PlayTypeOK, pictureVars, windowVars, loopVars, matchVars
<1>4. ASSUME SeedLatest PROVE PlayTypeOK'
  BY <1>4, <1>c DEF SeedLatest, PlayTypeOK, pictureVars, windowVars, loopVars, matchVars
<1>5. ASSUME NoFreshVideo PROVE PlayTypeOK'
  BY <1>5, <1>c DEF NoFreshVideo, PlayTypeOK, pictureVars, windowVars, loopVars, matchVars
<1>6. ASSUME EnsureDisplay PROVE PlayTypeOK'
  BY <1>6, <1>c DEF EnsureDisplay, WindowActive, PlayTypeOK, pictureVars, windowVars, loopVars, matchVars
<1>7. ASSUME UserQuits PROVE PlayTypeOK'
  BY <1>7, <1>c DEF UserQuits, PlayTypeOK, pictureVars, windowVars, loopVars, matchVars
<1>8. ASSUME CloseWindow PROVE PlayTypeOK'
  BY <1>8, <1>c DEF CloseWindow, PlayTypeOK, pictureVars, windowVars, loopVars, matchVars
<1>9. ASSUME Destroyed PROVE PlayTypeOK'
  BY <1>9, <1>c DEF Destroyed, PlayTypeOK, pictureVars, windowVars, loopVars, matchVars
<1>10. ASSUME DisplayEnds PROVE PlayTypeOK'
  BY <1>10, <1>c DEF DisplayEnds, WindowActive, PlayTypeOK, pictureVars, windowVars, loopVars, matchVars
<1>11. ASSUME AskScene PROVE PlayTypeOK'
  BY <1>11, <1>c DEF AskScene, PlayTypeOK, pictureVars, windowVars, loopVars, matchVars
<1>12. ASSUME Scene PROVE PlayTypeOK'
  BY <1>12, <1>c DEF Scene, Session, PlayTypeOK, pictureVars, windowVars, loopVars, matchVars
<1>13. ASSUME SceneActed PROVE PlayTypeOK'
  BY <1>13, <1>c DEF SceneActed, PlayTypeOK, pictureVars, windowVars, loopVars, matchVars
<1>14. ASSUME AskPlay PROVE PlayTypeOK'
  BY <1>14, <1>c DEF AskPlay, PlayTypeOK, pictureVars, windowVars, loopVars, matchVars
<1>15. ASSUME PlayActs PROVE PlayTypeOK'
  BY <1>15, <1>c DEF PlayActs, PlayTypeOK, pictureVars, windowVars, loopVars, matchVars
<1>16. ASSUME StartLoops PROVE PlayTypeOK'
  BY <1>16, <1>c DEF StartLoops, PlayTypeOK, pictureVars, windowVars, loopVars, matchVars
<1>17. ASSUME StopLoops PROVE PlayTypeOK'
  BY <1>17, <1>c DEF StopLoops, LoopsStop, PlayTypeOK, pictureVars, windowVars, loopVars, matchVars
<1>18. ASSUME StopLongLived PROVE PlayTypeOK'
  BY <1>18, <1>c DEF StopLongLived, LoopsStop, PlayTypeOK, pictureVars, windowVars, loopVars, matchVars
<1>19. ASSUME EnterMatch PROVE PlayTypeOK'
  BY <1>19, <1>c DEF EnterMatch, PlayTypeOK, pictureVars, windowVars, loopVars, matchVars
<1>20. ASSUME MatchStarts PROVE PlayTypeOK'
  <2>1. token' \in Game
    BY <1>20, <1>c DEF MatchStarts, Session, PlayTypeOK
  <2>2. {autoGraph', autoPlay'} \subseteq BOOLEAN
    BY <1>20 DEF MatchStarts, enter_play_mode
  <2>3. /\ player' \in {player, Idle} /\ over' = 0 /\ act' = "wait"
        /\ UNCHANGED <<seer, hand, round, remote, halt, anchor, pictureVars, windowVars>>
    BY <1>20 DEF MatchStarts, enter_play_mode, At
  <2> QED BY <1>c, <2>1, <2>2, <2>3 DEF PlayTypeOK, pictureVars, windowVars
<1>21. ASSUME NoticesPause PROVE PlayTypeOK'
  BY <1>21, <1>c DEF NoticesPause, At, PlayTypeOK, pictureVars, windowVars, loopVars, matchVars
<1>22. ASSUME SeesOver PROVE PlayTypeOK'
  BY <1>22, <1>c DEF SeesOver, At, PlayTypeOK, pictureVars, windowVars, loopVars, matchVars
<1>23. ASSUME Ticks PROVE PlayTypeOK'
  BY <1>23, <1>c DEF Ticks, PlayTypeOK, pictureVars, windowVars, loopVars, matchVars
<1>24. ASSUME EndSeen PROVE PlayTypeOK'
  BY <1>24, <1>c DEF EndSeen, At, PlayTypeOK, pictureVars, windowVars, loopVars, matchVars
<1>25. ASSUME TimesOut PROVE PlayTypeOK'
  BY <1>25, <1>c DEF TimesOut, At, PlayTypeOK, pictureVars, windowVars, loopVars, matchVars
<1>26. ASSUME FinishMatch PROVE PlayTypeOK'
  BY <1>26, <1>c DEF FinishMatch, exit_play_mode, At, PlayTypeOK, pictureVars, windowVars, loopVars,
     matchVars
<1>27. ASSUME Reanchored PROVE PlayTypeOK'
  BY <1>27, <1>c DEF Reanchored, exit_play_mode, PlayTypeOK, pictureVars, windowVars, loopVars, matchVars
<1>28. ASSUME PausePlay PROVE PlayTypeOK'
  BY <1>28, <1>c DEF PausePlay, exit_play_mode, PlayTypeOK, pictureVars, windowVars, loopVars, matchVars
<1>29. ASSUME ResumePlay PROVE PlayTypeOK'
  BY <1>29, <1>c DEF ResumePlay, PlayTypeOK, pictureVars, windowVars, loopVars, matchVars
<1>30. ASSUME NEW errno \in Errno, Played(errno) PROVE PlayTypeOK'
  BY <1>30, <1>c DEF Played, exit_play_mode, PlayTypeOK, pictureVars, windowVars, matchVars
<1> QED BY <1>1, <1>2, <1>3, <1>4, <1>5, <1>6, <1>7, <1>8, <1>9, <1>10, <1>11, <1>12, <1>13, <1>14,
        <1>15, <1>16, <1>17, <1>18, <1>19, <1>20, <1>21, <1>22, <1>23, <1>24, <1>25, <1>26, <1>27, <1>28, <1>29, <1>30 DEF PlayNext

LEMMA AskedStep ==
  ASSUME AskedInv, PlayNext
  PROVE  AskedOfThis'
<1> USE MatchAssumption DEF Game, None, Idle
<1>c. PlayTypeOK /\ AskedOfThis
  BY DEF AskedInv
<1>1. ASSUME UNCHANGED <<act, player, over, round>> PROVE AskedOfThis'
  BY <1>1, <1>c DEF AskedOfThis
<1>2. ASSUME \/ Capture \/ Lost \/ Rebound \/ SeedLatest \/ NoFreshVideo \/ EnsureDisplay \/ UserQuits
             \/ CloseWindow \/ Destroyed \/ DisplayEnds \/ AskScene \/ Scene \/ SceneActed \/ PlayActs
             \/ Ticks \/ ResumePlay
      PROVE  AskedOfThis'
  BY <1>1, <1>2 DEF Capture, Lost, Rebound, SeedLatest, NoFreshVideo, EnsureDisplay, UserQuits,
     CloseWindow, Destroyed, DisplayEnds, AskScene, Scene, SceneActed, PlayActs, Ticks, ResumePlay,
     loopVars, matchVars
<1>3. ASSUME AskPlay PROVE AskedOfThis'
  BY <1>3, <1>c DEF AskPlay, AskedOfThis, PlayTypeOK, matchVars
\* What a task has been told is about what it asked about.
<1>4. ASSUME NEW errno \in Errno, Played(errno) PROVE AskedOfThis'
  <2>1. player \in Game /\ UNCHANGED <<act, round>> /\ player' \in {None, Idle} /\ over' \in {over, player}
    BY <1>4 DEF Played, exit_play_mode, matchVars
  <2>2. act \in {"wait", "held", "done"} /\ player = round
    BY <2>1, <1>c DEF AskedOfThis, PlayTypeOK
  <2> QED BY <1>c, <2>1, <2>2 DEF AskedOfThis
\* Step 4 is where no task of the play loop is, before and after.
<1>5. ASSUME StartLoops \/ StopLoops \/ StopLongLived \/ EnterMatch PROVE AskedOfThis'
  BY <1>5, <1>c DEF StartLoops, StopLoops, StopLongLived, EnterMatch, LoopsStop, AskedOfThis, loopVars
<1>6. ASSUME MatchStarts PROVE AskedOfThis'
  <2>1. At("ready", "wait") /\ over' = 0 /\ round' = round /\ player' = IF player = None THEN Idle ELSE player
    BY <1>6 DEF MatchStarts, enter_play_mode
  <2> QED BY <1>c, <2>1 DEF AskedOfThis, At
<1>7. ASSUME NoticesPause \/ SeesOver \/ EndSeen \/ TimesOut PROVE AskedOfThis'
  BY <1>7, <1>c DEF NoticesPause, SeesOver, EndSeen, TimesOut, At, AskedOfThis, loopVars
<1>8. ASSUME FinishMatch \/ Reanchored \/ PausePlay PROVE AskedOfThis'
  BY <1>8, <1>c DEF FinishMatch, Reanchored, PausePlay, exit_play_mode, At, AskedOfThis
<1> QED BY <1>2, <1>3, <1>4, <1>5, <1>6, <1>7, <1>8 DEF PlayNext

LEMMA AskedInvStep == AskedInv /\ [PlayNext]_playVars => AskedInv'
<1>1. AskedInv /\ PlayNext => AskedInv'
  BY PlayTypeStep, AskedStep DEF AskedInv
<1>2. AskedInv /\ UNCHANGED playVars => AskedInv'
  BY DEF AskedInv, PlayTypeOK, AskedOfThis, playVars, pictureVars, windowVars, loopVars, matchVars
<1> QED BY <1>1, <1>2

\* The answer a match is taken to be over by is one to a picture of that match, whatever was
\* on its way when an earlier one ended by time, by a pause or by its own answer.
THEOREM OverIsOfItsMatch == PlaySpec => [](PlayTypeOK /\ OverIsThisMatch)
<1>1. AskedInv /\ [PlayNext]_playVars => AskedInv'
  BY AskedInvStep
<1>2. AskedInv => PlayTypeOK /\ OverIsThisMatch
  BY DEF AskedInv, AskedOfThis, OverIsThisMatch
<1> QED BY <1>1, <1>2, AskedInit, PTL DEF PlaySpec

-----------------------------------------------------------------------------
(* ManualInput *)

\* A key stays pressed only while it is held, and none while the keys are not mapped.
KeysHeld == pressed \subseteq {finger} /\ (~mapping => pressed = {})

\* A context that has the open stream has the loop that writes to it.
LoopsSpeak ==
  /\ "media" \in live => access["media"] /\ pump["media"]
  /\ live = {"task"} => begun /\ access["task"]

HeldInv == InputTypeOK /\ KeysHeld /\ LoopsSpeak

LEMMA HeldInit == InputInit => HeldInv
<1> SUFFICES ASSUME InputInit PROVE HeldInv
  OBVIOUS
<1> USE DEF InputInit
<1>1. {mapper, begun, resting, gate, playing, stalled, mapping, hold, polled} \subseteq BOOLEAN
  OBVIOUS
<1>2. takeover \in [Side -> BOOLEAN] /\ access \in [Side -> BOOLEAN] /\ pump \in [Side -> BOOLEAN]
  OBVIOUS
<1>3. live \subseteq Side /\ finger = "none" /\ pressed = {} /\ taps = {} /\ script = "none" /\ shown = {}
  OBVIOUS
<1>4. live # {"task"}
  BY DEF Side
<1>5. access["media"] /\ pump["media"]
  BY DEF Side
<1> QED BY ONLY <1>1, <1>2, <1>3, <1>4, <1>5 DEF HeldInv, InputTypeOK, KeysHeld, LoopsSpeak

LEMMA InputTypeStep ==
  ASSUME HeldInv, InputNext
  PROVE  InputTypeOK'
<1> USE DEF Side, Board, Key
<1>c. InputTypeOK /\ KeysHeld
  BY DEF HeldInv
<1>1. ASSUME NEW k \in Key, KeyDown(k) PROVE InputTypeOK'
  BY <1>1, <1>c DEF KeyDown, MayHold, InputTypeOK, ruleVars, linkVars, keyVars
<1>2. ASSUME NEW k \in Board, AutoTapRelease(k) PROVE InputTypeOK'
  BY <1>2, <1>c DEF AutoTapRelease, InputTypeOK, ruleVars, linkVars, keyVars
<1>3. ASSUME KeyUp PROVE InputTypeOK'
  BY <1>3, <1>c DEF KeyUp, InputTypeOK, ruleVars, linkVars, keyVars
<1>4. ASSUME ApplyBindings PROVE InputTypeOK'
  BY <1>4, <1>c DEF ApplyBindings, InputTypeOK, ruleVars, linkVars, keyVars
<1>5. ASSUME AMinutePasses PROVE InputTypeOK'
  BY <1>5, <1>c DEF AMinutePasses, InputTypeOK, ruleVars, linkVars, keyVars
<1>6. ASSUME NEW c \in Side, PumpPass(c) PROVE InputTypeOK'
  BY <1>6, <1>c DEF PumpPass, PrepareKeyboardPoll, Map, SendManual, SustainedOrIdle, Tells, Collected,
     BuildSignal, Active, Manual, InputTypeOK, ruleVars, linkVars, keyVars
<1>7. ASSUME NEW c \in Side, AccessPass(c) PROVE InputTypeOK'
  BY <1>7, <1>c DEF AccessPass, InputTypeOK, ruleVars, linkVars, keyVars
<1>8. ASSUME NEW c \in Side, TakeoverOn(c) PROVE InputTypeOK'
  BY <1>8, <1>c DEF TakeoverOn, Map, KeepAlive, InputTypeOK, ruleVars, linkVars, keyVars
<1>9. ASSUME NEW c \in Side, TakeoverOff(c) PROVE InputTypeOK'
  BY <1>9, <1>c DEF TakeoverOff, InputTypeOK, ruleVars, linkVars, keyVars
<1>10. ASSUME NEW c \in Side, Reconnected(c) PROVE InputTypeOK'
  BY <1>10, <1>c DEF Reconnected, InputTypeOK, ruleVars, linkVars, keyVars
<1>11. ASSUME StartAutomation PROVE InputTypeOK'
  BY <1>11, <1>c DEF StartAutomation, InputTypeOK, ruleVars, linkVars, keyVars
<1>12. ASSUME StopAutomation PROVE InputTypeOK'
  BY <1>12, <1>c DEF StopAutomation, InputTypeOK, ruleVars, linkVars, keyVars
<1>13. ASSUME AutomationFails PROVE InputTypeOK'
  BY <1>13, <1>c DEF AutomationFails, KeepAlive, InputTypeOK, ruleVars, linkVars, keyVars
<1>14. ASSUME Match PROVE InputTypeOK'
  BY <1>14, <1>c DEF Match, InputTypeOK, ruleVars, linkVars, keyVars
<1>15. ASSUME NEW how \in {"match", "action", "switcher"}, Press(how) PROVE InputTypeOK'
  BY <1>15, <1>c DEF Press, Tells, InputTypeOK, ruleVars, linkVars, keyVars
<1>16. ASSUME LetGo PROVE InputTypeOK'
  BY <1>16, <1>c DEF LetGo, InputTypeOK, ruleVars, linkVars, keyVars
<1>17. ASSUME Pause PROVE InputTypeOK'
  BY <1>17, <1>c DEF Pause, InputTypeOK, ruleVars, linkVars, keyVars
<1>18. ASSUME Resume PROVE InputTypeOK'
  BY <1>18, <1>c DEF Resume, InputTypeOK, ruleVars, linkVars, keyVars
<1>19. ASSUME CloseDisplay PROVE InputTypeOK'
  BY <1>19, <1>c DEF CloseDisplay, InputTypeOK, ruleVars, linkVars, keyVars
<1>20. ASSUME StreamBreaks PROVE InputTypeOK'
  BY <1>20, <1>c DEF StreamBreaks, InputTypeOK, ruleVars, linkVars, keyVars
<1> QED BY <1>1, <1>2, <1>3, <1>4, <1>5, <1>6, <1>7, <1>8, <1>9, <1>10, <1>11, <1>12, <1>13, <1>14,
        <1>15, <1>16, <1>17, <1>18, <1>19, <1>20 DEF InputNext

LEMMA KeysStep ==
  ASSUME HeldInv, InputNext
  PROVE  KeysHeld'
<1> USE DEF Side, Board, Key
<1>c. InputTypeOK /\ KeysHeld
  BY DEF HeldInv
<1>1. ASSUME UNCHANGED <<finger, pressed, mapping>> PROVE KeysHeld'
  BY <1>1, <1>c DEF KeysHeld
<1>2. ASSUME NEW k \in Key, KeyDown(k) PROVE KeysHeld'
  <2>1. finger = "none" /\ finger' = k /\ pressed' \in {pressed, pressed \cup {k}} /\ mapping' = mapping
    BY <1>2 DEF KeyDown
  <2>2. pressed = {}
    BY <1>c, <2>1 DEF KeysHeld, InputTypeOK
  <2>3. mapping \/ pressed' = pressed
    BY <1>2 DEF KeyDown
  <2> QED BY <2>1, <2>2, <2>3 DEF KeysHeld
\* A key that is let go while the mapping is off was not among the pressed ones.
<1>3. ASSUME KeyUp PROVE KeysHeld'
  BY <1>3, <1>c DEF KeyUp, KeysHeld
<1>4. ASSUME NEW k \in Board, AutoTapRelease(k) \/ ApplyBindings PROVE KeysHeld'
  BY <1>4, <1>c DEF AutoTapRelease, ApplyBindings, KeysHeld
<1>5. ASSUME NEW on \in BOOLEAN, Map(on), finger' = finger PROVE KeysHeld'
  BY <1>5, <1>c DEF Map, KeysHeld, InputTypeOK
<1>6. ASSUME NEW c \in Side, PumpPass(c) PROVE KeysHeld'
  <2>1. Manual(c) \in BOOLEAN
    BY <1>c DEF Manual, InputTypeOK
  <2>2. CASE ~mapper
    BY <1>1, <1>6, <2>2 DEF PumpPass, PrepareKeyboardPoll, keyVars
  <2>3. CASE mapper
    <3>1. Map(Manual(c)) /\ finger' = finger
      BY <1>6, <2>3 DEF PumpPass, PrepareKeyboardPoll
    <3> QED BY <1>5, <2>1, <3>1
  <2> QED BY <2>2, <2>3
<1>7. ASSUME NEW c \in Side, TakeoverOn(c) PROVE KeysHeld'
  BY <1>5, <1>7 DEF TakeoverOn
<1>8. ASSUME NEW c \in Side, TakeoverOff(c) PROVE KeysHeld'
  BY <1>8 DEF TakeoverOff, KeysHeld
<1>9. ASSUME NEW c \in Side, NEW how,
             \/ AMinutePasses \/ AccessPass(c) \/ Reconnected(c) \/ StartAutomation \/ StopAutomation
             \/ AutomationFails \/ Match \/ Press(how) \/ LetGo \/ Pause \/ Resume \/ CloseDisplay \/ StreamBreaks
      PROVE  KeysHeld'
  BY <1>1, <1>9 DEF AMinutePasses, AccessPass, Reconnected, StartAutomation, StopAutomation,
     AutomationFails, Match, Press, LetGo, Pause, Resume, CloseDisplay, StreamBreaks, keyVars
<1> QED BY <1>2, <1>3, <1>4, <1>6, <1>7, <1>8, <1>9 DEF InputNext

LEMMA LoopsStep ==
  ASSUME HeldInv, InputNext
  PROVE  LoopsSpeak'
<1> USE DEF Side
<1>c. InputTypeOK /\ LoopsSpeak
  BY DEF HeldInv
<1>1. ASSUME UNCHANGED <<live, access, pump>>, begun => begun' PROVE LoopsSpeak'
  BY <1>1, <1>c DEF LoopsSpeak
<1>2. ASSUME NEW c \in Side, KeepAlive(c), UNCHANGED <<live, begun>> PROVE LoopsSpeak'
  <2>1. \A d \in Side : (access[d] => access'[d]) /\ (pump[d] => pump'[d])
    BY <1>2, <1>c DEF KeepAlive, InputTypeOK
  <2> QED BY <1>2, <1>c, <2>1 DEF LoopsSpeak
<1>3. ASSUME NEW c \in Side, TakeoverOn(c) PROVE LoopsSpeak'
  BY <1>2, <1>3 DEF TakeoverOn
<1>4. ASSUME AutomationFails PROVE LoopsSpeak'
  BY <1>2, <1>4 DEF AutomationFails, ruleVars
<1>5. ASSUME CloseDisplay PROVE LoopsSpeak'
  <2>1. pump'["media"] = pump["media"] /\ UNCHANGED <<live, access, begun>>
    BY <1>5, <1>c DEF CloseDisplay, ruleVars, InputTypeOK
  <2> QED BY <1>c, <2>1 DEF LoopsSpeak
<1>6. ASSUME StreamBreaks PROVE LoopsSpeak'
  BY <1>6 DEF StreamBreaks, LoopsSpeak
<1>7. ASSUME NEW c \in Side, Reconnected(c) PROVE LoopsSpeak'
  <2>1. live' = {c} /\ begun' = begun /\ (c = "task" => begun)
    BY <1>7 DEF Reconnected, ruleVars
  <2>2. access'[c] /\ pump'[c]
    BY <1>7, <1>c DEF Reconnected, InputTypeOK
  <2> QED BY <2>1, <2>2 DEF LoopsSpeak
<1>8. ASSUME NEW c \in Side, NEW k, NEW how,
             \/ KeyDown(k) \/ AutoTapRelease(k) \/ KeyUp \/ ApplyBindings \/ AMinutePasses
             \/ PumpPass(c) \/ AccessPass(c) \/ TakeoverOff(c) \/ StopAutomation \/ Match
             \/ Press(how) \/ LetGo \/ Pause \/ Resume
      PROVE  LoopsSpeak'
  <2>1. UNCHANGED <<live, access, pump, begun>>
    BY <1>8 DEF KeyDown, AutoTapRelease, KeyUp, ApplyBindings, AMinutePasses, PumpPass, AccessPass,
       TakeoverOff, StopAutomation, Match, Press, LetGo, Pause, Resume, ruleVars, linkVars
  <2> QED BY <1>1, <2>1
<1>9. ASSUME StartAutomation PROVE LoopsSpeak'
  BY <1>1, <1>9 DEF StartAutomation, linkVars
<1> QED BY <1>3, <1>4, <1>5, <1>6, <1>7, <1>8, <1>9 DEF InputNext

LEMMA HeldInvStep == HeldInv /\ [InputNext]_inputVars => HeldInv'
<1>1. HeldInv /\ InputNext => HeldInv'
  BY InputTypeStep, KeysStep, LoopsStep DEF HeldInv
<1>2. ASSUME HeldInv, UNCHANGED inputVars PROVE HeldInv'
  <2>1. InputTypeOK'
    BY <1>2 DEF HeldInv, InputTypeOK, inputVars, ruleVars, linkVars, keyVars
  <2>2. KeysHeld' /\ LoopsSpeak'
    BY <1>2 DEF HeldInv, KeysHeld, LoopsSpeak, inputVars, ruleVars, linkVars, keyVars
  <2> QED BY <2>1, <2>2 DEF HeldInv
<1> QED BY <1>1, <1>2

\* Whatever the human, the pumps, F8, a pause and the stream do: the keys that are counted as
\* pressed are held, and while a stream is open one of its loops writes again, but for an F8 of
\* Step 3 that Step 4 inherits.
THEOREM NothingStaysPressed == InputSpec => [](InputTypeOK /\ LetsGo)
<1>1. HeldInv /\ [InputNext]_inputVars => HeldInv'
  BY HeldInvStep
<1>2. ASSUME HeldInv PROVE InputTypeOK /\ LetsGo
  <2>1. CASE "media" \in live
    <3>1. Speaks("media")
      BY <1>2, <2>1 DEF HeldInv, LoopsSpeak, Speaks, Manual
    <3> QED BY <1>2, <2>1, <3>1 DEF HeldInv, KeysHeld, LetsGo
  <2>2. CASE "media" \notin live /\ live # {}
    <3>1. live = {"task"} /\ begun /\ access["task"]
      BY <1>2, <2>2 DEF HeldInv, InputTypeOK, LoopsSpeak, Side
    <3>2. takeover["media"] \/ Speaks("task")
      BY <3>1 DEF Speaks, Manual
    <3> QED BY <1>2, <3>1, <3>2 DEF HeldInv, KeysHeld, LetsGo
  <2> QED BY <1>2, <2>1, <2>2 DEF HeldInv, KeysHeld, LetsGo
<1> QED BY <1>1, <1>2, HeldInit, PTL DEF InputSpec

-----------------------------------------------------------------------------
(* ProfileSwitch *)

\* What the switcher goes by, unless something it does not notice has happened.
Relies ==
  /\ \A a \in Profile : alias[a] \in {a, NoProfile}
  /\ stage \in {"sync", "done", "onboard", "manual", "play"} => signed = goal
  /\ stage = "confirm" => Matches(rows[focus])
  /\ stage = "wait" => screen = "login" \/ signed = goal
  /\ stage # "sync" /\ (stage = "wait" => screen = "login") => trusted \in {signed, NoProfile}

SwitchInv == SwitchTypeOK /\ rows[1] = signed /\ (doubt = "none" => Relies)

\* The list after somebody has signed in: he is on top of it.
LEMMA SignInFacts ==
  ASSUME SwitchTypeOK, NEW p \in Profile, SignIn(p)
  PROVE  /\ rows' \in Seq(Profile) /\ rows'[1] = p /\ signed' = p
         /\ focus' = 1 /\ focus' \in 1..Len(rows')
<1> DEFINE above == SubSeq(rows, 1, Below(p) - 1)
           after == SubSeq(rows, Below(p) + 1, Len(rows))
<1>1. rows \in Seq(Profile) /\ Len(rows) \in Nat
  BY DEF SwitchTypeOK
<1>2. Below(p) \in 1..(Len(rows) + 1)
  <2>1. CASE Listed(p)
    BY <1>1, <2>1 DEF Below, Listed
  <2>2. CASE ~Listed(p)
    BY <1>1, <2>2 DEF Below
  <2> QED BY <2>1, <2>2
<1>3. above \in Seq(Profile) /\ after \in Seq(Profile)
  <2>1. ASSUME NEW m \in 1..(Len(rows) + 2), NEW n \in 0..Len(rows) PROVE SubSeq(rows, m, n) \in Seq(Profile)
    BY <1>1
  <2> QED BY <1>1, <1>2, <2>1
<1> HIDE DEF above, after
<1>4. <<p>> \o above \in Seq(Profile) /\ (<<p>> \o above)[1] = p /\ Len(<<p>> \o above) >= 1
  BY <1>3
<1>5. ASSUME NEW s \in Seq(Profile), s[1] = p, Len(s) >= 1
      PROVE  s \o after \in Seq(Profile) /\ (s \o after)[1] = p /\ Len(s \o after) >= 1
  BY <1>3, <1>5
<1>6. rows' = <<p>> \o above \o after
  BY DEF SignIn, above, after
<1>7. signed' = p /\ focus' = 1
  BY DEF SignIn
<1>8. rows' \in Seq(Profile) /\ rows'[1] = p /\ Len(rows') >= 1
  BY <1>4, <1>5, <1>6
<1> QED BY <1>7, <1>8

LEMMA SwitchInvInit == SwitchInit => SwitchInv
<1> SUFFICES ASSUME SwitchInit PROVE SwitchInv
  OBVIOUS
<1>1. PICK n \in 1..2 : rows \in [1..n -> Profile \ NewUser]
  BY DEF SwitchInit
<1>2. rows \in Seq(Profile) /\ Len(rows) = n /\ rows[1] \in Profile
  BY <1>1
<1>3. deaf \in BOOLEAN
  BY DEF SwitchInit
<1>4. SwitchTypeOK
  BY <1>2, <1>3, SwitchAssumption DEF SwitchTypeOK, SwitchInit, Screen, Stage, Doubt
<1>5. rows[1] = signed /\ Relies
  BY DEF SwitchInit, Relies
<1> QED BY <1>4, <1>5 DEF SwitchInv

\* What is in the list, on its first line and where a scan is.
LEMMA ListFacts ==
  ASSUME SwitchTypeOK
  PROVE  /\ Len(rows) \in Nat /\ focus \in 1..Len(rows) /\ 1 \in 1..Len(rows) /\ 0 \in 0..(Rows - 1)
         /\ \A i \in 1..Len(rows) : rows[i] \in Profile
<1>1. rows \in Seq(Profile) /\ Len(rows) \in Nat /\ focus \in 1..Len(rows)
  BY DEF SwitchTypeOK
<1>2. \A i \in 1..Len(rows) : rows[i] \in Profile
  BY <1>1
<1>3. 1 \in 1..Len(rows) /\ 0 \in 0..(Rows - 1)
  BY <1>1, SwitchAssumption
<1> QED BY <1>1, <1>2, <1>3

LEMMA SwitchTypeStep ==
  ASSUME SwitchInv, SwitchNext
  PROVE  SwitchTypeOK'
<1> USE SwitchAssumption DEF Screen, Stage, Doubt
<1>c. SwitchTypeOK
  BY DEF SwitchInv
<1>1. ASSUME Deafen PROVE SwitchTypeOK'
  BY <1>1, <1>c DEF Deafen, SwitchTypeOK, consoleVars
<1>2. ASSUME Hear PROVE SwitchTypeOK'
  BY <1>2, <1>c DEF Hear, SwitchTypeOK, consoleVars
<1>3. ASSUME NEW p \in Profile, Attempt(p) PROVE SwitchTypeOK'
  BY <1>3, <1>c DEF Attempt, SwitchTypeOK, consoleVars
<1>4. ASSUME GoHome PROVE SwitchTypeOK'
  BY <1>4, <1>c DEF GoHome, Shows, Seen, GivesUp, SwitchTypeOK, consoleVars
<1>5. ASSUME LookAtHome PROVE SwitchTypeOK'
  BY <1>5, <1>c DEF LookAtHome, Believes, SwitchTypeOK, consoleVars
<1>6. ASSUME GoToSystem PROVE SwitchTypeOK'
  BY <1>6, <1>c DEF GoToSystem, Shows, GivesUp, SwitchTypeOK, consoleVars
<1>7. ASSUME AddOrSwitch PROVE SwitchTypeOK'
  BY <1>7, <1>c DEF AddOrSwitch, Shows, Seen, GivesUp, SwitchTypeOK, consoleVars
<1>8. ASSUME AddNewUser PROVE SwitchTypeOK'
  BY <1>8, <1>c DEF AddNewUser, Doing, Arrives, Shows, SwitchTypeOK, consoleVars
<1>9. ASSUME EnterList PROVE SwitchTypeOK'
  BY <1>9, <1>c DEF EnterList, Believes, GivesUp, SwitchTypeOK, consoleVars
<1>10. ASSUME ScrollToTop PROVE SwitchTypeOK'
  <2>1. row' = 0 /\ focus' \in {focus, 1} /\ UNCHANGED <<screen, rows, signed, trusted, alias, goal, deaf, doubt>>
    BY <1>10 DEF ScrollToTop
  <2>2. stage' \in Stage
    BY <1>10 DEF ScrollToTop
  <2> QED BY <1>c, <2>1, <2>2, ListFacts DEF SwitchTypeOK
<1>11. ASSUME Found PROVE SwitchTypeOK'
  BY <1>11, <1>c DEF Found, Doing, SwitchTypeOK, consoleVars
<1>12. ASSUME Guessed PROVE SwitchTypeOK'
  BY <1>12, <1>c DEF Guessed, Doing, Suspect, SwitchTypeOK, consoleVars
<1>13. ASSUME NextLine PROVE SwitchTypeOK'
  <2>1. UNCHANGED <<screen, rows, signed, trusted, alias, goal, deaf, doubt>> /\ stage' \in {stage, "idle"}
    BY <1>13 DEF NextLine, GivesUp
  <2>2. row' = row \/ (row # Rows - 1 /\ row' = row + 1)
    BY <1>13 DEF NextLine
  <2>3. focus' = focus \/ (focus # Len(rows) /\ focus' = focus + 1)
    <3>1. CASE row = Rows - 1
      BY <1>13, <3>1 DEF NextLine
    <3>2. CASE row # Rows - 1
      <4>1. focus' = IF deaf \/ focus = Len(rows) THEN focus ELSE focus + 1
        BY <1>13, <3>2 DEF NextLine
      <4> QED BY <4>1
    <3> QED BY <3>1, <3>2
  <2>4. row' \in 0..(Rows - 1)
    <3>1. row \in 0..(Rows - 1)
      BY <1>c DEF SwitchTypeOK
    <3>2. Rows \in Nat
      BY SwitchAssumption
    <3> QED BY ONLY <2>2, <3>1, <3>2
  <2>5. focus' \in 1..Len(rows)
    BY <1>c, <2>3, ListFacts
  <2>6. deaf' \in BOOLEAN /\ stage' \in Stage /\ screen' \in Screen /\ doubt' \in Doubt
    BY <1>c, <2>1 DEF SwitchTypeOK
  <2>7. /\ rows' \in Seq(Profile) /\ signed' \in Profile /\ goal' \in Profile /\ trusted' \in Profile \cup {NoProfile}
        /\ alias' \in [Profile -> Profile \cup {NoProfile}] /\ focus' \in 1..Len(rows')
    BY <1>c, <2>1, <2>5 DEF SwitchTypeOK
  <2> QED BY ONLY <2>4, <2>6, <2>7 DEF SwitchTypeOK
<1>14. ASSUME AwaitLogin PROVE SwitchTypeOK'
  BY <1>14, <1>c DEF AwaitLogin, Seen, Suspect, SwitchTypeOK, consoleVars
<1>15. ASSUME Mistyped PROVE SwitchTypeOK'
  BY <1>15, <1>c DEF Mistyped, Doing, Suspect, SwitchTypeOK, consoleVars
<1>16. ASSUME SyncName PROVE SwitchTypeOK'
  <2>1. \E i \in 1..Len(rows) : /\ alias' = alias \/ Named(rows[i])
                               /\ focus' \in {focus, i} /\ screen' \in {screen, "list"}
    <3>1. CASE UNCHANGED <<consoleVars, alias, doubt>>
      BY <1>c, <3>1, ListFacts DEF consoleVars
    <3>2. CASE screen' = "list" /\ focus' = 1 /\ Named(rows[1])
      BY <1>c, <3>2, ListFacts
    <3>3. CASE screen' = "list" /\ focus' \in 2..Len(rows) /\ Named(rows[focus'])
      <4>1. focus' \in 1..Len(rows)
        BY <1>c, <3>3, ListFacts
      <4> QED BY <3>3, <4>1
    <3> QED BY <1>16, <3>1, <3>2, <3>3 DEF SyncName
  <2>2. trusted' = goal /\ stage' = "done" /\ UNCHANGED <<rows, signed, goal, row, deaf>>
    BY <1>16 DEF SyncName, Believes, consoleVars
  <2>3. doubt' \in Doubt
    BY <1>16, <1>c DEF SyncName, Suspect, SwitchTypeOK
  <2>4. alias' \in [Profile -> Profile \cup {NoProfile}]
    BY <1>c, <2>1, ListFacts DEF Named, SwitchTypeOK
  <2> QED BY <1>c, <2>1, <2>2, <2>3, <2>4, ListFacts DEF SwitchTypeOK
<1>17. ASSUME LaunchGame PROVE SwitchTypeOK'
  BY <1>17, <1>c DEF LaunchGame, Shows, GivesUp, SwitchTypeOK, consoleVars
<1>18. ASSUME Onboard PROVE SwitchTypeOK'
  BY <1>18, <1>c DEF Onboard, GivesUp, SwitchTypeOK, consoleVars
<1>19. ASSUME StaysAtHome PROVE SwitchTypeOK'
  BY <1>19, <1>c DEF StaysAtHome, Doing, SwitchTypeOK, consoleVars
<1>20. ASSUME Retried PROVE SwitchTypeOK'
  BY <1>20, <1>c DEF Retried, Doing, SwitchTypeOK, consoleVars
<1>21. ASSUME ExitGame PROVE SwitchTypeOK'
  BY <1>21, <1>c DEF ExitGame, Doing, Arrives, Shows, SwitchTypeOK, consoleVars
<1>22. ASSUME ReturnForResume PROVE SwitchTypeOK'
  BY <1>22, <1>c DEF ReturnForResume, GivesUp, Arrives, Shows, SwitchTypeOK, consoleVars
<1>23. ASSUME NEW p \in Profile, Meddle(p) \/ Provision(p) PROVE SwitchTypeOK'
  <2>1. CASE SignIn(p) /\ screen' \in {"home", "list"}
    <3>1. UNCHANGED <<trusted, alias, goal, stage, row, deaf>> /\ doubt' \in Doubt
      BY <1>23, <1>c DEF Meddle, Provision, AddAccount, Suspect, SwitchTypeOK, consoleVars
    <3> QED BY <1>c, <2>1, <3>1, SignInFacts DEF SwitchTypeOK
  <2>2. CASE UNCHANGED <<consoleVars, doubt>>
    BY <1>23, <1>c, <2>2 DEF Meddle, Provision, SwitchTypeOK, consoleVars
  <2> QED BY <1>23, <2>1, <2>2 DEF Meddle, Provision, AddAccount
<1>24. ASSUME ConfirmSelection PROVE SwitchTypeOK'
  <2>1. CASE OnList /\ ~deaf /\ SignIn(rows[focus]) /\ screen' = "home"
    <3>1. rows[focus] \in Profile
      BY <1>c, ListFacts
    <3>2. stage' = "wait" /\ UNCHANGED <<trusted, alias, goal, row, deaf, doubt>>
      BY <1>24, <2>1 DEF ConfirmSelection
    <3> QED BY <1>c, <2>1, <3>1, <3>2, SignInFacts DEF SwitchTypeOK
  <2>2. CASE ~(OnList /\ ~deaf /\ SignIn(rows[focus]) /\ screen' = "home")
    BY <1>24, <1>c, <2>2 DEF ConfirmSelection, Shows, GivesUp, Suspect, SwitchTypeOK, consoleVars
  <2> QED BY <2>1, <2>2
<1>25. ASSUME LogIn PROVE SwitchTypeOK'
  <2>1. CASE SignIn(goal) /\ screen' = "home" /\ stage' = "sync"
    <3>1. goal \in Profile /\ UNCHANGED <<trusted, alias, goal, row, deaf, doubt>>
      BY <1>25, <1>c DEF LogIn, SwitchTypeOK
    <3> QED BY <1>c, <2>1, <3>1, SignInFacts DEF SwitchTypeOK
  <2>2. CASE GivesUp /\ UNCHANGED consoleVars
    BY <1>25, <1>c, <2>2 DEF LogIn, GivesUp, SwitchTypeOK, consoleVars
  <2> QED BY <1>25, <2>1, <2>2 DEF LogIn
<1> QED BY <1>1, <1>2, <1>3, <1>4, <1>5, <1>6, <1>7, <1>8, <1>9, <1>10, <1>11, <1>12, <1>13, <1>14,
        <1>15, <1>16, <1>17, <1>18, <1>19, <1>20, <1>21, <1>22, <1>23, <1>24, <1>25 DEF SwitchNext

\* The profile that is signed in stays on top.
LEMMA TopStep ==
  ASSUME SwitchInv, SwitchNext
  PROVE  rows'[1] = signed'
<1>c. SwitchTypeOK /\ rows[1] = signed
  BY DEF SwitchInv
<1>1. CASE UNCHANGED <<rows, signed>>
  BY <1>1, <1>c
<1>2. CASE \E p \in Profile : SignIn(p)
  BY <1>2, <1>c, SignInFacts
<1>3. (\E p \in Profile : SignIn(p)) \/ UNCHANGED <<rows, signed>>
  <2>1. ASSUME NEW p \in Profile, Meddle(p) \/ Provision(p)
        PROVE  SignIn(p) \/ UNCHANGED <<rows, signed>>
    BY <2>1 DEF Meddle, Provision, AddAccount, consoleVars
  <2>2. ASSUME ConfirmSelection PROVE SignIn(rows[focus]) \/ UNCHANGED <<rows, signed>>
    BY <2>2 DEF ConfirmSelection, Shows, consoleVars
  <2>3. ASSUME LogIn PROVE SignIn(goal) \/ UNCHANGED <<rows, signed>>
    BY <2>3 DEF LogIn, consoleVars
  <2>4. rows[focus] \in Profile /\ goal \in Profile
    BY <1>c, ListFacts DEF SwitchTypeOK
  <2>5. ASSUME NEW p \in Profile,
               \/ Deafen \/ Hear \/ Attempt(p) \/ GoHome \/ LookAtHome \/ GoToSystem \/ AddOrSwitch
               \/ AddNewUser \/ EnterList \/ ScrollToTop \/ Found \/ Guessed \/ NextLine \/ AwaitLogin
               \/ Mistyped \/ SyncName \/ LaunchGame \/ Onboard \/ StaysAtHome \/ Retried \/ ExitGame
               \/ ReturnForResume
        PROVE  UNCHANGED <<rows, signed>>
    BY <2>5 DEF Deafen, Hear, Attempt, GoHome, LookAtHome, GoToSystem, AddOrSwitch, AddNewUser,
       EnterList, ScrollToTop, Found, Guessed, NextLine, AwaitLogin, Mistyped, SyncName, LaunchGame,
       Onboard, StaysAtHome, Retried, ExitGame, ReturnForResume, consoleVars, Shows, Arrives
  <2> QED BY <2>1, <2>2, <2>3, <2>4, <2>5 DEF SwitchNext
<1> QED BY <1>1, <1>2, <1>3

\* While nothing has misled the switcher it goes by what is so.
LEMMA ReliesStep ==
  ASSUME SwitchInv, SwitchNext, doubt' = "none"
  PROVE  Relies'
<1> USE SwitchAssumption
<1>c. SwitchTypeOK /\ rows[1] = signed /\ (doubt = "none" => Relies)
  BY DEF SwitchInv
<1>t. goal \in Profile /\ signed \in Profile /\ alias \in [Profile -> Profile \cup {NoProfile}]
  BY <1>c DEF SwitchTypeOK
<1>m. ASSUME Relies, NEW p \in Profile, Matches(p) PROVE p = goal
  BY <1>m, <1>t DEF Relies, Matches
<1>1. ASSUME Deafen \/ Hear PROVE Relies'
  BY <1>1, <1>c DEF Deafen, Hear, Relies, Matches, consoleVars
<1>2. ASSUME NEW p \in Profile, Meddle(p) PROVE Relies'
  BY <1>2 DEF Meddle, Suspect
<1>3. ASSUME NEW p \in Profile, Provision(p) PROVE Relies'
  BY <1>3, <1>c DEF Provision, AddAccount, Suspect, Relies, Matches, consoleVars
<1>4. ASSUME NEW p \in Profile, Attempt(p) PROVE Relies'
  BY <1>4, <1>c DEF Attempt, Relies, consoleVars
<1>5. ASSUME GoHome \/ GoToSystem \/ AddOrSwitch \/ AddNewUser PROVE Relies'
  <2>1. UNCHANGED <<signed, goal, trusted, alias, doubt>> /\ stage \in {"home", "system", "switch", "add"}
        /\ stage' \notin {"sync", "done", "onboard", "manual", "play", "confirm", "wait"}
    BY <1>5 DEF GoHome, GoToSystem, AddOrSwitch, AddNewUser, Shows, Arrives, GivesUp, Doing, consoleVars
  <2> QED BY <1>c, <2>1 DEF Relies
<1>6. ASSUME LookAtHome \/ EnterList PROVE Relies'
  <2>1. UNCHANGED <<signed, goal, alias, doubt>> /\ stage \in {"look", "enter"}
    BY <1>6 DEF LookAtHome, EnterList, consoleVars
  <2>2. CASE Matches(signed) /\ Believes
    <3>1. signed = goal
      BY <1>c, <1>t, <1>m, <2>1, <2>2
    <3> QED BY <1>c, <2>1, <2>2, <3>1 DEF Believes, Relies
  <2>3. CASE stage' \in {"system", "scroll", "idle"} /\ UNCHANGED trusted
    BY <1>c, <2>1, <2>3 DEF Relies
  <2> QED BY <1>6, <2>2, <2>3 DEF LookAtHome, EnterList, GivesUp
<1>7. ASSUME ScrollToTop \/ NextLine PROVE Relies'
  <2>1. UNCHANGED <<signed, goal, trusted, alias, doubt>> /\ stage \in {"scroll", "scan"}
        /\ stage' \in {"scan", "idle"}
    BY <1>7 DEF ScrollToTop, NextLine, GivesUp
  <2> QED BY <1>c, <2>1 DEF Relies
<1>8. ASSUME Found \/ Guessed PROVE Relies'
  BY <1>8, <1>c DEF Found, Guessed, Suspect, Doing, Relies, Matches, consoleVars
<1>9. ASSUME ConfirmSelection PROVE Relies'
  <2>1. UNCHANGED <<trusted, alias, goal>> /\ stage = "confirm" /\ doubt = "none"
    BY <1>9 DEF ConfirmSelection, Suspect
  <2>2. rows[focus] = goal
    BY <1>c, <1>m, <2>1, ListFacts DEF Relies
  <2>3. CASE ~OnList
    BY <1>9, <1>c, <2>1, <2>3 DEF ConfirmSelection, GivesUp, Relies, consoleVars
  <2>4. CASE OnList
    <3>1. stage' = "wait" /\ ((SignIn(rows[focus]) /\ screen' = "home") \/ Shows("login"))
      BY <1>9, <2>1, <2>4 DEF ConfirmSelection, Suspect
    <3> QED BY <1>c, <2>1, <2>2, <3>1 DEF Relies, SignIn, Shows
  <2> QED BY <2>3, <2>4
<1>10. ASSUME AwaitLogin PROVE Relies'
  BY <1>10, <1>c DEF AwaitLogin, Seen, Suspect, Relies, consoleVars
<1>11. ASSUME LogIn PROVE Relies'
  <2>1. UNCHANGED <<trusted, alias, goal>> /\ stage = "login" /\ doubt = "none"
    BY <1>11 DEF LogIn
  <2> QED BY <1>11, <1>c, <2>1 DEF LogIn, SignIn, GivesUp, Relies, consoleVars
<1>12. ASSUME Mistyped PROVE Relies'
  BY <1>12 DEF Mistyped, Suspect
<1>13. ASSUME SyncName PROVE Relies'
  <2>1. stage = "sync" /\ doubt = "none" /\ trusted' = goal /\ stage' = "done" /\ UNCHANGED <<signed, goal>>
    BY <1>13 DEF SyncName, Believes, Suspect, consoleVars
  <2>2. signed = goal
    BY <1>c, <2>1 DEF Relies
  <2>3. alias' = alias \/ alias' = [alias EXCEPT ![goal] = goal]
    BY <1>13, <1>c, <2>2 DEF SyncName, Named, Suspect
  <2>4. \A a \in Profile : alias'[a] \in {a, NoProfile}
    BY <1>c, <1>t, <2>1, <2>3 DEF Relies
  <2> QED BY <2>1, <2>2, <2>4 DEF Relies
<1>14. ASSUME LaunchGame \/ Onboard \/ StaysAtHome \/ Retried \/ ExitGame \/ ReturnForResume PROVE Relies'
  <2>1. UNCHANGED <<signed, goal, trusted, alias, doubt>> /\ stage \in {"idle", "done", "onboard", "manual", "play"}
        /\ stage' \in {"idle", "done", "onboard", "manual", "play"} /\ (stage = "idle" => stage' = "idle")
    BY <1>14 DEF LaunchGame, Onboard, StaysAtHome, Retried, ExitGame, ReturnForResume, Doing, GivesUp,
       Shows, Arrives, consoleVars
  <2> QED BY <1>c, <2>1 DEF Relies
<1> QED BY <1>1, <1>2, <1>3, <1>4, <1>5, <1>6, <1>7, <1>8, <1>9, <1>10, <1>11, <1>12, <1>13, <1>14
        DEF SwitchNext

LEMMA SwitchInvStep == SwitchInv /\ [SwitchNext]_switchVars => SwitchInv'
<1>1. SwitchInv /\ SwitchNext => SwitchInv'
  BY SwitchTypeStep, TopStep, ReliesStep DEF SwitchInv
<1>2. ASSUME SwitchInv, UNCHANGED switchVars PROVE SwitchInv'
  <2>1. SwitchTypeOK'
    BY <1>2 DEF SwitchInv, SwitchTypeOK, switchVars
  <2>2. rows'[1] = signed' /\ (doubt' = "none" => Relies')
    BY <1>2 DEF SwitchInv, Relies, Matches, switchVars
  <2> QED BY <2>1, <2>2 DEF SwitchInv
<1> QED BY <1>1, <1>2

\* However screens are missed and attempts given up half-way, and whichever accounts follow
\* each other: FC is started under the account it is counted for, or one of the things that the
\* switcher does not notice has happened.
THEOREM GameIsForItsAccount == SwitchSpec => [](SwitchTypeOK /\ RightProfile)
<1>1. SwitchInv /\ [SwitchNext]_switchVars => SwitchInv'
  BY SwitchInvStep
<1>2. SwitchInv => SwitchTypeOK /\ RightProfile
  BY DEF SwitchInv, Relies, RightProfile
<1> QED BY <1>1, <1>2, SwitchInvInit, PTL DEF SwitchSpec

-----------------------------------------------------------------------------
(* Navigation *)

LEMMA KeysLeadOneWay == \A t \in Transitions : Leads(t[1], t[3]) = {t[5]}
<1>1. \A t, u \in Transitions : t[1] = u[1] /\ t[3] = u[3] => t[5] = u[5]
  <2>1. \A t, u \in MenuTransitions : t[1] = u[1] /\ t[3] = u[3] => t[5] = u[5]
    BY DEF MenuTransitions, A
  <2>2. \A t, u \in OpponentTransitions : t[1] = u[1] /\ t[3] = u[3] => t[5] = u[5]
    BY DEF OpponentTransitions, A
  <2>3. \A t \in MenuTransitions, u \in OpponentTransitions : t[1] # u[1]
    BY DEF MenuTransitions, OpponentTransitions
  <2> QED BY <2>1, <2>2, <2>3 DEF Transitions
<1>2. \A t \in Transitions, e \in Elsewhere : t[1] # e[1]
  <2>1. \A t \in Transitions : t[1] \in {101, 126, 127, 147, 149, 155, 156} \cup 168..177 \cup {183}
    BY DEF Transitions, MenuTransitions, OpponentTransitions
  <2>2. \A e \in Elsewhere : e[1] \in {152, 1, 189, 184, 102, 190, 193}
    BY DEF Elsewhere, Centre
  <2> QED BY <2>1, <2>2
<1> QED BY <1>1, <1>2 DEF Leads

LEMMA WayFacts ==
  ASSUME NEW w \in Ways
  PROVE  Leads(w[1], Entry(w)[3]) = {Target(w)}
<1>1. PICK t \in Transitions : w[1] = t[1] /\ w[2] = t[2]
  BY DEF Ways
<1>2. Entry(w) \in Transitions /\ Entry(w)[1] = w[1]
  BY <1>1 DEF Entry
<1> QED BY <1>2, KeysLeadOneWay DEF Target

LEMMA EntryIsOne == \A t \in Transitions : Target(<<t[1], t[2]>>) = t[5]
<1>1. ASSUME NEW t \in Transitions PROVE Target(<<t[1], t[2]>>) = t[5]
  <2>1. \A u \in Transitions : u[1] = t[1] /\ u[2] = t[2] => u[5] = t[5]
    <3>1. \A x, u \in MenuTransitions : x[1] = u[1] /\ x[2] = u[2] => x[5] = u[5]
      BY DEF MenuTransitions, A
    <3>2. \A x, u \in OpponentTransitions : x[1] = u[1] /\ x[2] = u[2] => x[5] = u[5]
      BY DEF OpponentTransitions, A
    <3>3. \A x \in MenuTransitions, u \in OpponentTransitions : x[1] # u[1]
      BY DEF MenuTransitions, OpponentTransitions
    <3> QED BY <3>1, <3>2, <3>3 DEF Transitions
  <2> QED BY <2>1 DEF Target, Entry
<1> QED BY <1>1

LEMMA TargetOf ==
  ASSUME NEW s, NEW i, NEW k, NEW n, NEW t, <<s, i, k, n, t>> \in Transitions
  PROVE  <<s, i>> \in Ways /\ Target(<<s, i>>) = t
<1> DEFINE u == <<s, i, k, n, t>>
<1>1. u \in Transitions /\ u[1] = s /\ u[2] = i /\ u[5] = t
  OBVIOUS
<1> HIDE DEF u
<1> QED BY <1>1, EntryIsOne DEF Ways

LEMMA Targets ==
  /\ \A w \in {<<147, 1>>, <<149, 1>>, <<155, 1>>, <<156, 1>>, <<168, 1>>, <<177, 2>>, <<183, 1>>,
               <<149, 2>>, <<147, 2>>, <<127, 1>>} : w \in Ways
  /\ Target(<<147, 1>>) = 149 /\ Target(<<149, 1>>) = 155 /\ Target(<<155, 1>>) = 156
  /\ Target(<<156, 1>>) = 168 /\ Target(<<168, 1>>) = 177 /\ Target(<<177, 2>>) = 183
  /\ Target(<<183, 1>>) = 189 /\ Target(<<149, 2>>) = 152 /\ Target(<<147, 2>>) = 152
  /\ Target(<<127, 1>>) = 147
<1>1. /\ {<<127, 1, A, 20, 147>>, <<147, 1, 4, 2, 149>>, <<147, 2, 4096, 6, 152>>, <<149, 1, A, 1, 155>>,
          <<149, 2, 4096, 6, 152>>, <<155, 1, A, 1, 156>>,   <<156, 1, A, 20, 168>>} \subseteq Transitions
  BY DEF Transitions, MenuTransitions
<1>2. {<<168, 1, A, 1, 177>>, <<177, 2, A, 1, 183>>, <<183, 1, A, 10, 189>>} \subseteq Transitions
  BY DEF Transitions, OpponentTransitions
<1> QED BY TargetOf, <1>1, <1>2

LEMMA Opponents == \A s \in 169..174 : <<s, 1>> \in Ways /\ Target(<<s, 1>>) = 177
<1> SUFFICES ASSUME NEW s \in 169..174 PROVE <<s, 1>> \in Ways /\ Target(<<s, 1>>) = 177
  OBVIOUS
<1>1. \E k, n : <<s, 1, k, n, 177>> \in Transitions
  <2>1. s = 169 \/ s = 170 \/ s = 171 \/ s = 172 \/ s = 173 \/ s = 174
    OBVIOUS
  <2> QED BY <2>1 DEF Transitions, OpponentTransitions
<1> QED BY <1>1, TargetOf

\* A chain each of whose transitions leads to where the next one begins, and the last to where
\* the job is done.
Chained(c, j) ==
  /\ c \in Seq(Ways) /\ Len(c) >= 1
  /\ \A i \in 1..(Len(c) - 1) : Target(c[i]) = c[i + 1][1]
  /\ Target(c[Len(c)]) \in Complete(j)

\* What is left of such a chain is one.
LEMMA RestIsLinked ==
  ASSUME NEW c, NEW j, Chained(c, j), NEW m \in 1..Len(c)
  PROVE  Chained(SubSeq(c, m, Len(c)), j) /\ SubSeq(c, m, Len(c))[1] = c[m]
<1> DEFINE r == SubSeq(c, m, Len(c))
<1>1. c \in Seq(Ways) /\ Len(c) \in Nat /\ m \in 1..Len(c)
  BY DEF Chained
<1>2. r \in Seq(Ways) /\ Len(r) = Len(c) - m + 1 /\ \A i \in 1..Len(r) : r[i] = c[m + i - 1]
  BY <1>1
<1> HIDE DEF r
<1>3. ASSUME NEW i \in 1..(Len(r) - 1) PROVE Target(r[i]) = r[i + 1][1]
  <2>1. m + i - 1 \in 1..(Len(c) - 1) /\ i \in 1..Len(r) /\ i + 1 \in 1..Len(r)
    BY <1>1, <1>2
  <2>2. r[i] = c[m + i - 1] /\ r[i + 1] = c[(m + i - 1) + 1]
    BY <1>1, <1>2, <2>1
  <2> QED BY <2>1, <2>2 DEF Chained
<1>4. r[Len(r)] = c[Len(c)] /\ r[1] = c[m] /\ Len(r) >= 1
  BY <1>1, <1>2
<1> QED BY <1>2, <1>3, <1>4 DEF Chained, r

LEMMA SqbIsLinked == Chained(SqbChain, "sqb") /\ Len(SqbChain) = 7 /\ SqbChain[6] = <<177, 2>>
<1>1. SqbChain \in Seq(Ways) /\ Len(SqbChain) = 7
  <2>1. /\ <<147, 1>> \in Ways /\ <<149, 1>> \in Ways /\ <<155, 1>> \in Ways /\ <<156, 1>> \in Ways
        /\ <<168, 1>> \in Ways /\ <<177, 2>> \in Ways /\ <<183, 1>> \in Ways
    BY Targets
  <2> QED BY <2>1 DEF SqbChain
<1>2. /\ SqbChain[1] = <<147, 1>> /\ SqbChain[2] = <<149, 1>> /\ SqbChain[3] = <<155, 1>>
      /\ SqbChain[4] = <<156, 1>> /\ SqbChain[5] = <<168, 1>> /\ SqbChain[6] = <<177, 2>>
      /\ SqbChain[7] = <<183, 1>>
  BY DEF SqbChain
<1>3. ASSUME NEW i \in 1..6 PROVE Target(SqbChain[i]) = SqbChain[i + 1][1]
  <2>1. i = 1 \/ i = 2 \/ i = 3 \/ i = 4 \/ i = 5 \/ i = 6
    OBVIOUS
  <2> QED BY <2>1, <1>2, Targets
<1>4. Target(SqbChain[7]) \in Complete("sqb")
  BY <1>2, Targets DEF Complete
<1> QED BY <1>1, <1>2, <1>3, <1>4 DEF Chained

\* One transition in front of a chain that begins where it leads.
LEMMA LongerIsLinked ==
  ASSUME NEW c, NEW j, Chained(c, j), NEW w \in Ways, Target(w) = c[1][1]
  PROVE  Chained(<<w>> \o c, j)
<1> DEFINE r == <<w>> \o c
<1>1. c \in Seq(Ways) /\ Len(c) \in Nat /\ Len(c) >= 1
  BY DEF Chained
<1>2. r \in Seq(Ways) /\ Len(r) = Len(c) + 1 /\ r[1] = w /\ \A i \in 1..Len(c) : r[i + 1] = c[i]
  BY <1>1
<1> HIDE DEF r
<1>3. ASSUME NEW i \in 1..(Len(r) - 1) PROVE Target(r[i]) = r[i + 1][1]
  <2>1. CASE i = 1
    BY <1>1, <1>2, <2>1
  <2>2. CASE i # 1
    <3>1. i - 1 \in 1..(Len(c) - 1) /\ i \in 1..Len(c)
      BY <1>1, <1>2, <2>2
    <3>2. r[i] = c[i - 1] /\ r[i + 1] = c[(i - 1) + 1]
      BY <1>2, <3>1
    <3> QED BY <3>1, <3>2 DEF Chained
  <2> QED BY <2>1, <2>2
<1>4. r[Len(r)] = c[Len(c)]
  BY <1>1, <1>2
<1> QED BY <1>1, <1>2, <1>3, <1>4 DEF Chained, r

LEMMA OneIsLinked ==
  ASSUME NEW w \in Ways, NEW j, Target(w) \in Complete(j)
  PROVE  Chained(<<w>>, j)
  BY DEF Chained

LEMMA TwoAreLinked ==
  ASSUME NEW v \in Ways, NEW w \in Ways, NEW j, Target(v) = w[1], Target(w) \in Complete(j)
  PROVE  Chained(<<v, w>>, j)
<1>1. <<v, w>> \in Seq(Ways) /\ Len(<<v, w>>) = 2 /\ <<v, w>>[1] = v /\ <<v, w>>[2] = w
  OBVIOUS
<1>2. \A i \in 1..1 : i = 1
  OBVIOUS
<1> QED BY <1>1, <1>2 DEF Chained

\* Every chain that is cut to fit a screen is linked, or the screen is the one to go to.
LEMMA TrimFacts ==
  ASSUME NEW j \in {"sqb", "auction"}, NEW s
  PROVE  Chained(Trim(j, s), j) \/ (Trim(j, s) = <<>> /\ s \in Complete(j))
<1>1. CASE j = "auction"
  <2>1. Chained(<< <<149, 2>> >>, j) /\ Chained(<< <<147, 2>> >>, j)
    BY <1>1, Targets, OneIsLinked DEF Complete
  <2>2. Chained(<< <<127, 1>>, <<147, 2>> >>, j)
    BY <1>1, Targets, TwoAreLinked DEF Complete
  <2>3. Trim(j, s) = TrimAuction(s)
    BY <1>1 DEF Trim
  <2> QED BY <1>1, <2>1, <2>2, <2>3 DEF TrimAuction, Complete
<1>2. CASE j = "sqb"
  <2> DEFINE at == {i \in DOMAIN SqbChain : SqbChain[i][1] = s}
  <2>1. DOMAIN SqbChain = 1..7 /\ Len(SqbChain) = 7 /\ Chained(SqbChain, j)
    BY <1>2, SqbIsLinked DEF Chained
  <2>2. \A m \in 1..7 : Chained(SubSeq(SqbChain, m, 7), j)
    BY <2>1, RestIsLinked
  <2>3. ASSUME s \in 169..174 PROVE Chained(<< <<s, 1>> >> \o SubSeq(SqbChain, 6, 7), j)
    <3> DEFINE r == SubSeq(SqbChain, 6, 7)
               w == <<s, 1>>
    <3>1. r[1] = SqbChain[6]
      <4>1. 6 \in 1..Len(SqbChain)
        BY <2>1
      <4> QED BY ONLY <2>1, <4>1, RestIsLinked
    <3>2. Chained(r, j)
      BY <2>2
    <3>3. w \in Ways /\ Target(w) = 177
      BY <2>3, Opponents
    <3>4. Target(w) = r[1][1]
      BY <3>1, <3>3, SqbIsLinked
    <3> HIDE DEF r, w
    <3>5. Chained(<<w>> \o r, j)
      BY <3>2, <3>3, <3>4, LongerIsLinked
    <3> QED BY <3>5 DEF r, w
  <2>4. Trim(j, s) = TrimSqb(s)
    BY <1>2 DEF Trim
  <2>5. CASE s = 189
    <3>1. at = {}
      <4>1. \A m \in 1..7 : SqbChain[m][1] # 189
        BY DEF SqbChain
      <4> QED BY <2>1, <2>5, <4>1
    <3>2. TrimSqb(s) = <<>>
      BY <2>5, <3>1 DEF TrimSqb
    <3> QED BY <1>2, <2>4, <2>5, <3>2 DEF Complete
  <2>6. CASE s # 189 /\ at # {}
    <3>1. s \notin 169..174
      <4>1. \A m \in 1..7 : SqbChain[m][1] \notin 169..174
        BY DEF SqbChain
      <4> QED BY <2>1, <2>6, <4>1
    <3>2. TrimSqb(s) = SubSeq(SqbChain, CHOOSE m \in at : TRUE, 7)
      BY <2>1, <2>6, <3>1 DEF TrimSqb
    <3>3. (CHOOSE m \in at : TRUE) \in 1..7
      BY <2>1, <2>6
    <3> QED BY <2>2, <2>4, <3>2, <3>3
  <2>7. CASE s # 189 /\ at = {}
    <3>1. CASE s \in 169..174
      BY <2>1, <2>3, <2>4, <2>7, <3>1 DEF TrimSqb
    <3>2. CASE s \notin 169..174
      BY <2>1, <2>4, <2>7, <3>2 DEF TrimSqb
    <3> QED BY <3>1, <3>2
  <2> QED BY <2>5, <2>6, <2>7
<1> QED BY <1>1, <1>2

\* The screens that a match or its end may replace are none of a navigation's.
LEMMA MenusStay ==
  /\ \A w \in Ways : w[1] \notin {102, Pitch} /\ Target(w) \notin {102, Pitch}
  /\ \A j \in {"sqb", "auction"} : 102 \notin Nav(j) \cup Complete(j) /\ Pitch \notin Nav(j) \cup Complete(j)
<1>1. \A t \in Transitions : t[1] \notin {102, 0} /\ t[5] \notin {102, 0}
  BY DEF Transitions, MenuTransitions, OpponentTransitions
<1>2. \A w \in Ways : w[1] \notin {102, 0} /\ Target(w) \notin {102, 0}
  <2> SUFFICES ASSUME NEW w \in Ways PROVE w[1] \notin {102, 0} /\ Target(w) \notin {102, 0}
    OBVIOUS
  <2>1. PICK t \in Transitions : w = <<t[1], t[2]>>
    BY DEF Ways
  <2>2. w[1] = t[1] /\ Target(w) = t[5]
    BY <2>1, EntryIsOne
  <2> QED BY <1>1, <2>2
<1>3. \A j \in {"sqb", "auction"} : 102 \notin Nav(j) \cup Complete(j) /\ Pitch \notin Nav(j) \cup Complete(j)
  BY DEF Nav, Complete, Pitch
<1> QED BY <1>2, <1>3 DEF Pitch

\* Where a navigation is in which nothing outside the code has gone wrong, from a screen that
\* a chain of its own begins at.
OnTheWay ==
  /\ post = "scan" => view = from
  /\ post = "step" => view = chain[1][1]
  /\ post = "press" => view = way[1]
  /\ post = "look" => view = Target(way)
  /\ post # "lost"

NavInv ==
  /\ job \in {"sqb", "auction"}
  /\ post \in {"step", "press", "look"} => Chained(chain, job)
  /\ post \in {"press", "look"} => way = chain[1]
  /\ post = "there" /\ "person" \notin slips => view \in Complete(job)
  /\ slips = {} /\ from \in Own(job) => OnTheWay

LEMMA NavInvInit == NavInit => NavInv
  BY DEF NavInit, NavInv, OnTheWay

\* The way a chain begins with leads to one screen.
LEMMA FirstWay ==
  ASSUME NEW j, Chained(chain, j)
  PROVE  chain[1] \in Ways /\ Len(chain) \in Nat /\ Len(chain) >= 1 /\ chain \in Seq(Ways)
  BY DEF Chained

\* What is not a navigation's own does not lead it on.
LEMMA OutsideKeeps ==
  ASSUME NavInv, GameGoesOn \/ \E s \in View : Person(s)
  PROVE  NavInv'
<1>1. ASSUME GameGoesOn PROVE NavInv'
  <2>1. view \in {102, Pitch} /\ UNCHANGED <<job, chain, from, post, way, left, slips>>
    BY <1>1 DEF GameGoesOn, wayVars
  <2>2. ~(post = "there" /\ "person" \notin slips)
    BY <2>1, MenusStay DEF NavInv
  <2>3. slips = {} /\ from \in Own(job) => post \notin {"scan", "step", "press", "look"}
    <3> SUFFICES ASSUME slips = {}, from \in Own(job), post \in {"scan", "step", "press", "look"} PROVE FALSE
      OBVIOUS
    <3>1. from \in Nav(job) /\ OnTheWay /\ job \in {"sqb", "auction"}
      BY DEF Own, NavInv
    <3>2. CASE post = "scan"
      BY <2>1, <3>1, <3>2, MenusStay DEF OnTheWay
    <3>3. CASE post # "scan"
      <4>1. chain[1] \in Ways
        BY <3>3, FirstWay DEF NavInv
      <4> QED BY <2>1, <3>1, <3>3, <4>1, MenusStay DEF OnTheWay, NavInv
    <3> QED BY <3>2, <3>3
  <2> QED BY <2>1, <2>2, <2>3 DEF NavInv, OnTheWay, Own
<1>2. ASSUME NEW s \in View, Person(s) PROVE NavInv'
  <2>1. UNCHANGED <<job, chain, from, post, way, left>> /\ slips' = IF Navigating THEN slips \cup {"person"} ELSE slips
    BY <1>2 DEF Person, Slip, wayVars
  <2>2. CASE Navigating
    BY <2>1, <2>2 DEF NavInv
  <2>3. CASE ~Navigating
    BY <2>1, <2>3 DEF NavInv, OnTheWay, Navigating
  <2> QED BY <2>2, <2>3
<1> QED BY <1>1, <1>2

\* A navigation begins where the console is, and follows the chain that fits what it sees.
LEMMA BeginsKeep ==
  ASSUME NavInv, (\E j \in {"sqb", "auction"} : NavigateTo(j)) \/ Scan
  PROVE  NavInv'
<1>1. ASSUME NEW j \in {"sqb", "auction"}, NavigateTo(j) PROVE NavInv'
  BY <1>1 DEF NavigateTo, FromTo, NavInv, OnTheWay
<1>2. ASSUME Scan PROVE NavInv'
  <2>0. job \in {"sqb", "auction"} /\ post = "scan" /\ UNCHANGED <<view, job, way, left, from, pitched>>
    BY <1>2 DEF Scan, NavInv
  <2>1. CASE Sees(Nav(job)) /\ Follow(Trim(job, view))
    <3> DEFINE c == Trim(job, view)
    <3>1. Chained(c, job) \/ (c = <<>> /\ view \in Complete(job))
      BY <2>0, TrimFacts
    <3>2. chain' = c /\ post' = (IF c = <<>> THEN "there" ELSE "step") /\ slips' = slips /\ view \in Nav(job)
      BY <2>1 DEF Follow, Sees
    <3>3. slips = {} /\ from \in Own(job) /\ c # <<>> => c[1][1] = view
      BY <2>0 DEF NavInv, OnTheWay, Own
    <3>4. Chained(c, job) => c # <<>>
      BY DEF Chained
    <3> HIDE DEF c
    <3> QED BY <2>0, <3>1, <3>2, <3>3, <3>4 DEF NavInv, OnTheWay
  <2>2. CASE Misses(Nav(job)) /\ Follow(Trim(job, Pitch))
    <3> DEFINE c == Trim(job, Pitch)
    <3>1. Chained(c, job)
      BY <2>0, TrimFacts, MenusStay
    <3>2. chain' = c /\ post' = (IF c = <<>> THEN "there" ELSE "step")
      BY <2>2 DEF Follow
    <3>3. slips' = {} => slips = {} /\ view \notin Nav(job)
      BY <2>0, <2>2 DEF Misses, Slip, Navigating
    <3>4. slips' = {} => from \notin Own(job)
      BY <2>0, <3>3 DEF NavInv, OnTheWay, Own
    <3>5. c # <<>>
      BY <3>1 DEF Chained
    <3> HIDE DEF c
    <3> QED BY <2>0, <3>1, <3>2, <3>4, <3>5 DEF NavInv
  <2> QED BY <1>2, <2>1, <2>2 DEF Scan
<1> QED BY <1>1, <1>2

\* Every key leads where the next transition begins, if it arrives.
LEMMA KeysKeep ==
  ASSUME NavInv, EndsEarly \/ NextTransition \/ PressKey \/ NoInput \/ PressAgain \/ NotReached
  PROVE  NavInv'
<1>1. ASSUME EndsEarly PROVE NavInv'
  BY <1>1 DEF EndsEarly, FromTo, Sees, wayVars, NavInv, OnTheWay
<1>2. ASSUME NextTransition PROVE NavInv'
  <2>1. post = "step" /\ post' = "press" /\ way' = chain[1] /\ UNCHANGED <<view, job, chain, from>>
    BY <1>2 DEF NextTransition, Begin, wayVars
  <2>2. slips' = {} => slips = {}
    BY <1>2 DEF NextTransition, Misses, Slip
  <2> QED BY <2>1, <2>2 DEF NavInv, OnTheWay
<1>3. ASSUME PressKey PROVE NavInv'
  <2>1. /\ (post = "press" /\ post' = "look") \/ (post = "run" /\ post' = "check")
        /\ UNCHANGED <<job, chain, from, way>> /\ Types(Entry(way)[3])
    BY <1>3 DEF PressKey, FromTo, wayVars
  <2>2. CASE post = "press"
    <3>1. way \in Ways /\ way = chain[1] /\ Chained(chain, job)
      BY <2>2, FirstWay DEF NavInv
    <3>2. ASSUME slips' = {}, from \in Own(job) PROVE view' = Target(way)
      <4>1. slips = {}
        BY <2>1, <3>2 DEF Types, Slip
      <4>2. view = way[1]
        BY <2>2, <3>2, <4>1 DEF NavInv, OnTheWay
      <4>3. Leads(view, Entry(way)[3]) = {Target(way)}
        BY <3>1, <4>2, WayFacts
      <4>4. view' \in Leads(view, Entry(way)[3])
        BY <2>1, <2>2, <3>2, <4>3 DEF Types, Slip, Navigating
      <4> QED BY <4>3, <4>4
    <3> QED BY <2>1, <2>2, <3>1, <3>2 DEF NavInv, OnTheWay
  <2>3. CASE post = "run"
    BY <2>1, <2>3 DEF NavInv, OnTheWay
  <2> QED BY <2>1, <2>2, <2>3
<1>4. ASSUME NoInput PROVE NavInv'
  <2>1. CASE FromTo("press", "lost")
    <3>1. slips' # {} /\ post' = "lost" /\ job' = job
      BY <1>4, <2>1 DEF NoInput, FromTo, Slip, Navigating, wayVars
    <3> QED BY <3>1 DEF NavInv
  <2>2. CASE FromTo("run", "dismiss")
    BY <1>4, <2>2 DEF NoInput, FromTo, NavInv, OnTheWay, wayVars
  <2> QED BY <1>4, <2>1, <2>2 DEF NoInput
<1>5. ASSUME PressAgain \/ NotReached PROVE NavInv'
  <2>1. /\ UNCHANGED <<view, job, chain, from, way>> /\ Misses({Target(way)})
        /\ (post = "look" /\ post' \in {"press", "lost"}) \/ (post = "check" /\ post' \in {"run", "dismiss"})
    BY <1>5 DEF PressAgain, NotReached, FromTo, wayVars
  <2>2. CASE post = "look"
    <3>1. slips' = {} => slips = {} /\ view # Target(way)
      BY <2>1, <2>2 DEF Misses, Slip, Navigating
    <3>2. ~(slips' = {} /\ from \in Own(job))
      BY <2>2, <3>1 DEF NavInv, OnTheWay
    <3> QED BY <2>1, <2>2, <3>2 DEF NavInv
  <2>3. CASE post = "check"
    BY <2>1, <2>3 DEF NavInv, OnTheWay
  <2> QED BY <2>1, <2>2, <2>3
<1> QED BY <1>1, <1>2, <1>3, <1>4, <1>5

\* What is left of a chain after its first transition.
LEMMA TailOfChain ==
  ASSUME NEW c \in Seq(Ways), Len(c) >= 1
  PROVE  Tail(c) = (IF Len(c) = 1 THEN <<>> ELSE SubSeq(c, 2, Len(c))) /\ (Len(c) # 1 => Tail(c) # <<>>)
<1>1. c # <<>> /\ Len(c) \in Nat
  BY LenProperties
<1>2. Tail(c) = SubSeq(c, 2, Len(c)) /\ Len(Tail(c)) = Len(c) - 1
  BY <1>1, TailIsSubSeq, HeadTailProperties
<1>3. Len(c) = 1 => SubSeq(c, 2, Len(c)) = <<>>
  BY SubSeqEmpty
<1>4. Len(c) # 1 => Tail(c) # <<>>
  BY <1>1, <1>2, EmptySeq
<1> QED BY <1>2, <1>3, <1>4

\* At the end of a transition the next one begins, or the job is done.
LEMMA ReachedKeeps ==
  ASSUME NavInv, Reached
  PROVE  NavInv'
<1>0. view \in {Target(way)} /\ slips' = slips /\ UNCHANGED <<view, job, way, left, from, pitched>>
  BY DEF Reached, Sees
<1>1. CASE post = "look" /\ Follow(Tail(chain))
  <2> DEFINE c == Tail(chain)
  <2>1. Chained(chain, job) /\ way = chain[1] /\ chain \in Seq(Ways) /\ Len(chain) \in Nat /\ Len(chain) >= 1
    BY <1>1, FirstWay DEF NavInv
  <2>2. chain' = c /\ post' = IF c = <<>> THEN "there" ELSE "step"
    BY <1>1 DEF Follow
  <2>3. c = (IF Len(chain) = 1 THEN <<>> ELSE SubSeq(chain, 2, Len(chain))) /\ (Len(chain) # 1 => c # <<>>)
    BY <2>1, TailOfChain
  <2> HIDE DEF c
  <2>4. CASE Len(chain) = 1
    <3>1. Target(way) \in Complete(job)
      BY <2>1, <2>4 DEF Chained
    <3> QED BY <1>0, <2>2, <2>3, <2>4, <3>1 DEF NavInv, OnTheWay
  <2>5. CASE Len(chain) # 1
    <3>1. 2 \in 1..Len(chain) /\ 1 \in 1..(Len(chain) - 1)
      <4> DEFINE n == Len(chain)
      <4>1. n \in Nat /\ n >= 1 /\ n # 1
        BY <2>1, <2>5
      <4> HIDE DEF n
      <4>2. 2 \in 1..n /\ 1 \in 1..(n - 1)
        BY ONLY <4>1
      <4> QED BY <4>2 DEF n
    <3>2. Chained(c, job) /\ c[1] = chain[2]
      BY <2>1, <2>3, <2>5, <3>1, RestIsLinked
    <3>3. Target(chain[1]) = chain[2][1]
      <4>1. Target(chain[1]) = chain[1 + 1][1]
        BY <2>1, <3>1 DEF Chained
      <4> QED BY <4>1
    <3> QED BY <1>0, <2>1, <2>2, <2>3, <2>5, <3>2, <3>3 DEF NavInv, OnTheWay
  <2> QED BY <2>4, <2>5
<1>2. CASE FromTo("check", "dismiss") /\ UNCHANGED chain
  BY <1>0, <1>2 DEF FromTo, NavInv, OnTheWay
<1> QED BY <1>1, <1>2 DEF Reached

\* Outside a navigation nothing is asked.
LEMMA ElsewhereKeeps ==
  ASSUME NavInv, post' \in {"idle", "dismiss", "run", "check", "centre", "back", "play"}, job' = job
  PROVE  NavInv'
  BY DEF NavInv, OnTheWay

\* A transition is pressed for once at least, and within the bound.
PressesLeft == post \in {"press", "run"} => left >= 1

LEMMA TimesAre == \A w \in Ways : Times(w) \in 1..Presses
<1> SUFFICES ASSUME NEW w \in Ways PROVE Times(w) \in 1..Presses
  OBVIOUS
<1>1. \A t \in Transitions : t[4] \in Nat /\ t[4] >= 1
  BY DEF Transitions, MenuTransitions, OpponentTransitions
<1>2. Entry(w) \in Transitions
  BY DEF Ways, Entry
<1> QED BY <1>1, <1>2, PressesAssumption DEF Times

LEMMA KeysLeadToViews == \A s, key : Leads(s, key) \subseteq View
<1>1. \A e \in Elsewhere : e[3] \in View
  <2>1. \A e \in Elsewhere : e[3] \in {Centre, 152, 147, 184, 102, Pitch}
    BY DEF Elsewhere
  <2>2. {Centre, 152, 184, 102} \subseteq {e[1] : e \in Elsewhere}
    <3>1. <<Centre, B, 152>> \in Elsewhere /\ <<152, B, 147>> \in Elsewhere /\ <<184, A, 102>> \in Elsewhere
          /\ <<102, A, Pitch>> \in Elsewhere
      BY DEF Elsewhere
    <3>2. <<Centre, B, 152>>[1] = Centre /\ <<152, B, 147>>[1] = 152 /\ <<184, A, 102>>[1] = 184
          /\ <<102, A, Pitch>>[1] = 102
      OBVIOUS
    <3> QED BY <3>1, <3>2
  <2>3. 147 \in {t[1] : t \in Transitions}
    <3>1. <<147, 1, 4, 2, 149>> \in Transitions /\ <<147, 1, 4, 2, 149>>[1] = 147
      BY DEF Transitions, MenuTransitions
    <3> QED BY <3>1
  <2> QED BY <2>1, <2>2, <2>3 DEF View
<1>2. \A t \in Transitions : t[5] \in View
  BY DEF View
<1> QED BY <1>1, <1>2 DEF Leads

\* Every screen of the table has a transition with the number 1.
LEMMA FirstEntries == \A s : HasEntry(s) => <<s, 1>> \in Ways
<1>1. ASSUME NEW t \in Transitions PROVE \E u \in Transitions : u[1] = t[1] /\ u[2] = 1
  <2>1. CASE t \in MenuTransitions
    <3>1. \A x \in MenuTransitions : x[2] = 1 \/ x[1] \in {147, 149}
      BY DEF MenuTransitions
    <3>2. <<147, 1, 4, 2, 149>> \in Transitions /\ <<149, 1, A, 1, 155>> \in Transitions
      BY DEF Transitions, MenuTransitions
    <3>3. <<147, 1, 4, 2, 149>>[1] = 147 /\ <<147, 1, 4, 2, 149>>[2] = 1
          /\ <<149, 1, A, 1, 155>>[1] = 149 /\ <<149, 1, A, 1, 155>>[2] = 1
      OBVIOUS
    <3> QED BY <2>1, <3>1, <3>2, <3>3
  <2>2. CASE t \in OpponentTransitions
    <3>1. \A x \in OpponentTransitions : x[2] = 1 \/ x[1] = 177
      BY DEF OpponentTransitions
    <3>2. <<177, 1, 256, 1, 176>> \in Transitions /\ <<177, 1, 256, 1, 176>>[1] = 177
          /\ <<177, 1, 256, 1, 176>>[2] = 1
      BY DEF Transitions, OpponentTransitions
    <3> QED BY <2>2, <3>1, <3>2
  <2> QED BY <2>1, <2>2 DEF Transitions
<1> QED BY <1>1 DEF HasEntry, Ways

LEMMA RestTypes ==
  ASSUME NEW c \in Seq(Ways), NEW m \in 1..Len(c)
  PROVE  SubSeq(c, m, Len(c)) \in Seq(Ways) /\ Len(SubSeq(c, m, Len(c))) = Len(c) - m + 1
  OBVIOUS

LEMMA LongerTypes ==
  ASSUME NEW w \in Ways, NEW c \in Seq(Ways)
  PROVE  <<w>> \o c \in Seq(Ways) /\ Len(<<w>> \o c) = Len(c) + 1
  OBVIOUS

LEMMA TrimTypes ==
  ASSUME NEW j \in {"sqb", "auction"}, NEW s
  PROVE  Trim(j, s) \in Seq(Ways) /\ Len(Trim(j, s)) <= 7
<1>1. Trim(j, s) \in Seq(Ways)
  <2>1. <<>> \in Seq(Ways)
    OBVIOUS
  <2> QED BY <2>1, TrimFacts DEF Chained
<1>2. CASE j = "auction"
  <2>1. Len(<< <<149, 2>> >>) = 1 /\ Len(<< <<147, 2>> >>) = 1 /\ Len(<< <<127, 1>>, <<147, 2>> >>) = 2
    OBVIOUS
  <2>2. Trim(j, s) \in {<<>>, << <<149, 2>> >>, << <<147, 2>> >>, << <<127, 1>>, <<147, 2>> >>}
    BY <1>2 DEF Trim, TrimAuction
  <2>3. Len(<<>>) = 0
    OBVIOUS
  <2>4. Len(Trim(j, s)) \in {0, 1, 2}
    BY ONLY <2>1, <2>2, <2>3
  <2>5. \A n \in {0, 1, 2} : n <= 7
    OBVIOUS
  <2> QED BY ONLY <1>1, <2>4, <2>5
<1>3. CASE j = "sqb"
  <2> DEFINE at == {i \in DOMAIN SqbChain : SqbChain[i][1] = s}
             r == SubSeq(SqbChain, 6, 7)
             w == <<s, 1>>
  <2>1. SqbChain \in Seq(Ways) /\ Len(SqbChain) = 7 /\ DOMAIN SqbChain = 1..7
    BY SqbIsLinked DEF Chained
  <2>2. \A m \in 1..7 : SubSeq(SqbChain, m, 7) \in Seq(Ways) /\ Len(SubSeq(SqbChain, m, 7)) = 7 - m + 1
    BY <2>1, RestTypes
  <2>3. r \in Seq(Ways) /\ Len(r) = 2
    BY <2>2
  <2>4. Trim(j, s) = TrimSqb(s)
    BY <1>3 DEF Trim
  <2>5. CASE s = 189
    <3>1. at = {}
      <4>1. \A m \in 1..7 : SqbChain[m][1] # 189
        BY DEF SqbChain
      <4> QED BY <2>1, <2>5, <4>1
    <3>2. TrimSqb(s) = <<>>
      BY <2>5, <3>1 DEF TrimSqb
    <3> QED BY <1>1, <2>4, <3>2
  <2>6. CASE s # 189 /\ at # {}
    <3>1. s \notin 169..174
      <4>1. \A m \in 1..7 : SqbChain[m][1] \notin 169..174
        BY DEF SqbChain
      <4> QED BY <2>1, <2>6, <4>1
    <3>2. TrimSqb(s) = SubSeq(SqbChain, CHOOSE m \in at : TRUE, 7)
      BY <2>1, <2>6, <3>1 DEF TrimSqb
    <3>3. (CHOOSE m \in at : TRUE) \in 1..7
      BY <2>1, <2>6
    <3> DEFINE m == CHOOSE i \in at : TRUE
    <3>4. m \in 1..7 /\ Trim(j, s) = SubSeq(SqbChain, m, 7)
      BY <2>4, <3>2, <3>3
    <3> HIDE DEF m
    <3>5. Len(Trim(j, s)) = 7 - m + 1
      BY ONLY <2>2, <3>4
    <3> QED BY <1>1, <3>4, <3>5
  <2>7. CASE s # 189 /\ at = {} /\ s \in 169..174
    <3>1. TrimSqb(s) = <<w>> \o r
      BY <2>1, <2>7 DEF TrimSqb
    <3>2. w \in Ways
      BY <2>7, Opponents
    <3> HIDE DEF r, w
    <3>3. Len(<<w>> \o r) = 3
      BY <2>3, <3>2, LongerTypes
    <3> QED BY <1>1, <2>4, <3>1, <3>3
  <2>8. CASE s # 189 /\ at = {} /\ s \notin 169..174
    <3>1. TrimSqb(s) = SqbChain
      BY <2>1, <2>8 DEF TrimSqb
    <3>2. Len(Trim(j, s)) = 7
      BY ONLY <2>1, <2>4, <3>1
    <3> QED BY <1>1, <3>2
  <2> QED BY <2>5, <2>6, <2>7, <2>8
<1> QED BY <1>1, <1>2, <1>3

NavTyped == NavInv /\ NavTypeOK /\ PressesLeft

LEMMA NavTypedInit == NavInit => NavTyped
<1> SUFFICES ASSUME NavInit PROVE NavTyped
  OBVIOUS
<1>1. view \in View /\ from \in View
  <2>1. /\ <<101, 1, A, 1, 126>> \in Transitions /\ <<126, 1, 512, 20, 127>> \in Transitions
        /\ <<127, 1, A, 20, 147>> \in Transitions /\ <<149, 1, A, 1, 155>> \in Transitions
    BY DEF Transitions, MenuTransitions
  <2>2. /\ <<101, 1, A, 1, 126>>[1] = 101 /\ <<126, 1, 512, 20, 127>>[1] = 126
        /\ <<127, 1, A, 20, 147>>[1] = 127 /\ <<127, 1, A, 20, 147>>[5] = 147
        /\ <<149, 1, A, 1, 155>>[1] = 149
    OBVIOUS
  <2>3. UtTargets \subseteq View
    BY <2>1, <2>2 DEF UtTargets, View
  <2> QED BY <2>3 DEF NavInit, View
<1>2. way \in Ways /\ chain \in Seq(Ways) /\ Len(chain) <= Len(SqbChain)
  <2>1. <<>> \in Seq(Ways) /\ Len(<<>>) <= 7
    OBVIOUS
  <2> QED BY <2>1, Targets, SqbIsLinked DEF NavInit
<1>3. pitched \in BOOLEAN /\ left \in 0..Presses /\ slips \subseteq {"press", "screen", "person"}
  <2>1. pitched \in BOOLEAN
    BY DEF NavInit
  <2>2. left \in 0..Presses
    BY PressesAssumption DEF NavInit
  <2>3. slips \subseteq {"press", "screen", "person"}
    BY DEF NavInit
  <2> QED BY <2>1, <2>2, <2>3
<1> QED BY <1>1, <1>2, <1>3, NavInvInit DEF NavInit, NavTyped, NavTypeOK, PressesLeft

\* What is seen, and what goes wrong, stays among the screens and the slips.
LEMMA KeysType ==
  ASSUME NavTypeOK, NEW key, Types(key)
  PROVE  view' \in View /\ slips' \subseteq {"press", "screen", "person"}
  BY KeysLeadToViews DEF NavTypeOK, Types, Slip

LEMMA MissesType ==
  ASSUME NavTypeOK, NEW scenes, Sees(scenes) \/ Misses(scenes)
  PROVE  slips' \subseteq {"press", "screen", "person"}
  BY DEF NavTypeOK, Sees, Misses, Slip

\* Where Step 4 is, when it is nowhere in a navigation or pressing.
Posts == {"idle", "scan", "step", "press", "look", "there", "dismiss", "run", "check",
          "centre", "back", "play", "lost"}

LEMMA NavTypeStep ==
  ASSUME NavTyped, NavNext
  PROVE  NavTypeOK' /\ PressesLeft'
<1>0. /\ view \in View /\ from \in View /\ job \in {"sqb", "auction"} /\ post \in Posts
      /\ chain \in Seq(Ways) /\ Len(chain) <= 7 /\ way \in Ways
      /\ left \in 0..Presses /\ slips \subseteq {"press", "screen", "person"} /\ pitched \in BOOLEAN
      /\ NavTypeOK /\ PressesLeft /\ NavInv
  BY SqbIsLinked DEF NavTyped, NavTypeOK, Posts
<1>1. Presses \in Nat /\ Presses >= 1 /\ <<147, 1>> \in Ways /\ Pitch \in View /\ <<>> \in Seq(Ways) /\ Len(<<>>) = 0
  BY PressesAssumption, Targets DEF View
\* What a step has to leave.
<1>2. ASSUME view' \in View, from' \in View, job' \in {"sqb", "auction"}, post' \in Posts,
             chain' \in Seq(Ways), Len(chain') <= 7, way' \in Ways, left' \in 0..Presses,
             slips' \subseteq {"press", "screen", "person"}, pitched' \in BOOLEAN,
             post' \in {"press", "run"} => left' >= 1
      PROVE  NavTypeOK' /\ PressesLeft'
  <2>1. Len(SqbChain) = 7
    BY SqbIsLinked
  <2> QED BY <1>2, <2>1 DEF NavTypeOK, PressesLeft, Posts
<1>3. CASE GameGoesOn \/ \E s \in View : Person(s)
  <2>1. UNCHANGED <<job, chain, from, post, way, left>>
    BY <1>3 DEF GameGoesOn, Person, wayVars
  <2>2. view' \in View /\ slips' \subseteq {"press", "screen", "person"} /\ pitched' \in BOOLEAN
    <3>1. 193 \in View
      <4>1. <<193, A, 147>> \in Elsewhere /\ <<193, A, 147>>[1] = 193
        BY DEF Elsewhere
      <4> QED BY <4>1 DEF View
    <3> QED BY <1>0, <1>1, <1>3, <3>1 DEF GameGoesOn, Person, Slip
  <2> QED BY <1>0, <1>2, <2>1, <2>2 DEF PressesLeft
<1>4. CASE \E j \in {"sqb", "auction"} : NavigateTo(j)
  <2>1. /\ post' = "scan" /\ from' = view /\ pitched' = FALSE /\ job' \in {"sqb", "auction"}
        /\ UNCHANGED <<view, chain, way, left, slips>>
    BY <1>4 DEF NavigateTo, FromTo
  <2> QED BY <1>0, <1>2, <2>1 DEF Posts
<1>5. CASE Scan
  <2>1. UNCHANGED <<view, job, way, left, from, pitched>> /\ \E s : Follow(Trim(job, s))
    BY <1>5 DEF Scan
  <2>2. PICK s : Follow(Trim(job, s))
    BY <2>1
  <2>3. chain' \in Seq(Ways) /\ Len(chain') <= 7 /\ post' \in {"there", "step"}
    BY <1>0, <2>2, TrimTypes DEF Follow
  <2>4. slips' \subseteq {"press", "screen", "person"}
    BY <1>0, <1>5, MissesType DEF Scan
  <2> QED BY <1>0, <1>2, <2>1, <2>3, <2>4 DEF Posts
<1>6. CASE EndsEarly \/ NextTransition
  <2>1. UNCHANGED <<view, job, chain, from, pitched>>
    BY <1>6 DEF EndsEarly, NextTransition, wayVars
  <2>2. slips' \subseteq {"press", "screen", "person"}
    BY <1>0, <1>6, MissesType DEF EndsEarly, NextTransition
  <2>3. CASE EndsEarly
    BY <1>0, <1>2, <2>1, <2>2, <2>3 DEF EndsEarly, FromTo, Posts
  <2>4. CASE NextTransition
    <3>1. way' = chain[1] /\ left' = Times(chain[1]) /\ post' = "press" /\ chain[1] \in Ways
      BY <1>0, <2>4, FirstWay DEF NextTransition, Begin, NavInv
    <3>2. left' \in 1..Presses
      BY <3>1, TimesAre
    <3> QED BY <1>0, <1>1, <1>2, <2>1, <2>2, <3>1, <3>2 DEF Posts
  <2> QED BY <1>6, <2>3, <2>4
<1>7. CASE PressKey \/ NoInput
  <2>1. UNCHANGED <<job, chain, from, pitched, way>> /\ post \in {"press", "run"}
    BY <1>7 DEF PressKey, NoInput, FromTo, wayVars
  <2>2. post' \in {"look", "check", "lost", "dismiss"} /\ left' \in 0..Presses
    BY <1>0, <1>1, <1>7, <2>1 DEF PressKey, NoInput, FromTo, PressesLeft
  <2>3. view' \in View /\ slips' \subseteq {"press", "screen", "person"}
    BY <1>0, <1>7, KeysType DEF PressKey, NoInput, Slip
  <2> QED BY <1>0, <1>2, <2>1, <2>2, <2>3 DEF Posts
<1>8. CASE Reached
  <2>1. UNCHANGED <<view, job, way, left, from, pitched, slips>>
    BY <1>8 DEF Reached, Sees
  <2>2. chain' \in Seq(Ways) /\ Len(chain') <= 7 /\ post' \in {"there", "step", "dismiss"}
    <3>1. CASE post = "look" /\ Follow(Tail(chain))
      <4>1. chain # <<>> /\ Len(chain) \in Nat /\ Len(chain) >= 1
        BY <1>0, <3>1, FirstWay DEF NavInv
      <4>2. Tail(chain) \in Seq(Ways) /\ Len(Tail(chain)) = Len(chain) - 1
        BY <1>0, <4>1, HeadTailProperties
      <4>3. Len(Tail(chain)) <= 7
        BY <1>0, <4>1, <4>2
      <4> QED BY <3>1, <4>2, <4>3 DEF Follow
    <3>2. CASE FromTo("check", "dismiss") /\ UNCHANGED chain
      BY <1>0, <3>2 DEF FromTo
    <3> QED BY <1>8, <3>1, <3>2 DEF Reached
  <2> QED BY <1>0, <1>2, <2>1, <2>2 DEF Posts
<1>9. CASE PressAgain \/ NotReached
  <2>1. UNCHANGED <<view, job, chain, from, pitched, way, left>>
    BY <1>9 DEF PressAgain, NotReached, wayVars
  <2>2. slips' \subseteq {"press", "screen", "person"}
    BY <1>0, <1>9, MissesType DEF PressAgain, NotReached
  <2>3. post' \in Posts /\ (post' \in {"press", "run"} => left' >= 1)
    BY <1>0, <1>1, <1>9, <2>1 DEF PressAgain, NotReached, FromTo, Posts
  <2> QED BY <1>0, <1>2, <2>1, <2>2, <2>3
<1>10. CASE SkipRound \/ KickOff \/ EnterCentre
  <2>1. /\ chain' = <<>> /\ way' = <<147, 1>> /\ left' = 0 /\ from' = Pitch /\ slips' = {}
        /\ UNCHANGED <<job, pitched>> /\ post' \in {"idle", "dismiss"}
    BY <1>10 DEF SkipRound, KickOff, EnterCentre, Returns, FromTo
  <2>2. view' \in View
    BY <1>0, <1>10, KeysLeadToViews DEF SkipRound, KickOff, EnterCentre
  <2> QED BY <1>0, <1>1, <1>2, <2>1, <2>2 DEF Posts
<1>11. CASE Dismissed \/ DismissByTable
  <2>1. UNCHANGED <<view, job, chain, from, pitched>> /\ slips' = slips
    BY <1>11 DEF Dismissed, DismissByTable, Sees, wayVars
  <2>2. CASE Dismissed
    BY <1>0, <1>1, <1>2, <2>1, <2>2 DEF Dismissed, Posts
  <2>3. CASE DismissByTable
    <3>1. way' = <<view, 1>> /\ left' = Times(<<view, 1>>) /\ post' = "run" /\ <<view, 1>> \in Ways
      BY <2>3, FirstEntries DEF DismissByTable, Begin
    <3>2. left' \in 1..Presses
      BY <3>1, TimesAre
    <3> QED BY <1>0, <1>1, <1>2, <2>1, <3>1, <3>2 DEF Posts
  <2> QED BY <1>11, <2>2, <2>3
<1>12. CASE DismissByA \/ Tick
  <2>1. UNCHANGED <<job, chain, from, post, way, left>> /\ pitched' \in BOOLEAN /\ Types(A)
    BY <1>0, <1>12 DEF DismissByA, Tick, wayVars
  <2>2. view' \in View /\ slips' \subseteq {"press", "screen", "person"}
    BY <1>0, <2>1, KeysType
  <2> QED BY <1>0, <1>2, <2>1, <2>2 DEF PressesLeft
<1>13. CASE DismissTimesOut
  <2>1. UNCHANGED <<view, job, chain, from, slips, pitched>> /\ way' = <<147, 1>>
        /\ post' \in {"idle", "back"} /\ left' \in {0, Presses}
    BY <1>13 DEF DismissTimesOut, wayVars
  <2> QED BY <1>0, <1>1, <1>2, <2>1 DEF Posts
<1>14. CASE BackOut
  <2>1. UNCHANGED <<job, chain, from, way, pitched>> /\ post' \in {"idle", "back"}
    BY <1>14 DEF BackOut, wayVars
  <2>2. left' \in 0..Presses
    BY <1>0, <1>1, <1>14 DEF BackOut
  <2>3. view' \in View /\ slips' \subseteq {"press", "screen", "person"}
    BY <1>0, <1>14, KeysType DEF BackOut
  <2> QED BY <1>0, <1>2, <2>1, <2>2, <2>3 DEF Posts
<1>15. CASE MatchEnded \/ MatchTimesOut
  <2>1. UNCHANGED <<view, job, chain, from, way, left, slips, pitched>> /\ post' = "idle"
    BY <1>15 DEF MatchEnded, MatchTimesOut, FromTo, Sees, wayVars
  <2> QED BY <1>0, <1>2, <2>1 DEF Posts
<1> QED BY <1>3, <1>4, <1>5, <1>6, <1>7, <1>8, <1>9, <1>10, <1>11, <1>12, <1>13, <1>14, <1>15
        DEF NavNext

LEMMA NavInvStep == NavInv /\ [NavNext]_navVars => NavInv'
<1>1. ASSUME NavInv, \/ SkipRound \/ KickOff \/ EnterCentre \/ Dismissed \/ DismissByTable \/ DismissByA
                     \/ DismissTimesOut \/ BackOut \/ Tick \/ MatchEnded \/ MatchTimesOut
      PROVE  NavInv'
  <2>1. /\ post' \in {"idle", "dismiss", "run", "check", "centre", "back", "play"}
        /\ job' = job
    BY <1>1 DEF SkipRound, KickOff, EnterCentre, Dismissed, DismissByTable, DismissByA,
       DismissTimesOut, BackOut, Tick, MatchEnded, MatchTimesOut, FromTo, Begin, wayVars
  <2> QED BY <1>1, <2>1, ElsewhereKeeps
<1>2. NavInv /\ NavNext => NavInv'
  BY <1>1, OutsideKeeps, BeginsKeep, KeysKeep, ReachedKeeps DEF NavNext
<1>3. NavInv /\ UNCHANGED navVars => NavInv'
  BY DEF NavInv, OnTheWay, Navigating, navVars
<1> QED BY <1>2, <1>3

LEMMA NavTypedStep == NavTyped /\ [NavNext]_navVars => NavTyped'
<1>1. NavTyped /\ NavNext => NavTyped'
  BY NavTypeStep, NavInvStep DEF NavTyped
<1>2. ASSUME NavTyped, UNCHANGED navVars PROVE NavTyped'
  <2>1. NavInv'
    BY <1>2, NavInvStep DEF NavTyped
  <2>2. NavTypeOK' /\ PressesLeft'
    BY <1>2 DEF NavTyped, NavTypeOK, PressesLeft, navVars
  <2> QED BY <2>1, <2>2 DEF NavTyped
<1> QED BY <1>1, <1>2

\* A navigation that says it has arrived has, and one that gives up without anything having
\* gone wrong outside the code did not begin at a screen with a chain of its own.
THEOREM TheWayIsFound == NavSpec => []WayIsFound
<1>1. NavInv /\ [NavNext]_navVars => NavInv'
  BY NavInvStep
<1>2. NavInv => WayIsFound
  BY DEF NavInv, OnTheWay, WayIsFound
<1> QED BY <1>1, <1>2, NavInvInit, PTL DEF NavSpec
=============================================================================
