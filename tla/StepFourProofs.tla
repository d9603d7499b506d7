---------------------------- MODULE StepFourProofs ----------------------------
(* Proofs about a session and its Step 4 (SessionControl, StepFour).         *)
EXTENDS StepFour, WellFoundedInduction, TLAPS

-----------------------------------------------------------------------------
(* first_incomplete_account_index finds the first account with work left, or *)
(* the index after the last.                                                 *)

\* A set of numbers has a least one.
LEMMA LeastNumber ==
  ASSUME NEW S \in SUBSET Nat, S # {} PROVE \E n \in S : \A m \in S : n <= m
<1>1. PICK n \in S : \A m \in S : ~(<<m, n>> \in OpToRel(<, Nat))
  BY WFMin, NatLessThanWellFounded
<1>2. \A m \in S : ~(m < n)
  BY <1>1 DEF OpToRel
<1> QED BY <1>2

LEMMA FirstIncompleteFacts ==
  /\ FirstIncomplete \in 1..(Accounts + 1)
  /\ \A a \in Account : a < FirstIncomplete => ~Remaining(a)
<1> USE FourAssumption
<1> DEFINE Left == {i \in 1..(Accounts + 1) : i \in Account => Remaining(i)}
<1>1. Accounts + 1 \in Left
  BY DEF Account
<1>2. Left \in SUBSET Nat
  OBVIOUS
<1>3. PICK n \in Left : \A m \in Left : n <= m
  BY <1>1, <1>2, LeastNumber
<1>4. \A j \in 1..(n - 1) : ~Remaining(j)
  BY <1>3 DEF Account
<1>5. n \in 1..(Accounts + 1) /\ (n \in Account => Remaining(n))
  BY <1>3
<1>6. FirstIncomplete \in 1..(Accounts + 1) /\ \A j \in 1..(FirstIncomplete - 1) : ~Remaining(j)
  BY <1>4, <1>5, Zenon DEF FirstIncomplete
<1> QED BY <1>6 DEF Account

-----------------------------------------------------------------------------
(* The inductive invariant. *)

\* Step 4 handles an account whenever it has left the loop's top, and has a match to
\* play when it plays one.
FourTied ==
  /\ four \notin {"off", "account"} => acct \in Account
  /\ four \in {"match", "after"} => done[acct] < Target
  /\ fails < MaxFailures

\* Until Step 4 ends, a round made in the game is a round recorded, and none is asked for
\* again: the one that cannot be recorded takes Step 4 with it.
RoundsTied ==
  /\ four # "off" => \A a \in Account : rounds[a] # 0 => a \in moved
  /\ four = "transfer" => acct \notin moved

\* A session is closed in the phase it had while it opened, or in one of an end: from those
\* no pause comes through, and of the first no resume knows.
Early == {"opening", "authenticating", "discovering", "streaming", "initializing_display",
          "initializing_input"}
OverTied ==
  /\ sess = "over" =>
       /\ ~gate /\ phase \in Early \cup Ended \cup {"closing"}
       /\ "cleanup" \in resolved => phase = "closed"
  /\ resuming > 0 => phase \notin Early

-----------------------------------------------------------------------------
(* Types of the session. *)

LEMMA Phases ==
  /\ Phase = {"opening", "authenticating", "discovering", "streaming", "initializing_display",
              "initializing_input", "ready", "automating", "automation_failed", "paused_immediate",
              "paused_after_match", "closing", "closed", "failed"}
  /\ Len(Opening) = 6 /\ \A i \in 1..6 : Opening[i] \in Phase
<1>1. DOMAIN Opening = 1..6 /\ Len(Opening) = 6
  BY DEF Opening
<1>2. /\ Opening[1] = "authenticating" /\ Opening[2] = "discovering" /\ Opening[3] = "streaming"
      /\ Opening[4] = "initializing_display" /\ Opening[5] = "initializing_input" /\ Opening[6] = "ready"
  BY DEF Opening
<1>3. 1..6 = {1, 2, 3, 4, 5, 6}
  OBVIOUS
<1>4. \A i \in 1..6 : Opening[i] \in Phase
  BY <1>1 DEF Phase
<1>5. {Opening[i] : i \in DOMAIN Opening} =
      {"authenticating", "discovering", "streaming", "initializing_display", "initializing_input", "ready"}
  BY <1>1, <1>2, <1>3
<1> QED BY <1>1, <1>4, <1>5 DEF Phase, Paused, Ended

\* An illegal transition leaves the phase.
LEMMA PhaseMoves ==
  ASSUME phase \in Phase, begun \in BOOLEAN, NEW q \in Phase, SetPhase(q)
  PROVE  phase' \in Phase /\ begun' \in BOOLEAN
<1>1. phase' \in {phase, q}
  BY DEF SetPhase, Moved
<1>2. begun' \in BOOLEAN
  BY DEF SetPhase
<1> QED BY <1>1, <1>2

\* The phases of the opening are never come back to.
LEMMA EarlyIsLeft ==
  ASSUME phase \in Phase, NEW q, SetPhase(q) PROVE phase' \in Early => phase \in Early
BY Phases DEF SetPhase, Moved, AllowedFrom, Early, Paused, Ended

\* What the actions of the session, of Step 4 and of the messages set.
LEMMA FailedTypes ==
  ASSUME SessionTypeOK, Failed PROVE SessionTypeOK' /\ sess' \in {"closing", "top"}
<1> USE DEF SessionTypeOK, SessPC
<1>1. phase' \in Phase /\ begun' \in BOOLEAN
  BY Phases, PhaseMoves DEF Failed
<1>2. gate' \in BOOLEAN /\ start' \in BOOLEAN
  BY DEF Failed
<1> QED BY <1>1, <1>2 DEF Failed

LEMMA StopsTypes ==
  ASSUME SessionTypeOK, NEW mode, Stops(mode)
  PROVE  {paused', after', begun'} \subseteq BOOLEAN /\ phase' \in Phase
<1> USE DEF SessionTypeOK
<1>1. paused' \in BOOLEAN /\ after' \in BOOLEAN
  BY DEF Stops
<1>2. phase' \in Phase /\ begun' \in BOOLEAN
  BY Phases, PhaseMoves DEF Stops
<1> QED BY <1>1, <1>2

LEMMA StartableIsBoolean == Startable \in BOOLEAN
BY DEF Startable

LEMMA SessionTypeStep ==
  ASSUME SessionTypeOK, Lives \/ OpenFails \/ Controlled PROVE SessionTypeOK'
<1> USE SessionAssumption DEF SessionTypeOK, SessPC
<1>1. ASSUME OpenStep PROVE SessionTypeOK'
  <2>1. stage' \in 0..6 /\ stage' \in 1..6 /\ SetPhase(Opening[stage'])
    BY <1>1, Phases DEF OpenStep
  <2>2. phase' \in Phase /\ begun' \in BOOLEAN
    BY <2>1, Phases, PhaseMoves
  <2> QED BY <1>1, <2>1, <2>2, Phases DEF OpenStep
<1>2. ASSUME OpenFails \/ Top \/ Wake \/ Close PROVE SessionTypeOK'
  <2>1. phase' \in Phase /\ begun' \in BOOLEAN
    BY <1>2, Phases, PhaseMoves DEF OpenFails, Top, Wake, Close
  <2>2. gate' \in BOOLEAN
    BY <1>2 DEF OpenFails, Top, Wake, Close
  <2> QED BY <1>2, <2>1, <2>2 DEF OpenFails, Top, Wake, Close
<1>3. ASSUME Arm \/ Hold \/ Begin PROVE SessionTypeOK'
  <2>1. gate' \in BOOLEAN /\ start' \in BOOLEAN
    BY <1>3 DEF Arm, Hold, Begin
  <2> QED BY <1>3, <2>1 DEF Arm, Hold, Begin
<1>4. ASSUME PauseAfterMatch \/ PauseEnd PROVE SessionTypeOK'
  <2>1. {paused', after', begun'} \subseteq BOOLEAN /\ phase' \in Phase
    BY <1>4, StopsTypes DEF PauseAfterMatch, PauseEnd
  <2>2. before' \in BOOLEAN
    BY <1>4, StartableIsBoolean DEF PauseAfterMatch, PauseEnd
  <2> QED BY <1>4, <2>1, <2>2 DEF PauseAfterMatch, PauseEnd
<1>5. ASSUME PauseBegin \/ ResumeBegin PROVE SessionTypeOK'
  <2>1. after' \in BOOLEAN /\ reanchor' \in BOOLEAN
    BY <1>5 DEF PauseBegin, ResumeBegin
  <2>2. before' \in BOOLEAN
    BY <1>5, StartableIsBoolean DEF PauseBegin, ResumeBegin
  <2>3. pausing' \in Nat /\ resuming' \in Nat /\ pausing' + resuming' <= Controls
    BY <1>5 DEF PauseBegin, ResumeBegin, Receives
  <2>4. UNCHANGED <<phase, begun, paused, chosen, start, gate, cancel, stage, sess>>
    BY <1>5 DEF PauseBegin, ResumeBegin
  <2> QED BY <2>1, <2>2, <2>3, <2>4
<1>6. ASSUME ResumeEnd \/ ResumeFails PROVE SessionTypeOK'
  <2>1. phase' \in Phase /\ begun' \in BOOLEAN
    BY <1>6, Phases, PhaseMoves DEF ResumeEnd, ResumeFails
  <2>2. {paused', after', before'} \subseteq BOOLEAN
    BY <1>6 DEF ResumeEnd, ResumeFails
  <2> QED BY <1>6, <2>1, <2>2 DEF ResumeEnd, ResumeFails
<1>7. ASSUME NEW t \in Type \cup {NoType}, StartAutomation(t) PROVE SessionTypeOK'
  <2>1. phase' \in Phase /\ begun' \in BOOLEAN
    BY <1>7, Phases, PhaseMoves DEF StartAutomation
  <2>2. start' \in BOOLEAN /\ chosen' \in Type \cup {NoType}
    BY <1>7 DEF StartAutomation
  <2> QED BY <1>7, <2>1, <2>2 DEF StartAutomation
<1>8. ASSUME TerminateSession PROVE SessionTypeOK'
  <2>1. phase' \in Phase /\ begun' \in BOOLEAN
    BY <1>8, Phases, PhaseMoves DEF TerminateSession
  <2>2. cancel' \in BOOLEAN
    BY <1>8 DEF TerminateSession
  <2> QED BY <1>8, <2>1, <2>2 DEF TerminateSession
<1> QED BY <1>1, <1>2, <1>3, <1>4, <1>5, <1>6, <1>7, <1>8 DEF Lives, Controlled

-----------------------------------------------------------------------------
(* Types of Step 4. *)

FourTypes ==
  /\ acct \in 1..(Accounts + 1) /\ four \in FourPC
  /\ done \in [Account -> 0..Target]
  /\ moved \subseteq Account /\ skipped \subseteq Account /\ excused \subseteq Account
  /\ fails \in 0..MaxFailures /\ {total, sees} \subseteq BOOLEAN
  /\ rounds \in [Account -> 0..2]

FourInv == SessionTypeOK /\ FourTypes /\ FourTied

\* The actions of StepFourNext, named by what they do to the session.
FourAction ==
  \/ FourSteps \/ Breaks \/ CancelSeen \/ InitFails
  \/ \E pc \in {"account", "launch"} : GiveUp(pc)
  \/ \E a \in Skippable : Skip(a)

LEMMA CountedSession ==
  ASSUME SessionTypeOK, NEW ok \in BOOLEAN, Counted(ok) PROVE SessionTypeOK'
<1>1. Stop => SessionTypeOK'
  BY FailedTypes DEF Stop
<1>2. OnlyFour => SessionTypeOK'
  BY DEF OnlyFour, sessionVars, SessionTypeOK
<1> QED BY <1>1, <1>2 DEF Counted

LEMMA FourSession == ASSUME SessionTypeOK, FourAction PROVE SessionTypeOK'
<1>1. OnlyFour => SessionTypeOK'
  BY DEF OnlyFour, sessionVars, SessionTypeOK
<1>2. Stop => SessionTypeOK'
  BY FailedTypes DEF Stop
<1>3. EnterStepFour \/ PassOver \/ SwitchAccount \/ Launched \/ LeaveGame => OnlyFour
  BY DEF EnterStepFour, PassOver, SwitchAccount, Launched, LeaveGame
<1>4. Breaks \/ CancelSeen \/ InitFails => Stop
  BY DEF Breaks, CancelSeen, InitFails
<1>5. TransferRound \/ TransferFails \/ NextMatch => OnlyFour \/ Stop
  BY DEF TransferRound, TransferFails, NextMatch
<1>6. \A pc \in {"account", "launch"} : GiveUp(pc) => OnlyFour
  BY DEF GiveUp
<1>7. \A a \in Skippable : Skip(a) => OnlyFour
  BY DEF Skip
<1>8. ASSUME Reanchor PROVE SessionTypeOK'
  <2>1. reanchor' \in BOOLEAN
    BY <1>8 DEF Reanchor
  <2> QED BY <1>8, <2>1 DEF Reanchor, NoControl, SessionTypeOK
<1>9. ASSUME Finish PROVE SessionTypeOK'
  <2>1. ASSUME Succeeded PROVE SessionTypeOK'
    <3>1. phase' \in Phase /\ begun' \in BOOLEAN
      BY <2>1, Phases, PhaseMoves DEF Succeeded, SessionTypeOK
    <3>2. gate' \in BOOLEAN
      BY <2>1 DEF Succeeded
    <3> QED BY <2>1, <3>1, <3>2 DEF Succeeded, SessionTypeOK, SessPC
  <2> QED BY <1>9, <2>1, FailedTypes DEF Finish
<1>10. ASSUME AskForHelp PROVE SessionTypeOK'
  <2>1. {paused', after', begun'} \subseteq BOOLEAN /\ phase' \in Phase
    BY <1>10, StopsTypes DEF AskForHelp
  <2> QED BY <1>10, <2>1 DEF AskForHelp, NoControl, SessionTypeOK
<1>11. ASSUME Helped PROVE SessionTypeOK'
  <2>1. phase' \in Phase /\ begun' \in BOOLEAN
    BY <1>11, Phases, PhaseMoves DEF Helped, SessionTypeOK
  <2>2. after' \in BOOLEAN
    BY <1>11 DEF Helped
  <2> QED BY <1>11, <2>1, <2>2 DEF Helped, NoControl, SessionTypeOK
<1>12. ASSUME NEW ok \in BOOLEAN, MatchOver(ok) PROVE SessionTypeOK'
  <2>1. CASE after
    <3>1. paused' \in BOOLEAN
      BY <1>12, <2>1 DEF MatchOver
    <3> QED BY <1>12, <2>1, <3>1 DEF MatchOver, NoControl, SessionTypeOK
  <2>2. CASE ~after
    BY <1>12, <2>2, CountedSession DEF MatchOver
  <2> QED BY <2>1, <2>2
<1>13. ASSUME NEW ok \in BOOLEAN, AfterMatch(ok) PROVE SessionTypeOK'
  BY <1>13, CountedSession DEF AfterMatch
<1> QED BY <1>1, <1>2, <1>3, <1>4, <1>5, <1>6, <1>7, <1>8, <1>9, <1>10, <1>11, <1>12, <1>13
        DEF FourAction, FourSteps

\* Step 4 is left: what it had found out is gone.
LEMMA AwayKeeps ==
  ASSUME FourTypes, Away, UNCHANGED <<done, moved, skipped>>, rounds' \in [Account -> 0..2]
  PROVE  FourTypes' /\ FourTied'
<1> USE FourAssumption
<1>1. {total', sees'} \subseteq BOOLEAN
  BY DEF Away
<1>2. acct' \in 1..(Accounts + 1) /\ four' \in FourPC /\ fails' \in 0..MaxFailures /\ excused' \subseteq Account
  BY DEF Away, FourPC
<1>3. FourTied'
  BY DEF FourTied, Away
<1> QED BY <1>1, <1>2, <1>3 DEF FourTypes

LEMMA CountedKeeps ==
  ASSUME FourInv, NEW ok \in BOOLEAN, Counted(ok), four \in {"match", "after"}, UNCHANGED rounds
  PROVE  FourTypes' /\ FourTied'
<1> USE FourAssumption DEF FourInv
<1>1. CASE Stop
  BY <1>1, AwayKeeps DEF Stop, FourTypes
<1>2. CASE ~Stop
  <2>1. four' = "sqb" /\ UNCHANGED <<acct, moved, skipped, sees, excused, rounds>>
    BY <1>2 DEF Counted, skips
  <2>2. acct \in Account /\ done[acct] < Target
    BY DEF FourTied
  <2>3. CASE ok
    <3>1. done' = [done EXCEPT ![acct] = @ + 1] /\ fails' = 0 /\ total' = TRUE
      BY <1>2, <2>3 DEF Counted
    <3>2. done' \in [Account -> 0..Target] /\ total' \in BOOLEAN
      BY <2>2, <3>1 DEF FourTypes
    <3> QED BY <2>1, <2>2, <3>1, <3>2 DEF FourTypes, FourTied, FourPC
  <2>4. CASE ~ok
    <3>1. fails' = fails + 1 /\ fails + 1 # MaxFailures /\ UNCHANGED <<done, total>>
      BY <1>2, <2>4 DEF Counted
    <3> QED BY <2>1, <2>2, <3>1 DEF FourTypes, FourTied, FourPC
  <2> QED BY <2>3, <2>4
<1> QED BY <1>1, <1>2

LEMMA FourKeeps == ASSUME FourInv, FourAction PROVE FourTypes' /\ FourTied'
<1> USE FourAssumption DEF FourInv
<1>0. ASSUME Stop, rounds' \in [Account -> 0..2] PROVE FourTypes' /\ FourTied'
  BY <1>0, AwayKeeps DEF Stop
<1>r. rounds \in [Account -> 0..2] /\ acct \in 1..(Accounts + 1)
  BY DEF FourTypes
<1>1. ASSUME Breaks \/ CancelSeen \/ InitFails PROVE FourTypes' /\ FourTied'
  <2>1. Stop /\ rounds' = rounds
    BY <1>1 DEF Breaks, CancelSeen, InitFails
  <2> QED BY <1>0, <1>r, <2>1
<1>2. ASSUME EnterStepFour PROVE FourTypes' /\ FourTied'
  <2>1. sees' \in BOOLEAN
    BY <1>2 DEF EnterStepFour
  <2>2. done' \in [Account -> 0..Target]
    BY <1>2 DEF EnterStepFour
  <2>3. four' = "account" /\ UNCHANGED <<acct, moved, skipped, fails, total, excused>>
    BY <1>2 DEF EnterStepFour
  <2>4. rounds' \in [Account -> 0..2]
    BY <1>2 DEF EnterStepFour
  <2> QED BY <2>1, <2>2, <2>3, <2>4 DEF FourTypes, FourTied, FourPC
<1>3. ASSUME Reanchor PROVE FourTypes' /\ FourTied'
  BY <1>3, FirstIncompleteFacts DEF Reanchor, FourTypes, FourTied, FourPC, skips
<1>4. ASSUME Finish PROVE FourTypes' /\ FourTied'
  <2>1. Away /\ UNCHANGED <<done, moved, skipped, rounds>>
    BY <1>4 DEF Finish
  <2> QED BY <1>r, <2>1, AwayKeeps
<1>5. ASSUME PassOver \/ (\E pc \in {"account", "launch"} : GiveUp(pc)) \/ LeaveGame
      PROVE FourTypes' /\ FourTied'
  <2>1. acct \in Account /\ acct' = acct + 1 /\ four' = "account" /\ excused' \subseteq excused \cup {acct}
    BY <1>5 DEF PassOver, GiveUp, LeaveGame, FourTied, Running, Free4
  <2>2. UNCHANGED <<done, moved, skipped, sees, fails, total, rounds>>
    BY <1>5 DEF PassOver, GiveUp, LeaveGame, skips
  <2>3. acct' \in 1..(Accounts + 1)
    BY <2>1 DEF Account
  <2> QED BY <2>1, <2>2, <2>3 DEF FourTypes, FourTied, FourPC
<1>6. ASSUME SwitchAccount PROVE FourTypes' /\ FourTied'
  BY <1>6 DEF SwitchAccount, FourTypes, FourTied, FourPC, skips
<1>7. ASSUME Launched PROVE FourTypes' /\ FourTied'
  <2>1. acct \in Account /\ four' \in {"transfer", "sqb", "exit"} /\ fails' = 0
    BY <1>7 DEF Launched, Running, FourTied
  <2>2. UNCHANGED <<acct, done, moved, skipped, sees, total, excused, rounds>>
    BY <1>7 DEF Launched, skips
  <2> QED BY <2>1, <2>2 DEF FourTypes, FourTied, FourPC
<1>8. ASSUME AskForHelp \/ Helped PROVE FourTypes' /\ FourTied'
  <2>1. acct \in Account /\ four' \in {"manual", "launch"}
    BY <1>8 DEF AskForHelp, Helped, Running, Free4, FourTied
  <2>2. UNCHANGED <<acct, done, moved, skipped, sees, fails, total, excused, rounds>>
    BY <1>8 DEF AskForHelp, Helped, skips
  <2> QED BY <2>1, <2>2 DEF FourTypes, FourTied, FourPC
<1>9. ASSUME TransferRound PROVE FourTypes' /\ FourTied'
  <2>1. rounds' \in [Account -> 0..2] /\ acct \in Account
    BY <1>9, <1>r DEF TransferRound, Free4, Running, FourTied
  <2>2. CASE ~Stop
    <3>1. moved' = moved \cup {acct} /\ fails' = 0 /\ total' = TRUE /\ four' \in {"sqb", "exit"}
      BY <1>9, <2>2 DEF TransferRound
    <3>2. UNCHANGED <<acct, done, skipped, sees, excused>>
      BY <1>9, <2>2 DEF TransferRound, skips
    <3>3. total' \in BOOLEAN
      BY <3>1
    <3> QED BY <2>1, <3>1, <3>2, <3>3 DEF FourTypes, FourTied, FourPC
  <2>3. CASE Stop
    BY <1>0, <2>1, <2>3
  <2> QED BY <2>2, <2>3
<1>10. ASSUME TransferFails PROVE FourTypes' /\ FourTied'
  <2>1. CASE fails + 1 = MaxFailures
    BY <1>0, <1>r, <1>10, <2>1 DEF TransferFails
  <2>2. CASE fails + 1 # MaxFailures
    <3>1. fails' = fails + 1 /\ UNCHANGED <<acct, four, done, moved, skipped, sees, total, excused, rounds>>
      BY <1>10, <2>2 DEF TransferFails, skips
    <3> QED BY <2>2, <3>1 DEF FourTypes, FourTied
  <2> QED BY <2>1, <2>2
<1>11. ASSUME NextMatch PROVE FourTypes' /\ FourTied'
  <2>1. CASE Stop
    BY <1>0, <1>r, <1>11, <2>1 DEF NextMatch
  <2>2. CASE ~Stop
    <3>1. acct \in Account
      BY <1>11 DEF NextMatch, Free4, Running, FourTied
    <3>2. four' = IF done[acct] = Target THEN "exit" ELSE "match"
      BY <1>11, <2>2 DEF NextMatch
    <3>3. UNCHANGED <<acct, done, moved, skipped, sees, fails, total, excused, rounds>>
      BY <1>11, <2>2 DEF NextMatch, skips
    <3> QED BY <3>1, <3>2, <3>3 DEF FourTypes, FourTied, FourPC
  <2> QED BY <2>1, <2>2
<1>12. ASSUME NEW ok \in BOOLEAN, MatchOver(ok) PROVE FourTypes' /\ FourTied'
  <2>1. four = "match"
    BY <1>12 DEF MatchOver, Running
  <2>2. CASE after
    <3>1. four' = "after" /\ UNCHANGED <<acct, done, moved, skipped, sees, fails, total, excused, rounds>>
      BY <1>12, <2>2 DEF MatchOver, skips
    <3> QED BY <2>1, <3>1 DEF FourTypes, FourTied, FourPC
  <2>3. CASE ~after
    BY <1>12, <2>1, <2>3, CountedKeeps DEF MatchOver
  <2> QED BY <2>2, <2>3
<1>13. ASSUME NEW ok \in BOOLEAN, AfterMatch(ok) PROVE FourTypes' /\ FourTied'
  BY <1>13, CountedKeeps DEF AfterMatch, Running
<1>14. ASSUME NEW a \in Skippable, Skip(a) PROVE FourTypes' /\ FourTied'
  BY <1>14 DEF Skip, FourTypes, FourTied, Account
<1> QED BY <1>1, <1>2, <1>3, <1>4, <1>5, <1>6, <1>7, <1>8, <1>9, <1>10, <1>11, <1>12, <1>13, <1>14
        DEF FourAction, FourSteps

LEMMA LeftKeeps == ASSUME FourInv, LeftStepFour PROVE FourTypes' /\ FourTied'
<1>1. CASE sess = "step4" /\ sess' # "step4"
  BY <1>1, AwayKeeps DEF FourInv, LeftStepFour, FourTypes
<1>2. CASE ~(sess = "step4" /\ sess' # "step4")
  BY <1>2 DEF FourInv, LeftStepFour, FourTypes, FourTied
<1> QED BY <1>1, <1>2

LEMMA FourInvStep == ASSUME FourInv, [StepFourNext]_allVars PROVE FourInv'
<1>1. CASE (Lives \/ OpenFails \/ Controlled) /\ LeftStepFour
  BY <1>1, SessionTypeStep, LeftKeeps DEF FourInv
<1>2. CASE FourAction
  BY <1>2, FourSession, FourKeeps DEF FourInv
<1>3. CASE UNCHANGED allVars
  <2>1. SessionTypeOK'
    BY <1>3 DEF FourInv, allVars, sessionVars, SessionTypeOK
  <2>2. FourTypes' /\ FourTied'
    BY <1>3 DEF FourInv, allVars, fourVars, skips, FourTypes, FourTied
  <2> QED BY <2>1, <2>2 DEF FourInv
<1> QED BY <1>1, <1>2, <1>3 DEF StepFourNext, FourAction

LEMMA FourInvInit == StepFourInit => FourInv
<1> SUFFICES ASSUME StepFourInit PROVE FourInv
  OBVIOUS
<1>1. {begun, before, paused, after, start, gate, reanchor, cancel} \subseteq BOOLEAN
  BY DEF StepFourInit, SessionInit
<1>2. phase \in Phase /\ chosen \in Type \cup {NoType} /\ stage \in 0..Len(Opening) /\ sess \in SessPC
  BY Phases DEF StepFourInit, SessionInit, SessPC
<1>3. SessionTypeOK
  BY <1>1, <1>2, SessionAssumption DEF StepFourInit, SessionInit, SessionTypeOK
<1>4. {total, sees} \subseteq BOOLEAN
  BY DEF StepFourInit
<1>5. FourTypes /\ FourTied
  BY <1>4, FourAssumption DEF StepFourInit, FourTypes, FourTied, FourPC
<1> QED BY <1>3, <1>5 DEF FourInv

\* A step of the specification is one of the session, and defines no name.
LEMMA StepFourSteps ==
  [StepFourNext /\ UNCHANGED resolved]_<<allVars, resolved>>
    => [StepFourNext]_allVars /\ UNCHANGED resolved
OBVIOUS

\* The session and its Step 4 have their types, whatever the messages do meanwhile, and an
\* account that plays a match has one to play.
THEOREM StepFourIsTied == StepFourSpec => [](StepFourTypeOK /\ FourTied)
<1>1. FourInv => StepFourTypeOK /\ FourTied
  BY DEF FourInv, FourTypes, StepFourTypeOK
<1>2. FourInv /\ [StepFourNext /\ UNCHANGED resolved]_<<allVars, resolved>> => FourInv'
  BY FourInvStep, StepFourSteps
<1> QED BY <1>1, <1>2, FourInvInit, PTL DEF StepFourSpec

-----------------------------------------------------------------------------
(* Nobody is forgotten. *)

\* Whatever is paused, resumed, cancelled or started again, an account with work left is
\* passed over only at the end of its phases or when this Step 4 gave it up.
THEOREM NobodyIsForgotten == StepFourSpec => NobodyForgotten
<1> DEFINE Passed == sess = "step4" /\ four # "off" =>
              \A a \in Account : acct <= a /\ a < acct' => ~Remaining(a) \/ a \in excused' \/ four = "exit"
<1>1. ASSUME FourInv, StepFourNext PROVE Passed
  <2>0. acct \in 1..(Accounts + 1)
    BY <1>1 DEF FourInv, FourTypes
  <2> USE FourAssumption DEF Account
  <2>1. ASSUME acct' = acct \/ acct' = 1 PROVE Passed
    BY <2>0, <2>1
  <2>2. ASSUME (Lives \/ OpenFails \/ Controlled) /\ LeftStepFour PROVE acct' = acct \/ acct' = 1
    BY <2>2 DEF LeftStepFour, Away
  <2>3. Stop => acct' = 1
    BY DEF Stop, Away
  <2>4. ASSUME NEW ok \in BOOLEAN, Counted(ok) PROVE acct' = acct \/ acct' = 1
    BY <2>3, <2>4 DEF Counted
  <2>5. ASSUME Breaks \/ CancelSeen \/ InitFails \/ EnterStepFour \/ Finish \/ SwitchAccount \/ Launched \/ AskForHelp
               \/ Helped \/ TransferRound \/ TransferFails \/ NextMatch
        PROVE acct' = acct \/ acct' = 1
    BY <2>3, <2>5 DEF Breaks, CancelSeen, InitFails, EnterStepFour, Finish, Away, SwitchAccount, Launched,
                      AskForHelp, Helped, TransferRound, TransferFails, NextMatch
  <2>6. ASSUME NEW ok \in BOOLEAN, MatchOver(ok) \/ AfterMatch(ok) PROVE acct' = acct \/ acct' = 1
    BY <2>4, <2>6 DEF MatchOver, AfterMatch
  <2>7. ASSUME Reanchor PROVE Passed
    BY <2>7, FirstIncompleteFacts DEF Reanchor
  <2>8. ASSUME PassOver PROVE Passed
    BY <2>0, <2>8 DEF PassOver
  <2>9. ASSUME NEW pc \in {"account", "launch"}, GiveUp(pc) PROVE Passed
    BY <2>0, <2>9 DEF GiveUp
  <2>10. ASSUME LeaveGame PROVE Passed
    BY <2>10 DEF LeaveGame, Running
  <2>11. ASSUME NEW a \in Skippable, Skip(a) PROVE acct' = acct
    BY <2>11 DEF Skip
  <2> HIDE DEF Passed, Account
  <2> QED BY <1>1, <2>1, <2>2, <2>5, <2>6, <2>7, <2>8, <2>9, <2>10, <2>11 DEF StepFourNext, FourSteps
<1>2. FourInv /\ [StepFourNext /\ UNCHANGED resolved]_<<allVars, resolved>> => [Passed]_allVars
  BY <1>1, StepFourSteps
<1>3. FourInv /\ [StepFourNext /\ UNCHANGED resolved]_<<allVars, resolved>> => FourInv'
  BY FourInvStep, StepFourSteps
<1> QED BY <1>2, <1>3, FourInvInit, PTL DEF StepFourSpec, NobodyForgotten

-----------------------------------------------------------------------------
(* One round. *)

LEMMA RoundsStep ==
  ASSUME FourInv, RoundsTied, [StepFourNext]_allVars
  PROVE  RoundsTied' /\ \A a \in Account : rounds'[a] > rounds[a] => rounds[a] = 0 /\ a \notin moved
<1> DEFINE Once == \A a \in Account : rounds'[a] > rounds[a] => rounds[a] = 0 /\ a \notin moved
<1> SUFFICES RoundsTied' /\ Once
  OBVIOUS
<1>r. \A a \in Account : rounds[a] \in 0..2
  BY DEF FourInv, FourTypes
<1>0. ASSUME rounds' = rounds PROVE Once
  BY <1>0, <1>r
<1> HIDE DEF Once
<1>1. ASSUME UNCHANGED <<rounds, moved>>, four' # "off" => four # "off",
             four' = "transfer" => four = "transfer" /\ acct' = acct
      PROVE RoundsTied' /\ Once
  BY <1>0, <1>1 DEF RoundsTied
<1>2. ASSUME Stop PROVE RoundsTied'
  BY <1>2 DEF Stop, Away, RoundsTied
<1>3. ASSUME (Lives \/ OpenFails \/ Controlled) /\ LeftStepFour PROVE RoundsTied' /\ Once
  BY <1>1, <1>3 DEF LeftStepFour, Away
<1>4. ASSUME Breaks \/ CancelSeen \/ InitFails PROVE RoundsTied' /\ Once
  BY <1>0, <1>2, <1>4 DEF Breaks, CancelSeen, InitFails
<1>5. ASSUME EnterStepFour PROVE RoundsTied' /\ Once
  <2>1. four' = "account" /\ \A a \in Account : rounds'[a] = 0
    BY <1>5 DEF EnterStepFour
  <2> QED BY <1>r, <2>1 DEF RoundsTied, Once
<1>6. ASSUME Reanchor \/ Finish \/ SwitchAccount \/ AskForHelp \/ Helped \/ LeaveGame
      PROVE RoundsTied' /\ Once
  BY <1>1, <1>6 DEF Reanchor, Finish, Away, SwitchAccount, AskForHelp, Helped, LeaveGame, Free4, Running
<1>7. ASSUME PassOver \/ \E pc \in {"account", "launch"} : GiveUp(pc) PROVE RoundsTied' /\ Once
  BY <1>1, <1>7 DEF PassOver, GiveUp, Free4, Running
<1>8. ASSUME Launched PROVE RoundsTied' /\ Once
  <2>1. UNCHANGED <<rounds, moved, acct>> /\ four = "launch" /\ (four' = "transfer" => acct \notin moved)
    BY <1>8 DEF Launched, Running, NeedsRound
  <2> QED BY <1>0, <2>1 DEF RoundsTied
<1>9. ASSUME TransferRound PROVE RoundsTied' /\ Once
  <2>1. acct \in Account /\ acct \notin moved /\ four = "transfer"
    BY <1>9 DEF TransferRound, Free4, Running, FourInv, FourTied, RoundsTied
  <2>2. rounds[acct] = 0
    BY <2>1 DEF RoundsTied
  <2>3. rounds' = [rounds EXCEPT ![acct] = IF @ < 2 THEN @ + 1 ELSE @]
    BY <1>9 DEF TransferRound
  <2>4. \A a \in Account \ {acct} : rounds'[a] = rounds[a]
    BY <2>3 DEF FourInv, FourTypes
  <2>5. Once
    BY <1>r, <2>1, <2>2, <2>4 DEF Once
  <2>6. CASE Stop
    BY <1>2, <2>5, <2>6
  <2>7. CASE ~Stop
    <3>1. moved' = moved \cup {acct} /\ four' \in {"sqb", "exit"}
      BY <1>9, <2>7 DEF TransferRound
    <3> QED BY <2>1, <2>4, <2>5, <3>1 DEF RoundsTied
  <2> QED BY <2>6, <2>7
<1>10. ASSUME TransferFails \/ NextMatch PROVE RoundsTied' /\ Once
  <2>1. rounds' = rounds /\ four # "off"
    BY <1>10 DEF TransferFails, NextMatch, Free4, Running
  <2>2. CASE Stop
    BY <1>0, <1>2, <2>1, <2>2
  <2>3. CASE ~Stop
    BY <1>1, <1>10, <2>1, <2>3 DEF TransferFails, NextMatch
  <2> QED BY <2>2, <2>3
<1>11. ASSUME NEW ok \in BOOLEAN, Counted(ok), UNCHANGED rounds, four # "off" PROVE RoundsTied' /\ Once
  <2>1. CASE Stop
    BY <1>0, <1>2, <1>11, <2>1
  <2>2. CASE ~Stop
    BY <1>1, <1>11, <2>2 DEF Counted
  <2> QED BY <2>1, <2>2
<1>12. ASSUME NEW ok \in BOOLEAN, MatchOver(ok) \/ AfterMatch(ok) PROVE RoundsTied' /\ Once
  BY <1>1, <1>11, <1>12 DEF MatchOver, AfterMatch, Running
<1>13. ASSUME NEW a \in Skippable, Skip(a) PROVE RoundsTied' /\ Once
  BY <1>1, <1>13 DEF Skip
<1>14. CASE UNCHANGED allVars
  BY <1>1, <1>14 DEF allVars, fourVars
<1> QED BY <1>3, <1>4, <1>5, <1>6, <1>7, <1>8, <1>9, <1>10, <1>12, <1>13, <1>14 DEF StepFourNext, FourSteps

\* No pause, resume, cancellation or new start makes one Step 4 do an account's transfer
\* round a second time, or any Step 4 do one that is recorded, whether the names that the
\* transfer phase misses are defined or not.
THEOREM RoundsAreOnce == StepFourSpec => TransferOnce
<1> DEFINE Once == \A a \in Account : rounds'[a] > rounds[a] => rounds[a] = 0 /\ a \notin moved
<1>1. StepFourInit => RoundsTied
  BY DEF StepFourInit, RoundsTied
<1>2. FourInv /\ RoundsTied /\ [StepFourNext /\ UNCHANGED resolved]_<<allVars, resolved>>
        => FourInv' /\ RoundsTied' /\ [Once]_allVars
  BY FourInvStep, RoundsStep, StepFourSteps
<1> QED BY <1>1, <1>2, FourInvInit, PTL DEF StepFourSpec, TransferOnce

-----------------------------------------------------------------------------
(* The end. *)

LEMMA OverStep ==
  ASSUME SessionTypeOK, OverTied, [StepFourNext]_allVars, UNCHANGED resolved PROVE OverTied'
<1> DEFINE Looked == resuming > 0 => phase \notin Early
           Shut == sess = "over" =>
                     /\ ~gate /\ phase \in Early \cup Ended \cup {"closing"}
                     /\ "cleanup" \in resolved => phase = "closed"
<1> SUFFICES Shut' /\ Looked'
  BY DEF OverTied
<1>p. phase \in Phase /\ resuming \in Nat /\ Shut /\ Looked
  BY DEF SessionTypeOK, OverTied
\* A step that asks for a phase, or leaves it, brings no early one back.
<1>l. ASSUME resuming' = resuming \/ resuming' = resuming - 1, phase' = phase \/ \E q \in Phase : SetPhase(q) PROVE Looked'
  BY <1>p, <1>l, EarlyIsLeft
<1>u. ASSUME UNCHANGED <<sess, phase, gate>> PROVE Shut'
  BY <1>p, <1>u
<1>o. ASSUME sess' # "over" PROVE Shut'
  BY <1>o
<1> HIDE DEF Shut, Looked
<1>1. ASSUME Close PROVE Shut' /\ Looked'
  <2>1. PICK q \in {"closed", "failed", "closing"} :
          /\ SetPhase(q) /\ ("cleanup" \in resolved => q = "closed")
    BY <1>1, Zenon DEF Close
  <2>2. gate' = FALSE /\ resuming' = resuming
    BY <1>1 DEF Close
  <2>3. phase' \in Early \cup Ended \cup {"closing"} /\ (q = "closed" => phase' = "closed")
    BY <1>p, <2>1, Phases DEF SetPhase, Moved, AllowedFrom, Early, Ended, Paused
  <2>4. Shut'
    BY <2>1, <2>2, <2>3 DEF Shut
  <2> QED BY <1>l, <2>1, <2>2, <2>4, Phases
<1>2. ASSUME OpenStep PROVE Shut' /\ Looked'
  <2>1. stage + 1 \in 1..6
    BY <1>2, Phases DEF OpenStep, SessionTypeOK
  <2>2. \E q \in Phase : SetPhase(q)
    BY <1>2, <2>1, Phases DEF OpenStep
  <2>3. sess' # "over" /\ resuming' = resuming
    BY <1>2 DEF OpenStep
  <2> QED BY <1>l, <1>o, <2>2, <2>3
<1>3. ASSUME OpenFails \/ Top \/ Arm \/ Hold \/ Wake \/ Begin PROVE Shut' /\ Looked'
  <2>1. phase' = phase \/ \E q \in Phase : SetPhase(q)
    BY <1>3, Phases DEF OpenFails, Top, Arm, Hold, Wake, Begin
  <2>2. sess' # "over" /\ resuming' = resuming
    BY <1>3 DEF OpenFails, Top, Arm, Hold, Wake, Begin
  <2> QED BY <1>l, <1>o, <2>1, <2>2
<1>4. ASSUME PauseAfterMatch \/ TerminateSession \/ \E t \in Type \cup {NoType} : StartAutomation(t)
      PROVE Shut' /\ Looked'
  <2>1. phase' = phase \/ \E q \in Phase : SetPhase(q)
    BY <1>4, Phases DEF PauseAfterMatch, TerminateSession, StartAutomation, Stops
  <2>2. sess' # "over" /\ resuming' = resuming
    BY <1>4 DEF PauseAfterMatch, TerminateSession, StartAutomation
  <2> QED BY <1>l, <1>o, <2>1, <2>2
<1>5. ASSUME PauseBegin \/ ResumeFails PROVE Shut' /\ Looked'
  <2>1. UNCHANGED <<sess, phase, gate>> /\ (resuming' = resuming \/ resuming' = resuming - 1)
    BY <1>5 DEF PauseBegin, ResumeFails
  <2> QED BY <1>l, <1>u, <2>1
<1>6. ASSUME ResumeBegin PROVE Shut' /\ Looked'
  <2>1. UNCHANGED <<sess, phase, gate>> /\ phase \notin Early
    BY <1>6 DEF ResumeBegin, Paused, Early
  <2> QED BY <1>u, <2>1 DEF Looked
<1>7. ASSUME PauseEnd PROVE Shut' /\ Looked'
  <2>1. SetPhase("paused_immediate") /\ UNCHANGED <<gate, sess, resuming>>
    BY <1>7 DEF PauseEnd, Stops
  <2>2. phase \in Early \cup Ended \cup {"closing"} => phase' = phase
    BY <2>1 DEF SetPhase, Moved, AllowedFrom, Early, Ended
  <2>3. Shut'
    BY <1>p, <2>1, <2>2 DEF Shut
  <2> QED BY <1>l, <2>1, <2>3, Phases
<1>8. ASSUME ResumeEnd PROVE Shut' /\ Looked'
  <2>1. PICK q \in {"ready", "automating"} : SetPhase(q)
    BY <1>8 DEF ResumeEnd
  <2>2. resuming > 0 /\ resuming' = resuming - 1 /\ UNCHANGED <<gate, sess>>
    BY <1>8 DEF ResumeEnd
  <2>3. phase \in Ended \cup {"closing"} => phase' = phase
    BY <2>1 DEF SetPhase, Moved, AllowedFrom, Ended
  <2>4. phase \notin Early
    BY <1>p, <2>2 DEF Looked
  <2>5. Shut'
    BY <1>p, <2>2, <2>3, <2>4 DEF Shut
  <2> QED BY <1>l, <2>1, <2>2, <2>5, Phases
<1>9. ASSUME FourAction PROVE Shut' /\ Looked'
  <2>1. ASSUME OnlyFour PROVE Shut' /\ Looked'
    BY <1>l, <1>u, <2>1 DEF OnlyFour, sessionVars
  <2>2. ASSUME Stop \/ Failed \/ Succeeded PROVE Shut' /\ Looked'
    <3>1. sess' # "over" /\ resuming' = resuming
      BY <2>2 DEF Stop, Failed, Succeeded
    <3>2. phase' = phase \/ \E q \in Phase : SetPhase(q)
      BY <2>2, Phases DEF Stop, Failed, Succeeded
    <3> QED BY <1>l, <1>o, <3>1, <3>2
  <2>3. ASSUME sess = "step4", sess' = sess, resuming' = resuming,
               phase' = phase \/ \E q \in Phase : SetPhase(q)
        PROVE Shut' /\ Looked'
    BY <1>l, <1>o, <2>3
  <2>4. ASSUME NEW ok \in BOOLEAN, Counted(ok) PROVE Shut' /\ Looked'
    BY <2>1, <2>2, <2>4 DEF Counted
  <2>5. ASSUME NEW ok \in BOOLEAN, MatchOver(ok) \/ AfterMatch(ok) PROVE Shut' /\ Looked'
    BY <2>3, <2>4, <2>5 DEF MatchOver, AfterMatch, Running, NoControl
  <2>6. ASSUME Breaks \/ CancelSeen \/ InitFails \/ Finish PROVE Shut' /\ Looked'
    BY <2>2, <2>6 DEF Breaks, CancelSeen, InitFails, Finish
  <2>7. ASSUME EnterStepFour \/ PassOver \/ SwitchAccount \/ Launched \/ LeaveGame PROVE Shut' /\ Looked'
    BY <2>1, <2>7 DEF EnterStepFour, PassOver, SwitchAccount, Launched, LeaveGame
  <2>8. ASSUME TransferRound \/ TransferFails \/ NextMatch PROVE Shut' /\ Looked'
    BY <2>1, <2>2, <2>8 DEF TransferRound, TransferFails, NextMatch
  <2>9. ASSUME Reanchor \/ AskForHelp \/ Helped PROVE Shut' /\ Looked'
    <3>1. sess = "step4" /\ sess' = sess /\ resuming' = resuming
      BY <2>9 DEF Reanchor, AskForHelp, Helped, Free4, Running, NoControl
    <3>2. phase' = phase \/ \E q \in Phase : SetPhase(q)
      BY <2>9, Phases DEF Reanchor, AskForHelp, Helped, Stops
    <3> QED BY <2>3, <3>1, <3>2
  <2>10. ASSUME (\E pc \in {"account", "launch"} : GiveUp(pc)) \/ \E a \in Skippable : Skip(a)
         PROVE Shut' /\ Looked'
    BY <2>1, <2>10 DEF GiveUp, Skip
  <2> QED BY <1>9, <2>5, <2>6, <2>7, <2>8, <2>9, <2>10 DEF FourAction, FourSteps
<1>10. CASE UNCHANGED allVars
  BY <1>l, <1>u, <1>10 DEF allVars, sessionVars
<1> QED BY <1>1, <1>2, <1>3, <1>4, <1>5, <1>6, <1>7, <1>8, <1>9, <1>10 DEF StepFourNext, FourAction, Lives, Controlled

\* A session that is over has no input, and whatever message about it is still under way,
\* none shows it as one that can be started, paused or resumed, whether its clean-up threw
\* or not; where its module is found, the session stays closed.
THEOREM OverStaysClosed == StepFourSpec => []OverIsTerminal
<1>1. StepFourInit => OverTied
  BY DEF StepFourInit, SessionInit, OverTied
<1>2. FourInv /\ OverTied /\ [StepFourNext /\ UNCHANGED resolved]_<<allVars, resolved>> => FourInv' /\ OverTied'
  BY FourInvStep, OverStep, StepFourSteps DEF FourInv
<1>3. OverTied => OverIsTerminal
  BY DEF OverTied, OverIsTerminal, Ended, Early, Paused
<1> QED BY <1>1, <1>2, <1>3, FourInvInit, PTL DEF StepFourSpec
=============================================================================
