------------------------------- MODULE StepFour -------------------------------
(***************************************************************************)
(* Step 4 of a session: the game accounts one after the other, each        *)
(* switched to, taken into the game, and its transfer round and matches    *)
(* played (orchestrator, fc_launcher, transfer_phase, sqb_phase,           *)
(* match_lifecycle), under the pauses, resumes and cancellations of        *)
(* SessionControl.                                                         *)
(***************************************************************************)
EXTENDS SessionControl

CONSTANTS
  Accounts,   \* how many game accounts the task has
  Target,     \* matches of an account a day
  Skippable,  \* accounts the user may skip
  MaxFailures \* consecutive failures that stop a phase: 3

ASSUME FourAssumption ==
  Accounts \in Nat /\ Target \in Nat /\ MaxFailures \in Nat \ {0} /\ Skippable \subseteq 1..Accounts

VARIABLES
  acct,     \* index of the account being handled
  four,     \* where in its handling
  done,     \* context.matches_completed_today
  moved,    \* _transfer_phase_done_account_ids
  skipped,  \* accounts the user skips
  sees,     \* Step 4 works with that set, not with an empty one of its own
  fails,    \* consecutive_failures of the phase
  total,    \* completed_matches
  \* What happened, for the properties.
  excused,  \* accounts given up by this Step 4
  rounds    \* rounds[a]: transfer rounds done in the game since this Step 4 began

skips == <<skipped, sees>>
fourVars == <<acct, four, done, moved, skipped, sees, fails, total, excused, rounds>>
allVars  == <<sessionVars, fourVars>>

Account == 1..Accounts
FourPC  == {"off", "account", "launch", "manual", "transfer", "sqb", "match", "after", "exit"}

StepFourTypeOK ==
  /\ SessionTypeOK
  /\ acct \in 1..(Accounts + 1) /\ four \in FourPC
  /\ done \in [Account -> 0..Target]
  /\ moved \subseteq Account /\ skipped \subseteq Account /\ excused \subseteq Account
  /\ fails \in 0..MaxFailures /\ {total, sees} \subseteq BOOLEAN
  /\ rounds \in [Account -> 0..2]

StepFourInit ==
  /\ SessionInit
  /\ acct = 1 /\ four = "off" /\ done = [a \in Account |-> 0]
  /\ moved = {} /\ skipped = {} /\ sees = FALSE /\ excused = {} /\ fails = 0
  /\ total = FALSE
  /\ rounds = [a \in Account |-> 0]

-----------------------------------------------------------------------------
\* _normalize_game_action_type and what the types ask for.
Action      == IF chosen = NoType THEN "squad_battle" ELSE chosen
NeedsRound(a) == Action \in {"auction_transfer", "transfer_sqb_combo"} /\ a \notin moved
NeedsMatches  == Action \in {"squad_battle", "transfer_sqb_combo"}

\* "skipped_accounts or set()": an empty set is replaced by a new one, so that what
\* the user skips later is not in it.
Omitted == IF sees THEN skipped ELSE {}

\* account_has_remaining_work.
Remaining(a) ==
  /\ a \notin Omitted
  /\ \/ NeedsRound(a)
     \/ Action # "auction_transfer" /\ done[a] < Target

\* first_incomplete_account_index.
FirstIncomplete ==
  CHOOSE i \in 1..(Accounts + 1) :
    /\ i \in Account => Remaining(i)
    /\ \A j \in 1..(i - 1) : ~Remaining(j)

NoControl == UNCHANGED <<before, chosen, start, cancel, stage, pausing, resuming>>
Running(pc) == sess = "step4" /\ four = pc
OnlyFour == UNCHANGED sessionVars

\* check_cancel, wait_if_paused, then raise_if_resume_reanchor.
Free4(pc) == Running(pc) /\ ~cancel /\ ~paused /\ ~reanchor

\* What an await inside Step 4 raises, a missing name for one, ends it; so do a
\* phase's third failure in a row and an exception of the engine.
Away == /\ acct' = 1 /\ four' = "off" /\ fails' = 0 /\ total' = FALSE
        /\ excused' = {} /\ sees' = FALSE
Stop == Failed /\ Away /\ UNCHANGED <<done, moved, skipped>>
Breaks ==
  /\ sess = "step4" /\ four # "off"
  /\ Stop /\ UNCHANGED rounds

\* The cancellation that a match swallowed is seen at the loops' tops.
CancelSeen ==
  /\ cancel /\ sess = "step4" /\ four \in {"account", "sqb"}
  /\ Stop /\ UNCHANGED rounds

\* No picture, a template missing, or _init_game_automation gives no engine: a
\* failure before any of the session's counts is set.
InitFails ==
  /\ Running("off")
  /\ Stop /\ UNCHANGED rounds

\* The counts start from what the platform sent with the task.
EnterStepFour ==
  /\ Running("off")
  /\ four' = "account"
  /\ done' = [a \in Account |-> 0]
  /\ sees' = (skipped # {})
  /\ rounds' = [a \in Account |-> 0]
  /\ OnlyFour /\ UNCHANGED <<acct, moved, skipped, fails, total, excused>>

\* ResumeReanchor, or the flag seen at the loop's top: home, then the first
\* account with work left.
NextAccountOnReanchor ==
  /\ sess = "step4" /\ four \in {"account", "manual", "transfer", "sqb", "match", "after"}
  /\ reanchor /\ ~paused
  /\ reanchor' = FALSE
  /\ acct' = acct + 1 /\ four' = "account"
  /\ acct \in Account
  /\ UNCHANGED <<phase, begun, paused, after, gate, sess>> /\ NoControl
  /\ UNCHANGED <<done, moved, skips, fails, total, excused, rounds>>

Reanchor ==
  /\ sess = "step4" /\ four \in {"account", "manual", "transfer", "sqb", "match", "after"}
  /\ reanchor /\ (four = "account" \/ ~paused)
  /\ cancel => four \in {"account", "after"}
  /\ reanchor' = FALSE
  /\ acct' = FirstIncomplete /\ four' = "account"
  /\ UNCHANGED <<phase, begun, paused, after, gate, sess>> /\ NoControl
  /\ UNCHANGED <<done, moved, skips, fails, total, excused, rounds>>

\* The accounts are through: without a single match or round it is a failure.
Finish ==
  /\ Running("account") /\ ~reanchor /\ acct > Accounts
  /\ IF ~total /\ \E a \in Account : TRUE THEN Failed ELSE Succeeded
  /\ Away /\ UNCHANGED <<done, moved, skipped, rounds>>

\* Skipped by the user, or nothing left to do.
PassOver ==
  /\ Free4("account") /\ acct \in Account
  /\ ~Remaining(acct)
  /\ acct' = acct + 1
  /\ OnlyFour /\ UNCHANGED <<four, done, moved, skips, fails, total, excused, rounds>>

\* Provisioning, the input channel, the account switch, the launch or the check
\* of the main menu fails: the account is left for the next one.
GiveUp(pc) ==
  /\ Free4(pc) /\ acct \in Account
  /\ acct' = acct + 1 /\ four' = "account"
  /\ excused' = excused \cup {acct}
  /\ OnlyFour /\ UNCHANGED <<done, moved, skips, fails, total, rounds>>

SwitchAccount ==
  /\ Free4("account") /\ acct \in Account /\ Remaining(acct)
  /\ four' = "launch"
  /\ OnlyFour
  /\ UNCHANGED <<acct, done, moved, skips, fails, total, excused, rounds>>

\* In the game: _apply_task_type chooses the phases.
Launched ==
  /\ Running("launch")
  /\ fails' = 0
  /\ four' = IF NeedsRound(acct) THEN "transfer" ELSE IF NeedsMatches THEN "sqb" ELSE "exit"
  /\ OnlyFour /\ UNCHANGED <<acct, done, moved, skips, total, excused, rounds>>

\* ManualInterventionRequired: Step 4 pauses itself.
AskForHelp ==
  /\ Running("launch")
  /\ four' = "manual"
  /\ Stops("immediate")
  /\ UNCHANGED <<gate, reanchor, sess>> /\ NoControl
  /\ UNCHANGED <<acct, done, moved, skips, fails, total, excused, rounds>>

\* Not paused any more, and no resume was asked for.
Helped ==
  /\ Free4("manual")
  /\ four' = "launch" /\ after' = FALSE
  /\ SetPhase("automating")
  /\ UNCHANGED <<paused, gate, reanchor, sess>> /\ NoControl
  /\ UNCHANGED <<acct, done, moved, skips, fails, total, excused, rounds>>

\* A mutant: the round is not recorded.
ForgetsRound ==
  /\ Free4("transfer")
  /\ rounds' = [rounds EXCEPT ![acct] = IF @ < 2 THEN @ + 1 ELSE @]
  /\ fails' = 0 /\ total' = TRUE
  /\ four' = IF NeedsMatches THEN "sqb" ELSE "exit"
  /\ OnlyFour /\ UNCHANGED <<acct, done, moved, skips, excused>>

\* A transfer round succeeds in the game.  The billing call that follows is a name
\* transfer_phase does not import; else it is an await.  What that throws leaves the round
\* unrecorded.
TransferRound ==
  /\ Free4("transfer")
  /\ rounds' = [rounds EXCEPT ![acct] = IF @ < 2 THEN @ + 1 ELSE @]
  /\ \/ /\ "transfer" \in resolved
        /\ moved' = moved \cup {acct}
        /\ fails' = 0 /\ total' = TRUE
        /\ four' = IF NeedsMatches THEN "sqb" ELSE "exit"
        /\ OnlyFour /\ UNCHANGED <<acct, done, skips, excused>>
     \/ Stop

TransferFails ==
  /\ Free4("transfer")
  /\ IF fails + 1 = MaxFailures
     THEN Stop
     ELSE /\ fails' = fails + 1
          /\ OnlyFour /\ UNCHANGED <<acct, four, done, moved, skips, total, excused>>
  /\ UNCHANGED rounds

OneMatchMore ==
  /\ Free4("sqb")
  /\ IF done[acct] <= Target /\ "sqb" \notin resolved
     THEN Stop
     ELSE /\ four' = IF done[acct] > Target THEN "exit" ELSE "match"
          /\ OnlyFour /\ UNCHANGED <<acct, done, moved, skips, fails, total, excused>>
  /\ UNCHANGED rounds

\* The next match, if the account's target leaves one: the names sqb_phase calls
\* are not imported either.
NextMatch ==
  /\ Free4("sqb")
  /\ IF done[acct] < Target /\ "sqb" \notin resolved
     THEN Stop
     ELSE /\ four' = IF done[acct] = Target THEN "exit" ELSE "match"
          /\ OnlyFour /\ UNCHANGED <<acct, done, moved, skips, fails, total, excused>>
  /\ UNCHANGED rounds

\* A won match counts; the third failure in a row stops Step 4.
Counted(ok) ==
  IF ~ok /\ fails + 1 = MaxFailures
  THEN Stop
  ELSE /\ four' = "sqb"
       /\ IF ok THEN /\ done' = [done EXCEPT ![acct] = @ + 1]
                     /\ fails' = 0 /\ total' = TRUE
          ELSE fails' = fails + 1 /\ UNCHANGED <<done, total>>
       /\ OnlyFour /\ UNCHANGED <<acct, moved, skips, excused>>

\* The match is over, whether it was noticed that somebody paused or not.  What it
\* throws, a cancellation too, is a failed match; only a resume's reanchor is not.
MatchOver(ok) ==
  /\ Running("match")
  /\ cancel => ~ok
  /\ IF after
     THEN /\ four' = "after" /\ paused' = TRUE
          /\ UNCHANGED <<phase, begun, after, gate, reanchor, sess>> /\ NoControl
          /\ UNCHANGED <<acct, done, moved, skips, fails, total, excused>>
     ELSE Counted(ok)
  /\ UNCHANGED rounds

\* The pause after the match is over.
AfterMatch(ok) ==
  /\ Running("after") /\ ~paused /\ ~reanchor
  /\ cancel => ~ok
  /\ Counted(ok) /\ UNCHANGED rounds

\* Back to the console's home.
LeaveGame ==
  /\ Running("exit")
  /\ four' = "account" /\ acct' = acct + 1
  /\ OnlyFour /\ UNCHANGED <<done, moved, skips, fails, total, excused, rounds>>

\* The user's skip_game_account.
Skip(a) ==
  /\ sess # "over" /\ a \notin skipped
  /\ skipped' = skipped \cup {a}
  /\ OnlyFour /\ UNCHANGED <<acct, four, done, moved, sees, fails, total, excused, rounds>>

-----------------------------------------------------------------------------
\* A cancellation takes Step 4 with it, but for one that comes in a match.
LeftStepFour ==
  /\ cancel' # cancel /\ sess' = "step4" => four = "match"
  /\ IF sess = "step4" /\ sess' # "step4" THEN Away ELSE UNCHANGED <<acct, four, sees, fails, total, excused>>
  /\ UNCHANGED <<done, moved, skipped, rounds>>

FourSteps ==
  \/ EnterStepFour \/ Reanchor \/ Finish \/ PassOver \/ SwitchAccount \/ Launched
  \/ AskForHelp \/ Helped \/ TransferRound \/ TransferFails \/ NextMatch
  \/ LeaveGame \/ \E ok \in BOOLEAN : MatchOver(ok) \/ AfterMatch(ok)

StepFourNext ==
  \/ (Lives \/ OpenFails \/ Controlled) /\ LeftStepFour
  \/ FourSteps \/ Breaks \/ CancelSeen \/ InitFails
  \/ \E pc \in {"account", "launch"} : GiveUp(pc)
  \/ \E a \in Skippable : Skip(a)

StepFourSpec == StepFourInit /\ [][StepFourNext /\ UNCHANGED resolved]_<<allVars, resolved>>
StepFourFairSpec ==
  /\ StepFourSpec
  /\ WF_allVars((Top \/ Arm \/ Wake \/ Begin \/ Close) /\ LeftStepFour)
  /\ WF_allVars(cancel /\ (CancelSeen \/ Reanchor \/ \E ok \in BOOLEAN : MatchOver(ok) \/ AfterMatch(ok)))

-----------------------------------------------------------------------------
(* Properties. *)

\* An account with work left is passed over only if its phases are through, or
\* this Step 4 gave it up: pauses, resumes and the new start they ask for never
\* lose one, although the type may have changed since.
NobodyForgotten ==
  [][sess = "step4" /\ four # "off" =>
       \A a \in Account :
         acct <= a /\ a < acct' => ~Remaining(a) \/ a \in excused' \/ four = "exit"]_allVars

\* _account_needs_transfer_phase: one Step 4 makes no second transfer round of an account,
\* and none does of an account whose round is recorded, whatever is paused, resumed,
\* skipped or started again, and whether the names are defined or not.
TransferOnce ==
  [][\A a \in Account : rounds'[a] > rounds[a] => rounds[a] = 0 /\ a \notin moved]_allVars

\* A round in the game is recorded, so that no later Step 4 makes it again. Does not hold:
\* the billing call comes between, and its name is not imported.
RoundsAreRecorded == [][\A a \in Account : rounds'[a] > rounds[a] => a \in moved']_allVars

\* A session that is over has no input, and no message still under way shows it as one
\* that can be started, paused or resumed, even where its clean-up threw; where the
\* clean-up's module is found it is closed or failed.
OverIsTerminal ==
  sess = "over" =>
    /\ ~gate
    /\ phase \notin Paused \cup {"ready", "automating", "automation_failed"}
    /\ "cleanup" \in resolved => phase \in Ended

\* close: a session that is over is closed or failed for the platform. Does not hold: with
\* the import as it is the phase stays closing, or one of the opening.
OverIsClosed == sess = "over" => phase \in Ended

\* What a resume undoes: a paused context belongs to a paused phase, or a message about
\* it is under way; else nothing lets the session go on. Does not hold: a pause while
\* the session opens or after its failure is undone by nothing.
PausedCanResume ==
  paused /\ sess # "over" => phase \in Paused \/ pausing + resuming > 0

\* A start that is accepted reaches Step 4, unless the session ends. Does not hold: the
\* wake-up can come before the wait.
StartTakesEffect ==
  (start /\ phase = "automating") ~> (sess = "step4" \/ paused \/ cancel)

\* skipGameAccount: what the user skipped is not taken into the game. Does not hold:
\* Step 4 keeps a set of its own when the shared one is empty.
SkipIsHonoured ==
  [][sess = "step4" /\ four = "account" /\ four' = "launch" => acct \notin skipped]_allVars

\* A session that is told to end does, wherever the cancellation reaches it, even in a
\* match that swallows it; but see LetsGoAfterMatch.
TerminatedCloses == cancel ~> (sess = "over" \/ (four = "after" /\ paused))

\* force_terminate_task: nothing is left running.  A match that swallows the
\* cancellation goes on to the pause asked for after it, which nobody ends any more:
\* does not hold.
LetsGoAfterMatch == cancel ~> (sess = "over")

\* The pause after a match waits for the match. Does not hold: it pauses at once.
PauseWaitsForMatch == [][four = "match" /\ after' => paused' = paused]_allVars
=============================================================================
