---------------------------- MODULE ProfileSwitch ----------------------------
(***************************************************************************)
(* AccountSwitcher: bringing the console from one profile to another with  *)
(* button presses that may be lost and screens that are looked at, and     *)
(* starting FC under it.  A screen that is there may not be recognised in  *)
(* time; apart from the guesses named below none is taken for another.     *)
(* Loops over single presses and the grids of keyboards and onboarding     *)
(* screens are one step with the outcomes they can have.                   *)
(***************************************************************************)
EXTENDS Integers, Sequences

CONSTANTS
  Profile,    \* the game accounts of the task, and their profiles on the console
  NewUser,    \* those with is_new_user: their profiles are to be added
  NoProfile,
  Rows        \* MAX_PROFILE_LIST_SLOTS

ASSUME SwitchAssumption ==
  NewUser \subseteq Profile /\ NoProfile \notin Profile /\ Rows \in Nat \ {0}

VARIABLES
  screen,   \* what the console shows
  rows,     \* the list of scene 6, the profile last signed in on top
  focus,    \* the row in focus
  signed,   \* the profile that is signed in
  trusted,  \* _current_account_id
  alias,    \* host_display_name of an account: the profile it names
  goal,     \* the target account
  stage,    \* where the switcher is
  row,      \* the slot the scan has reached
  deaf,     \* presses do not arrive: gate closed, F8, channel closed
  doubt     \* the first reason for it to be wrong about the profile

switchVars == <<screen, rows, focus, signed, trusted, alias, goal, stage, row, deaf, doubt>>
consoleVars == <<screen, rows, focus, signed>>

Screen == {"home", "system", "switch", "list", "login", "game"}
Stage  == {"idle", "home", "look", "system", "switch", "add", "enter", "scroll", "scan",
           "confirm", "wait", "login", "sync", "done", "onboard", "manual", "play"}
Doubt  == {"none", "press lost", "line guessed", "login unseen", "typed wrong", "list unscrolled",
           "person", "provisioned"}

SwitchTypeOK ==
  /\ screen \in Screen /\ stage \in Stage /\ doubt \in Doubt /\ deaf \in BOOLEAN
  /\ rows \in Seq(Profile) /\ focus \in 1..Len(rows) /\ signed \in Profile /\ goal \in Profile
  /\ trusted \in Profile \cup {NoProfile}
  /\ alias \in [Profile -> Profile \cup {NoProfile}]
  /\ row \in 0..(Rows - 1)

SwitchInit ==
  /\ screen = "home" /\ focus = 1 /\ row = 0
  /\ rows \in {s \in UNION {[1..n -> Profile \ NewUser] : n \in 1..2} :
                 \A i, j \in DOMAIN s : s[i] = s[j] => i = j}
  /\ signed = rows[1] /\ goal = signed
  /\ trusted = NoProfile /\ alias = [a \in Profile |-> NoProfile]
  /\ stage = "idle" /\ deaf = FALSE /\ doubt = "none"

-----------------------------------------------------------------------------
(* The console. *)

Listed(p) == \E i \in 1..Len(rows) : rows[i] = p
\* Signing in moves a profile to the top of the list; a new one comes from below its end.
Below(p) == IF Listed(p) THEN CHOOSE i \in 1..Len(rows) : rows[i] = p ELSE Len(rows) + 1
SignIn(p) ==
  /\ signed' = p /\ focus' = 1
  /\ rows' = <<p>> \o SubSeq(rows, 1, Below(p) - 1) \o SubSeq(rows, Below(p) + 1, Len(rows))
Shows(s) == screen' = s /\ UNCHANGED <<rows, focus, signed>>

\* _detect_any_scene recognises the screen that is there, or nothing.
Seen(s) == screen = s
\* Template and layout of scene 6.
OnList  == Seen("list")

Suspect(reason) == doubt' = IF doubt = "none" THEN reason ELSE doubt

\* A press, and what it does if it arrives.
Arrives(s) == IF deaf THEN UNCHANGED consoleVars ELSE Shows(s)

\* Platform pause, F8 and a closed DataChannel make the executor drop presses; none
\* of its callers looks at the result.
Deafen == ~deaf /\ deaf' = TRUE /\ UNCHANGED <<consoleVars, trusted, alias, goal, stage, row, doubt>>
Hear   == deaf /\ deaf' = FALSE /\ UNCHANGED <<consoleVars, trusted, alias, goal, stage, row, doubt>>

\* F8: a person signs in somebody else.
Meddle(p) ==
  /\ deaf /\ p # signed /\ Listed(p)
  /\ SignIn(p) /\ screen' = "home" /\ Suspect("person")
  /\ UNCHANGED <<trusted, alias, goal, stage, row, deaf>>

-----------------------------------------------------------------------------
(* ensure_target_game_account *)

Doing(s, t) == stage = s /\ stage' = t
GivesUp == stage' = "idle"
Believes == trusted' = goal /\ stage' = "done"
Named(p) == alias' = [alias EXCEPT ![goal] = p]

\* profile_matches_game_account: the gamertag or the name stored for it.
Matches(p) == p = goal \/ p = alias[goal]

TrustsEarly(a) ==
  /\ stage = "idle" /\ goal' = a
  /\ stage' = (IF trusted = a THEN "done" ELSE "home") /\ trusted' = a
  /\ UNCHANGED <<consoleVars, alias, row, deaf, doubt>>

\* The account that was switched to last is not looked for again.
Attempt(a) ==
  /\ stage = "idle" /\ goal' = a
  /\ stage' = (IF trusted = a THEN "done" ELSE "home")
  /\ UNCHANGED <<consoleVars, trusted, alias, row, deaf, doubt>>

AddAccount(a) == SignIn(a) /\ screen' = "list" /\ Suspect("provisioned")

\* Two-phase tasks: an account that is to be added is added by a switcher of the
\* provisioning module's own, and fails its verification, which asks for
\* is_new_user again: the account is skipped.
Provision(a) ==
  /\ stage = "idle" /\ a \in NewUser
  /\ \/ UNCHANGED <<consoleVars, doubt>>
     \/ AddAccount(a)
  /\ UNCHANGED <<trusted, alias, goal, stage, row, deaf>>

\* B and Guide until the home page is there, or 45 seconds.
GoHome ==
  /\ stage = "home"
  /\ \/ Seen("home") /\ stage' = "look" /\ UNCHANGED consoleVars
     \/ ~deaf /\ stage' = "look" /\ Shows("home")
     \/ ~Seen("home") /\ GivesUp /\ UNCHANGED consoleVars
  /\ UNCHANGED <<trusted, alias, goal, row, deaf, doubt>>

\* The name at the top left of the home page, if it can be read.
LookAtHome ==
  /\ stage = "look"
  /\ \/ Matches(signed) /\ Believes
     \/ stage' = "system" /\ UNCHANGED trusted
  /\ UNCHANGED <<consoleVars, alias, goal, row, deaf, doubt>>

\* Guide menu, scene 3.
GoToSystem ==
  /\ stage = "system"
  /\ \/ ~deaf /\ stage' = "switch" /\ Shows("system")
     \/ GivesUp /\ UNCHANGED consoleVars
  /\ UNCHANGED <<trusted, alias, goal, row, deaf, doubt>>

\* Scene 5.
AddOrSwitch ==
  /\ stage = "switch"
  /\ \/ /\ ~deaf /\ Seen("system") /\ Shows("switch")
        /\ stage' = IF goal \in NewUser THEN "add" ELSE "enter"
     \/ GivesUp /\ UNCHANGED consoleVars
  /\ UNCHANGED <<trusted, alias, goal, row, deaf, doubt>>

AddNewUser ==
  /\ Doing("add", "login") /\ Arrives("login")
  /\ UNCHANGED <<trusted, alias, goal, row, deaf, doubt>>

\* Scene 6 by template and layout; without it, the name on the home page decides.
EnterList ==
  /\ stage = "enter"
  /\ \/ /\ ~deaf /\ Seen("switch") /\ stage' = "scroll" /\ screen' = "list"
        /\ focus' \in 1..Len(rows) /\ UNCHANGED <<rows, signed, trusted>>
     \/ Matches(signed) /\ Believes /\ UNCHANGED consoleVars
     \/ GivesUp /\ UNCHANGED <<consoleVars, trusted>>
  /\ UNCHANGED <<alias, goal, row, deaf, doubt>>

ScrollToTop ==
  /\ stage = "scroll" /\ row' = 0
  /\ stage' = (IF OnList THEN "scan" ELSE "idle")
  /\ focus' = (IF deaf THEN focus ELSE 1)
  /\ UNCHANGED <<screen, rows, signed, trusted, alias, goal, deaf, doubt>>

\* The line in focus is the target's.
Found ==
  /\ Doing("scan", "confirm") /\ OnList /\ Matches(rows[focus])
  /\ UNCHANGED <<consoleVars, trusted, alias, goal, row, deaf, doubt>>

\* The line in focus cannot be read: any line of the list will do.
Guessed ==
  /\ Doing("scan", "confirm") /\ OnList /\ row = 0
  /\ \E i \in 1..Len(rows) : Matches(rows[i])
  /\ Suspect("line guessed")
  /\ UNCHANGED <<consoleVars, trusted, alias, goal, row, deaf>>

\* It is another's, or cannot be read.
NextLine ==
  /\ stage = "scan"
  /\ IF row = Rows - 1 THEN GivesUp /\ UNCHANGED <<focus, row>>
     ELSE /\ row' = row + 1 /\ UNCHANGED stage
          /\ focus' = IF deaf \/ focus = Len(rows) THEN focus ELSE focus + 1
  /\ UNCHANGED <<screen, rows, signed, trusted, alias, goal, deaf, doubt>>

\* A profile that has to log in shows the login page instead.
ConfirmSelection ==
  /\ stage = "confirm"
  /\ IF ~OnList THEN GivesUp /\ UNCHANGED <<consoleVars, doubt>>
     ELSE /\ stage' = "wait"
          /\ IF deaf THEN Suspect("press lost") /\ UNCHANGED consoleVars
             ELSE /\ UNCHANGED doubt
                  /\ (SignIn(rows[focus]) /\ screen' = "home") \/ Shows("login")
  /\ UNCHANGED <<trusted, alias, goal, row, deaf>>

\* Ten seconds for a login page; without one the switch is taken for done.
AwaitLogin ==
  /\ stage = "wait"
  /\ \/ Seen("login") /\ stage' = "login" /\ UNCHANGED doubt
     \/ Seen("login") /\ stage' = "sync" /\ Suspect("login unseen")
     \/ ~Seen("login") /\ stage' = "sync" /\ UNCHANGED doubt
  /\ UNCHANGED <<consoleVars, trusted, alias, goal, row, deaf>>

\* _login_with_credentials: whether the login succeeded is not looked at.
LogIn ==
  /\ stage = "login"
  /\ \/ ~deaf /\ Seen("login") /\ stage' = "sync" /\ SignIn(goal) /\ screen' = "home"
     \/ GivesUp /\ UNCHANGED consoleVars
  /\ UNCHANGED <<trusted, alias, goal, row, deaf, doubt>>

\* The on-screen keyboard moves by counting; a key that cannot be found is pressed
\* for all that.
Mistyped ==
  /\ Doing("login", "sync") /\ Seen("login") /\ Suspect("typed wrong")
  /\ UNCHANGED <<consoleVars, trusted, alias, goal, row, deaf>>

\* _read_host_gamertag_from_profile_list: back to the list, whose top line is taken
\* for the name of the account; the name goes to the platform too.
SyncName ==
  /\ stage = "sync" /\ Believes
  /\ \/ UNCHANGED <<consoleVars, alias, doubt>>
     \/ /\ ~deaf /\ screen' = "list" /\ focus' = 1 /\ Named(rows[1])
        /\ UNCHANGED <<rows, signed, doubt>>
     \/ /\ screen' = "list" /\ focus' \in 2..Len(rows) /\ Named(rows[focus'])
        /\ Suspect("list unscrolled") /\ UNCHANGED <<rows, signed>>
  /\ UNCHANGED <<goal, row, deaf>>

-----------------------------------------------------------------------------
(* launch_fc_to_ut_menu and back *)

\* The tile and the chain of screens lead to the game, or do not.
LaunchGame ==
  /\ stage = "done"
  /\ \/ ~deaf /\ stage' = "play" /\ Shows("game")
     \/ ~deaf /\ stage' = "onboard" /\ Shows("game")
     \/ GivesUp /\ UNCHANGED consoleVars
  /\ UNCHANGED <<trusted, alias, goal, row, deaf, doubt>>

\* run_ea_onboarding: the first steps of a new player, up to fifteen minutes.
Onboard ==
  /\ stage = "onboard" /\ (stage' = "play" \/ GivesUp)
  /\ UNCHANGED <<consoleVars, trusted, alias, goal, row, deaf, doubt>>

\* Three times A and still at home: the task is paused for a person.
StaysAtHome ==
  /\ Doing("done", "manual") /\ Seen("home")
  /\ UNCHANGED <<consoleVars, trusted, alias, goal, row, deaf, doubt>>
Retried ==
  /\ Doing("manual", "done")
  /\ UNCHANGED <<consoleVars, trusted, alias, goal, row, deaf, doubt>>

\* exit_fc_to_xbox_home: the next account is switched to whether it succeeds or not.
ExitGame ==
  /\ Doing("play", "idle") /\ (Arrives("home") \/ UNCHANGED consoleVars)
  /\ UNCHANGED <<trusted, alias, goal, row, deaf, doubt>>

\* A resume leaves whatever is played, or between two accounts.
ReturnForResume ==
  /\ stage \in {"idle", "play", "manual"} /\ GivesUp
  /\ Arrives("home") \/ UNCHANGED consoleVars
  /\ UNCHANGED <<trusted, alias, goal, row, deaf, doubt>>

-----------------------------------------------------------------------------
SwitchNext ==
  \/ Deafen \/ Hear \/ \E p \in Profile : Meddle(p) \/ Attempt(p) \/ Provision(p)
  \/ GoHome \/ LookAtHome \/ GoToSystem \/ AddOrSwitch \/ AddNewUser \/ EnterList
  \/ ScrollToTop \/ Found \/ Guessed \/ NextLine \/ ConfirmSelection \/ AwaitLogin \/ LogIn
  \/ Mistyped \/ SyncName \/ LaunchGame \/ Onboard \/ StaysAtHome \/ Retried
  \/ ExitGame \/ ReturnForResume

SwitchSpec == SwitchInit /\ [][SwitchNext]_switchVars

-----------------------------------------------------------------------------
(* Properties. *)

\* FC is started under the account whose matches are counted, unless one of the
\* things that the switcher does not notice has happened: screens that are not
\* recognised, names that cannot be read, presses lost anywhere else and attempts
\* that fail half-way do not make it play for somebody else.
RightProfile == stage \in {"done", "play"} /\ signed # goal => doubt # "none"

\* ensure_target_game_account: the profile on the home page is the target's.  All of
\* the things in Doubt break it.
SwitchIsReal == stage = "play" => signed = goal
=============================================================================
