------------------------------ MODULE Navigation ------------------------------
(***************************************************************************)
(* Step 4's way through FC's menus: the table of screens and presses       *)
(* (configs/scene_transitions), the chains cut to fit the screen that is   *)
(* seen, the switcher that runs them, and the screens around a match.      *)
(* Screens carry their numbers.  The game is external: a key leads where   *)
(* the table says, if it arrives.  A screen that is there may not be       *)
(* recognised; none is taken for another.                                  *)
(***************************************************************************)
EXTENDS Naturals, Sequences

CONSTANT Presses   \* bounds the presses of one transition, 20 in the code

ASSUME PressesAssumption == Presses \in Nat \ {0}

VARIABLES
  view,     \* the screen that the console shows
  job,      \* sqb: to a match; auction: to the transfer tab
  post,     \* where Step 4 is
  chain,    \* the transitions left
  way,      \* the transition being run
  left,     \* its presses left
  from,     \* the screen the navigation began at
  slips,    \* what went wrong in it outside the code
  pitched   \* the pitch has been there in this match

navVars == <<view, job, post, chain, way, left, from, slips, pitched>>
wayVars == <<job, chain, from>>

\* Screens without a number.
Pitch == 0
Centre == 1
A == 16
B == 32

\* scene, id, key, presses, target; 20 presses when the table says 0.
MenuTransitions ==
  { <<101, 1, A, 1, 126>>,   <<126, 1, 512, 20, 127>>, <<127, 1, A, 20, 147>>,
    <<147, 1, 4, 2, 149>>,   <<147, 2, 4096, 6, 152>>, <<149, 1, A, 1, 155>>,
    <<149, 2, 4096, 6, 152>>, <<155, 1, A, 1, 156>>,   <<156, 1, A, 20, 168>> }
OpponentTransitions ==
  { <<168, 1, A, 1, 177>>,   <<169, 1, 2048, 1, 177>>, <<170, 1, A, 1, 177>>,
    <<171, 1, 512, 1, 177>>, <<172, 1, A, 1, 177>>,    <<173, 1, 1024, 1, 177>>,
    <<174, 1, A, 1, 177>>,   <<175, 1, 64, 1, 168>>,   <<177, 1, 256, 1, 176>>,
    <<177, 2, A, 1, 183>>,   <<183, 1, A, 10, 189>> }
Transitions == MenuTransitions \cup OpponentTransitions
Ways == {<<t[1], t[2]>> : t \in Transitions}

\* get_transition, get_transitions_by_scene.
Entry(w) == CHOOSE t \in Transitions : t[1] = w[1] /\ t[2] = w[2]
HasEntry(s) == \E t \in Transitions : t[1] = s
Times(w) == IF Entry(w)[4] > Presses THEN Presses ELSE Entry(w)[4]
Target(w) == Entry(w)[5]

\* What a key does to the game that the table does not name.
Elsewhere ==
  { <<152, A, Centre>>, <<Centre, B, 152>>, <<152, B, 147>>, <<189, A, 184>>,
    <<184, A, 102>>, <<102, A, Pitch>>, <<190, A, Pitch>>, <<193, A, 147>> }
Leads(s, key) == {t[5] : t \in {u \in Transitions : u[1] = s /\ u[3] = key}}
            \cup {e[3] : e \in {u \in Elsewhere : u[1] = s /\ u[2] = key}}

UtTargets == {101, 126, 127, 147, 149}   \* FC_UT_TARGET_SCENES
UtMenu    == {127, 147, 149}             \* UT_MENU_SCENE_IDS
View == {t[1] : t \in Transitions} \cup {t[5] : t \in Transitions}
          \cup {e[1] : e \in Elsewhere} \cup {Pitch}

Nav(j)      == IF j = "sqb" THEN {127, 147, 149, 155, 156, 177, 183, 189} \cup 168..175
               ELSE {127, 147, 149} \cup 150..154
Complete(j) == IF j = "sqb" THEN {189} ELSE {152}

SqbChain == << <<147, 1>>, <<149, 1>>, <<155, 1>>, <<156, 1>>, <<168, 1>>, <<177, 2>>, <<183, 1>> >>

\* A mutant: the first opponent is chosen once more.
ChoosesTwice(s) ==
  LET at == {i \in DOMAIN SqbChain : SqbChain[i][1] = s} IN
  CASE s = 189 -> <<>>
    [] at # {} -> SubSeq(SqbChain, CHOOSE i \in at : TRUE, Len(SqbChain))
    [] s \in 169..174 -> << <<s, 1>> >> \o SubSeq(SqbChain, 5, 7)
    [] OTHER -> SqbChain

\* trim_sqb_navigation_chain
TrimSqb(s) ==
  LET at == {i \in DOMAIN SqbChain : SqbChain[i][1] = s} IN
  CASE s = 189 -> <<>>
    [] at # {} -> SubSeq(SqbChain, CHOOSE i \in at : TRUE, Len(SqbChain))
    [] s \in 169..174 -> << <<s, 1>> >> \o SubSeq(SqbChain, 6, 7)
    [] OTHER -> SqbChain
\* trim_auction_navigation_chain
TrimAuction(s) ==
  CASE s = 152 -> <<>>
    [] s = 149 -> << <<149, 2>> >>
    [] s = 147 -> << <<147, 2>> >>
    [] OTHER -> << <<127, 1>>, <<147, 2>> >>
Trim(j, s) == IF j = "sqb" THEN TrimSqb(s) ELSE TrimAuction(s)

\* The screens a chain of its own begins at.
Own(j) == {s \in Nav(j) : Trim(j, s) = <<>> \/ Trim(j, s)[1][1] = s}

NavTypeOK ==
  /\ view \in View /\ from \in View /\ job \in {"sqb", "auction"}
  /\ post \in {"idle", "scan", "step", "press", "look", "there", "dismiss", "run", "check",
               "centre", "back", "play", "lost"}
  /\ chain \in Seq(Ways) /\ Len(chain) <= Len(SqbChain) /\ way \in Ways
  /\ left \in 0..Presses /\ slips \subseteq {"press", "screen", "person"} /\ pitched \in BOOLEAN

\* launch_fc_to_ut_menu takes any of these for the UT menu.
NavInit ==
  /\ view \in UtTargets /\ from = Pitch /\ job = "sqb" /\ post = "idle"
  /\ chain = <<>> /\ way = <<147, 1>> /\ left = 0 /\ slips = {} /\ pitched = FALSE

-----------------------------------------------------------------------------
(* The game, and a person. *)

Navigating == post \in {"scan", "step", "press", "look", "there", "lost"}
Slip(x) == slips' = IF Navigating THEN slips \cup {x} ELSE slips

Types(key) ==
  \/ /\ Leads(view, key) # {} /\ view' \in Leads(view, key) /\ UNCHANGED slips
  \/ /\ UNCHANGED view /\ IF Leads(view, key) = {} THEN UNCHANGED slips ELSE Slip("press")

\* _detect_any_scene of a set.
Sees(scenes) == view \in scenes /\ UNCHANGED slips
Misses(scenes) == IF view \in scenes THEN Slip("screen") ELSE UNCHANGED slips

GameGoesOn ==
  /\ \/ view = 102 /\ view' = Pitch
     \/ view = Pitch /\ view' = 193
  /\ pitched' = (pitched \/ view' = Pitch)
  /\ UNCHANGED <<wayVars, post, way, left, slips>>

Person(s) ==
  /\ view' = s /\ s \in UtMenu \cup {169, 175, 177, 189, 190} /\ view # s /\ Slip("person")
  /\ UNCHANGED <<wayVars, post, way, left, pitched>>

-----------------------------------------------------------------------------
(* navigator, and run_scene_transition_chain *)

FromTo(s, t) == post = s /\ post' = t
\* A function's variables end with it.
Returns == chain' = <<>> /\ way' = <<147, 1>> /\ left' = 0 /\ from' = Pitch /\ slips' = {}

NavigateTo(j) ==
  /\ FromTo("idle", "scan") /\ job' = j /\ from' = view /\ pitched' = FALSE
  /\ UNCHANGED <<view, chain, way, left, slips>>

Follow(c) == chain' = c /\ post' = IF c = <<>> THEN "there" ELSE "step"

\* What is not recognised has the longest chain.
Scan ==
  /\ post = "scan"
  /\ \/ Sees(Nav(job)) /\ Follow(Trim(job, view))
     \/ Misses(Nav(job)) /\ Follow(Trim(job, Pitch))
  /\ UNCHANGED <<view, job, way, left, from, pitched>>

\* Between two transitions: there already?
EndsEarly ==
  /\ FromTo("step", "there") /\ Sees(Complete(job))
  /\ UNCHANGED <<view, wayVars, way, left, pitched>>
Begin(w, s) == way' = w /\ left' = Times(w) /\ post' = s
NextTransition ==
  /\ post = "step" /\ Misses(Complete(job)) /\ Begin(chain[1], "press")
  /\ UNCHANGED <<view, wayVars, pitched>>

\* _run_scene_transition, for a chain and for a screen to be dismissed: the key,
\* until the target is seen.
PressKey ==
  /\ \/ FromTo("press", "look") \/ FromTo("run", "check")
  /\ Types(Entry(way)[3]) /\ left' = left - 1
  /\ UNCHANGED <<wayVars, way, pitched>>
NoInput ==
  /\ \/ FromTo("press", "lost") \/ FromTo("run", "dismiss")
  /\ Slip("press") /\ UNCHANGED <<view, wayVars, way, left, pitched>>
Reached ==
  /\ Sees({Target(way)})
  /\ \/ post = "look" /\ Follow(Tail(chain))
     \/ FromTo("check", "dismiss") /\ UNCHANGED chain
  /\ UNCHANGED <<view, job, way, left, from, pitched>>
PressAgain ==
  /\ left > 0 /\ Misses({Target(way)})
  /\ \/ FromTo("look", "press") \/ FromTo("check", "run")
  /\ UNCHANGED <<view, wayVars, way, left, pitched>>
NotReached ==
  /\ left = 0 /\ Misses({Target(way)})
  /\ \/ FromTo("look", "lost") \/ FromTo("check", "dismiss")
  /\ UNCHANGED <<view, wayVars, way, left, pitched>>

\* The match, or the round, is skipped; the next one is tried.
SkipRound ==
  /\ FromTo("lost", "idle") /\ Returns /\ UNCHANGED <<view, job, pitched>>

-----------------------------------------------------------------------------
(* dismiss_until_scenes *)

Wanted == IF job = "sqb" THEN {102, 190} ELSE UtMenu
Probes == IF job = "sqb" THEN Nav("sqb") \cup {190, 102, 193, 194} \cup 184..188 ELSE Nav("auction")

\* 189 is there: what comes before the kick-off is dismissed.
KickOff ==
  /\ FromTo("there", "dismiss") /\ job = "sqb" /\ Returns
  /\ UNCHANGED <<view, job, pitched>>
EnterCentre ==
  /\ FromTo("there", "dismiss") /\ job = "auction" /\ Returns
  /\ view' \in Leads(view, A) \cup {view}
  /\ UNCHANGED <<job, pitched>>

Dismissed ==
  /\ post = "dismiss" /\ Sees(Wanted)
  /\ post' = (IF job = "sqb" THEN "play" ELSE "idle") /\ way' = <<147, 1>> /\ left' = 0
  /\ UNCHANGED <<view, wayVars, pitched>>
\* The first transition of the screen's.
DismissByTable ==
  /\ post = "dismiss" /\ Sees(Probes) /\ HasEntry(view) /\ Begin(<<view, 1>>, "run")
  /\ UNCHANGED <<view, wayVars, pitched>>
\* A screen without one; and, before a match, one that is not recognised.
DismissByA ==
  /\ post = "dismiss" /\ (view \in Probes => ~HasEntry(view) \/ job = "sqb")
  /\ view \in Probes \/ job = "sqb"
  /\ Types(A) /\ pitched' = (pitched \/ view' = Pitch)
  /\ UNCHANGED <<wayVars, post, way, left>>
\* 90 or 45 seconds.
DismissTimesOut ==
  /\ post = "dismiss" /\ way' = <<147, 1>>
  /\ IF job = "sqb" THEN post' = "idle" /\ left' = 0 ELSE post' = "back" /\ left' = Presses
  /\ UNCHANGED <<view, wayVars, slips, pitched>>

\* _execute_transfer_round: back with B; the round counts all the same.
BackOut ==
  /\ post = "back"
  /\ IF left > 0 /\ view \notin UtMenu
     THEN Types(B) /\ left' = left - 1 /\ UNCHANGED post
     ELSE post' = "idle" /\ left' = 0 /\ UNCHANGED <<view, slips>>
  /\ UNCHANGED <<wayVars, way, pitched>>

-----------------------------------------------------------------------------
(* run_local_in_match_loop, until _detect_match_ended *)

Tick ==
  /\ post = "play" /\ Types(A) /\ pitched' = (pitched \/ view' = Pitch)
  /\ UNCHANGED <<wayVars, post, way, left>>
\* The screens before and after a match.  _skip_settlement does nothing then.
MatchEnded ==
  /\ FromTo("play", "idle") /\ Sees({102, 193} \cup UtMenu)
  /\ UNCHANGED <<view, wayVars, way, left, pitched>>
MatchTimesOut ==
  /\ FromTo("play", "idle") /\ UNCHANGED <<view, wayVars, way, left, slips, pitched>>

-----------------------------------------------------------------------------
NavNext ==
  \/ GameGoesOn \/ (\E s \in View : Person(s)) \/ (\E j \in {"sqb", "auction"} : NavigateTo(j))
  \/ Scan \/ EndsEarly \/ NextTransition \/ PressKey \/ NoInput \/ Reached \/ PressAgain \/ NotReached
  \/ SkipRound \/ KickOff \/ EnterCentre \/ Dismissed \/ DismissByTable \/ DismissByA \/ DismissTimesOut
  \/ BackOut \/ Tick \/ MatchEnded \/ MatchTimesOut

NavSpec == NavInit /\ [][NavNext]_navVars
-----------------------------------------------------------------------------
(* Properties. *)

\* A navigation that says it has arrived is where it was to go; and from every
\* screen that a chain of its own begins at it arrives, unless a key is lost, a
\* screen is not recognised or a person interferes: the chains fit the table, and
\* the presses of one transition do not run into the next.
WayIsFound ==
  /\ post = "there" /\ "person" \notin slips => view \in Complete(job)
  /\ post = "lost" /\ slips = {} => from \notin Own(job)

\* launch_fc_to_ut_menu: from what it takes for the UT menu the way is found. Does not
\* hold: no chain begins at three of the scenes taken for the menu.
UtMenuIsEnough == post = "lost" /\ slips = {} => from \notin UtTargets

\* A match that is counted because its end was seen has been on the pitch. Does not
\* hold: scene 102 is the one before the kick-off and one of a match's end.
EndedWasPlayed == [][post = "play" /\ post' = "idle" /\ view = 102 => pitched]_navVars

\* A match is not begun by a navigation that says it has not arrived. Does not hold: up
\* to twenty presses of A run past the menu.
NoStrayMatch == post = "lost" /\ "person" \notin slips /\ from \in UtMenu => view \notin {184, 102, Pitch}
=============================================================================
