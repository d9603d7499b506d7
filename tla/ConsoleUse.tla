------------------------------ MODULE ConsoleUse ------------------------------
(***************************************************************************)
(* What the platform promises about a console: a lease that one task has   *)
(* at a time, that whoever streams under has, and that its end, its        *)
(* holder's release or a loss the code does not exclude ends.  Each change *)
(* is one step.  StreamLease, with its two layers and its many steps, is   *)
(* shown to implement this.                                                *)
(***************************************************************************)
EXTENDS Integers

CONSTANTS Task, None, TTL

VARIABLES
  holder, \* who has the lease
  time,   \* what is left of it
  users   \* the live tasks that stream under a lease that lasts, and have not lost it

useVars == <<holder, time, users>>

UseInit == holder = None /\ time = 0 /\ users = {}

\* To a task that streams from then on, or to one that has ended meanwhile.
Grant(t) ==
  /\ holder \in {None, t}
  /\ holder' = t /\ time' = TTL /\ users' \in {users, {t}}

\* A release, or the row rewritten as it once was.  A user who loses the lease to a late one
\* is none any more.
Lose ==
  /\ users' = {} /\ holder' \in Task \cup {None} /\ time' \in 0..TTL
  /\ time' = 0 => holder' = None

Leave(t) == t \in users /\ users' = users \ {t} /\ UNCHANGED <<holder, time>>

Pass ==
  /\ time > 0 /\ time' = time - 1
  /\ holder' = (IF time' = 0 THEN None ELSE holder)
  /\ users' \subseteq users /\ (time' = 0 => users' = {})

UseNext == Lose \/ Pass \/ \E t \in Task : Grant(t) \/ Leave(t)

UseSpec == UseInit /\ [][UseNext]_useVars
=============================================================================
