------------------------------- MODULE MCStream -------------------------------
(***************************************************************************)
(* The parts of one task's stream that share no state, checked side by     *)
(* side: a behaviour chooses one of them and runs it.                      *)
(***************************************************************************)
EXTENDS StreamOpen, StreamHealth, ProfileSwitch, Login, ManualInput, RemotePlay, Navigation

VARIABLE part

streamVars == <<part, openVars, healthVars, switchVars, loginVars, inputVars, playVars, navVars>>

StreamInit ==
  /\ part \in {"open", "health", "switch", "login", "input", "play", "nav"}
  /\ OpenInit /\ HealthInit /\ SwitchInit /\ LoginInit /\ InputInit /\ PlayInit /\ NavInit
  /\ part = "login" \/ local = [l \in Login |-> Nothing]
  /\ part = "input" \/ mapper = FALSE
  /\ part = "nav" \/ view = 147

OpenPart == part = "open" /\ OpenNext /\ UNCHANGED <<part, healthVars, switchVars, loginVars, inputVars, playVars, navVars>>
HealthPart == part = "health" /\ HealthNext /\ UNCHANGED <<part, openVars, switchVars, loginVars, inputVars, playVars, navVars>>
SwitchPart == part = "switch" /\ SwitchNext /\ UNCHANGED <<part, openVars, healthVars, loginVars, inputVars, playVars, navVars>>
LoginPart == part = "login" /\ LoginNext /\ UNCHANGED <<part, openVars, healthVars, switchVars, inputVars, playVars, navVars>>
InputPart == part = "input" /\ InputNext /\ UNCHANGED <<part, openVars, healthVars, switchVars, loginVars, playVars, navVars>>
PlayPart == part = "play" /\ PlayNext /\ UNCHANGED <<part, openVars, healthVars, switchVars, loginVars, inputVars, navVars>>
NavPart == part = "nav" /\ NavNext
  /\ UNCHANGED <<part, openVars, healthVars, switchVars, loginVars, inputVars, playVars>>

\* The fairness of StreamHealth, for the behaviours that are its own.
StreamSpec ==
  /\ StreamInit /\ [][OpenPart \/ HealthPart \/ SwitchPart \/ LoginPart \/ InputPart \/ PlayPart
                    \/ NavPart]_streamVars
  /\ WF_healthVars(part = "health" /\ MonitorTick("media"))
  /\ WF_healthVars(part = "health" /\ WindowSlides("media"))
  /\ WF_healthVars(part = "health" /\ Enter("media"))
  /\ WF_healthVars(part = "health" /\ TearDown("media"))
  /\ WF_healthVars(part = "health" /\ Verified("media"))

\* The types of every part.
StreamTypeOK == OpenTypeOK /\ HealthTypeOK /\ SwitchTypeOK /\ LoginTypeOK /\ InputTypeOK /\ PlayTypeOK
  /\ NavTypeOK
=============================================================================
