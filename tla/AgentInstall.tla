------------------------------ MODULE AgentInstall ------------------------------
(***************************************************************************)
(* The installations of the agent on one computer: the guard that allows   *)
(* one directory, the registration that gives a process its secret, the    *)
(* files that keep it, and the uninstallation.  A process may die between  *)
(* any two steps, and may be started twice.  The machine id, and so the    *)
(* agent's id, is the same for all directories of a computer.              *)
(***************************************************************************)
EXTENDS Integers, FiniteSets

CONSTANTS
  Dir,       \* directories the agent is installed in
  Nowhere,
  Process,   \* processes of the agent that run at a time
  Secrets    \* how many secrets are ever made

ASSUME InstallAssumption == Nowhere \notin Dir /\ Secrets \in Nat

VARIABLES
  marker,   \* InstallPath of the registry
  file,     \* file[d]: the secret in d's agent_credentials.json; 0 without one
  row,      \* the platform's secret of this agent; 0 when it has no row
  made,     \* secrets made so far
  coded,    \* those that were made for a registration code
  root,     \* root[p]: the directory process p was started in
  proc,     \* proc[p]: how far it is
  mem,      \* mem[p]: the secret its clients use
  unmarking, \* an uninstaller has deleted a secret, and the marker is next
  disturbed, \* history: processes that met another one, or an uninstallation, since they
             \*          were started
  keeper    \* history: the directory whose file leads to the platform's secret

installVars == <<marker, file, row, made, coded, root, proc, mem, unmarking, disturbed, keeper>>
diskVars    == <<marker, file, unmarking>>

Before == {"booted", "activate", "register", "ask", "save", "mark", "manager"}
InstallTypeOK ==
  /\ {marker, keeper} \subseteq Dir \cup {Nowhere} /\ root \in [Process -> Dir \cup {Nowhere}]
  /\ file \in [Dir -> 0..Secrets] /\ mem \in [Process -> 0..Secrets]
  /\ row \in 0..Secrets /\ made \in 0..Secrets /\ coded \subseteq 1..Secrets
  /\ proc \in [Process -> Before \cup {"off", "running"}]
  /\ unmarking \in BOOLEAN /\ disturbed \subseteq Process

InstallInit ==
  /\ marker = Nowhere /\ keeper = Nowhere /\ row = 0 /\ made = 0 /\ coded = {}
  /\ file = [d \in Dir |-> 0] /\ unmarking = FALSE
  /\ root = [p \in Process |-> Nowhere] /\ mem = [p \in Process |-> 0]
  /\ proc = [p \in Process |-> "off"] /\ disturbed = {}

-----------------------------------------------------------------------------
ProcAt(p, st) == proc' = [proc EXCEPT ![p] = st]
Exits(p) ==
  /\ ProcAt(p, "off") /\ root' = [root EXCEPT ![p] = Nowhere] /\ mem' = [mem EXCEPT ![p] = 0]
  /\ disturbed' = disturbed \ {p}

\* check_existing_installation: the marker names this directory, or none.
Installable(d) == marker \in {d, Nowhere}

Up(p) == proc[p] # "off"

\* The processes that one started in d meets: those that are not through with their own
\* start, and those of the same directory.
MetBy(p, d) == {q \in Process \ {p} : proc[q] \in Before \/ (Up(q) /\ root[q] = d)}

\* main: assert_single_install.
Boot(p, d) ==
  /\ proc[p] = "off" /\ Installable(d)
  /\ ProcAt(p, "booted") /\ root' = [root EXCEPT ![p] = d]
  /\ disturbed' = IF MetBy(p, d) = {} THEN disturbed ELSE disturbed \cup MetBy(p, d) \cup {p}
  /\ UNCHANGED <<row, made, coded, mem, keeper>> /\ UNCHANGED diskVars

\* run: a registration code on the command line is activated again, whatever is stored;
\* else what load_credentials finds starts the manager, and without it the registration.
Chooses(p) ==
  LET stored == file[root[p]] IN
  \/ ProcAt(p, "activate") /\ UNCHANGED mem
  \/ stored # 0 /\ ProcAt(p, "manager") /\ mem' = [mem EXCEPT ![p] = stored]
  \/ stored = 0 /\ ProcAt(p, "register") /\ UNCHANGED mem

Unmigrated(p) ==
  /\ proc[p] = "booted" /\ Chooses(p)
  /\ UNCHANGED <<marker, file, row, made, coded, root, unmarking, disturbed, keeper>>

\* main: an installation that has a secret where no marker is gets one
\* (migrate_install_marker_if_needed), then run.
Migrate(p) ==
  /\ proc[p] = "booted" /\ Chooses(p)
  /\ marker' = IF file[root[p]] # 0 /\ marker = Nowhere THEN root[p] ELSE marker
  /\ UNCHANGED <<file, row, made, coded, root, unmarking, disturbed, keeper>>

\* activate, auto_register: the guard once more, and a new secret.
MakeSecret(p) ==
  /\ proc[p] \in {"activate", "register"} /\ made < Secrets
  /\ IF Installable(root[p])
     THEN /\ ProcAt(p, "ask") /\ made' = made + 1
          /\ mem' = [mem EXCEPT ![p] = made + 1] /\ UNCHANGED <<root, disturbed>>
          /\ coded' = IF proc[p] = "activate" THEN coded \cup {made + 1} ELSE coded
     ELSE Exits(p) /\ UNCHANGED <<made, coded>>
  /\ UNCHANGED <<row, keeper>> /\ UNCHANGED diskVars

\* The platform takes the secret, or refuses the code.  Its answer may be lost: the
\* process ends.
Ask(p) ==
  /\ proc[p] = "ask"
  /\ \/ /\ row' = mem[p] /\ keeper' = Nowhere
        /\ (ProcAt(p, "save") /\ UNCHANGED <<root, mem, disturbed>>) \/ Exits(p)
     \/ UNCHANGED <<row, keeper>> /\ Exits(p)
  /\ UNCHANGED <<made, coded>> /\ UNCHANGED diskVars

\* _save_credentials, then mark_installed.
Save(p) ==
  /\ proc[p] = "save" /\ ProcAt(p, "mark")
  /\ file' = [file EXCEPT ![root[p]] = mem[p]]
  /\ keeper' = IF row = mem[p] THEN root[p] ELSE IF keeper = root[p] THEN Nowhere ELSE keeper
  /\ UNCHANGED <<marker, row, made, coded, root, mem, unmarking, disturbed>>
Mark(p) ==
  /\ proc[p] = "mark" /\ ProcAt(p, "manager")
  /\ marker' = root[p]
  /\ UNCHANGED <<file, row, made, coded, root, mem, unmarking, disturbed, keeper>>

\* ApiClient.register: the platform keeps the secret it has, or makes one.
Registers(p) ==
  /\ IF row # 0 THEN UNCHANGED <<row, made>>
                ELSE made < Secrets /\ made' = made + 1 /\ row' = made + 1
  /\ keeper' = IF file[root[p]] = mem[p] THEN root[p] ELSE IF row = 0 THEN Nowhere ELSE keeper

\* CentralManager.register, for credentials with a code: the secret of the answer is the
\* one to use.  It is saved next to the agent's own sources, where nothing loads it from.
\* When the answer is lost the process ends.
StartManager(p) ==
  /\ proc[p] = "manager"
  /\ IF mem[p] \notin coded
     THEN ProcAt(p, "running") /\ UNCHANGED <<row, made, keeper, mem, root, disturbed>>
     ELSE /\ Registers(p)
          /\ \/ /\ ProcAt(p, "running") /\ mem' = [mem EXCEPT ![p] = row']
                /\ UNCHANGED <<root, disturbed>>
             \/ Exits(p)
  /\ UNCHANGED coded /\ UNCHANGED diskVars

\* The process dies, or is stopped.
Crash(p) ==
  /\ Up(p) /\ Exits(p)
  /\ UNCHANGED <<row, made, coded, keeper>> /\ UNCHANGED diskVars

\* An administrator deletes the agent.
Forget ==
  /\ row # 0 /\ row' = 0
  /\ UNCHANGED <<made, coded, root, proc, mem, disturbed, keeper>> /\ UNCHANGED diskVars

procVars == <<row, made, coded, root, proc, mem, keeper>>

\* --uninstall, a process of its own, whatever runs: the platform is told as far as it
\* can be, then the secret goes, then the marker, whichever directory it names.
Uninstall(d) ==
  /\ file' = [file EXCEPT ![d] = 0] /\ unmarking' = TRUE
  /\ UNCHANGED <<marker, disturbed>> /\ UNCHANGED procVars
\* Another uninstaller may have got as far.
ClearRegistry ==
  /\ unmarking /\ unmarking' \in BOOLEAN
  /\ marker' = Nowhere
  /\ disturbed' = disturbed \cup {p \in Process : Up(p)}
  /\ UNCHANGED file /\ UNCHANGED procVars
RemovalDies ==
  /\ unmarking /\ unmarking' = FALSE
  /\ UNCHANGED <<marker, file, disturbed>> /\ UNCHANGED procVars

-----------------------------------------------------------------------------
InstallNext ==
  \/ \E p \in Process :
       \/ \E d \in Dir : Boot(p, d)
       \/ Migrate(p) \/ MakeSecret(p) \/ Ask(p) \/ Save(p) \/ Mark(p) \/ StartManager(p) \/ Crash(p)
  \/ \E d \in Dir : Uninstall(d)
  \/ ClearRegistry \/ RemovalDies \/ Forget

InstallSpec == InstallInit /\ [][InstallNext]_installVars

-----------------------------------------------------------------------------
(* Properties. *)

\* install_guard: agents run in one directory of a computer, through crashes between the
\* registration's steps, half uninstallations and new directories; except one that was
\* started while another was starting (the check and the mark are apart), or beneath which
\* an uninstallation took the marker (it stops no agent but a Windows service).
OneAgentRuns ==
  \A p, q \in Process \ disturbed :
    proc[p] = "running" /\ Up(q) => root[p] = root[q]

\* An undisturbed agent that runs where the platform's secret was kept has that secret: no
\* crash, refused code, half uninstallation or registration elsewhere leaves it another.
RunningIsKnown ==
  \A p \in Process \ disturbed :
    proc[p] = "running" /\ row # 0 /\ keeper = root[p] => mem[p] = row

OneKnownAgent == OneAgentRuns /\ RunningIsKnown

\* register, activate: an agent that runs has the platform's secret.  Does not hold: when
\* the answer to a second activation is lost, the old secret is loaded again.
RunningAuthenticates == \A p \in Process : proc[p] = "running" /\ row # 0 => mem[p] = row

\* get_credentials: read again for each request.
GetCredentials(p) == file[root[p]]

\* CentralManager._save_credentials: the reports' CredentialsProvider reads the
\* newest secret.  Does not hold.
ReportsAuthenticate ==
  \A p \in Process : proc[p] = "running" /\ mem[p] = row => GetCredentials(p) = row
=============================================================================
