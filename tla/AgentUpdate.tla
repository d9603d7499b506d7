------------------------------ MODULE AgentUpdate ------------------------------
(***************************************************************************)
(* The update manager of the agent: notices of new versions, a download    *)
(* each mandatory notice starts by itself, the commands to download and to *)
(* install, and the package files, which outlive the process.  All of them *)
(* use one offer and one path; each version has one file, which every      *)
(* download of it opens and empties, whether another one writes it or not. *)
(***************************************************************************)
EXTENDS Integers, FiniteSets

CONSTANTS
  Version, NoVersion,
  Downloads   \* downloads a process begins, at most

ASSUME UpdateAssumption == NoVersion \notin Version /\ Downloads \in Nat

VARIABLES
  offer,    \* _update_info: the version that is offered
  urgent,   \*   and whether it is mandatory
  path,     \* _download_path: the version whose file it names
  package,  \* package[v]: what the file of v holds
  opener,   \* opener[v]: the download that opened the file last; 0 for one that is gone
  jobs,     \* the downloads under way
  begun,    \* downloads this process has begun
  installed \* what was installed last: [of, what]

updateVars == <<offer, urgent, path, package, opener, jobs, begun, installed>>

\* A download: its number, its version, whether it started by itself, how far it is; and,
\* as history, whether it met another download or another offer.
Job == [nr: 1..Downloads, of: Version \cup {NoVersion}, auto: BOOLEAN,
        at: {"due", "asked", "open"}, met: BOOLEAN]

UpdateTypeOK ==
  /\ {offer, path} \subseteq Version \cup {NoVersion} /\ urgent \in BOOLEAN
  /\ package \in [Version -> {"none", "partial", "whole"}]
  /\ opener \in [Version -> 0..Downloads] /\ begun \in 0..Downloads
  /\ jobs \subseteq Job
  /\ installed \in [of: Version \cup {NoVersion}, what: {"none", "partial", "whole"}]

UpdateInit ==
  /\ offer = NoVersion /\ urgent = FALSE /\ path = NoVersion
  /\ package = [v \in Version |-> "none"] /\ opener = [v \in Version |-> 0]
  /\ jobs = {} /\ begun = 0
  /\ installed = [of |-> NoVersion, what |-> "none"]

-----------------------------------------------------------------------------
Disturbed(js) == {[j EXCEPT !.met = TRUE] : j \in js}

\* check_update, handle_version_update: the offer is what was told last.
Informed(v, mandatory) == offer' = v /\ urgent' = mandatory
Known(v, mandatory) == offer = v /\ urgent = mandatory

\* One more download, beside those under way.
Begins(of, auto, at) ==
  /\ begun < Downloads /\ begun' = begun + 1
  /\ jobs' = Disturbed(jobs) \cup
       {[nr |-> begun + 1, of |-> of, auto |-> auto, at |-> at, met |-> jobs # {}]}

\* _update_check_loop: nothing follows from it by itself.
CheckUpdate(v, mandatory) ==
  /\ Informed(v, mandatory)
  /\ jobs' = IF Known(v, mandatory) THEN jobs ELSE Disturbed(jobs)
  /\ UNCHANGED <<path, package, opener, begun, installed>>

\* One message after the other: the listener awaits what a command does.
Listening == \A j \in jobs : j.auto

\* handle_version_update: a mandatory one is downloaded at once, in a coroutine.
NoticeVersion(v, mandatory) ==
  /\ Listening /\ Informed(v, mandatory)
  /\ IF mandatory THEN Begins(NoVersion, TRUE, "due")
     ELSE /\ jobs' = IF Known(v, mandatory) THEN jobs ELSE Disturbed(jobs)
          /\ UNCHANGED begun
  /\ UNCHANGED <<path, package, opener, installed>>

Becomes(j, to) == jobs' = (jobs \ {j}) \cup {to}

\* download_update: the path names the offer's file before the first byte is there.
Begin(j) ==
  /\ j.at = "due" /\ Becomes(j, [j EXCEPT !.of = offer, !.at = "asked"])
  /\ path' = offer
  /\ UNCHANGED <<offer, urgent, package, opener, begun, installed>>
DownloadCommand ==
  /\ Listening /\ offer # NoVersion
  /\ Begins(offer, FALSE, "asked") /\ path' = offer
  /\ UNCHANGED <<offer, urgent, package, opener, installed>>

\* download_file: the platform answers with the package, and the file is opened and empty.
Opens(j) ==
  /\ j.at = "asked" /\ Becomes(j, [j EXCEPT !.at = "open"])
  /\ package' = [package EXCEPT ![j.of] = "partial"]
  /\ opener' = [opener EXCEPT ![j.of] = j.nr]
  /\ UNCHANGED <<offer, urgent, path, begun, installed>>

\* Any other answer: what lies there stays.
Declined(j) ==
  /\ j.at = "asked" /\ jobs' = jobs \ {j}
  /\ UNCHANGED <<offer, urgent, path, package, opener, begun, installed>>

\* An exception, or a checksum that is not right: the file is removed, unless another
\* download has it open and the system keeps it for that.
Fails(j) ==
  /\ j.at \in {"asked", "open"} /\ jobs' = jobs \ {j}
  /\ \/ /\ package' = [package EXCEPT ![j.of] = "none"] /\ opener' = [opener EXCEPT ![j.of] = 0]
     \/ /\ \E k \in jobs \ {j} : k.of = j.of /\ k.at = "open"
        /\ UNCHANGED <<package, opener>>
  /\ UNCHANGED <<offer, urgent, path, begun, installed>>

\* What the file of j holds when j has received and written everything.  Another download
\* that emptied it meanwhile may have written again what j had, or be about to.
Left(j) ==
  IF opener[j.of] = j.nr THEN {"whole"}
  ELSE IF package[j.of] = "partial" THEN {"partial", "whole"} ELSE {package[j.of]}

\* install_update: what the path names is installed, if a file is there.
Install(pkg) ==
  installed' = IF path = NoVersion \/ pkg[path] = "none" THEN installed
               ELSE [of |-> path, what |-> pkg[path]]

\* _auto_download_and_install: after its own download it installs.
Complete(j) ==
  /\ j.at = "open" /\ jobs' = jobs \ {j}
  /\ \E content \in Left(j) : package' = [package EXCEPT ![j.of] = content]
  /\ IF j.auto THEN Install(package') ELSE UNCHANGED installed
  /\ UNCHANGED <<offer, urgent, path, opener, begun>>

ForcedInstall ==
  /\ Listening /\ Install(package)
  /\ UNCHANGED <<offer, urgent, path, package, opener, jobs, begun>>
\* A mandatory offer is not for the command to install.
InstallCommand ==
  /\ Listening /\ ~urgent /\ Install(package)
  /\ UNCHANGED <<offer, urgent, path, package, opener, jobs, begun>>

\* The process ends, and another one starts: the files stay.
Restart ==
  /\ offer' = NoVersion /\ urgent' = FALSE /\ path' = NoVersion
  /\ jobs' = {} /\ begun' = 0 /\ opener' = [v \in Version |-> 0]
  /\ UNCHANGED <<package, installed>>

-----------------------------------------------------------------------------
UpdateNext ==
  \/ \E v \in Version, mandatory \in BOOLEAN : CheckUpdate(v, mandatory) \/ NoticeVersion(v, mandatory)
  \/ DownloadCommand \/ InstallCommand \/ Restart
  \/ \E j \in jobs : Begin(j) \/ Opens(j) \/ Declined(j) \/ Fails(j) \/ Complete(j)

UpdateSpec == UpdateInit /\ [][UpdateNext]_updateVars

-----------------------------------------------------------------------------
(* Properties. *)

\* While a mandatory update is downloaded nothing else is installed, and what it installs
\* is the whole package of the version it was started for, whatever an earlier process
\* left on disk; unless another download was begun meanwhile, or another version offered.
LoneUpdateIsWhole ==
  [][\A j \in jobs : j.auto /\ ~j.met /\ installed' # installed =>
       j \notin jobs' /\ installed' = [of |-> offer, what |-> "whole"]]_updateVars

\* install_update: the downloaded update.  Does not hold: the notice of another version
\* puts its path in the place of a download's, which then installs it half downloaded; a
\* command's download of the same version empties the file before it is installed; what
\* a dead process left is installed by the command when its own download is refused.
InstalledIsWhole == installed.what # "partial"
=============================================================================
