-------------------------------- MODULE Login --------------------------------
(***************************************************************************)
(* Step 1: the login of a streaming account.  Its tokens are kept in one   *)
(* row of the platform and in a file of each agent; a login reads one of   *)
(* the two, takes the chain of tokens up where the oldest valid one allows *)
(* and writes what it got to the platform, then to its own file.  Each     *)
(* login here is a task of the same account on an agent of its own.  A     *)
(* token is known by the login that fetched it; its age is not kept, so    *)
(* that a token in hand may be young enough or not.                        *)
(***************************************************************************)
EXTENDS Naturals, FiniteSets

CONSTANTS
  Login,
  Earlier,    \* the login the row of the platform is from
  NoToken,
  Attempts,   \* writes a login makes before it gives up: 3
  LastVersion \* bound: the platform's versions go up to here

ASSUME LoginAssumption ==
  /\ Earlier \notin Login /\ NoToken \notin Login \cup {Earlier}
  /\ Attempts \in Nat \ {0} /\ LastVersion \in Nat \ {0}

VARIABLES
  saved,        \* the platform's row: a version and a token document, or none
  local,      \* the file of each login's agent
  place,         \* where each login is
  doc,        \* the tokens it has
  changed,    \* they are not those it started from, or it started from none
  expected,   \* the version it will name when it writes
  attempt     \* its writes so far

loginVars == <<saved, local, place, doc, changed, expected, attempt>>
cacheVars == <<saved, local, expected, attempt>>
heldVars == <<doc, changed>>

Maker == Login \cup {Earlier, NoToken}
Token == {"user", "xsts", "xhome"}
Doc == [Token -> Maker]
Empty == [t \in Token |-> NoToken]
Stamped == [ver : 0..LastVersion, doc : Doc]
Nothing == [ver |-> 0, doc |-> Empty]

Place == {"start", "resolve", "chain", "refresh", "device", "page", "web", "code", "xsts", "xhome", "console",
       "put", "again", "write", "invalidate", "delete", "ok", "failed"}

LoginTypeOK ==
  /\ saved \in Stamped /\ local \in [Login -> Stamped] /\ place \in [Login -> Place]
  /\ doc \in [Login -> Doc] /\ changed \in [Login -> BOOLEAN]
  /\ expected \in [Login -> 0..LastVersion] /\ attempt \in [Login -> 0..Attempts]

FromBefore == [ver |-> 1, doc |-> [t \in Token |-> Earlier]]

LoginInit ==
  /\ saved = FromBefore
  /\ local \in [Login -> {Nothing, FromBefore}]
  /\ place = [l \in Login |-> "start"]
  /\ doc = [l \in Login |-> Empty] /\ changed = [l \in Login |-> FALSE]
  /\ expected = [l \in Login |-> 0] /\ attempt = [l \in Login |-> 0]

Moves(l, here, there) == place[l] = here /\ place' = [place EXCEPT ![l] = there]
\* A request that changes nothing but the way on.
Asked(l, here, ways) == (\E w \in ways : Moves(l, here, w)) /\ UNCHANGED <<heldVars, cacheVars>>
\* The login is over, with or without its tokens, and forgets what it had.
Ends(l, here, how) ==
  /\ Moves(l, here, how)
  /\ doc' = [doc EXCEPT ![l] = Empty] /\ changed' = [changed EXCEPT ![l] = FALSE]
  /\ expected' = [expected EXCEPT ![l] = 0] /\ attempt' = [attempt EXCEPT ![l] = 0]
Gains(l, token) == doc' = [doc EXCEPT ![l][token] = l] /\ changed' = [changed EXCEPT ![l] = TRUE]
\* A request whose answer is a token of this login's own.
Fetched(l, here, token, there) ==
  Moves(l, here, there) /\ Gains(l, token) /\ UNCHANGED cacheVars

-----------------------------------------------------------------------------
(* Where the tokens come from. *)

\* step1_execute_login: no address or password, or cancelled.
Start(l) == Asked(l, "start", {"resolve"}) \/ (Ends(l, "start", "failed") /\ UNCHANGED <<saved, local>>)

Hydrate(l, d, v) ==
  /\ doc' = [doc EXCEPT ![l] = d] /\ changed' = [changed EXCEPT ![l] = d = Empty]
  /\ expected' = [expected EXCEPT ![l] = v]

\* get_auth_cache: the platform may not answer, which is as if it had no row.
GetAuthCache == {saved, Nothing}

\* What is found on the platform goes to the file, whatever the file had; the file counts
\* when the platform has no row or does not answer.
ResolveTokenDoc(l) ==
  /\ Moves(l, "resolve", "chain") /\ UNCHANGED <<saved, attempt>>
  /\ \E row \in GetAuthCache :
       IF row # Nothing THEN Hydrate(l, row.doc, row.ver) /\ local' = [local EXCEPT ![l] = row]
       ELSE Hydrate(l, local[l].doc, local[l].ver) /\ UNCHANGED local

-----------------------------------------------------------------------------
(* The chain of tokens, from the youngest that is there. *)

\* A young xhome token is taken as it is, with the console that came with it.
DoAuthentication(l) ==
  \/ doc[l]["xhome"] # NoToken /\ Asked(l, "chain", {"put"})
  \/ doc[l]["xsts"] # NoToken /\ Asked(l, "chain", {"xhome"})
  \/ doc[l]["user"] # NoToken /\ Asked(l, "chain", {"refresh"})
  \/ Asked(l, "chain", {"device"})

\* A mutant: what a failed login has is written as well.
PersistsFailures(l, here) == Asked(l, here, {"put"})

Fail(l, here) == Asked(l, here, {"invalidate"})

\* oauth_token with the refresh token; when it fails, the whole process is gone through.
RefreshUserToken(l) ==
  \/ Fetched(l, "refresh", "user", "xsts")
  \/ Moves(l, "refresh", "invalidate") /\ Gains(l, "user") /\ UNCHANGED cacheVars
  \/ Asked(l, "refresh", {"device"})

\* get_device_token, sisu_authenticate
GetDeviceToken(l) == Asked(l, "device", {"page"}) \/ Fail(l, "device")
\* oauth_authorize, get_credential_type, pp_secure: what the page is not as expected, or what
\* it asks for is refused, is left to a browser.
XalRedirectUrl(l) == Asked(l, "page", {"code", "web"})
\* xal_redirect_url_web: with one of the agent's few browsers, given back in any case.
OAuthWebLogin(l) == Asked(l, "web", {"code"}) \/ Fail(l, "web")
GetUserToken(l) == Fetched(l, "code", "user", "xsts") \/ Fail(l, "code")
\* sisu_authorize, xsts_authorize
XstsAuthorize(l) == Fetched(l, "xsts", "xsts", "xhome") \/ Fail(l, "xsts")
GetXhomeToken(l) == Fetched(l, "xhome", "xhome", "console") \/ Fail(l, "xhome")
\* None, more than one, or no answer: with the new tokens in hand the login fails.
GetXhomeConsole(l) == Asked(l, "console", {"put"}) \/ Fail(l, "console")

-----------------------------------------------------------------------------
(* Both copies are written, or both are dropped. *)

\* StreamingAccountAuthCacheServiceImpl.saveAuthCache
Conflict(l) == expected[l] # saved.ver
Taken(l) == [ver |-> saved.ver + 1, doc |-> doc[l]]
SaveAuthCache(l) == saved.ver < LastVersion /\ ~Conflict(l) /\ saved' = Taken(l)

\* put_auth_cache: the answer may be lost, and a lost answer is not told from a conflict.
PutAuthCache(l) ==
  /\ attempt' = [attempt EXCEPT ![l] = @ + 1]
  /\ UNCHANGED <<local, doc, changed>>
  /\ \/ SaveAuthCache(l) /\ Moves(l, "put", "write") /\ expected' = [expected EXCEPT ![l] = saved.ver + 1]
     \/ SaveAuthCache(l) /\ Moves(l, "put", "again") /\ UNCHANGED expected
     \/ Moves(l, "put", "again") /\ UNCHANGED <<saved, expected>>

\* A mutant: a conflict is answered with another try without end.
TriesForEver(l) ==
  /\ Moves(l, "again", "put")
  /\ \E row \in GetAuthCache : expected' = [expected EXCEPT ![l] = row.ver]
  /\ UNCHANGED <<saved, local, attempt, doc, changed>>

\* The version is read again and the same document written under it, whoever wrote between.
PutAgain(l) ==
  /\ attempt[l] < Attempts /\ Moves(l, "again", "put")
  /\ \E row \in GetAuthCache : expected' = [expected EXCEPT ![l] = row.ver]
  /\ UNCHANGED <<saved, local, attempt, doc, changed>>
\* The login is good for all that; the file stays as it was.
PutFails(l) == attempt[l] = Attempts /\ Ends(l, "again", "ok") /\ UNCHANGED <<saved, local>>

SaveTokenDoc(l) ==
  /\ Ends(l, "write", "ok") /\ UNCHANGED saved
  /\ local' = [local EXCEPT ![l] = [ver |-> expected[l], doc |-> doc[l]]]

\* should_preserve_cache_on_failure
Preserved(l) == ~changed[l]

PreserveCache(l) == Preserved(l) /\ Ends(l, "invalidate", "failed") /\ UNCHANGED <<saved, local>>
DeleteTokenDoc(l) ==
  /\ ~Preserved(l) /\ Moves(l, "invalidate", "delete")
  /\ local' = [local EXCEPT ![l] = Nothing]
  /\ UNCHANGED <<saved, expected, attempt, doc, changed>>
\* delete_auth_cache: whatever row is there by now goes; or the platform does not answer.
Dropped == saved' \in {Nothing, saved}
DeleteAuthCache(l) == Ends(l, "delete", "failed") /\ Dropped /\ UNCHANGED local

\* The task is cancelled at any request: nothing is written or dropped any more.
CancelLogin(l) == place[l] \notin {"start", "ok", "failed"} /\ Ends(l, place[l], "failed") /\ UNCHANGED <<saved, local>>

LoginNext == \E l \in Login :
  \/ Start(l) \/ ResolveTokenDoc(l) \/ DoAuthentication(l) \/ RefreshUserToken(l) \/ GetDeviceToken(l)
  \/ XalRedirectUrl(l) \/ OAuthWebLogin(l) \/ GetUserToken(l) \/ XstsAuthorize(l) \/ GetXhomeToken(l)
  \/ GetXhomeConsole(l) \/ PutAuthCache(l) \/ PutAgain(l) \/ PutFails(l) \/ SaveTokenDoc(l)
  \/ PreserveCache(l) \/ DeleteTokenDoc(l) \/ DeleteAuthCache(l) \/ CancelLogin(l)

-----------------------------------------------------------------------------
Cached == {saved.doc} \cup {local[l].doc : l \in Login}

\* A token document that is kept, on the platform or in a file, is one a login brought to its
\* end: its xsts token comes from its user token, fetched by the same login, and it has an
\* xhome token.  A login that fails or is cancelled in the middle of the chain has a document
\* with a new user token and an old xsts token, and several logins write and drop the same
\* row (authenticate_account: only a success is persisted).
ChainsWhole == \A d \in Cached : d # Empty => d["user"] = d["xsts"] /\ d["xhome"] # NoToken

\* Does not hold: a login that fails drops the row another login has written since
\* (invalidate_token_cache deletes without a version).
DropsWhatItRead ==
  [][\A l \in Login : place[l] = "delete" /\ saved' = Nothing => saved.ver = expected[l]]_loginVars

\* Does not hold: versions start again at 1 after a row was dropped, and so a file and the
\* row can carry one version and different tokens (saveAuthCache: insert).
VersionsNameDocs == \A l \in Login : local[l].ver = saved.ver => local[l].doc = saved.doc

LoginSpec == LoginInit /\ [][LoginNext]_loginVars
=============================================================================
