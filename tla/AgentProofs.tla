----------------------------- MODULE AgentProofs -----------------------------
(* Proofs about the agent's link, its installation and updates, and the      *)
(* tokens that bring it its passwords; and the types of all the parts that   *)
(* MCAgent checks side by side.                                              *)
EXTENDS MCAgent, TaskHostProofs, PlatformProofs

-----------------------------------------------------------------------------
(* AgentLink *)

\* A listener that was stopped is over; once the client disconnects, nothing is left
\* that could start anything again.
StopInv ==
  /\ stopping # "no" => listener = "over"
  /\ stopping \in {"disconnecting", "yes"} => ~up /\ dialer = "none" /\ beat = "none"
  /\ stopping = "yes" => sock = "none" /\ link = "disconnected"

LinkInv == LinkTypeOK /\ HeartbeatFollowsLink /\ StopInv

LEMMA LinkInvInit == LinkInit => LinkInv
<1> SUFFICES ASSUME LinkInit PROVE LinkInv
  OBVIOUS
<1>1. attempt \in 0..MaxAttempts /\ home \in 0..Moves /\ known \in 0..home
  BY LinkAssumption DEF LinkInit
<1>2. up \in BOOLEAN /\ StopInv /\ HeartbeatFollowsLink
  BY DEF LinkInit, StopInv, HeartbeatFollowsLink
<1> QED BY <1>1, <1>2 DEF LinkInit, LinkInv, LinkTypeOK

LEMMA LinkInvStep ==
  ASSUME LinkInv, [LinkNext]_linkVars PROVE LinkInv'
<1> USE LinkAssumption DEF LinkInv, LinkTypeOK, HeartbeatFollowsLink, StopInv
<1>0. ASSUME Listen PROVE LinkInv'
  <2>1. up' \in BOOLEAN
    BY <1>0 DEF Listen
  <2> QED BY <1>0, <2>1 DEF Listen
<1>1. ASSUME StartBeat \/ ListenTop \/ Message \/ Handled \/ Awaited PROVE LinkInv'
  BY <1>1 DEF StartBeat, ListenTop, Message, Handled, Awaited, ListenerOnly
<1>2. ASSUME NEW ok \in BOOLEAN, Dialled(ok) PROVE LinkInv'
  BY <1>2 DEF Dialled
<1>3. ASSUME RecvFails \/ BeatWakes \/ BeatSends \/ OtherSend PROVE LinkInv'
  BY <1>3 DEF RecvFails, BeatWakes, BeatSends, OtherSend, Sends, Schedule
<1>4. ASSUME Reconnect \/ Attempt \/ DialSucceeds \/ Paused5 \/ RestartBeat PROVE LinkInv'
  BY <1>4 DEF Reconnect, Attempt, DialSucceeds, Paused5, RestartBeat, DialerOnly
<1>5. ASSUME DialFails PROVE LinkInv'
  BY <1>5 DEF DialFails, DialerOnly, Rediscover
<1>6. ASSUME Break \/ Move PROVE LinkInv'
  BY <1>6 DEF Break, Move
<1>7. ASSUME CancelListener \/ CloseSocket PROVE LinkInv'
  BY <1>7 DEF CancelListener, CloseSocket
<1>8. ASSUME Disconnect PROVE LinkInv'
  <2>1. up' \in BOOLEAN /\ ~up'
    BY <1>8 DEF Disconnect
  <2> QED BY <1>8, <2>1 DEF Disconnect
<1>9. CASE UNCHANGED linkVars
  BY <1>9 DEF linkVars
<1> QED BY <1>0, <1>1, <1>2, <1>3, <1>4, <1>5, <1>6, <1>7, <1>8, <1>9 DEF LinkNext, Dialling

\* Whoever sees the link gone, in whichever order, leaves no connected link without a
\* heartbeat, and a stop leaves nothing behind.
THEOREM LoopsAreTheLinks == LinkSpec => [](LinkTypeOK /\ LoopsFollowLink)
<1>1. LinkInv => LinkTypeOK /\ LoopsFollowLink
  BY DEF LinkInv, StopInv, LoopsFollowLink, StoppedIsQuiet
<1>2. LinkInv /\ [LinkNext]_linkVars => LinkInv'
  BY LinkInvStep
<1> QED BY <1>1, <1>2, LinkInvInit, PTL DEF LinkSpec

-----------------------------------------------------------------------------
(* CredentialToken *)

Requests == {"asked", "drop", "forget", "spend", "take", "value", "nothing"}

\* The agent starts a task only with all its tokens, and a token being made is not yet
\* one of them: what is stored has not been paid for.
SentTied ==
  /\ \A x \in Exchange : at[x] # "off" => sent = Credential
  /\ maker.at # "idle" => ~keyed /\ maker.token \in Credential /\ maker.token \notin sent
  /\ \A c \in Credential : c \notin sent => paid[c] = 0
  /\ \A c \in store : paid[c] = 0
  /\ \A x \in Exchange : /\ at[x] \in Requests => token[x] \in Credential
                         /\ at[x] = "forget" => token[x] \notin store

CredentialInv == CredentialTypeOK /\ SentTied /\ TokensAreOnce

LEMMA CredentialInvInit == CredentialInit => CredentialInv
<1> SUFFICES ASSUME CredentialInit PROVE CredentialInv
  OBVIOUS
<1> USE CredentialAssumption DEF CredentialInit
<1>1. CredentialTypeOK
  <2>1. left \in [Credential -> 0..Life] /\ paid \in [Credential -> Nat]
    OBVIOUS
  <2>2. at \in [Exchange -> ExchangeAt] /\ token \in [Exchange -> Credential \cup {NoCredential}]
    BY DEF ExchangeAt
  <2>3. maker \in [at : {"idle", "store", "expiry"}, token : Credential \cup {NoCredential}]
    BY DEF NoMaker
  <2>4. password \in [Exchange -> [Credential -> {"unasked", "none", "right", "garbage"}]]
    OBVIOUS
  <2> QED BY <2>1, <2>2, <2>3, <2>4 DEF CredentialTypeOK
<1>2. SentTied
  BY DEF SentTied, NoMaker, Requests
<1>3. TokensAreOnce
  BY DEF TokensAreOnce, PaidOnce, NothingLingers
<1> QED BY <1>1, <1>2, <1>3 DEF CredentialInv

LEMMA CredentialTypeStep ==
  ASSUME CredentialInv, [CredentialNext]_credentialVars PROVE CredentialTypeOK'
<1> USE CredentialAssumption DEF CredentialInv, CredentialTypeOK
<1>1. ASSUME NEW c \in Credential, GenerateToken(c) PROVE CredentialTypeOK'
  BY <1>1 DEF GenerateToken, Lives, startVars
<1>2. ASSUME NEW c \in Credential, SweepExpiry(c) \/ SweepStore(c) PROVE CredentialTypeOK'
  BY <1>2 DEF SweepExpiry, SweepStore, startVars
<1>3. ASSUME PutStore \/ PutExpiry PROVE CredentialTypeOK'
  BY <1>3 DEF PutStore, PutExpiry, Lives, startVars, NoMaker, SentTied
<1>4. ASSUME NEW x \in Exchange, NEW c \in Credential, Start(x) \/ NextGameAccount(x, c) \/ NoneLeftToAsk(x)
      PROVE CredentialTypeOK'
  <2>1. PICK t \in Credential \cup {NoCredential} : Asks(x, t)
    BY <1>4 DEF Start, NextGameAccount, NoneLeftToAsk
  <2>2. at' \in [Exchange -> ExchangeAt]
    BY <1>4 DEF Start, NextGameAccount, NoneLeftToAsk, Advances, ExchangeAt
  <2> QED BY <2>1, <2>2 DEF Asks, platformVars
<1>5. ASSUME NEW x \in Exchange, GetAndDelete(x) \/ LooksUp(x) \/ DropValue(x) \/ ForgetExpiry(x) \/ Spend(x) \/ Take(x)
      PROVE CredentialTypeOK'
  <2>1. \A c \in Credential : paid[c] + 1 \in Nat
    OBVIOUS
  <2>2. paid' \in [Credential -> Nat]
    BY <1>5, <2>1 DEF GetAndDelete, LooksUp, DropValue, ForgetExpiry, Spend, Take, IsPaid
  <2>3. at' \in [Exchange -> ExchangeAt]
    BY <1>5 DEF GetAndDelete, LooksUp, DropValue, ForgetExpiry, Spend, Take, Advances, ExchangeAt
  <2> QED BY <1>5, <2>2, <2>3
          DEF GetAndDelete, LooksUp, DropValue, ForgetExpiry, Spend, Take, ServerOnly, platformVars
<1>6. ASSUME NEW x \in Exchange, Decrypt(x) \/ NoAnswer(x) PROVE CredentialTypeOK'
  <2>1. PICK here \in {"asked", "value", "nothing"}, p \in {"right", "none", "garbage"} : Has(x, here, p)
    BY <1>6 DEF Decrypt, NoAnswer, DecryptToken
  <2>2. password' \in [Exchange -> [Credential -> {"unasked", "none", "right", "garbage"}]]
    BY <2>1 DEF Has
  <2> QED BY <2>1, <2>2 DEF Has, Advances, platformVars, ExchangeAt
<1>7. ASSUME Minute PROVE CredentialTypeOK'
  <2>1. left' \in [Credential -> 0..Life]
    BY <1>7 DEF Minute
  <2>2. store' \in SUBSET Credential
    BY <1>7 DEF Minute
  <2> QED BY <1>7, <2>1, <2>2 DEF Minute, startVars
<1>8. ASSUME PlatformEnds PROVE CredentialTypeOK'
  BY <1>8 DEF PlatformEnds, NoMaker, ExchangeAt
<1>9. CASE UNCHANGED credentialVars
  BY <1>9 DEF credentialVars
<1> QED BY <1>1, <1>2, <1>3, <1>4, <1>5, <1>6, <1>7, <1>8, <1>9 DEF CredentialNext

LEMMA SentStep ==
  ASSUME CredentialInv, [CredentialNext]_credentialVars PROVE SentTied'
<1> USE CredentialAssumption DEF CredentialInv, CredentialTypeOK, SentTied, Requests
<1>1. ASSUME NEW c \in Credential, GenerateToken(c) PROVE SentTied'
  BY <1>1 DEF GenerateToken, startVars, NoMaker
<1>2. ASSUME NEW c \in Credential, SweepExpiry(c) \/ SweepStore(c) PROVE SentTied'
  BY <1>2 DEF SweepExpiry, SweepStore, startVars
<1>3. ASSUME PutStore \/ PutExpiry PROVE SentTied'
  BY <1>3 DEF PutStore, PutExpiry, startVars, NoMaker
<1>4. ASSUME NEW x \in Exchange, NEW c \in Credential, Start(x) \/ NextGameAccount(x, c) \/ NoneLeftToAsk(x)
      PROVE SentTied'
  BY <1>4 DEF Start, NextGameAccount, NoneLeftToAsk, Advances, Asks, platformVars
<1>5. ASSUME NEW x \in Exchange, GetAndDelete(x) \/ Take(x) PROVE SentTied'
  BY <1>5 DEF GetAndDelete, Take, Advances, IsPaid, ServerOnly, platformVars
<1>6. ASSUME NEW x \in Exchange, LooksUp(x) \/ DropValue(x) \/ ForgetExpiry(x) \/ Spend(x) PROVE SentTied'
  BY <1>6 DEF LooksUp, DropValue, ForgetExpiry, Spend, Advances, ServerOnly, platformVars
<1>7. ASSUME NEW x \in Exchange, Decrypt(x) \/ NoAnswer(x) PROVE SentTied'
  <2>1. PICK here \in {"asked", "value", "nothing"}, p \in {"right", "none", "garbage"} : Has(x, here, p)
    BY <1>7 DEF Decrypt, NoAnswer, DecryptToken
  <2> QED BY <2>1 DEF Has, Advances, platformVars
<1>8. ASSUME Minute \/ PlatformEnds PROVE SentTied'
  BY <1>8 DEF Minute, PlatformEnds, startVars, NoMaker
<1>9. CASE UNCHANGED credentialVars
  BY <1>9 DEF credentialVars
<1> QED BY <1>1, <1>2, <1>3, <1>4, <1>5, <1>6, <1>7, <1>8, <1>9 DEF CredentialNext

LEMMA OnceStep ==
  ASSUME CredentialInv, [CredentialNext]_credentialVars PROVE TokensAreOnce'
<1> USE CredentialAssumption DEF CredentialInv, CredentialTypeOK, TokensAreOnce, PaidOnce, NothingLingers, Between
<1>1. ASSUME NEW c \in Credential, GenerateToken(c) PROVE TokensAreOnce'
  BY <1>1 DEF GenerateToken, startVars, NoMaker
<1>2. ASSUME NEW c \in Credential, SweepExpiry(c) \/ SweepStore(c) PROVE TokensAreOnce'
  BY <1>2 DEF SweepExpiry, SweepStore, startVars
<1>3. ASSUME PutStore \/ PutExpiry PROVE TokensAreOnce'
  BY <1>3 DEF PutStore, PutExpiry, startVars, NoMaker
<1>4. ASSUME NEW x \in Exchange, NEW c \in Credential, Start(x) \/ NextGameAccount(x, c) \/ NoneLeftToAsk(x)
      PROVE TokensAreOnce'
  <2>1. PICK t \in Credential \cup {NoCredential} : Asks(x, t)
    BY <1>4 DEF Start, NextGameAccount, NoneLeftToAsk
  <2>2. at[x] # "take" /\ at' \in {[at EXCEPT ![x] = "asked"], [at EXCEPT ![x] = "started"]}
    BY <1>4 DEF Start, NextGameAccount, NoneLeftToAsk, Advances
  <2> QED BY <2>1, <2>2 DEF Asks, platformVars
<1>5. ASSUME NEW x \in Exchange, GetAndDelete(x) \/ Take(x) PROVE TokensAreOnce'
  <2>1. PaidOnce'
    BY <1>5 DEF GetAndDelete, Take, IsPaid, SentTied
  <2>2. NothingLingers'
    BY <1>5 DEF GetAndDelete, Take, Advances, ServerOnly, platformVars
  <2> QED BY <2>1, <2>2
<1>6. ASSUME NEW x \in Exchange, LooksUp(x) \/ DropValue(x) \/ Spend(x) PROVE TokensAreOnce'
  BY <1>6 DEF LooksUp, DropValue, Spend, Advances, ServerOnly, platformVars
<1>10. ASSUME NEW x \in Exchange, ForgetExpiry(x) PROVE TokensAreOnce'
  BY <1>10 DEF ForgetExpiry, Advances, ServerOnly, platformVars, SentTied
<1>7. ASSUME NEW x \in Exchange, Decrypt(x) \/ NoAnswer(x) PROVE TokensAreOnce'
  <2>1. PICK here \in {"asked", "value", "nothing"}, p \in {"right", "none", "garbage"} : Has(x, here, p)
    BY <1>7 DEF Decrypt, NoAnswer, DecryptToken
  <2> QED BY <2>1 DEF Has, Advances, platformVars
<1>8. ASSUME Minute \/ PlatformEnds PROVE TokensAreOnce'
  BY <1>8 DEF Minute, PlatformEnds, startVars, NoMaker
<1>9. CASE UNCHANGED credentialVars
  BY <1>9 DEF credentialVars
<1> QED BY <1>1, <1>2, <1>3, <1>4, <1>5, <1>6, <1>7, <1>8, <1>9, <1>10 DEF CredentialNext

\* However the starts of a task, the ends of the tokens, the sweep and ends of the platform
\* overlap, a password is given out once and no value stays behind for ever.
THEOREM TokensAreSpentOnce == CredentialSpec => []TokensAreOnce
<1>1. CredentialInv /\ [CredentialNext]_credentialVars => CredentialInv'
  BY CredentialTypeStep, SentStep, OnceStep DEF CredentialInv
<1>2. CredentialInv => TokensAreOnce
  BY DEF CredentialInv
<1> QED BY <1>1, <1>2, CredentialInvInit, PTL DEF CredentialSpec

-----------------------------------------------------------------------------
(* AgentInstall *)

\* While an undisturbed process is up, every other one has long been running, and has been
\* disturbed itself.
Alone ==
  /\ \A p \in Process : Up(p) => root[p] \in Dir
  /\ \A p \in disturbed : Up(p)
  /\ \A p \in Process \ disturbed : Up(p) =>
       \A q \in Process \ {p} : Up(q) => q \in disturbed /\ proc[q] = "running"

\* The marker names the directory of an undisturbed process, at the latest when it is
\* through with its registration.
Guarded ==
  \A p \in Process \ disturbed :
    /\ Up(p) => marker \in {root[p], Nowhere}
    /\ proc[p] \in {"manager", "running"} => marker = root[p]

\* What the keeper's file leads to, and what an undisturbed process in that directory has.
Leads == \A d \in Dir : keeper = d /\ row # 0 => file[d] \in {0, row} \cup coded
Holds ==
  \A p \in Process \ disturbed : keeper = root[p] /\ row # 0 =>
    /\ proc[p] \in {"mark", "running"} => mem[p] = row
    /\ proc[p] = "manager" => mem[p] = row \/ mem[p] \in coded

InstallInv == InstallTypeOK /\ Alone /\ Guarded /\ Leads /\ Holds

LEMMA InstallInvInit == InstallInit => InstallInv
<1>1. InstallInit => InstallTypeOK
  <2>1. InstallInit => unmarking \in BOOLEAN /\ disturbed \subseteq Process /\ coded \subseteq 1..Secrets
    BY DEF InstallInit
  <2>2. InstallInit => /\ {marker, keeper} \subseteq Dir \cup {Nowhere}
                       /\ root \in [Process -> Dir \cup {Nowhere}]
                       /\ file \in [Dir -> 0..Secrets] /\ mem \in [Process -> 0..Secrets]
    BY InstallAssumption DEF InstallInit
  <2>3. InstallInit => row \in 0..Secrets /\ made \in 0..Secrets
    BY InstallAssumption DEF InstallInit
  <2>4. InstallInit => proc \in [Process -> Before \cup {"off", "running"}]
    BY DEF InstallInit
  <2> QED BY <2>1, <2>2, <2>3, <2>4 DEF InstallTypeOK
<1>2. InstallInit => Alone /\ Guarded /\ Leads /\ Holds
  BY InstallAssumption DEF InstallInit, Alone, Guarded, Leads, Holds, Up
<1> QED BY <1>1, <1>2 DEF InstallInv

\* What a process does beyond its start: where it goes from where, and that it keeps its
\* directory or ends.
StepOf(p) ==
  Migrate(p) \/ MakeSecret(p) \/ Ask(p) \/ Save(p) \/ Mark(p) \/ StartManager(p) \/ Crash(p)

LEMMA StepStays ==
  ASSUME InstallTypeOK, NEW p \in Process, StepOf(p)
  PROVE /\ Up(p) /\ (proc[p] = "running" => Exits(p))
        /\ (Exits(p) \/ (UNCHANGED <<root, disturbed>> /\ Up(p)'))
        /\ \A q \in Process \ {p} : proc'[q] = proc[q] /\ mem'[q] = mem[q] /\ root'[q] = root[q]
        /\ unmarking' = unmarking
<1> USE DEF InstallTypeOK
<1>1. CASE Migrate(p)
  BY <1>1 DEF Migrate, Chooses, ProcAt, Up
<1>2. CASE MakeSecret(p)
  BY <1>2 DEF MakeSecret, ProcAt, Exits, Up, diskVars
<1>3. CASE Ask(p)
  BY <1>3 DEF Ask, ProcAt, Exits, Up, diskVars
<1>4. CASE Save(p) \/ Mark(p)
  BY <1>4 DEF Save, Mark, ProcAt, Up
<1>5. CASE StartManager(p)
  BY <1>5 DEF StartManager, ProcAt, Exits, Up, diskVars
<1>6. CASE Crash(p)
  BY <1>6 DEF Crash, ProcAt, Exits, Up, diskVars
<1> QED BY <1>1, <1>2, <1>3, <1>4, <1>5, <1>6 DEF StepOf

LEMMA ExitTypes ==
  ASSUME InstallTypeOK, NEW p \in Process, Exits(p)
  PROVE /\ root' \in [Process -> Dir \cup {Nowhere}] /\ mem' \in [Process -> 0..Secrets]
        /\ proc' \in [Process -> Before \cup {"off", "running"}] /\ disturbed' \subseteq Process
BY InstallAssumption DEF InstallTypeOK, Exits, ProcAt

LEMMA StepTypes ==
  ASSUME InstallTypeOK, Alone, NEW p \in Process, StepOf(p) PROVE InstallTypeOK'
<1> USE InstallAssumption DEF InstallTypeOK
<1>0. root[p] \in Dir
  BY StepStays DEF Alone
<1>1. CASE Migrate(p)
  <2>1. proc' \in [Process -> Before \cup {"off", "running"}] /\ mem' \in [Process -> 0..Secrets]
    BY <1>0, <1>1 DEF Migrate, Chooses, ProcAt, Before
  <2> QED BY <1>0, <1>1, <2>1 DEF Migrate
<1>2. CASE MakeSecret(p)
  <2>1. CASE Installable(root[p])
    <3>1. made' \in 0..Secrets /\ made' \in 1..Secrets /\ made' = made + 1
      BY <1>2, <2>1 DEF MakeSecret
    <3>2. mem' \in [Process -> 0..Secrets] /\ coded' \subseteq 1..Secrets
      BY <1>2, <2>1, <3>1 DEF MakeSecret
    <3> QED BY <1>2, <2>1, <3>1, <3>2 DEF MakeSecret, ProcAt, Before, diskVars
  <2>2. CASE ~Installable(root[p])
    BY <1>2, <2>2, ExitTypes DEF MakeSecret, diskVars
  <2> QED BY <2>1, <2>2
<1>3. CASE Ask(p)
  <2>1. row' \in 0..Secrets /\ keeper' \in Dir \cup {Nowhere}
    BY <1>3 DEF Ask
  <2>2. CASE Exits(p)
    BY <1>3, <2>1, <2>2, ExitTypes DEF Ask, diskVars
  <2>3. CASE ProcAt(p, "save") /\ UNCHANGED <<root, mem, disturbed>>
    BY <1>3, <2>1, <2>3 DEF Ask, ProcAt, Before, diskVars
  <2> QED BY <1>3, <2>2, <2>3 DEF Ask
<1>4. CASE Save(p) \/ Mark(p)
  BY <1>0, <1>4 DEF Save, Mark, ProcAt, Before
<1>5. CASE StartManager(p)
  <2>1. row' \in 0..Secrets /\ made' \in 0..Secrets /\ keeper' \in Dir \cup {Nowhere}
    BY <1>0, <1>5 DEF StartManager, Registers
  <2>2. CASE Exits(p)
    BY <1>5, <2>1, <2>2, ExitTypes DEF StartManager, diskVars
  <2>3. CASE ProcAt(p, "running") /\ UNCHANGED <<root, disturbed>>
    <3>1. mem' \in [Process -> 0..Secrets]
      BY <1>5, <2>1, <2>3 DEF StartManager, Exits
    <3> QED BY <1>5, <2>1, <2>3, <3>1 DEF StartManager, ProcAt, diskVars
  <2> QED BY <1>5, <2>2, <2>3 DEF StartManager
<1>6. CASE Crash(p)
  BY <1>6, ExitTypes DEF Crash, diskVars
<1> QED BY <1>1, <1>2, <1>3, <1>4, <1>5, <1>6 DEF StepOf

LEMMA StepAlone ==
  ASSUME InstallTypeOK, Alone, NEW p \in Process, StepOf(p) PROVE Alone'
<1>0. /\ Up(p) /\ (proc[p] = "running" => Exits(p))
      /\ \A q \in Process \ {p} : proc'[q] = proc[q] /\ root'[q] = root[q]
  BY StepStays
<1>1. CASE Exits(p)
  <2>1. ~Up(p)' /\ disturbed' = disturbed \ {p}
    BY <1>1 DEF Exits, ProcAt, Up, InstallTypeOK
  <2>2. \A q \in Process \ {p} : Up(q)' <=> Up(q)
    BY <1>0 DEF Up
  <2> QED BY <1>0, <2>1, <2>2 DEF Alone, InstallTypeOK
<1>2. CASE ~Exits(p)
  <2>1. UNCHANGED <<root, disturbed>> /\ Up(p)' /\ proc[p] # "running"
    BY <1>0, <1>2, StepStays
  <2>2. \A q \in Process : Up(q)' <=> Up(q)
    BY <1>0, <2>1 DEF Up
  <2>3. \A q \in Process \ disturbed : Up(q) => q = p \/ (p \in disturbed /\ proc[p] = "running")
    BY <1>0 DEF Alone
  <2>4. \A q \in Process \ disturbed : Up(q) => q = p
    BY <2>1, <2>3
  <2>5. \A q \in Process \ disturbed : Up(q) =>
          \A o \in Process \ {q} : Up(o) => o \in disturbed /\ proc'[o] = "running"
    BY <1>0, <2>4 DEF Alone
  <2>6. Alone'
    <3>1. \A q \in Process : Up(q)' => root'[q] \in Dir
      BY <2>1, <2>2 DEF Alone
    <3>2. \A q \in disturbed' : Up(q)'
      BY <2>1, <2>2 DEF Alone, InstallTypeOK
    <3>3. \A q \in Process \ disturbed' : Up(q)' =>
            \A o \in Process \ {q} : Up(o)' => o \in disturbed' /\ proc'[o] = "running"
      BY <2>1, <2>2, <2>5
    <3> QED BY ONLY <3>1, <3>2, <3>3 DEF Alone
  <2> QED BY <2>6
<1> QED BY <1>1, <1>2

\* A process that does anything but end is the only one that may be undisturbed.
LEMMA OnlyOne ==
  ASSUME InstallTypeOK, Alone, NEW p \in Process, StepOf(p), NEW q \in Process \ disturbed', Up(q)', q # p,
         Up(q)
  PROVE Exits(p)
<1>1. ASSUME ~Exits(p) PROVE FALSE
  <2>1. UNCHANGED <<root, disturbed>> /\ proc[p] # "running" /\ Up(p)
    BY <1>1, StepStays
  <2> QED BY <2>1 DEF Alone
<1> QED BY <1>1

LEMMA StepGuarded ==
  ASSUME InstallTypeOK, Alone, Guarded, NEW p \in Process, StepOf(p) PROVE Guarded'
<1> SUFFICES ASSUME NEW q \in Process \ disturbed'
             PROVE /\ Up(q)' => marker' \in {root'[q], Nowhere}
                   /\ proc'[q] \in {"manager", "running"} => marker' = root'[q]
  BY DEF Guarded
<1>0. /\ Up(p) /\ (Exits(p) \/ (UNCHANGED <<root, disturbed>> /\ Up(p)'))
      /\ \A r \in Process \ {p} : proc'[r] = proc[r] /\ root'[r] = root[r]
  BY StepStays
<1>1. CASE Exits(p)
  <2>1. marker' = marker /\ ~Up(p)' /\ disturbed' = disturbed \ {p} /\ proc'[p] = "off"
    <3>1. ~Up(p)' /\ disturbed' = disturbed \ {p} /\ proc'[p] = "off"
      BY <1>1 DEF Exits, ProcAt, Up, InstallTypeOK
    <3>2. ~Migrate(p) /\ ~Save(p) /\ ~Mark(p)
      BY <3>1 DEF Migrate, Chooses, Save, Mark, ProcAt, InstallTypeOK
    <3> QED BY <3>1, <3>2 DEF StepOf, MakeSecret, Ask, StartManager, Crash, diskVars
  <2>2. CASE q = p
    BY <2>1, <2>2
  <2>3. CASE q # p
    BY <1>0, <2>1, <2>3 DEF Guarded, Up
  <2> QED BY <2>2, <2>3
<1>2. CASE ~Exits(p)
  <2>1. UNCHANGED <<root, disturbed>>
    BY <1>0, <1>2
  <2>2. CASE q # p
    <3>1. Up(q)' <=> Up(q)
      BY <1>0, <2>2 DEF Up
    <3>2. ~Up(q)' /\ proc'[q] = "off"
      BY <1>0, <1>2, <2>2, <3>1, OnlyOne DEF Up
    <3> QED BY <3>2
  <2>3. CASE q = p
    <3>1. marker \in {root[p], Nowhere} /\ (proc[p] \in {"manager", "running"} => marker = root[p])
      BY <1>0, <2>1, <2>3 DEF Guarded
    <3>2. marker' \in {root[p], Nowhere}
      BY <3>1 DEF StepOf, Migrate, MakeSecret, Ask, Save, Mark, StartManager, Crash, diskVars
    <3>3. ASSUME proc'[p] \in {"manager", "running"} PROVE marker' = root[p]
      <4>1. CASE Migrate(p)
        <5>1. file[root[p]] # 0
          BY <3>3, <4>1 DEF Migrate, Chooses, ProcAt, InstallTypeOK
        <5> QED BY <3>1, <4>1, <5>1 DEF Migrate
      <4>2. CASE MakeSecret(p)
        BY <1>2, <3>3, <4>2 DEF MakeSecret, ProcAt, InstallTypeOK
      <4>3. CASE Ask(p)
        BY <1>2, <3>3, <4>3 DEF Ask, ProcAt, InstallTypeOK
      <4>4. CASE Save(p)
        BY <3>3, <4>4 DEF Save, ProcAt, InstallTypeOK
      <4>5. CASE Mark(p)
        BY <4>5 DEF Mark
      <4>6. CASE StartManager(p)
        BY <3>1, <4>6 DEF StartManager, diskVars
      <4>7. CASE Crash(p)
        BY <1>2, <4>7 DEF Crash
      <4> QED BY <4>1, <4>2, <4>3, <4>4, <4>5, <4>6, <4>7 DEF StepOf
    <3> QED BY <2>1, <2>3, <3>2, <3>3
  <2> QED BY <2>2, <2>3
<1> QED BY <1>1, <1>2

LEMMA StepLeads ==
  ASSUME InstallTypeOK, Alone, Leads, NEW p \in Process, StepOf(p) PROVE Leads'
<1> USE DEF Leads, InstallTypeOK
<1>0. root[p] \in Dir
  BY StepStays DEF Alone
<1>1. CASE Migrate(p)
  BY <1>1 DEF Migrate
<1>2. CASE MakeSecret(p)
  BY <1>2 DEF MakeSecret, diskVars
<1>3. CASE Ask(p)
  <2>1. keeper' = Nowhere \/ UNCHANGED <<row, keeper>>
    BY <1>3 DEF Ask
  <2> QED BY <1>3, <2>1, InstallAssumption DEF Ask, diskVars
<1>4. CASE Save(p)
  BY <1>0, <1>4, InstallAssumption DEF Save
<1>5. CASE Mark(p)
  BY <1>5 DEF Mark
<1>6. CASE StartManager(p)
  <2>1. CASE mem[p] \notin coded
    BY <1>6, <2>1 DEF StartManager, diskVars
  <2>2. CASE mem[p] \in coded
    <3>1. Registers(p) /\ file' = file /\ coded' = coded
      BY <1>6, <2>2 DEF StartManager, diskVars
    <3> QED BY <1>0, <2>2, <3>1, InstallAssumption DEF Registers
  <2> QED BY <2>1, <2>2
<1>7. CASE Crash(p)
  BY <1>7 DEF Crash, diskVars
<1> QED BY <1>1, <1>2, <1>3, <1>4, <1>5, <1>6, <1>7 DEF StepOf

HoldsOf(p) ==
  keeper = root[p] /\ row # 0 =>
    /\ proc[p] \in {"mark", "running"} => mem[p] = row
    /\ proc[p] = "manager" => mem[p] = row \/ mem[p] \in coded

LEMMA StepHoldsOwn ==
  ASSUME InstallTypeOK, Alone, Leads, NEW p \in Process, StepOf(p), HoldsOf(p), ~Exits(p) PROVE HoldsOf(p)'
<1> USE DEF HoldsOf, InstallTypeOK
<1>0. root[p] \in Dir
  BY StepStays DEF Alone
<1>1. CASE Migrate(p)
  BY <1>0, <1>1 DEF Migrate, Chooses, ProcAt, Leads
<1>2. CASE MakeSecret(p)
  BY <1>2 DEF MakeSecret, ProcAt
<1>3. CASE Ask(p)
  BY <1>3 DEF Ask, ProcAt
<1>4. CASE Save(p)
  BY <1>0, <1>4, InstallAssumption DEF Save, ProcAt
<1>5. CASE Mark(p)
  BY <1>5 DEF Mark, ProcAt
<1>6. CASE StartManager(p)
  <2>1. CASE mem[p] \notin coded
    BY <1>6, <2>1 DEF StartManager, ProcAt
  <2>2. CASE mem[p] \in coded
    BY <1>6, <2>2 DEF StartManager, ProcAt
  <2> QED BY <2>1, <2>2
<1>7. CASE Crash(p)
  BY <1>7 DEF Crash
<1> QED BY <1>1, <1>2, <1>3, <1>4, <1>5, <1>6, <1>7 DEF StepOf

LEMMA ExitKeeps ==
  ASSUME InstallTypeOK, NEW p \in Process, StepOf(p), Exits(p)
  PROVE coded \subseteq coded' /\ (UNCHANGED <<row, keeper>> \/ proc[p] # "running")
<1>1. proc'[p] = "off"
  BY DEF Exits, ProcAt, InstallTypeOK
<1>2. ~Migrate(p) /\ ~Save(p) /\ ~Mark(p)
  BY <1>1 DEF Migrate, Chooses, Save, Mark, ProcAt, InstallTypeOK
<1>3. CASE MakeSecret(p) \/ Crash(p)
  BY <1>3 DEF MakeSecret, Crash
<1>4. CASE Ask(p) \/ StartManager(p)
  BY <1>4 DEF Ask, StartManager
<1> QED BY <1>2, <1>3, <1>4 DEF StepOf

LEMMA StepHolds ==
  ASSUME InstallTypeOK, Alone, Leads, Holds, NEW p \in Process, StepOf(p) PROVE Holds'
<1> SUFFICES ASSUME NEW q \in Process \ disturbed', Up(q)' PROVE HoldsOf(q)'
  BY DEF Holds, HoldsOf, Up
<1>0. /\ Up(p) /\ (proc[p] = "running" => Exits(p)) /\ (Exits(p) \/ UNCHANGED <<root, disturbed>>)
      /\ \A r \in Process \ {p} : proc'[r] = proc[r] /\ root'[r] = root[r] /\ mem'[r] = mem[r]
  BY StepStays
<1>1. CASE q = p
  <2>1. ~Exits(p)
    BY <1>1 DEF Exits, ProcAt, Up, InstallTypeOK
  <2>2. HoldsOf(p)
    BY <1>0, <1>1, <2>1 DEF Holds, HoldsOf
  <2> QED BY <1>1, <2>1, <2>2, StepHoldsOwn
<1>2. CASE q # p
  <2>1. Up(q)
    BY <1>0, <1>2 DEF Up
  <2>2. Exits(p)
    BY <1>2, <2>1, OnlyOne
  <2>3. q \notin disturbed
    BY <1>2, <2>2 DEF Exits
  <2>4. proc[p] = "running"
    BY <1>0, <1>2, <2>1, <2>3 DEF Alone
  <2>5. UNCHANGED <<row, keeper>> /\ coded \subseteq coded'
    BY <2>2, <2>4, ExitKeeps
  <2>6. HoldsOf(q)
    BY <2>3 DEF Holds, HoldsOf
  <2> QED BY <1>0, <1>2, <2>5, <2>6 DEF HoldsOf
<1> QED BY <1>1, <1>2

\* A start, and what happens to the installations from outside.
LEMMA BootStep ==
  ASSUME InstallInv, NEW p \in Process, NEW d \in Dir, Boot(p, d) PROVE InstallInv'
<1> USE DEF InstallInv
<1>0. /\ proc[p] = "off" /\ Installable(d) /\ proc' = [proc EXCEPT ![p] = "booted"]
      /\ root' = [root EXCEPT ![p] = d] /\ UNCHANGED <<row, made, coded, mem, keeper, marker, file, unmarking>>
      /\ disturbed' = IF MetBy(p, d) = {} THEN disturbed ELSE disturbed \cup MetBy(p, d) \cup {p}
  BY DEF Boot, ProcAt, diskVars
<1>1. InstallTypeOK'
  <2>1. MetBy(p, d) \subseteq Process
    BY DEF MetBy
  <2> QED BY <1>0, <2>1 DEF InstallTypeOK, Before
<1>2. disturbed \subseteq disturbed' /\ \A q \in Process \ {p} : proc'[q] = proc[q] /\ root'[q] = root[q]
  BY <1>0 DEF InstallTypeOK
<1>3. proc'[p] = "booted" /\ root'[p] = d /\ p \notin disturbed
  BY <1>0 DEF InstallTypeOK, Alone, Up
<1>4. ASSUME NEW q \in Process \ {p}, Up(q), q \notin disturbed' PROVE q # p /\ MetBy(p, d) = {} /\ FALSE
  <2>1. q \notin MetBy(p, d) /\ q \notin disturbed
    BY <1>0, <1>4
  <2>2. proc[q] \notin Before /\ root[q] # d
    BY <1>4, <2>1 DEF MetBy
  <2>3. proc[q] = "running"
    BY <1>4, <2>2 DEF InstallTypeOK, Up
  <2>4. marker = root[q]
    BY <2>1, <2>3 DEF Guarded
  <2>5. root[q] \in Dir
    BY <1>4 DEF Alone
  <2> QED BY <1>0, <2>2, <2>4, <2>5, InstallAssumption DEF Installable
<1>5. Alone'
  <2>1. \A q \in Process : Up(q)' <=> Up(q) \/ q = p
    BY <1>2, <1>3 DEF Up
  <2>2. \A q \in Process : Up(q)' => root'[q] \in Dir
    BY <1>2, <1>3, <2>1 DEF Alone
  <2>3. \A q \in disturbed' : Up(q)'
    <3>1. \A q \in MetBy(p, d) : Up(q)
      BY DEF MetBy, Up, Before
    <3> QED BY <1>0, <1>1, <2>1, <3>1 DEF Alone, InstallTypeOK
  <2>4. ASSUME NEW q \in Process \ disturbed', Up(q)', NEW r \in Process \ {q}, Up(r)'
        PROVE r \in disturbed' /\ proc'[r] = "running"
    <3>1. q = p
      BY <1>4, <2>1, <2>4
    <3>2. Up(r) /\ r # p
      BY <2>1, <2>4, <3>1
    <3>3. r \in disturbed'
      BY <1>4, <3>2
    <3>4. MetBy(p, d) = {}
      BY <1>0, <2>4, <3>1
    <3>5. proc[r] \notin Before
      BY <3>2, <3>4 DEF MetBy
    <3> QED BY <1>2, <3>2, <3>3, <3>5 DEF InstallTypeOK, Up
  <2> QED BY <2>2, <2>3, <2>4 DEF Alone
<1>6. Guarded'
  <2> SUFFICES ASSUME NEW q \in Process \ disturbed'
               PROVE /\ Up(q)' => marker' \in {root'[q], Nowhere}
                     /\ proc'[q] \in {"manager", "running"} => marker' = root'[q]
    BY DEF Guarded
  <2>1. CASE q = p
    BY <1>0, <1>3, <2>1 DEF Installable
  <2>2. CASE q # p
    BY <1>2, <1>4, <2>2 DEF Up
  <2> QED BY <2>1, <2>2
<1>7. Leads'
  BY <1>0 DEF Leads
<1>8. Holds'
  <2> SUFFICES ASSUME NEW q \in Process \ disturbed'
               PROVE HoldsOf(q)'
    BY DEF Holds, HoldsOf
  <2>1. CASE q = p
    BY <1>3, <2>1 DEF HoldsOf
  <2>2. CASE q # p
    BY <1>2, <1>4, <2>2 DEF Up, HoldsOf
  <2> QED BY <2>1, <2>2
<1> QED BY <1>1, <1>5, <1>6, <1>7, <1>8

LEMMA OutsideStep ==
  ASSUME InstallInv, (\E d \in Dir : Uninstall(d)) \/ ClearRegistry \/ RemovalDies \/ Forget PROVE InstallInv'
<1> USE InstallAssumption DEF InstallInv, InstallTypeOK, Alone, Guarded, Leads, Holds, Up
<1>1. ASSUME NEW d \in Dir, Uninstall(d) PROVE InstallInv'
  BY <1>1 DEF Uninstall, procVars
<1>2. CASE ClearRegistry
  <2>1. /\ unmarking' \in BOOLEAN /\ UNCHANGED <<file, row, made, coded, root, proc, mem, keeper>>
        /\ marker' = Nowhere /\ disturbed' = disturbed \cup {p \in Process : Up(p)}
    BY <1>2 DEF ClearRegistry, procVars
  <2>2. \A p \in Process \ disturbed' : ~Up(p)
    BY <2>1
  <2> QED BY <2>1, <2>2
<1>3. CASE RemovalDies
  BY <1>3 DEF RemovalDies, procVars
<1>4. CASE Forget
  BY <1>4 DEF Forget, diskVars
<1> QED BY <1>1, <1>2, <1>3, <1>4

LEMMA InstallInvStep ==
  ASSUME InstallInv, [InstallNext]_installVars PROVE InstallInv'
<1>1. ASSUME NEW p \in Process, StepOf(p) PROVE InstallInv'
  <2>1. InstallTypeOK' /\ Alone' /\ Guarded'
    BY <1>1, StepTypes, StepAlone, StepGuarded DEF InstallInv
  <2>2. Leads' /\ Holds'
    BY <1>1, StepLeads, StepHolds DEF InstallInv
  <2> QED BY <2>1, <2>2 DEF InstallInv
<1>2. CASE UNCHANGED installVars
  BY <1>2 DEF installVars, InstallInv, InstallTypeOK, Alone, Guarded, Leads, Holds, Up
<1> QED BY <1>1, <1>2, BootStep, OutsideStep DEF InstallNext, StepOf

\* Through every crash, refused code, lost answer and half uninstallation, with processes
\* started twice and uninstallers wherever they run: undisturbed agents run in one directory
\* and have the secret that directory kept.
THEOREM AgentsAreKnown == InstallSpec => []OneKnownAgent
<1>1. InstallInv => OneKnownAgent
  BY DEF InstallInv, Alone, Holds, OneKnownAgent, OneAgentRuns, RunningIsKnown, Up
<1> QED BY <1>1, InstallInvInit, InstallInvStep, PTL DEF InstallSpec

-----------------------------------------------------------------------------
(* AgentUpdate *)

\* A download that has met nothing is the only one; if it started by itself, the offer is
\* mandatory, and once it has begun the path and its own version are those of the offer.
\* The file it has open was emptied by itself and by nobody since.
LoneInv ==
  /\ \A j \in jobs : j.nr <= begun
  /\ \A j \in jobs : ~j.met => jobs = {j}
  /\ \A j \in jobs : j.auto /\ ~j.met => urgent /\ offer \in Version
  /\ \A j \in jobs : j.auto /\ ~j.met /\ j.at # "due" => j.of = offer /\ path = offer
  /\ \A j \in jobs : j.auto /\ ~j.met /\ j.at = "open" => opener[j.of] = j.nr

UpdateInv == UpdateTypeOK /\ LoneInv

LEMMA UpdateInvInit == UpdateInit => UpdateInv
<1>1. UpdateInit => UpdateTypeOK
  <2>1. UpdateInit => urgent \in BOOLEAN /\ jobs \subseteq Job
    BY DEF UpdateInit
  <2>2. UpdateInit => /\ {offer, path} \subseteq Version \cup {NoVersion}
                      /\ package \in [Version -> {"none", "partial", "whole"}]
                      /\ installed \in [of: Version \cup {NoVersion}, what: {"none", "partial", "whole"}]
    BY DEF UpdateInit
  <2>3. UpdateInit => opener \in [Version -> 0..Downloads] /\ begun \in 0..Downloads
    BY UpdateAssumption DEF UpdateInit
  <2> QED BY <2>1, <2>2, <2>3 DEF UpdateTypeOK
<1>2. UpdateInit => LoneInv
  BY DEF UpdateInit, LoneInv
<1> QED BY <1>1, <1>2 DEF UpdateInv

LEMMA DisturbedJobs ==
  ASSUME NEW js, js \subseteq Job
  PROVE /\ Disturbed(js) \subseteq Job
        /\ \A k \in Disturbed(js) : k.met /\ \E j \in js : k.nr = j.nr /\ k.at = j.at /\ k.of = j.of
<1>1. ASSUME NEW j \in js PROVE /\ [j EXCEPT !.met = TRUE] \in Job
                                /\ [j EXCEPT !.met = TRUE].met = TRUE
                                /\ [j EXCEPT !.met = TRUE].nr = j.nr
                                /\ [j EXCEPT !.met = TRUE].at = j.at
                                /\ [j EXCEPT !.met = TRUE].of = j.of
  BY DEF Job
<1> QED BY <1>1 DEF Disturbed

\* What a step of one download does to the others: it meets none that has met nothing.
LEMMA JobSteps ==
  ASSUME UpdateInv, NEW j \in jobs, Begin(j) \/ Opens(j) \/ Declined(j) \/ Fails(j) \/ Complete(j)
  PROVE UpdateInv'
<1> USE UpdateAssumption DEF UpdateInv, UpdateTypeOK
<1>0. /\ j \in Job /\ j.nr \in 1..Downloads /\ j.nr <= begun /\ j.auto \in BOOLEAN /\ j.met \in BOOLEAN
      /\ ~j.met => jobs = {j}
      /\ offer' = offer /\ urgent' = urgent /\ begun' = begun
  BY DEF LoneInv, Job, Begin, Opens, Declined, Fails, Complete
<1>1. CASE Begin(j)
  <2> DEFINE k == [j EXCEPT !.of = offer, !.at = "asked"]
  <2>1. /\ k \in Job /\ k.nr = j.nr /\ k.auto = j.auto /\ k.met = j.met /\ k.of = offer /\ k.at = "asked"
    BY <1>0 DEF Job
  <2>2. jobs' = (jobs \ {j}) \cup {k} /\ path' = offer /\ UNCHANGED <<package, opener, installed>>
    BY <1>1 DEF Begin, Becomes
  <2> HIDE DEF k
  <2>3. UpdateTypeOK'
    BY <1>0, <2>1, <2>2
  <2>4. LoneInv'
    <3>0. \A i \in jobs' : i = k \/ i \in jobs \ {j}
      BY <2>2
    <3>1. \A i \in jobs' : i.nr <= begun'
      BY <1>0, <2>1, <3>0 DEF LoneInv
    <3>2. \A i \in jobs' : ~i.met => jobs' = {i}
      BY <1>0, <2>1, <2>2, <3>0 DEF LoneInv
    <3>3. \A i \in jobs' : i.auto /\ ~i.met => urgent' /\ offer' \in Version
      BY <1>0, <2>1, <3>0 DEF LoneInv
    <3>4. \A i \in jobs' : i.auto /\ ~i.met /\ i.at # "due" => i.of = offer' /\ path' = offer'
      BY <1>0, <2>1, <2>2, <3>0 DEF LoneInv
    <3>5. \A i \in jobs' : i.auto /\ ~i.met /\ i.at = "open" => opener'[i.of] = i.nr
      BY <1>0, <2>1, <2>2, <3>0 DEF LoneInv
    <3> QED BY <3>1, <3>2, <3>3, <3>4, <3>5 DEF LoneInv
  <2> QED BY <2>3, <2>4
<1>2. CASE Opens(j)
  <2> DEFINE k == [j EXCEPT !.at = "open"]
  <2>1. /\ k \in Job /\ k.nr = j.nr /\ k.auto = j.auto /\ k.met = j.met /\ k.of = j.of /\ k.at = "open"
    BY <1>0 DEF Job
  <2>2. /\ jobs' = (jobs \ {j}) \cup {k} /\ UNCHANGED <<path, installed>> /\ j.at = "asked"
        /\ package' = [package EXCEPT ![j.of] = "partial"] /\ opener' = [opener EXCEPT ![j.of] = j.nr]
    BY <1>2 DEF Opens, Becomes
  <2> HIDE DEF k
  <2>3. UpdateTypeOK'
    <3>0. j.nr \in 0..Downloads
      BY <1>0
    <3>3. package' \in [Version -> {"none", "partial", "whole"}]
      BY <2>2
    <3>1. opener' \in [Version -> 0..Downloads]
      BY <2>2, <3>0
    <3>2. jobs' \subseteq Job
      BY <2>1, <2>2
    <3> QED BY <1>0, <2>2, <3>1, <3>2, <3>3
  <2>4. LoneInv'
    <3>0. \A i \in jobs' : i = k \/ i \in jobs \ {j}
      BY <2>2
    <3>1. \A i \in jobs' : i.nr <= begun'
      BY <1>0, <2>1, <3>0 DEF LoneInv
    <3>2. \A i \in jobs' : ~i.met => jobs' = {i} /\ i = k /\ ~j.met
      BY <1>0, <2>1, <2>2, <3>0 DEF LoneInv
    <3>3. \A i \in jobs' : i.auto /\ ~i.met => urgent' /\ offer' \in Version
      BY <1>0, <2>1, <3>0 DEF LoneInv
    <3>4. \A i \in jobs' : i.auto /\ ~i.met /\ i.at # "due" => i.of = offer' /\ path' = offer'
      BY <1>0, <2>1, <2>2, <3>0 DEF LoneInv
    <3>5. \A i \in jobs' : i.auto /\ ~i.met /\ i.at = "open" => opener'[i.of] = i.nr
      <4> SUFFICES ASSUME NEW i \in jobs', i.auto, ~i.met PROVE opener'[i.of] = i.nr
        OBVIOUS
      <4>1. i = k /\ ~j.met /\ j.auto
        BY <2>1, <3>2
      <4>2. j.of \in Version
        BY <1>0, <2>2, <4>1 DEF LoneInv
      <4> QED BY <2>1, <2>2, <4>1, <4>2
    <3> QED BY <3>1, <3>2, <3>3, <3>4, <3>5 DEF LoneInv
  <2> QED BY <2>3, <2>4
<1>3. CASE Declined(j) \/ Fails(j) \/ Complete(j)
  <2>1. jobs' = jobs \ {j} /\ path' = path
    BY <1>3 DEF Declined, Fails, Complete
  <2>2. /\ package' \in [Version -> {"none", "partial", "whole"}] /\ opener' \in [Version -> 0..Downloads]
    BY <1>3, <1>0 DEF Declined, Fails, Complete, Left
  <2>3. installed' \in [of: Version \cup {NoVersion}, what: {"none", "partial", "whole"}]
    BY <1>3, <2>2 DEF Declined, Fails, Complete, Install
  <2>4. LoneInv'
    <3>1. \A i \in jobs' : i \in jobs /\ i.met
      BY <1>0, <2>1 DEF LoneInv
    <3> QED BY <1>0, <2>1, <3>1 DEF LoneInv
  <2> QED BY <1>0, <2>1, <2>2, <2>3, <2>4
<1> QED BY <1>1, <1>2, <1>3

\* One more download: alone, or every one of them has met another.
LEMMA BeginsStep ==
  ASSUME UpdateInv, NEW v \in Version \cup {NoVersion}, NEW auto \in BOOLEAN, NEW stage \in {"due", "asked"},
         Begins(v, auto, stage), auto => urgent' /\ offer' \in Version /\ stage = "due",
         UNCHANGED <<package, opener, installed>>,
         {offer', path'} \subseteq Version \cup {NoVersion}, urgent' \in BOOLEAN
  PROVE UpdateInv'
<1> USE UpdateAssumption DEF UpdateInv, UpdateTypeOK
<1> DEFINE k == [nr |-> begun + 1, of |-> v, auto |-> auto, at |-> stage, met |-> jobs # {}]
<1>1. begun' = begun + 1 /\ begun' \in 1..Downloads
  BY DEF Begins
<1>2. /\ k \in Job /\ k.nr = begun' /\ k.of = v /\ k.auto = auto /\ k.at = stage /\ k.met = (jobs # {})
  BY <1>1 DEF Job
<1>3. jobs' = Disturbed(jobs) \cup {k}
  BY DEF Begins
<1> HIDE DEF k
<1>4. Disturbed(jobs) \subseteq Job /\ \A i \in Disturbed(jobs) : i.met /\ i.nr <= begun
  BY DisturbedJobs DEF LoneInv
<1>5. UpdateTypeOK'
  BY <1>1, <1>2, <1>3, <1>4
<1>6. LoneInv'
  <2>0. \A i \in jobs' : i = k \/ (i \in Disturbed(jobs) /\ i.met /\ i.nr <= begun)
    BY <1>3, <1>4
  <2>1. \A i \in jobs' : i.nr <= begun'
    <3>1. begun \in Nat
      OBVIOUS
    <3>2. \A i \in jobs' : i.nr \in Nat
      BY <1>5 DEF Job
    <3> QED BY <1>1, <1>2, <2>0, <3>1, <3>2
  <2>2. \A i \in jobs' : ~i.met => jobs' = {i}
    <3>1. ASSUME jobs = {} PROVE Disturbed(jobs) = {}
      BY <3>1 DEF Disturbed
    <3> QED BY <1>2, <1>3, <2>0, <3>1
  <2>3. \A i \in jobs' : i.auto /\ ~i.met => i.at = "due" /\ urgent' /\ offer' \in Version
    BY <1>2, <2>0
  <2> QED BY <2>1, <2>2, <2>3 DEF LoneInv
<1> QED BY <1>5, <1>6

LEMMA InformedStep ==
  ASSUME UpdateInv, NEW v \in Version, NEW mandatory \in BOOLEAN, Informed(v, mandatory),
         jobs' = IF Known(v, mandatory) THEN jobs ELSE Disturbed(jobs),
         UNCHANGED <<path, package, opener, begun, installed>>
  PROVE UpdateInv'
<1> USE UpdateAssumption DEF UpdateInv, UpdateTypeOK
<1>1. offer' = v /\ urgent' = mandatory
  BY DEF Informed
<1>2. CASE Known(v, mandatory)
  <2>1. jobs' = jobs /\ offer' = offer /\ urgent' = urgent
    BY <1>1, <1>2 DEF Known
  <2> QED BY <2>1 DEF LoneInv
<1>3. CASE ~Known(v, mandatory)
  <2>1. jobs' \subseteq Job /\ \A i \in jobs' : i.met /\ i.nr <= begun
    BY <1>3, DisturbedJobs DEF LoneInv
  <2>2. LoneInv'
    BY ONLY <2>1, begun' = begun DEF LoneInv
  <2>3. UpdateTypeOK'
    BY <1>1, <2>1
  <2> QED BY <2>2, <2>3
<1> QED BY <1>2, <1>3

LEMMA UpdateInvStep ==
  ASSUME UpdateInv, [UpdateNext]_updateVars PROVE UpdateInv'
<1> USE UpdateAssumption DEF UpdateInv
<1>1. ASSUME NEW v \in Version, NEW mandatory \in BOOLEAN, CheckUpdate(v, mandatory) PROVE UpdateInv'
  BY <1>1, InformedStep DEF CheckUpdate
<1>2. ASSUME NEW v \in Version, NEW mandatory \in BOOLEAN, NoticeVersion(v, mandatory) PROVE UpdateInv'
  <2>1. CASE mandatory
    <3>1. /\ Begins(NoVersion, TRUE, "due") /\ offer' = v /\ urgent' = TRUE
          /\ path' = path /\ UNCHANGED <<package, opener, installed>>
      BY <1>2, <2>1 DEF NoticeVersion, Informed
    <3> QED BY <3>1, BeginsStep DEF UpdateTypeOK
  <2>2. CASE ~mandatory
    BY <1>2, <2>2, InformedStep DEF NoticeVersion
  <2> QED BY <2>1, <2>2
<1>3. CASE DownloadCommand
  <2>1. /\ Begins(offer, FALSE, "asked") /\ offer' = offer /\ urgent' = urgent
        /\ path' = offer /\ UNCHANGED <<package, opener, installed>> /\ offer \in Version \cup {NoVersion}
    BY <1>3 DEF DownloadCommand, UpdateTypeOK
  <2> QED BY <2>1, BeginsStep DEF UpdateTypeOK
<1>4. CASE InstallCommand
  <2>1. installed' \in [of: Version \cup {NoVersion}, what: {"none", "partial", "whole"}]
    BY <1>4 DEF InstallCommand, Install, UpdateTypeOK
  <2> QED BY <1>4, <2>1 DEF InstallCommand, UpdateTypeOK, LoneInv
<1>5. CASE Restart
  <2>1. jobs' = {} /\ begun' = 0 /\ opener' = [v \in Version |-> 0] /\ UNCHANGED <<package, installed>>
    BY <1>5 DEF Restart
  <2>2. UpdateTypeOK'
    <3>1. offer' = NoVersion /\ path' = NoVersion /\ urgent' \in BOOLEAN
      BY <1>5 DEF Restart
    <3>2. jobs' \subseteq Job
      BY <2>1
    <3>3. opener' \in [Version -> 0..Downloads] /\ begun' \in 0..Downloads
      BY <2>1
    <3> QED BY <2>1, <3>1, <3>2, <3>3 DEF UpdateTypeOK
  <2>3. LoneInv'
    BY ONLY <2>1 DEF LoneInv
  <2> QED BY <2>2, <2>3
<1>6. CASE UNCHANGED updateVars
  BY <1>6 DEF updateVars, UpdateTypeOK, LoneInv
<1> QED BY <1>1, <1>2, <1>3, <1>4, <1>5, <1>6, JobSteps DEF UpdateNext

\* While a mandatory update is under way that meets no other download and no other offer,
\* only it is installed, and whole.
LEMMA LoneStep ==
  ASSUME UpdateInv, UpdateNext, NEW j \in jobs, j.auto, ~j.met, installed' # installed
  PROVE j \notin jobs' /\ installed' = [of |-> offer, what |-> "whole"]
<1> USE DEF UpdateInv
<1>0. jobs = {j} /\ urgent /\ j.auto
  BY DEF LoneInv
<1>1. CASE InstallCommand
  BY <1>0, <1>1 DEF InstallCommand
<1>2. ASSUME NEW k \in jobs, Complete(k) PROVE j \notin jobs' /\ installed' = [of |-> offer, what |-> "whole"]
  <2>1. k = j
    BY <1>0
  <2>2. /\ jobs' = jobs \ {j} /\ Install(package') /\ j.at = "open"
        /\ \E content \in Left(j) : package' = [package EXCEPT ![j.of] = content]
    BY <1>2, <2>1 DEF Complete
  <2>3. j.of = offer /\ path = offer /\ opener[j.of] = j.nr /\ offer \in Version
    BY <2>2 DEF LoneInv
  <2>4. package'[offer] = "whole"
    BY <2>2, <2>3 DEF Left, UpdateTypeOK
  <2> QED BY <2>2, <2>3, <2>4, UpdateAssumption DEF Install
<1> QED BY <1>1, <1>2 DEF UpdateNext, CheckUpdate, NoticeVersion, DownloadCommand, Restart, Begin, Opens,
           Declined, Fails

\* For any numbers of versions and downloads, and wherever a process ends.
THEOREM LoneUpdatesAreWhole == UpdateSpec => LoneUpdateIsWhole
<1>1. UpdateInv /\ [UpdateNext]_updateVars =>
      [\A j \in jobs : j.auto /\ ~j.met /\ installed' # installed =>
         j \notin jobs' /\ installed' = [of |-> offer, what |-> "whole"]]_updateVars
  BY LoneStep DEF updateVars
<1> QED BY <1>1, UpdateInvInit, UpdateInvStep, PTL DEF UpdateSpec, LoneUpdateIsWhole

-----------------------------------------------------------------------------
(* MCAgent *)

\* What each part keeps; its types alone are seldom inductive.
PartsInv ==
  /\ HostTypeOK /\ HostInv /\ LinkInv /\ InstallInv /\ UpdateInv /\ RegistryInv
  /\ PresenceTypeOK /\ LedgerInv /\ CredentialInv

LEMMA PartsInit == AgentInit => PartsInv
<1> SUFFICES ASSUME AgentInit PROVE PartsInv
  OBVIOUS
<1>1. HostInit /\ LinkInit /\ InstallInit /\ UpdateInit /\ RegistryInit /\ PresenceInit /\ LedgerInit /\ CredentialInit
  BY DEF AgentInit
<1>2. HostTypeOK /\ HostInv /\ LinkInv /\ RegistryInv /\ LedgerInv /\ CredentialInv
  BY <1>1, InvInit, LinkInvInit, RegistryStart, LedgerInvInit, CredentialInvInit
<1>3. PresenceTypeOK
  BY <1>1, PresenceInvInit DEF GoneInv
<1>4. InstallInv /\ UpdateInv
  BY <1>1, InstallInvInit, UpdateInvInit
<1> QED BY <1>2, <1>3, <1>4 DEF PartsInv

\* A step of one part is a step of that part and leaves the others alone.
LEMMA OnePartMoves ==
  ASSUME [\/ HostPart \/ LinkPart \/ InstallPart \/ UpdatePart \/ RegistryPart
          \/ PresencePart \/ LedgerPart \/ CredentialPart]_agentVars
  PROVE  /\ [HostNext]_hostVars /\ [LinkNext]_linkVars /\ [InstallNext]_installVars /\ [UpdateNext]_updateVars
         /\ [RegistryNext]_registryVars /\ [PresenceNext]_presenceVars /\ [LedgerNext]_ledgerVars
         /\ [CredentialNext]_credentialVars
BY DEF HostPart, LinkPart, InstallPart, UpdatePart, RegistryPart, PresencePart, LedgerPart, CredentialPart, agentVars

LEMMA PartsStep ==
  ASSUME PartsInv, [\/ HostPart \/ LinkPart \/ InstallPart \/ UpdatePart \/ RegistryPart
                    \/ PresencePart \/ LedgerPart \/ CredentialPart]_agentVars
  PROVE  PartsInv'
<1>0. /\ [HostNext]_hostVars /\ [LinkNext]_linkVars /\ [InstallNext]_installVars /\ [UpdateNext]_updateVars
      /\ [RegistryNext]_registryVars /\ [PresenceNext]_presenceVars /\ [LedgerNext]_ledgerVars
      /\ [CredentialNext]_credentialVars
  BY OnePartMoves
<1> USE <1>0 DEF PartsInv
<1>1. HostTypeOK' /\ HostInv'
  BY InvStep
<1>2. LinkInv'
  BY LinkInvStep
<1>3. InstallInv' /\ UpdateInv'
  BY InstallInvStep, UpdateInvStep
<1>4. RegistryInv'
  BY RegistryStep
<1>5. PresenceTypeOK'
  BY PresenceTypeStep
<1>6. LedgerInv'
  BY LedgerInvStep
<1>7. CredentialInv'
  BY CredentialTypeStep, SentStep, OnceStep DEF CredentialInv
<1> QED BY <1>1, <1>2, <1>3, <1>4, <1>5, <1>6, <1>7

\* Every part of an agent and of the platform around it keeps its types, for any numbers
\* of tasks, directories, processes, versions, consoles, sessions, requests and tokens.
THEOREM AgentsAreTyped == AgentSpec => []AgentTypeOK
<1>1. PartsInv => AgentTypeOK
  BY DEF PartsInv, RegistryInv, LinkInv, InstallInv, UpdateInv, LedgerInv, TablesTyped,
         RequestsTyped, LedgerTypeOK, CredentialInv, AgentTypeOK
<1> QED BY <1>1, PartsInit, PartsStep, PTL DEF AgentSpec
=============================================================================
