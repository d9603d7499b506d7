---------------------------- MODULE CredentialToken ----------------------------
(***************************************************************************)
(* How a password gets from the platform to an agent.  A task carries a    *)
(* token in place of each password (CredentialTokenService): it is made    *)
(* with the task, lives for Life minutes in Redis, or in two maps of the   *)
(* platform's process where there is no Redis, and is taken away by the    *)
(* first exchange.  The agent exchanges them when it starts the task.      *)
(***************************************************************************)
EXTENDS Naturals

CONSTANTS
  Credential,  \* the tokens of a task, one for each password
  Streaming,   \* that of the streaming account; the others are game accounts'
  NoCredential,
  Exchange,    \* starts of a task on the agent: a message may come twice
  Life         \* TOKEN_EXPIRE_SECONDS, in minutes: 5

ASSUME CredentialAssumption ==
  NoCredential \notin Credential /\ Streaming \in Credential /\ Life \in Nat \ {0}

VARIABLES
  keyed,     \* there is a redisTemplate
  store,     \* tokens whose value is in Redis or localStore
  expiry,    \* tokens that are in localExpiry
  left,      \* minutes a token has left
  maker,     \* generateToken's thread: where it is and with which token
  swept,     \* tokens that sweepExpired has taken from localExpiry and not yet from the other
  sent,      \* tokens made; with all of them the task can be dispatched
  at,        \* where a start of the task is
  token,     \* the token it exchanges
  password,  \* what it has for each password, once it has asked
  paid       \* history: exchanges that were given a token's value

credentialVars == <<keyed, store, expiry, left, maker, swept, sent, at, token, password, paid>>
platformVars == <<keyed, left, maker, swept, sent>>
startVars == <<at, token, password>>

NoMaker == [at |-> "idle", token |-> NoCredential]
ExchangeAt == {"off", "next", "asked", "drop", "forget", "spend", "take", "value", "nothing",
               "started", "refused"}

CredentialTypeOK ==
  /\ keyed \in BOOLEAN /\ {store, expiry, swept, sent} \subseteq SUBSET Credential
  /\ left \in [Credential -> 0..Life]
  /\ maker \in [at : {"idle", "store", "expiry"}, token : Credential \cup {NoCredential}]
  /\ at \in [Exchange -> ExchangeAt] /\ token \in [Exchange -> Credential \cup {NoCredential}]
  /\ password \in [Exchange -> [Credential -> {"unasked", "none", "right", "garbage"}]]
  /\ paid \in [Credential -> Nat]

CredentialInit ==
  /\ keyed \in BOOLEAN /\ store = {} /\ expiry = {} /\ swept = {} /\ sent = {}
  /\ left = [c \in Credential |-> 0] /\ maker = NoMaker
  /\ at = [x \in Exchange |-> "off"] /\ token = [x \in Exchange |-> NoCredential]
  /\ password = [x \in Exchange |-> [c \in Credential |-> "unasked"]] /\ paid = [c \in Credential |-> 0]

-----------------------------------------------------------------------------
(* generateToken *)

Lives(c) == left' = [left EXCEPT ![c] = Life]

\* buildStreamingAccountInfo and buildGameAccountsInfo ask for a token with the task.
GenerateToken(c) ==
  /\ maker = NoMaker /\ c \notin sent /\ swept = {}
  /\ IF keyed THEN store' = store \cup {c} /\ sent' = sent \cup {c} /\ Lives(c) /\ UNCHANGED maker
              ELSE maker' = [at |-> "store", token |-> c] /\ UNCHANGED <<store, sent, left>>
  /\ UNCHANGED <<keyed, expiry, swept, startVars, paid>>

\* sweepExpired: an entry that has run out leaves one map, then the other.
SweepExpiry(c) ==
  /\ maker.at = "store" /\ c \in expiry /\ left[c] = 0
  /\ expiry' = expiry \ {c} /\ swept' = swept \cup {c}
  /\ UNCHANGED <<keyed, store, left, maker, sent, startVars, paid>>
SweepStore(c) ==
  /\ c \in swept /\ swept' = swept \ {c} /\ store' = store \ {c}
  /\ UNCHANGED <<keyed, expiry, left, maker, sent, startVars, paid>>

PutStore ==
  /\ maker.at = "store" /\ swept = {} /\ maker' = [maker EXCEPT !.at = "expiry"]
  /\ store' = store \cup {maker.token}
  /\ UNCHANGED <<keyed, expiry, left, swept, sent, startVars, paid>>
PutExpiry ==
  /\ maker.at = "expiry" /\ maker' = NoMaker
  /\ expiry' = expiry \cup {maker.token} /\ Lives(maker.token) /\ sent' = sent \cup {maker.token}
  /\ UNCHANGED <<keyed, store, swept, startVars, paid>>

-----------------------------------------------------------------------------
(* getAndInvalidate, in a request of exchange_credential_token *)

Advances(x, here, there) == at[x] = here /\ at' = [at EXCEPT ![x] = there]
ServerOnly == UNCHANGED <<platformVars, token, password>>
IsPaid(x) == paid' = [paid EXCEPT ![token[x]] = @ + 1]

Asks(x, c) ==
  /\ token' = [token EXCEPT ![x] = c]
  /\ UNCHANGED <<platformVars, store, expiry, password, paid>>

\* start_task, as soon as a message with the task arrives; the task may have waited in the
\* platform's queue before, and may be sent again.  The streaming account comes first,
\* then the game accounts.
Start(x) == sent = Credential /\ Advances(x, "off", "asked") /\ Asks(x, Streaming)
NextGameAccount(x, c) == password[x][c] = "unasked" /\ Advances(x, "next", "asked") /\ Asks(x, c)
NoneLeftToAsk(x) ==
  /\ \A c \in Credential : password[x][c] # "unasked"
  /\ Advances(x, "next", "started") /\ Asks(x, NoCredential)

\* GETDEL
GetAndDelete(x) ==
  /\ keyed /\ ServerOnly /\ UNCHANGED expiry
  /\ IF token[x] \in store
     THEN Advances(x, "asked", "value") /\ store' = store \ {token[x]} /\ IsPaid(x)
     ELSE Advances(x, "asked", "nothing") /\ UNCHANGED <<store, paid>>

\* Without Redis: what the expiry says, then the two removals.
LooksUp(x) ==
  /\ ~keyed /\ Advances(x, "asked", IF token[x] \in expiry /\ left[token[x]] > 0 THEN "spend" ELSE "drop")
  /\ ServerOnly /\ UNCHANGED <<store, expiry, paid>>
DropValue(x) ==
  /\ Advances(x, "drop", "forget") /\ store' = store \ {token[x]}
  /\ ServerOnly /\ UNCHANGED <<expiry, paid>>
ForgetExpiry(x) ==
  /\ Advances(x, "forget", "nothing") /\ expiry' = expiry \ {token[x]}
  /\ ServerOnly /\ UNCHANGED <<store, paid>>
Spend(x) ==
  /\ Advances(x, "spend", "take") /\ expiry' = expiry \ {token[x]}
  /\ ServerOnly /\ UNCHANGED <<store, paid>>

\* A mutant: the value is read where it is to be removed.
Reads(x) ==
  /\ ServerOnly /\ UNCHANGED <<store, expiry>>
  /\ IF token[x] \in store
     THEN Advances(x, "take", "value") /\ IsPaid(x)
     ELSE Advances(x, "take", "nothing") /\ UNCHANGED paid

Take(x) ==
  /\ ServerOnly /\ UNCHANGED expiry
  /\ store' = store \ {token[x]}
  /\ IF token[x] \in store
     THEN Advances(x, "take", "value") /\ IsPaid(x)
     ELSE Advances(x, "take", "nothing") /\ UNCHANGED paid

\* Without the password of the streaming account the task fails, without a game account's
\* it goes on.
Has(x, here, p) ==
  /\ Advances(x, here, IF token[x] = Streaming /\ p = "none" THEN "refused" ELSE "next")
  /\ password' = [password EXCEPT ![x][token[x]] = p]
  /\ UNCHANGED <<platformVars, store, expiry, token, paid>>

\* Without a value the token itself is decrypted, which may give something.
DecryptToken(x, here) == \E p \in {"none", "garbage"} : Has(x, here, p)
Decrypt(x) == Has(x, "value", "right") \/ DecryptToken(x, "nothing")
\* The request or its answer is lost, or later than 10 s.
NoAnswer(x) == DecryptToken(x, "asked") \/ DecryptToken(x, "value")

-----------------------------------------------------------------------------
Minute ==
  /\ \E c \in Credential : left[c] > 0
  /\ left' = [c \in Credential |-> IF left[c] > 0 THEN left[c] - 1 ELSE 0]
  /\ store' = IF keyed THEN {c \in store : left[c] > 1} ELSE store
  /\ UNCHANGED <<keyed, expiry, maker, swept, sent, startVars, paid>>

\* The maps are gone, Redis stays; a request under way has no answer.
PlatformEnds ==
  /\ maker' = NoMaker /\ swept' = {}
  /\ store' = (IF keyed THEN store ELSE {}) /\ expiry' = {}
  /\ at' = [x \in Exchange |-> IF at[x] \in {"asked", "drop", "forget", "spend", "take", "value"} THEN "nothing" ELSE at[x]]
  /\ UNCHANGED <<keyed, left, sent, token, password, paid>>

CredentialNext ==
  \/ \E c \in Credential : \/ GenerateToken(c) \/ SweepExpiry(c) \/ SweepStore(c)
                           \/ \E x \in Exchange : NextGameAccount(x, c)
  \/ PutStore \/ PutExpiry
  \/ \E x \in Exchange : \/ Start(x) \/ NoneLeftToAsk(x) \/ GetAndDelete(x) \/ LooksUp(x) \/ DropValue(x) \/ ForgetExpiry(x)
                         \/ Spend(x) \/ Take(x) \/ Decrypt(x) \/ NoAnswer(x)
  \/ Minute \/ PlatformEnds

CredentialSpec == CredentialInit /\ [][CredentialNext]_credentialVars

-----------------------------------------------------------------------------
(* Properties. *)

\* "Taken once": however exchanges of one token overlap each other, its end and the sweep,
\* its value is given to one of them.
PaidOnce == \A c \in Credential : paid[c] <= 1

\* No value outlives its entry in the other map, which is what a sweep goes through: it
\* would stay for ever.
Between(c) ==
  \/ maker.token = c \/ c \in swept \/ \E x \in Exchange : token[x] = c /\ at[x] = "take"
NothingLingers == ~keyed => \A c \in store : c \in expiry \/ Between(c)

TokensAreOnce == PaidOnce /\ NothingLingers

\* A task that the agent starts has its password.  Does not hold: the tokens are made with
\* the task, which may wait in the queue for longer than they live; an answer that is
\* lost has used its token up; a second message for the task finds it used.
StartsWithPassword == \A x \in Exchange, c \in Credential : password[x][c] # "none"

\* What is not the password is not taken for it.  Does not hold.
NoGarbage == \A x \in Exchange, c \in Credential : password[x][c] # "garbage"
=============================================================================
