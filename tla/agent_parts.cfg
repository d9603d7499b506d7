SPECIFICATION AgentSpec
CONSTANTS
  HostedTask = {t1, t2}
  Copy = {d1, d2}
  Console = {c1}
  NoOne = nobody
  OneStep = {t2}
  Slots = 2
  MaxAttempts = 4
  DiscoverAt = 3
  Moves = 1
  Dir = {e1, e2}
  Nowhere = nowhere
  Process = {p1, p2}
  Secrets = 2
  Version = {u1, u2}
  NoVersion = nover
  Downloads = 2
  Box = {b1}
  Computer = {}
  Address = {a1, a2}
  Blank = blank
  Handler = {h1, h2}
  Row = {w1, w2}
  Sess = {s1, s2}
  NoSess = nosess
  Grace = 3
  Timeout = 2
  Idle = 3
  Merchant = {m1, m2}
  Home = m1
  Request = {r1, r2}
  Card = {n1}
  Code = {k1}
  Event = {v1}
  Key = {y1}
  Repeats = 1
  Credential = {k1c, k2c}
  Streaming = k1c
  NoCredential = nocred
  Exchange = {x1, x2}
  Life = 1
CHECK_DEADLOCK FALSE
INVARIANTS
  AgentTypeOK
  PermitsAccounted ConsoleExclusive
  LoopsFollowLink
  PresenceIsTrue
  LedgerIsSound
  OneKnownAgent
  TokensAreOnce
PROPERTIES
  ResultIsOwn TerminatedEnds ImplementsPool
  LinkSettles
  OneRowPerAddress
  LoneUpdateIsWhole
