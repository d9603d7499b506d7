SPECIFICATION StreamSpec
CONSTANTS
  Host = {h1, h2, h3}
  Bound = {h1, h2}
  Preloaded = h3
  NoHost = nohost
  Stream = {s0, s1}
  First = s0
  NoStream = nostream
  Strikes = 2
  Tries = 1
  Profile = {p1, p2}
  NewUser = {p2}
  NoProfile = noprofile
  Rows = 2
  Login = {l1, l2}
  Earlier = l0
  NoToken = notoken
  Attempts = 2
  LastVersion = 2
  Games = 2
  Presses = 2
INVARIANTS
  StreamTypeOK
  OnlyTheConsoleTried
  ReconnectIsWhole
  RightProfile
  ChainsWhole
  LetsGo
  OverIsThisMatch
  WayIsFound
PROPERTIES
  DeadIsReplaced
CHECK_DEADLOCK FALSE
