SPECIFICATION HostSpec
CONSTANTS
  HostedTask = {t1, t2}
  Copy = {d1, d2}
  Console = {c1}
  NoOne = nobody
  OneStep = {t2}
  Slots = 2
CHECK_DEADLOCK FALSE
PROPERTIES RefusedStartIsHarmless
