SPECIFICATION PartsSpec
CONSTANTS
  s1 = s1
  s2 = s2
  l1 = l1
  l2 = l2
  Sessions <- OneSession
  NoSession = NoSession
  Breakpoints <- NoLines
  Files <- NoLines
  LowMode = TRUE
  MaxSignals = 2
  MaxSignalsSeen = 2
  MaxOps = 0
  MaxConns = 1
INVARIANT
  SingleGameIsKnownHalted
CHECK_DEADLOCK FALSE
