SPECIFICATION PartsSpec
CONSTANTS
  s1 = s1
  s2 = s2
  l1 = l1
  l2 = l2
  Sessions <- TwoSessions
  NoSession = NoSession
  Breakpoints <- TwoLines
  Files <- FirstLine
  LowMode = TRUE
  MaxSignals = 7
  MaxSignalsSeen = 4
  MaxOps = 2
  MaxConns = 2
INVARIANTS
  OverrideFollowsBreaks
  BreakpointsApplied
  MirrorIsRight
PROPERTY
  SingleStepReportsItsOwnBreak
SYMMETRY SessionSymmetry
CHECK_DEADLOCK FALSE
