SPECIFICATION Spec
CONSTANTS
  n1 = n1
  n2 = n2
  r1 = r1
  r2 = r2
  Window = Window
  Nothing = Nothing
  Nodes <- ThreeNodes
  Counted <- TwoCounted
  MaxHandles = 2
  MaxMints = 2
  MaxOps = 2
  MaxFrames = 2
  OpDeadline = 2
  MaxSwitches = 1
  MaxSockets = 1
  InboxCap = 2
  RecvDeadline = 2
  MaxIds = 2
  MaxCalls = 3
  MaxSent = 3
  MaxLog = 4
  MaxFiles = 2
  MaxBytes = 2
  HasPath = TRUE
INVARIANTS
  HeldIsAlive
  NothingIsLeftBehind
  NothingIsLost
  WaitsAreExact
PROPERTIES
  HandlesAreHonest
  RefusedChangesNothing
  OpsEnd
CHECK_DEADLOCK FALSE
