SPECIFICATION FairSpec
CONSTANTS
  MaxCalls = 2
  MaxEditors = 2
  MaxHangs = 1
  MaxDrops = 1
INVARIANTS
  QuitIsConfirmed
PROPERTIES
  SparesTheRunning
  CallsEnd
  AcknowledgedQuitEnds
CHECK_DEADLOCK FALSE
