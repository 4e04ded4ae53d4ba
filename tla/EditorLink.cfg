SPECIFICATION FairSpec
CONSTANTS
  b1 = b1
  b2 = b2
  Brokers <- TwoBrokers
  MaxSockets = 4
  MaxBusy = 0
  MaxCalls = 1
  MaxStarts = 1
  MaxDrops = 1
INVARIANTS
  OneClient
  NoSlotIsLeaked
PROPERTIES
  CallsEnd
  SlotIsUsed
CHECK_DEADLOCK FALSE
