SPECIFICATION ProgressSpec
CONSTANTS
  g1 = g1
  g2 = g2
  p1 = p1
  Games <- TwoGames
  Plays <- OnePlay
  MaxTries = 1
  MaxSuspended = 1
  MaxConns = 1
  MaxIds = 2
  InboundCap = 1
  WireCap = 1
  MaxCommands = 1
  MaxWait = 2
  MaxEvents = 0
  Forms <- AnyForm
INVARIANT
  NoRequestLost
  GamesAreTracked
PROPERTIES
  GamesAreAdopted
  EveryRequestEnds
  StopTerminates
CHECK_DEADLOCK FALSE
