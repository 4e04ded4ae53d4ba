SPECIFICATION Spec
CONSTANTS
  MaxConns = 2
  MaxIds = 1
  InboundCap = 1
  WireCap = 2
  MaxCommands = 1
  MaxWait = 2
  MaxEvents = 0
  Forms <- CommandOnly
INVARIANT AnswersAreOwn
CHECK_DEADLOCK FALSE
