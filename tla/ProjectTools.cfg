SPECIFICATION ToolsOnly
CONSTANTS
  PingAfter = 2
  Timeout = 5
  Delay = 1
  Stall = 2
  AskAfter = 1
  Silence = 2
  Grace = 2
  BufferRoom = 1
  BigFrame = 2
  MaxMade = 2
  MaxTime = 0
  Width = 4
  ByteWidth = 3
  Exact = 4
  Saved = {"res://a"}
  MaxWrites = 2
  Places <- TwoPlaces
  MaxChanges = 0
  MaxLinks = 2
  MaxToolCalls = 1
INVARIANT DeclaredIsRespected
CHECK_DEADLOCK FALSE
