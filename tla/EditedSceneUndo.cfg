SPECIFICATION SceneOnly
CONSTANTS
  f1 = f1
  f2 = f2
  i1 = i1
  i2 = i2
  Installers <- TwoBrokers
  MaxInstalls = 0
  MaxDeaths = 0
  Names = {f1}
  Paths = {f1, f2}
  Locales = {"en", "fr"}
  Events = {"jump"}
  Absent = Absent
  Unknown = Unknown
  MaxSets = 0
  MaxUnsaved = 1
  Files <- TwoFiles
  NoFile = NoFile
  MaxFileCalls = 0
  MaxEngineScans = 1
  ScanDeadline = 2
  MaxChecks = 1
  TailLines = 3
  MaxNoise = 1
  HonestExit = FALSE
  MaxNodes = 2
  Values = {0, 1}
  Unset = 0
  Keys <- NameAndScript
  Wires <- OneWire
  MaxCalls = 3
CHECK_DEADLOCK FALSE
PROPERTY UndoIsExact
