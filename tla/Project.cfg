SPECIFICATION Spec
CONSTANTS
  f1 = f1
  f2 = f2
  i1 = i1
  i2 = i2
  Installers <- TwoBrokers
  MaxInstalls = 2
  MaxDeaths = 1
  Names = {f1}
  Paths = {f1, f2}
  Locales = {"en", "fr"}
  Events = {"jump"}
  Absent = Absent
  Unknown = Unknown
  MaxSets = 4
  MaxUnsaved = 1
  Files <- TwoFiles
  NoFile = NoFile
  MaxFileCalls = 2
  MaxEngineScans = 1
  ScanDeadline = 2
  MaxChecks = 2
  TailLines = 3
  MaxNoise = 2
  HonestExit = FALSE
  MaxNodes = 4
  Values = {0, 1}
  Unset = 0
  Keys <- NameAndScript
  Wires <- OneWire
  MaxCalls = 3
INVARIANTS
  SaveIsComplete
  AnswersAreKept
  MovedIsKnown
  ChecksAreSound
  InstallsAreWhole
PROPERTIES
  HistoryRestores
  FileCallsEnd
CHECK_DEADLOCK FALSE
