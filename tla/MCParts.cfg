SPECIFICATION Spec
CONSTANTS
  a = a
  Global = Global
  LogConn = {a}
  LogCap = 3
  Kinds <- TabKinds
  Heights = {1, 2}
  MaxLogged = 4
  CompareConn = {1}
  Engine = {"boringtun", "neptun"}
  HistoryCap = 2
  ProgressCap = 1
  MaxRuns = 3
  Ip = {"1.1.1.1"}
  Base64 = {"k"}
  U16 = {"0", "1420"}
  U32 = {"0", "1420", "70000"}
  CleanStem = {"mia"}
  StemLength <- Stems
  MaxNameLen = 64
  Pieces <- TextPieces
  MaxPieces = 5
  RowConn = {1, 2, 3}
  MaxPast = 2
  Counts = {0, 1, 2, 9, 10, 11, 100, 101}
  NameLengths = {1, 5, 20, 64}
  Columns = {79, 80, 81, 86, 120, 700}
  Chars = {"x", "y"}
  MaxText = 2
  MaxToasts = 2
  ToastTicks = 2
  MaxPushed = 3
  TomlLines = {"k", "l"}
  MaxLines = 3
  DiffHeights = {4, 9}
  Configs <- Forms
  InterfaceFields = 3
  FormPeers = 2
  Tunnel = {1}
  Ages <- HandshakeAges
  Losses = {10, 11}
  MaxReadings = 3
  MaxArrived = 2
  PollTasks = {1, 2}
INVARIANTS TabsConsistent HistoryKept FileFaithful ScreenFaithful ActsOnHighlighted BarFits RowsFollow
PROPERTY LogViewSteady
