SPECIFICATION ViewerSpec
CONSTANTS
  Infinity = 99
  SnapshotEvery = 2
  WeekDays = 2
  DayEnd = 6
  BucketMs = 2
  HistMs = 2
  Requests = 2
  Analysts = {1, 2}
  AnalystOf <- TwoAnalysts
  Timelines <- TwoDays
  ChunkEnds = {2, 6}
  Windows <- TwoWindows
  MaxDetails = 1
  ForkPoints <- TwoForks
  WireBound = 2
  Charts <- SixCharts
  Scopes = {"all", "tracked"}
  Bounds <- UserBounds
  NoValue = NoValue
  p1 = p1
  p2 = p2
INVARIANTS
  IndexCurrent
  ChartsExact
  PictureTrue
  InputsTrue
PROPERTIES DragTakes
CHECK_DEADLOCK FALSE
