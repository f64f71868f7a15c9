SPECIFICATION PlaysSpec
CONSTANTS
  WeekDays = 2
  DayLen = 6
  ShiftStart = 1
  ShiftEnd = 5
  HistLen = 2
  WindowLen = 2
  Speeds = {1, 3}
  DotsMax = 1
  MaxWall = 1
  LookWall = 1
  LookMin = 2
  Interval = 1
  SeekPoints = {3, 11}
  Entry = 2
  ChunkLen = 2
  Budgets <- SmallBudgets
  NoValue = NoValue
  a1 = a1
INVARIANT NothingMissed
PROPERTIES
  ReachesTheEnd
  PlaysComputed
CHECK_DEADLOCK FALSE
