SPECIFICATION MeasuresSpec
CONSTANTS
  Replicas = 2
  Requests = 2
  Tracked = {1}
  BucketMs = 2
  HistMs = 4
  DayEnd = 12
  ShiftStart = 4
  ShiftEnd = 6
  FirstKnot = 4
  Margin = 1
  Minute = 4
  Scale = 12
  Attempt <- FirstAndRetry
  Profiles <- EightProfiles
  NoValue = NoValue
  Machines = {"bench"}
  Interrupts = {"step", "launched", "benching", "stopping"}
INVARIANT StoppedAtEnd
CHECK_DEADLOCK FALSE
