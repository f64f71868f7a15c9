SPECIFICATION MeasuresSpec
CONSTANTS
  Replicas = 2
  Requests = 2
  Tracked = {1}
  BucketMs = 2
  HistMs = 4
  Minute = 4
  DayEnd = 12
  ShiftStart = 4
  ShiftEnd = 6
  FirstKnot = 4
  Margin = 1
  Scale = 12
  Attempt <- FirstAndRetry
  Profiles <- EightProfiles
  NoValue = NoValue
  Machines = {"metrics", "charts", "bench"}
  Interrupts = {"step", "benching"}
INVARIANTS
  MetricsExact
  WindowTrue
  BenchTrue
PROPERTIES ZoomFaithful
CHECK_DEADLOCK FALSE
