CONSTANTS
  sa = sa
  sb = sb
  None = None
  Off = Off
  NoKey = NoKey
  SystemOwner = SystemOwner
  DayEnd = 6
  BucketMs = 2
  FirstPeriod = 3
  Patch <- NoPatches
  MaxPatches = 0
  HookSchedules = TRUE
SPECIFICATION DaysSpec
INVARIANTS CheckpointExact
CHECK_DEADLOCK FALSE
