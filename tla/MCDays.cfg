SPECIFICATION DaysSpec
CONSTANTS
  sa = sa
  sb = sb
  None = None
  Off = Off
  NoKey = NoKey
  SystemOwner = SystemOwner
  DayEnd = 6
  BucketMs = 2
  FirstPeriod = 3
  Patch <- Patches
  MaxPatches = 2
  HookSchedules = FALSE
INVARIANTS
  CheckpointExact
  DayExact
  SpikeExact
  PlanHolds
PROPERTIES
  Whole
  StreamExact
CHECK_DEADLOCK FALSE
