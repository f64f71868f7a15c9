CONSTANTS
  LastDay = 0
  Buckets = 4
  ChunkBuckets = 1
  CheckpointEvery = 2
  Analyst = {a1}
  Initial = a1
  MaxForks = 1
  MaxResets = 0
  MaxSeeks = 0
  MaxTracks = 0
  MaxDetails = 2
  MaxActions = 3
  MaxInFlight = 3
  None = None
  Entry <- EntryPoint
  Machines = {"worker"}
SPECIFICATION StoreSpec
INVARIANTS DetailsCurrent
CHECK_DEADLOCK FALSE
