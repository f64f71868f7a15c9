CONSTANTS
  LastDay = 1
  Buckets = 3
  ChunkBuckets = 2
  CheckpointEvery = 2
  Analyst = {a1, a2}
  Initial = a1
  MaxForks = 2
  MaxResets = 1
  MaxSeeks = 1
  MaxTracks = 1
  MaxDetails = 1
  MaxActions = 2
  MaxInFlight = 2
  None = None
  Entry <- EntryPoint
  Machines = {"worker", "fake"}
SPECIFICATION StoreSpec
INVARIANTS StoreTrue NothingLost WindowsTrue FakeHonest
CHECK_DEADLOCK FALSE
