SPECIFICATION ReplicaSpec
CONSTANTS
  r1 = r1
  r2 = r2
  r3 = r3
  sa = sa
  sb = sb
  None = None
  NoKey = NoKey
  SystemOwner = SystemOwner
  TotalBlocks = 5
  BlockSize = 2
  SystemTokens = 2
  Req = {r1, r2, r3}
  Workloads <- SchedulerWorkloads
  MaxBatchedTokens = 3
  MaxSeqs = 2
  MaxModelLen = 7
  Jumping = TRUE
SYMMETRY Symmetry
INVARIANTS
  SchedulerExact
  CostExact
PROPERTIES
  SchedulerImplementsOracle
  IndexImplementsMap
