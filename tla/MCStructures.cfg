SPECIFICATION StructuresSpec
CONSTANTS
  Replicas = 3
  Ring <- ThreeRing
  Hash <- Hashes
  HashSpan = 6
  Params <- Settings
  KvFull = 1
  Loads <- TwoLoads
  sa = sa
  sb = sb
  h1 = h1
  h2 = h2
  None = None
  NoKey = NoKey
  SystemOwner = SystemOwner
  Holder = {h1, h2}
  Session = {sa, sb}
  MaxTokens = 5
  TotalBlocks = 4
  BlockSize = 2
  SystemTokens = 3
  Span = 6
  MaxEvents = 5
  CompactMin = 1
INVARIANTS
  PoolConsistent
  RoutingSound
PROPERTIES
  QueueImplements
  AffinityMoves
