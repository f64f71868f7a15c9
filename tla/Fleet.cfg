SPECIFICATION Spec
CONSTANTS
  c1 = c1
  c2 = c2
  r1 = r1
  r2 = r2
  s1 = s1
  s2 = s2
  None = None
  NoEvent = NoEvent
  Session = {c1, c2}
  Replica = {r1, r2}
  Slot = {s1, s2}
  MaxTurns = 1
  MaxRetries = 1
  AdmissionLimits = {None, 1}
  Oversized = {}
  HasOverhead = TRUE
  MaxCrashes = 1
  MaxPatches = 1
  MayRunLate = TRUE
SYMMETRY Symmetry
CHECK_DEADLOCK FALSE
INVARIANTS
  TypeOK
  HeldOnce
  EventsExact
  RouterTrue
  ReplicasTrue
  TimeoutBeforeToken
  AssertsHold
PROPERTIES StepsLegal
