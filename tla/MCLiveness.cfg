SPECIFICATION LivenessSpec
CONSTANTS
  r1 = r1
  s1 = s1
  s2 = s2
  None = None
  NoEvent = NoEvent
  Session = {c1, c2}
  Replica = {r1}
  Slot = {s1, s2}
  MaxTurns = 1
  MaxRetries = 1
  AdmissionLimits = {None}
  Oversized = {c2}
  HasOverhead = FALSE
  MaxCrashes = 1
  MaxPatches = 0
  MayRunLate = FALSE
  NoKey = NoKey
  SystemOwner = SystemOwner
  q1 = q1
  q2 = q2
  sa = sa
  sb = sb
PROPERTIES
  FleetRecovers
  Served
CHECK_DEADLOCK FALSE
