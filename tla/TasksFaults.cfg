CONSTANTS
  x = x
  y = y
  p = p
  b = b
  r = r
  v = v
  Tasks = {p, b, r, v}
  Computers = {x, y}
  None = None
  Kind <- MCKind
  Eligible <- MCEligible
  Excludes <- MCExcludes
  Parent <- MCParent
  DependsOn <- MCDependsOn
  Software <- MCSoftware
  Barrier = {}
  Batches = {{p, b, r}, {v}}
  FairShareMax = 1
  STUCK_AFTER = 1
  MAX_HANDOFFS = 1
  MAX_ITERATIONS = 2
  EventKinds = {"stop", "cut", "cancel", "leader stop"}
  MaxEvents = 2
SPECIFICATION FairSpec
INVARIANTS TypeOK RollUpHonest
PROPERTIES ResultOfHolder HandoffForCause RefinesQueue ClaimEnds
CHECK_DEADLOCK FALSE
