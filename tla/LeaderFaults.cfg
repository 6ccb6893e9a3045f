CONSTANTS
  n1 = n1
  n2 = n2
  n3 = n3
  None = None
  Nodes = {n1, n2}
  Candidates = {n1, n2}
  Isolated = {}
  Rank <- MCRank
  Skew <- MCFastClock
  LeaderlessWait <- MCWait
  STALE_THRESHOLD = 0
  MIN_PULSE_SILENT = 1
  Lockstep = FALSE
  MaxEpoch = 2
  MaxFaults = 2
  FaultKinds = {"stop", "postgres", "pulse read", "step-down"}
  Commands <- MCHandovers
SPECIFICATION Spec
INVARIANTS TypeOK CachedLeaderKnowsEpoch
PROPERTIES DisplacedForCause YieldHasSuccessor
