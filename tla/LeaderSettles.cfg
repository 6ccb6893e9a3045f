CONSTANTS
  n1 = n1
  n2 = n2
  n3 = n3
  None = None
  Nodes = {n1, n2}
  Candidates = {n1, n2}
  Isolated = {}
  Rank <- MCRank
  Skew <- MCNoSkew
  LeaderlessWait <- MCWait
  STALE_THRESHOLD = 1
  MIN_PULSE_SILENT = 1
  Lockstep = TRUE
  MaxEpoch = 5
  MaxFaults = 2
  FaultKinds = {"stop", "publisher", "step-down", "postgres"}
  Commands <- MCAllCommands
SPECIFICATION FairSpec
PROPERTIES DisplacedStandsDown LeadershipSettles
