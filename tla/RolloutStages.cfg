CONSTANTS
  a = a
  b = b
  l = l
  c = c
  Targets = {a, b, l}
  Arch <- OneArch
  Automatic = TRUE
  CanarySize = 1
  FailurePct = 0
  Leaders = {l}
  Creator = c
  MaxWaves = 4
  EventKinds = {"stop", "cancel", "leases", "maintenance"}
  MaxEvents = 1
SPECIFICATION FairSpec
INVARIANTS TypeOK CanaryGates CompletedCovers
 
CHECK_DEADLOCK FALSE
