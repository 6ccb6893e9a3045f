CONSTANTS
  a = a
  b = b
  l = l
  c = c
  Targets = {a, b}
  Arch <- OneArch
  Automatic = FALSE
  CanarySize = 1
  FailurePct = 0
  Leaders = {l}
  Creator = c
  MaxWaves = 4
  EventKinds = {"stop", "cancel", "leases", "maintenance"}
  MaxEvents = 1
SPECIFICATION Spec
INVARIANT LaterStageWaits
CHECK_DEADLOCK FALSE
