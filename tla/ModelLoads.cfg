SPECIFICATION FairSpec
CONSTANTS
  p1 = p1
  l1 = l1
  l2 = l2
  c1 = c1
  c2 = c2
  i1 = i1
  i2 = i2
  i3 = i3
  i4 = i4
  None = None
  Ports = {p1}
  Libs = {l1, l2}
  Calls = {c1, c2}
  Procs = {i1, i2, i3, i4}
  StartupTimeout = 1
  TtlMargin = 2
  Slack = 1
  FaultKinds = {"systemd", "launch", "slow", "statement", "kill", "cancel", "crash"}
  MaxFaults = 1
  MaxEvents = 3
INVARIANTS TypeOK LaunchExclusive
PROPERTIES FenceHolds ActiveUntouched DesiredComesBack
