SPECIFICATION FairSpec
CONSTANTS
  i1 = i1
  i2 = i2
  h1 = h1
  s1 = s1
  Items = {i1, i2}
  Hosts = {h1}
  Slots = {s1}
  HostOf <- OneHost
  None = None
  Blockers <- I2AfterI1
  Schedulers = {h1}
  MaxAttempts = 2
  MaxRetries = 1
  LocalTries = 1
  LaneCap = 1
  PullRequest = {"merged", "closed", "rerun"}
  Expires = TRUE
  MaxLeases = 4
  MaxSpawn = 1
  EventKinds = {"stop", "heartbeat lost"}
  MaxEvents = 2
INVARIANTS BusyHasLease
PROPERTIES EveryItemSettles
CHECK_DEADLOCK FALSE
