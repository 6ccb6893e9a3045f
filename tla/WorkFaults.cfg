SPECIFICATION Spec
CONSTANTS
  i1 = i1
  i2 = i2
  h1 = h1
  s1 = s1
  Items = {i1, i2}
  Hosts = {h1}
  Slots = {s1}
  HostOf <- OneHost
  None = None
  Blockers <- NoBlock
  Schedulers = {h1}
  MaxAttempts = 2
  MaxRetries = 1
  LocalTries = 1
  LaneCap = 1
  PullRequest = {"merged", "closed", "mergeable", "failed", "conflict", "semantic"}
  Expires = TRUE
  MaxLeases = 2
  MaxSpawn = 1
  EventKinds = {"stop", "heartbeat lost", "retry", "cancel", "leader stop", "drain", "ready", "age", "agent dispatch", "remedy"}
  MaxEvents = 2
INVARIANTS TypeOK SlotExclusive
PROPERTIES ZombieHarmless FinishedStays StrandedForCause
SYMMETRY ItemSymmetry
CHECK_DEADLOCK FALSE
