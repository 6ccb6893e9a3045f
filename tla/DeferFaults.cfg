SPECIFICATION Spec
CONSTANTS
  w1 = w1
  w2 = w2
  t1 = t1
  t2 = t2
  Tasks = {t1, t2}
  Workers = {w1, w2}
  None = None
  Trigger <- FanOut
  Target <- OnFirst
  At <- AtOne
  PreferredNode <- HomeW1
  MaxAttempts <- Two
  Delays <- Staggers
  Permits <- OneSlot
  Capped = {t1}
  Cap <- OneThenTwo
  StealAfter = 1
  StaleAfter = 1
  SweepAfter = 2
  SweepDelay = 1
  MaxPower = 2
  BackoffOf <- Backoff
  Crashable = {w1, w2}
  MaxClaims = 2
  CommandKinds = {"stop", "statement lost", "force-cancel", "retry", "promote"}
  MaxCommands = 2
INVARIANTS TypeOK FailedMeansExhausted
PROPERTIES StealWaits HoldHonoured TakenBackForCause
