SPECIFICATION FairSpec
CONSTANTS
  w1 = w1
  w2 = w2
  t1 = t1
  t2 = t2
  Tasks = {t1, t2}
  Workers = {w1, w2}
  None = None
  Trigger <- FanOut
  Target <- OnFirst
  At <- AtOne
  PreferredNode <- HomeW1
  MaxAttempts <- Two
  Delays <- Staggers
  Permits <- OneSlot
  Capped = {t1, t2}
  Cap <- AtOne
  StealAfter = 1
  StaleAfter = 1
  SweepAfter = 1
  SweepDelay = 1
  MaxPower = 2
  BackoffOf <- Backoff
  Crashable = {w1}
  MaxClaims = 9
  CommandKinds = {"stop", "statement lost", "cancel", "retry", "promote", "purge", "retention"}
  MaxCommands = 3
PROPERTIES EveryTaskSettles
