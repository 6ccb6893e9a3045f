CONSTANTS
  a = a
  b = b
  c = c
  Steps = {a, b, c}
  AllowFailure = {a}
  Retries <- MCRetries
  MayPanic = {c}
  Shell = {a}
  max_parallelism = 2
  DONE_CAP = 1
  EVENT_CAP = 8
SPECIFICATION FairSpec
INVARIANTS TypeOK BuiltGraphRuns NothingLeftRunning SuccessIsTotal
PROPERTIES RefinesQueue ExecuteReturns
CHECK_DEADLOCK FALSE
