SPECIFICATION PathSpec
CONSTANTS
  Journeys = {j1, j2, j3}
  Timed = {j1, j2, j3}
  Contents = {a}
  Required = {a}
  FailOpen = FALSE
  MaxProcessing = 1
  MaxRetries = 1
  MaxConfigs = 1
INVARIANTS WithinProcessingLimit
CHECK_DEADLOCK FALSE
