SPECIFICATION Spec
CONSTANTS
  NumUsers = 2
  MaxPending = 1
  Faults = {}
  MaxBatches = 1
  MaxBreaks = 0
  MaxToggles = 0
  MaxTokens = 1
  MaxIdbFailures = 1
  MaxRestarts = 0
  MaxWaits = 0
INVARIANTS
  EngineFollowsAuth
CHECK_DEADLOCK FALSE
