SPECIFICATION Spec
CONSTANTS
  NumUsers = 1
  MaxPending = 1
  Faults = {"reenable"}
  MaxBatches = 1
  MaxBreaks = 0
  MaxToggles = 1
  MaxTokens = 0
  MaxIdbFailures = 0
  MaxRestarts = 0
  MaxWaits = 0
INVARIANTS
  QueueNeverFails
CHECK_DEADLOCK FALSE
