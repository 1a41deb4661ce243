SPECIFICATION Spec
CONSTANTS
  NumUsers = 2
  MaxPending = 1
  Faults = {}
  MaxBatches = 2
  MaxBreaks = 0
  MaxToggles = 0
  MaxTokens = 2
  MaxIdbFailures = 0
  MaxRestarts = 1
  MaxWaits = 1
INVARIANTS
  TypeOK
  PromisesBacked
  EngineFollowsAuth
  SentAsAuthor
PROPERTIES
  WaitersHeardInTime
  DeliversReliably
CHECK_DEADLOCK FALSE
