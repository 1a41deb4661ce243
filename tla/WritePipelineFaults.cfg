SPECIFICATION FairSpec
CONSTANTS
  NumUsers = 1
  MaxPending = 2
  Faults = {}
  MaxBatches = 3
  MaxBreaks = 1
  MaxToggles = 1
  MaxTokens = 0
  MaxIdbFailures = 2
  MaxRestarts = 0
  MaxWaits = 0
INVARIANTS
  StreamFollowsPipeline
  OneStreamOneRecovery
  PipelineMirrorsQueue
  IdleOnlyWhenDrained
  ResultsCorrelate
  MutationRowsBacked
  QueueNeverFails
PROPERTIES
  DeliversReliably
  WritesAreDecided
CHECK_DEADLOCK FALSE
