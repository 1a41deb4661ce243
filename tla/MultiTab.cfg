SPECIFICATION FairSpec
CONSTANTS
  tabA = tabA
  tabB = tabB
  Tabs = {tabA, tabB}
  NoLease = NoLease
  Throttled = {tabB}
  Visible = {tabA}
  MaxBatches = 2
  MaxOps = 1
  MaxEvents = 1
INVARIANTS
  NoWriteLost
  EngineFollowsLease
  PromisesHeard
PROPERTIES
  LeaseNotStolen
  EventuallyOnePrimary
CHECK_DEADLOCK FALSE
