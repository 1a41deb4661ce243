SPECIFICATION FairSpec
CONSTANTS
  k1 = k1
  k2 = k2
  q1 = q1
  q2 = q2
  Keys = {k1}
  Queries = {q1, q2}
  Contents = {"in", "out"}
  Matches <- MCMatches
  Absent = Absent
  Unknown = Unknown
  NoUpdate = NoUpdate
  InitialDocs <- AllOut
  MaxLimbo = 1
  FaultyTransactions = {"Apply remote event", "Release target", "Get last remote snapshot version"}
  Reenables = FALSE
  MaxVersion = 2
  MaxEvents = 1
INVARIANTS
  LimboTablesAgree
  OnlineStateFollowsStream
  IdleOnlyWhenUnlistened
  PreviousResultsComplete
PROPERTIES
  EventuallySynced
CHECK_DEADLOCK FALSE
