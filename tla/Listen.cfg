SPECIFICATION Spec
CONSTANTS
  k1 = k1
  k2 = k2
  q1 = q1
  q2 = q2
  Keys = {k1, k2}
  Queries = {q1}
  Contents = {"in", "out"}
  Matches <- OneQueryMatches
  Absent = Absent
  Unknown = Unknown
  NoUpdate = NoUpdate
  InitialDocs <- AllIn
  MaxLimbo = 1
  FaultyTransactions = {"Release target", "Get last remote snapshot version"}
  Reenables = FALSE
  MaxVersion = 2
  MaxEvents = 2
INVARIANTS
  SyncedViewIsServerResult
  LimboTablesAgree
  PendingResponsesMatch
  OfflineViewsAreFromCache
CHECK_DEADLOCK FALSE
