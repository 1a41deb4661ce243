SPECIFICATION Spec
CONSTANTS
  k1 = k1
  k2 = k2
  q1 = q1
  q2 = q2
  Keys = {k1}
  Queries = {q1}
  Contents = {"in", "out"}
  Matches <- OneQueryMatches
  Absent = Absent
  Unknown = Unknown
  NoUpdate = NoUpdate
  InitialDocs <- AllIn
  MaxLimbo = 1
  FaultyTransactions = {}
  Reenables = TRUE
  MaxVersion = 1
  MaxEvents = 1
INVARIANTS
  QueueNeverFails
CHECK_DEADLOCK FALSE
