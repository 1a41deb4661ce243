SPECIFICATION Spec
CONSTANTS
  x = x
  y = y
  t1 = t1
  t2 = t2
  Leaves = {x}
  Paths <- OneLocation
  Txns = {t1}
  Conditional = {}
  MaxRetries = 2
  MaxSets = 2
  MaxChanges = 1
  MaxEvents = 0
INVARIANTS
  NoneForgotten
CHECK_DEADLOCK FALSE
