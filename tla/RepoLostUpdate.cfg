SPECIFICATION Spec
CONSTANTS
  x = x
  y = y
  t1 = t1
  t2 = t2
  Leaves = {x, y}
  Paths <- ParentAndChild
  Txns = {t1, t2}
  Conditional = {}
  MaxRetries = 2
  MaxSets = 0
  MaxChanges = 1
  MaxEvents = 0
PROPERTIES
  NoLostUpdate
CHECK_DEADLOCK FALSE
