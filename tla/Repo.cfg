SPECIFICATION FairSpec
CONSTANTS
  x = x
  y = y
  t1 = t1
  t2 = t2
  Leaves = {x, y}
  Paths <- ParentAndChild
  Txns = {t1, t2}
  Conditional = {t2}
  MaxRetries = 2
  MaxSets = 1
  MaxChanges = 1
  MaxEvents = 2
INVARIANTS
  OutcomesAreTrue
  PutsAwaitAnswers
  NeverStuck
  NoneForgotten
PROPERTIES
  NoLostUpdateAtOneLocation
  EventuallySettled
CHECK_DEADLOCK FALSE
