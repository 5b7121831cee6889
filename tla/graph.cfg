SPECIFICATION GraphSpec
CONSTANTS
  e1 = e1
  e2 = e2
  x1 = x1
  x2 = x2
  x3 = x3
  w1 = w1
  w2 = w2
  none = none
  Entries = {e1, e2}
  Linked <- Opened
  Ents = {x1, x2, x3}
  Folded <- Names
  Workers = {w1, w2}
  OneCall = {w1}
  MaxSaid = 2
  MaxRels = 2
  MaxRequeues = 1
  NoJob = none
INVARIANTS
  CountCoversMentions
  TraversalExact
CHECK_DEADLOCK FALSE
