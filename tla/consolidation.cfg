SPECIFICATION ConsolidationSpec
CONSTANTS
  e1 = e1
  e2 = e2
  e3 = e3
  s1 = s1
  x1 = x1
  k1 = k1
  k2 = k2
  k3 = k3
  w1 = w1
  c1 = c1
  c2 = c2
  none = none
  Entries = {e1, e2, e3}
  Linked <- AlreadyLinked
  Ents = {x1}
  Folded <- Names
  Workers = {w1}
  OneCall = {}
  MaxSaid = 1
  MaxRels = 0
  MaxRequeues = 0
  NoJob = none
  Consolidators = {c1, c2}
  Chains = {k1, k2, k3}
  OwnerOf <- Owners
  Finished = {k1, k2}
  ItemLimit = 1
  MaxItems = 2
  WithModel = {c1, c2}
  Classifier <- Verdicts
  Summaries = {s1}
  Born <- Ages
  InChain = {}
  Natural <- NaturalPairs
  PerEntity = 1
  InTotal = 1
  DecayLimit = 1
  MinCluster = 2
  Top = 3
  MaxRuns = 1
INVARIANTS
  Quorum
  NewestStands
PROPERTIES
  QuietFalls
  QuietSynthesis
CHECK_DEADLOCK FALSE
