SPECIFICATION Spec
CONSTANTS
  s1 = s1
  s2 = s2
  t1 = t1
  t2 = t2
  c1 = c1
  c2 = c2
  Stores = {s1}
  Threads = {t1, t2}
  StoreOf <- TwoCallersOfOneStore
  Contents = {c1}
  ParentChoices = {"default", "given"}
  MergeClusterMin = 2
  MergeEnabled = TRUE
  MaxOpens = 2
  MaxEntries = 3
INVARIANTS
  TailCommitted
PROPERTY
  ImplementsLog
CHECK_DEADLOCK FALSE
