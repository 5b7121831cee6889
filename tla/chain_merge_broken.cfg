SPECIFICATION Spec
CONSTANTS
  s1 = s1
  s2 = s2
  t1 = t1
  t2 = t2
  c1 = c1
  c2 = c2
  Stores = {s1, s2}
  Threads = {t1, t2}
  StoreOf <- OneCallerPerStore
  Contents = {c1}
  ParentChoices = {"default"}
  MergeClusterMin = 3
  MergeEnabled = TRUE
  MaxOpens = 1
  MaxEntries = 5
INVARIANT AllWritesAccepted
CHECK_DEADLOCK FALSE
