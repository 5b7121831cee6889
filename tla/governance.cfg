SPECIFICATION Spec
CONSTANTS
  o1 = o1
  o2 = o2
  k1 = k1
  d1 = d1
  MaxEntries = 3
  Operators = {o1, o2}
  Captures = {k1}
  Consolidators = {d1}
  MaxPinned = 1
  MaxCrashes = 1
SYMMETRY OperatorSymmetry
INVARIANTS
  PinnedTrusted
  CapOvershoot
  QuietCoreTier
PROPERTIES
  DecisionsKept
