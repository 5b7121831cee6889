SPECIFICATION RecallSpec
CONSTANTS
  a = a
  b = b
  h1 = h1
  h2 = h2
  d1 = d1
  d2 = d2
  none = none
  Hooks = {h1, h2}
  Entries = {a, b}
  Governed = {a}
  Cap = 1
  NoFile = nofile
  Torn = torn
  Daemons = {d1, d2}
  NoPid = none
  Dead = dead
  Foreign = foreign
  Limit = 1
  MaxFaults = 1
INVARIANTS
  ShownWasLive
PROPERTIES
  SeenKept
  SpawnRecovers
