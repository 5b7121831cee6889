SPECIFICATION FairDrainSpec
CONSTANTS
  e1 = e1
  w1 = w1
  w2 = w2
  Engines = {e1}
  Workers = {w1, w2}
  EngineOf <- OnePool
  LinksFollow = TRUE
  MaxTasks = 2
  MaxMishaps = 2
  MaxResets = 0
  WindowBounded = TRUE
INVARIANTS
  DrainComplete
PROPERTY
  DrainReturns
CHECK_DEADLOCK FALSE
