SPECIFICATION FairSpec
CONSTANTS
  e1 = e1
  e2 = e2
  w1 = w1
  w2 = w2
  Engines = {e1}
  Workers = {w1, w2}
  EngineOf <- OneProcess
  LinksFollow = TRUE
  MaxTasks = 3
  MaxMishaps = 2
  MaxResets = 1
INVARIANTS
  ExclusiveClaim
PROPERTIES
  ImplementsClaimQueue
  EventuallyFinished
  EventuallyTaken
CHECK_DEADLOCK FALSE
