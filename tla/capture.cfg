SPECIFICATION FairSpec
CONSTANTS
  http = http
  watcher = watcher
  Sources = {http}
  Prompts = {"p", "q"}
  Responses = {"r"}
  Secrets = {"q"}
  BatchSize = 2
  Interval = 1
  MaxRows = 3
  MaxRestarts = 1
  MaxFailures = 1
INVARIANTS
  StoredOnce
  DoneMeansGoverned
  BacklogBounded
  NoFreshDuplicates
PROPERTY
  EventuallySettled
