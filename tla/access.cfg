SPECIFICATION AccessSpec
CONSTANTS
  a1 = a1
  a2 = a2
  n1 = n1
  server = server
  other = other
  none = none
  Agents = {a1, a2}
  Names = {n1}
  ServerSession = server
  OtherSession = other
  NoRow = none
  MaxEntries = 2
  Keys <- AgentKeys
  Capacity <- Capacities
  Rate <- Rates
  Unit = 2
  Ttl = 2
  EvictEvery = 2
  MaxTime = 3
INVARIANTS
  RetryAfterHonest
  RevocationTakesEffect
  WithinBudget
PROPERTY
  ImplementsTokenBuckets
