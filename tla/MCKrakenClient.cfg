SPECIFICATION FairSpec
CONSTANTS
  BaseDelay = 2
  MaxDelay = 4
  MaxAttempts = 4
  Multiplier = 2
  JitterPercent = 50
  HTTPTimeout = 2
  Statuses = {200, 404, 429, 500, 599}
INVARIANTS
  TypeOK
  CallBounded
  RequestRate
PROPERTIES
  RetriesExactly
  EveryCallReturns
