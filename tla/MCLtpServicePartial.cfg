SPECIFICATION Spec
CONSTANTS
  r1 = r1
  r2 = r2
  None = None
  Requests = {r1}
  UserPairs <- TwoSymbols
  CacheSize = 1
  TTL = 1
  HTTPTimeout = 1
  FetchLimit = 1
  Lag = 0
  MaxTime = 4
PROPERTY
  PartialSuccess
