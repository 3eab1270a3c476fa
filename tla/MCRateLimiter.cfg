SPECIFICATION FairSpec
CONSTANTS
  i1 = i1
  r1 = r1
  r2 = r2
  NoEntry = NoEntry
  IPs = {i1}
  Requests = {r1, r2}
  PerIPCapacity = 2
  PerIPRefillRate = 4
  GlobalCapacity = 2
  GlobalRefillRate = 2
  IPCleanupInterval = 3
  IPIdleTimeout = 2
  Second = 2
  MaxHold = 1
  MaxTime = 3
INVARIANTS
  TypeOK
  MutexHeld
  GlobalWindowBound
  PerIPWindowBound
  NoQuotaLeak
  RefusedOnlyWhenSpent
PROPERTIES
  AllowAnswers
  CleanupStops
