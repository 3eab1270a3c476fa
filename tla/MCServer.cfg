SPECIFICATION FairSpec
CONSTANTS
  r1 = r1
  k1 = k1
  w1 = w1
  None = None
  Requests = {r1}
  Keys = {k1}
  Workers = {w1}
  ChanCap = 1
  Refreshable = {k1}
  EnableFallback = TRUE
CHECK_DEADLOCK FALSE
INVARIANTS
  TypeOK
  Graceful
  
PROPERTIES
  ProcessEnds
  RequestsEnd
