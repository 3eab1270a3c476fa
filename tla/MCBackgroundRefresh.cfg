SPECIFICATION FairSpec
CONSTANTS
  k1 = k1
  k2 = k2
  w1 = w1
  w2 = w2
  s1 = s1
  s2 = s2
  None = None
  Keys = {k1, k2}
  Workers = {w1, w2}
  Stoppers = {s1, s2}
  ChanCap = 2
  Refreshable = {k1, k2}
INVARIANTS
  TypeOK
  StoppedMeansQuiet
PROPERTY
  StopReturns
