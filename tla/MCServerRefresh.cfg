SPECIFICATION Spec
CONSTANTS
  w1 = w1
  s1 = s1
  None = None
  Keys <- CachedKeys
  Workers = {w1}
  Stoppers = {s1}
  ChanCap = 2
  Refreshable <- RefreshableKeys
INVARIANT
  RefreshFetches
