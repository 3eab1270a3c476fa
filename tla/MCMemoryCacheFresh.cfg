SPECIFICATION Spec
CONSTANTS
  k1 = k1
  k2 = k2
  k3 = k3
  k4 = k4
  c1 = c1
  c2 = c2
  v1 = v1
  None = None
  Keys = {k1, k2}
  Values = {v1}
  Clients = {c1, c2}
  Addrs = {1, 2, 3, 4, 5}
  DefaultTTL = 1
  MaxTTL = 1
  MaxSize = 2
  TTLs = {1}
  MaxBatch = 1
  MaxKept = 1
  EvictShare = 2
  MaxTime = 2
PROPERTY
  FreshSurvivesGet
