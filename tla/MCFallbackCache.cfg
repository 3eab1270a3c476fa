SPECIFICATION Spec
CONSTANTS
  k1 = k1
  k2 = k2
  c1 = c1
  c2 = c2
  None = None
  Keys = {k1}
  Clients = {c1, c2}
  DefaultTTL = 1
  MaxTTL = 1
  FallbackTTL = 1
  TTLs = {0, 1}
  Life = 1
  Lag = 1
  MaxTime = 4
SYMMETRY Symmetry
INVARIANTS
  TypeOK
PROPERTIES
  ServedAge
