SPECIFICATION AllSpec
CONSTANTS
  None = None
  c1 = c1
  c2 = c2
  k1 = k1
  k2 = k2
  v1 = v1
  v2 = v2
  Catalogs = {c1, c2}
  Keys = {k1, k2}
  Creations = {v1, v2}
  MaxId = 3
  BlockSize = 2
  MaxAttempts = 2
  MaxCalls = 2
  Events = {"error", "crash"}
  e1 = e1
  e2 = e2
  j1 = j1
  j2 = j2
  w1 = w1
  w2 = w2
  n1 = n1
  n2 = n2
  n3 = n3
CHECK_DEADLOCK FALSE
INVARIANTS
  CatalogSafe
  DeliverySafe
  TransferSafe
PROPERTIES
  NeverResurrected
  CommittedIsKept
