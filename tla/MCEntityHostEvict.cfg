SPECIFICATION Spec
CONSTANTS
  h1 = h1
  h2 = h2
  n1 = n1
  n2 = n2
  a1 = a1
  a2 = a2
  a3 = a3
  a4 = a4
  a5 = a5
  None = None
  Hosts = {h1, h2}
  Nodes = {n1, n2}
  Attempts = {a1, a2, a3, a4}
  NodeOf <- OneNode
  Kind <- EvictKind
  ReqId <- EvictId
  Body <- Plain
  Target <- ToSecond
  Lease = 1
  RequestTimeout = 0
  ReceiptLimit = 1
  Fitting <- AllFit
  RequestLimit = 1
  HasHook = TRUE
  MaxTime = 2
  Events = {}
SYMMETRY HostSymmetry
CHECK_DEADLOCK FALSE
INVARIANTS
  ActivationFresh
