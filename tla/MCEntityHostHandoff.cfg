SPECIFICATION Spec
CONSTANTS
  h1 = h1
  h2 = h2
  n1 = n1
  n2 = n2
  a1 = a1
  a2 = a2
  a3 = a3
  a4 = a4
  a5 = a5
  None = None
  Hosts = {h1, h2}
  Nodes = {n1, n2}
  Attempts = {a1, a2, a3, a4, a5}
  NodeOf <- TwoNodes
  Kind <- HandoffKind
  ReqId <- NoIds
  Body <- Plain
  Target <- ToSecond
  Lease = 1
  RequestTimeout = 0
  ReceiptLimit = 1
  Fitting <- AllFit
  RequestLimit = 2
  HasHook = TRUE
  MaxTime = 1
  Events = {"crash"}
CHECK_DEADLOCK FALSE
INVARIANTS
  HandoffSafe
  ActivationFresh
PROPERTIES
  ImplementsLedger
