SPECIFICATION Spec
CONSTANTS
  h1 = h1
  h2 = h2
  n1 = n1
  n2 = n2
  a1 = a1
  a2 = a2
  a3 = a3
  a4 = a4
  a5 = a5
  None = None
  Hosts = {h1, h2}
  Nodes = {n1, n2}
  Attempts = {a1, a2, a3, a4}
  NodeOf <- OneNode
  Kind <- RetryKind
  ReqId <- RetryId
  Body <- RetryBody
  Target <- ToSecond
  Lease = 1
  RequestTimeout = 0
  ReceiptLimit = 2
  Fitting <- RetryFitting
  RequestLimit = 2
  HasHook = TRUE
  MaxTime = 1
  Events = {"crash", "error"}
SYMMETRY RetrySymmetry
CHECK_DEADLOCK FALSE
INVARIANTS
  AtMostOnce
  TruthfulAnswers
  NoEarlyTakeover
PROPERTIES
  OwnershipFenced
