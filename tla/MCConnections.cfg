SPECIFICATION AllSpec
CONSTANTS
  c1 = c1
  c2 = c2
  c3 = c3
  a1 = a1
  a2 = a2
  k1 = k1
  k2 = k2
  k3 = k3
  None = None
  Callers = {c1, c2, c3}
  Adapters = {a1, a2}
  Home <- MCHome
  Values = {v}
  MaxOps = 3
  MaxCuts = 1
CHECK_DEADLOCK FALSE
INVARIANTS
  Truthful
  NodeSafe
  ClusterSafe
  RouterSafe
PROPERTIES
  RevisionsUnique
  AnswerFinal
