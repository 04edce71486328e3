SPECIFICATION AllSpec
CONSTANTS
  None = None
  Gone = Gone
  j1 = j1
  j2 = j2
  j3 = j3
  h1 = h1
  h2 = h2
  n1 = n1
  n2 = n2
  e1 = e1
  e2 = e2
  loop = loop
  Jobs = {j1, j2, j3}
  Bytes <- Sizes
  JobLimit = 2
  ByteLimit = 3
  Budget = 2
INVARIANTS
  AdmissionOrder
  ExecutorSafe
PROPERTIES
  ExecutorFinishes
  RequestsAnswered
  CommittedWorkIsDone
