SPECIFICATION Spec
CONSTANTS
  n1 = n1
  n2 = n2
  e1 = e1
  e2 = e2
  d1 = d1
  d2 = d2
  w1 = w1
  w2 = w2
  w3 = w3
  w4 = w4
  boot = boot
CHECK_DEADLOCK FALSE
INVARIANTS
  ReplicationSafe
  DeltaSafe
  MigrationSafe
  GatewaySafe
  ClientSafe
  EngineSafe
PROPERTIES
  NothingReverted
  EndedStaysEnded
