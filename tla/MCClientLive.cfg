SPECIFICATION Spec
CONSTANTS
  None = None
  n1 = n1
  n2 = n2
  e1 = e1
  e2 = e2
  d1 = d1
  d2 = d2
  q1 = q1
  q2 = q2
  q3 = q3
PROPERTIES
  CallsAnswered
  ViewsRecover
  ControlAgrees
CHECK_DEADLOCK FALSE
