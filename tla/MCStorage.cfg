SPECIFICATION AllSpec
CONSTANTS
  p1 = p1
  p2 = p2
  v1 = v1
  v2 = v2
  n1 = n1
  n2 = n2
  None = None
  Gone = Gone
  Procs = {p1, p2}
  Values = {v1, v2}
  MaxVersion = 3
  Events = {"error", "crash", "power"}
INVARIANTS
  FilesSafe
  ScheduleSafe
  TimersSafe
PROPERTIES
  ImplementsRegister
