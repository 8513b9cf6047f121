SPECIFICATION Spec
CONSTANTS
  Connections = {c1, c2}
  NoRun = NoRun
  Pending = Pending
  Provider = "prism-element"
  OtherVms = 0
  RequestBound = 3
  FaultBound = 0
INVARIANTS
  TasksAreRecorded
CHECK_DEADLOCK FALSE
