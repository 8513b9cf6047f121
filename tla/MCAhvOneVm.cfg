SPECIFICATION Spec
CONSTANTS
  Connections = {c1}
  NoRun = NoRun
  Pending = Pending
  Provider = "prism-element"
  OtherVms = 0
  RequestBound = 4
  FaultBound = 0
PROPERTIES
  CreateAdmittedWithoutVm
CHECK_DEADLOCK FALSE
