SPECIFICATION Spec
CONSTANTS
  Connections = {c1, c2}
  NoRun = NoRun
  Pending = Pending
  Provider = "prism-element"
  OtherVms = 0
  RequestBound = 4
  FaultBound = 1
SYMMETRY Swap
INVARIANTS
  TypeOK
  DestroyedIsGone
  DestroyedIsUnlistedIfItFits
  OutcomesAreTrue
  UndisturbedTasksAreRecorded
  SecondVmFollowsFailure
PROPERTIES
  DestroyedIsFinal
CHECK_DEADLOCK FALSE
