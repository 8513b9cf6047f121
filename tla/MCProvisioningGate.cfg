SPECIFICATION MCSpec
CONSTANTS
  dev = dev
  qa = qa
  none = none
  Names <- MCNames
  LabNames <- MCLabNames
  None <- none
  Imports <- MCImports
  Switches <- MCSwitches
  PlanBound = 2
  TimeBound = 1
  RequestBound = 3
INVARIANTS
  TypeOK
  RejectionStops
  NoDeadEnd
PROPERTY ImplementsCreateAuthorization
