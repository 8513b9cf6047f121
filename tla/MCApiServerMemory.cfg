SPECIFICATION Spec
CONSTANTS
  Environments <- MCEnvironments
  JobIds <- MCJobIds
  provisionJobId <- MCProvisionJobId
  destroyJobId <- MCDestroyJobId
  SeedStatus <- MCSeedStatus
  NoJob = NoJob
  RetryBound = 1
  Connections = {c1}
  Backend = "memory"
  auditRetentionEvents = 3
  RequestBound = 5
  FaultBound = 0
INVARIANTS
  ReadyIsEarned
PROPERTIES
  ImplementsControlPlane
CHECK_DEADLOCK FALSE
