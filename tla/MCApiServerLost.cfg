SPECIFICATION Spec
CONSTANTS
  Environments <- MCEnvironments
  JobIds <- MCJobIds
  provisionJobId <- MCProvisionJobId
  destroyJobId <- MCDestroyJobId
  SeedStatus <- MCSeedStatus
  NoJob = NoJob
  RetryBound = 1
  Connections = {c1, c2}
  Backend = "memory"
  auditRetentionEvents = 3
  RequestBound = 3
  FaultBound = 0
PROPERTIES
  StoredDecisionsStand
CHECK_DEADLOCK FALSE
