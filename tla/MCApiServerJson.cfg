SPECIFICATION FairSpec
CONSTANTS
  Environments <- MCEnvironments
  JobIds <- MCJobIds
  provisionJobId <- MCProvisionJobId
  destroyJobId <- MCDestroyJobId
  SeedStatus <- MCSeedStatus
  NoJob = NoJob
  RetryBound = 1
  Connections = {c1, c2}
  Backend = "json"
  auditRetentionEvents = 3
  RequestBound = 3
  FaultBound = 2
INVARIANTS
  TypeOK
  PortalsAreSound
  TeardownsAreTracked
  AuditExplainsPortal
  QuietFileIsReadable
PROPERTIES
  TornFileNeedsAnOperator
  EveryRequestIsAnswered
  OnlyStaleSavesLoseUpdates
CHECK_DEADLOCK FALSE
