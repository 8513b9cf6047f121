SPECIFICATION Spec
CONSTANTS
  Environments <- MCEnvironments
  JobIds <- MCJobIds
  provisionJobId <- MCProvisionJobId
  destroyJobId <- MCDestroyJobId
  SeedStatus <- MCSeedStatus
  NoJob = NoJob
  RetryBound = 1
INVARIANTS
  UndecidedRequestsArePaused
