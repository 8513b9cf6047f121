SPECIFICATION MCSpec
CONSTANTS
  c1 = c1
  c2 = c2
  idle = idle
  Clients <- MCClients
  Rows <- MCRows
  OfflineRows <- MCOfflineRows
  Advancing <- MCAdvancing
  Advanced <- AdvancedWorkflow
  OfflineAdvanced <- MockAdvancedWorkflow
  Steps <- WorkflowSteps
  Facts <- MCFacts
  Desks <- MCDesks
  Idle <- idle
INVARIANTS
  TypeOK
  PassedStandsOnPassed
  OneQueuedRecordPerKey
  PilotLinksAgree
  NoDeadEnd
  
CHECK_DEADLOCK FALSE
