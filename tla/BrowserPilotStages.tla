------------------------- MODULE BrowserPilotStages -------------------------
(***************************************************************************)
(* The pilot stages in the browser's offline mode (App.tsx).  Every link is  *)
(* the newest record on the screen, a missing one makes the record Blocked   *)
(* instead of refusing it, and every input is filled in.                     *)
(***************************************************************************)
EXTENDS PilotStages

MockReadOnlyPrismLabGate ==
  Row("readOnlyPrismLabGates", "Ready for fixture contract validation", <<>>)

MockReadOnlyLabConnectionProfile == Row("readOnlyLabConnectionProfiles", "Approved", <<>>)

MockPrismFixtureReplay == Row("prismFixtureReplayRecords", "Passed", <<>>)

MockReadOnlyAdapterAuthorizationGate ==
  Row("readOnlyAdapterAuthorizationGates", "Ready for future live read-only review",
      "profile" :> Latest("readOnlyLabConnectionProfiles", {"Approved"}) @@
      "replay" :> Latest("prismFixtureReplayRecords", {"Passed"}) @@
      "labGate" :> Latest("readOnlyPrismLabGates",
                          {"Ready for fixture contract validation"}))

MockOperatorEvidenceExportPack == Row("operatorEvidenceExportPacks", "Prepared", <<>>)

(* The three records need only be there. *)
MockLabPilotRunbookWorkflow ==
  Row("labPilotRunbookWorkflows", "In review",
      "profile" :> Latest("readOnlyLabConnectionProfiles", {}) @@
      "authorization" :> Latest("readOnlyAdapterAuthorizationGates", {}) @@
      "evidence" :> Latest("operatorEvidenceExportPacks", {}))

(* Closing closes; any other step leaves the status; no status refuses. *)
MockAdvancedWorkflow(status, step) == IF step = "close" THEN "Closed" ELSE status

(* The one mode the click asks for. *)
MockReadOnlyAdapterRuntimeModeRecord ==
  RuntimeMode("authorizedMode", AuthorizedMode,
              "authorization" :> Latest("readOnlyAdapterAuthorizationGates",
                                        {"Ready for future live read-only review"}) @@
              "workflow" :> Latest("labPilotRunbookWorkflows", {"Closed"}) @@
              "evidence" :> Latest("operatorEvidenceExportPacks", {"Prepared"}))

MockLiveReadOnlyInventoryPilot ==
  Row("liveReadOnlyInventoryPilots", "Completed",
      "runtimeMode" :> Latest("readOnlyAdapterRuntimeModeRecords", {AuthorizedMode}) @@
      "authorization" :> Latest("readOnlyAdapterAuthorizationGates",
                                {"Ready for future live read-only review"}) @@
      "workflow" :> Latest("labPilotRunbookWorkflows", {"Closed"}) @@
      "replay" :> Latest("prismFixtureReplayRecords", {"Passed"}))

MockReadOnlyAdapterObservability ==
  Row("readOnlyAdapterObservabilityRecords", "Prepared",
      "runtimeMode" :> Optional("readOnlyAdapterRuntimeModeRecords") @@
      "inventoryPilot" :> Optional("liveReadOnlyInventoryPilots"))

MockProductionReadinessDecisionGate ==
  Row("productionReadinessDecisionGates", "Ready for CAB review",
      "runtimeMode" :> Latest("readOnlyAdapterRuntimeModeRecords", ActiveModes) @@
      "authorization" :> Latest("readOnlyAdapterAuthorizationGates",
                                {"Ready for future live read-only review"}) @@
      "workflow" :> Latest("labPilotRunbookWorkflows", {"Closed"}) @@
      "inventoryPilot" :> Latest("liveReadOnlyInventoryPilots", {"Completed"}) @@
      "observability" :> Latest("readOnlyAdapterObservabilityRecords", {"Prepared"}))

MockRealReadOnlyAdapterConfigBoundary ==
  Row("realReadOnlyAdapterConfigBoundaries", "Ready for credential contract", <<>>)

(* The config's credential reference is taken over unchecked. *)
MockCredentialProviderContract ==
  [CredentialProviderContractRecord EXCEPT !.inputs = {}, !.always = TRUE]

MockDisabledRealReadOnlyAdapterInterface ==
  Row("disabledRealReadOnlyAdapterInterfaceRecords", "Interface ready; execution disabled",
      "config" :> Latest("realReadOnlyAdapterConfigBoundaries",
                         {"Ready for credential contract"}) @@
      "credential" :> Latest("credentialProviderContractRecords", {"Validated reference"}))

MockOfflineContractReplaySuite ==
  Row("offlineContractReplaySuiteRecords", "Passed",
      "adapter" :> Latest("disabledRealReadOnlyAdapterInterfaceRecords",
                          {"Interface ready; execution disabled"}) @@
      "replay" :> Latest("prismFixtureReplayRecords", {"Passed"}))

MockAuthorizedLabConnectionDryRun ==
  Row("authorizedLabConnectionDryRunRecords", "Ready for authorized lab connection review",
      "config" :> Latest("realReadOnlyAdapterConfigBoundaries",
                         {"Ready for credential contract"}) @@
      "credential" :> Latest("credentialProviderContractRecords", {"Validated reference"}) @@
      "adapter" :> Latest("disabledRealReadOnlyAdapterInterfaceRecords",
                          {"Interface ready; execution disabled"}) @@
      "replay" :> Latest("offlineContractReplaySuiteRecords", {"Passed"}) @@
      "decision" :> Latest("productionReadinessDecisionGates", {"Ready for CAB review"}))

MockHardenedLabConnectionProfileReview ==
  Row("hardenedLabConnectionProfileReviews", "Hardened",
      "profile" :> Latest("readOnlyLabConnectionProfiles", {"Approved"}))

MockCredentialResolverAdapterStub ==
  Row("credentialResolverAdapterStubRecords", "Stub ready; resolver disabled",
      "contract" :> Latest("credentialProviderContractRecords", {"Validated reference"}))

MockDisabledPrismReadOnlyHttpClient ==
  Row("disabledPrismReadOnlyHttpClientRecords", "Client shape ready; execution disabled",
      "adapter" :> Latest("disabledRealReadOnlyAdapterInterfaceRecords",
                          {"Interface ready; execution disabled"}) @@
      "config" :> Latest("realReadOnlyAdapterConfigBoundaries",
                         {"Ready for credential contract"}) @@
      "resolver" :> Latest("credentialResolverAdapterStubRecords",
                           {"Stub ready; resolver disabled"}))

MockLabConnectivityPreflight ==
  Row("labConnectivityPreflightRecords", "Ready for operator pilot gate",
      "profileReview" :> Latest("hardenedLabConnectionProfileReviews", {"Hardened"}) @@
      "config" :> Latest("realReadOnlyAdapterConfigBoundaries",
                         {"Ready for credential contract"}) @@
      "resolver" :> Latest("credentialResolverAdapterStubRecords",
                           {"Stub ready; resolver disabled"}) @@
      "client" :> Latest("disabledPrismReadOnlyHttpClientRecords",
                         {"Client shape ready; execution disabled"}))

MockAuthorizedReadOnlyLabPilotGate ==
  Row("authorizedReadOnlyLabPilotGateRecords", "Ready for future live read-only pilot",
      "preflight" :> Latest("labConnectivityPreflightRecords",
                            {"Ready for operator pilot gate"}) @@
      "dryRun" :> Latest("authorizedLabConnectionDryRunRecords",
                         {"Ready for authorized lab connection review"}) @@
      "decision" :> Latest("productionReadinessDecisionGates", {"Ready for CAB review"}))

MockReadOnlyRuntimeEnablementPolicy ==
  Row("readOnlyRuntimeEnablementPolicies", "Policy ready for pilot session",
      "pilotGate" :> Latest("authorizedReadOnlyLabPilotGateRecords",
                            {"Ready for future live read-only pilot"}))

(* Whether the policy is of that gate is not asked. *)
MockReadOnlyPilotSession ==
  Row("readOnlyPilotSessions", "Session window ready",
      "policy" :> Latest("readOnlyRuntimeEnablementPolicies",
                         {"Policy ready for pilot session"}) @@
      "gate" :> Latest("authorizedReadOnlyLabPilotGateRecords",
                       {"Ready for future live read-only pilot"}))

MockLiveReadOnlyCallEnvelope ==
  Row("liveReadOnlyCallEnvelopes", "Envelope ready; execution disabled",
      "session" :> Latest("readOnlyPilotSessions", {"Session window ready"}) @@
      "client" :> Latest("disabledPrismReadOnlyHttpClientRecords",
                         {"Client shape ready; execution disabled"}))

(* Whether the envelope is of that session is not asked. *)
MockPilotEvidenceReview ==
  Row("pilotEvidenceReviewRecords", "Approved for rollback drill",
      "envelope" :> Latest("liveReadOnlyCallEnvelopes",
                           {"Envelope ready; execution disabled"}) @@
      "session" :> Latest("readOnlyPilotSessions", {"Session window ready"}))

MockEmergencyStopRollbackDrill ==
  Row("emergencyStopRollbackDrillRecords", "Drill passed",
      "review" :> Latest("pilotEvidenceReviewRecords", {"Approved for rollback drill"}) @@
      "policy" :> Latest("readOnlyRuntimeEnablementPolicies",
                         {"Policy ready for pilot session"}))

MockLabReadinessWorkspace ==
  [Row("labReadinessWorkspaces", "Ready for mock-to-lab review",
       "policy" :> Latest("readOnlyRuntimeEnablementPolicies",
                          {"Policy ready for pilot session"}) @@
       "session" :> Latest("readOnlyPilotSessions", {"Session window ready"}) @@
       "review" :> Latest("pilotEvidenceReviewRecords", {"Approved for rollback drill"}) @@
       "drill" :> Latest("emergencyStopRollbackDrillRecords", {"Drill passed"}) @@
       "client" :> Link("disabledPrismReadOnlyHttpClientRecords", "standing",
                        {"Client shape ready; execution disabled"}, "blocked"))
   EXCEPT !.facts = {"mockPrismHealthy"}]

MockPrismEndpointExpansion ==
  Row("mockPrismEndpointExpansionRecords", "Expanded simulator contract ready",
      "workspace" :> Latest("labReadinessWorkspaces", {"Ready for mock-to-lab review"}))

MockAdapterContractTestHarness ==
  Row("adapterContractTestHarnessRecords", "Contract harness passed",
      "expansion" :> Latest("mockPrismEndpointExpansionRecords",
                            {"Expanded simulator contract ready"}))

MockLabConnectionDryRunConsole ==
  Row("labConnectionDryRunConsoleRecords", "Dry-run console ready",
      "harness" :> Latest("adapterContractTestHarnessRecords", {"Contract harness passed"}))

(* The console is all it looks at. *)
MockEvidenceExportPackV2 ==
  Row("evidenceExportPackV2Records", "Export pack ready",
      "dryRunConsole" :> Latest("labConnectionDryRunConsoleRecords",
                                {"Dry-run console ready"}))

MockRealLabAuthorizationPacket ==
  Row("realLabAuthorizationPacketRecords", "Ready to request real lab access",
      "exportPack" :> Latest("evidenceExportPackV2Records", {"Export pack ready"}))

BrowserPilotChain ==
  <<MockReadOnlyPrismLabGate, MockReadOnlyLabConnectionProfile, MockPrismFixtureReplay,
    MockReadOnlyAdapterAuthorizationGate, MockOperatorEvidenceExportPack,
    MockLabPilotRunbookWorkflow, MockReadOnlyAdapterRuntimeModeRecord,
    MockLiveReadOnlyInventoryPilot, MockReadOnlyAdapterObservability,
    MockProductionReadinessDecisionGate, MockRealReadOnlyAdapterConfigBoundary,
    MockCredentialProviderContract, MockDisabledRealReadOnlyAdapterInterface,
    MockOfflineContractReplaySuite, MockAuthorizedLabConnectionDryRun,
    MockHardenedLabConnectionProfileReview, MockCredentialResolverAdapterStub,
    MockDisabledPrismReadOnlyHttpClient, MockLabConnectivityPreflight,
    MockAuthorizedReadOnlyLabPilotGate, MockReadOnlyRuntimeEnablementPolicy,
    MockReadOnlyPilotSession, MockLiveReadOnlyCallEnvelope, MockPilotEvidenceReview,
    MockEmergencyStopRollbackDrill, MockLabReadinessWorkspace, MockPrismEndpointExpansion,
    MockAdapterContractTestHarness, MockLabConnectionDryRunConsole,
    MockEvidenceExportPackV2, MockRealLabAuthorizationPacket>>
=============================================================================
