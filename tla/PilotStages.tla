---------------------------- MODULE PilotStages ----------------------------
(***************************************************************************)
(* The read-only lab pilot: from the Prism lab gate and the connection       *)
(* profile to the packet that asks for access to a real lab.  A stage finds  *)
(* its links with findLatestOrById: by the id the request names or else the  *)
(* newest record, and is refused when a link it requires is missing.         *)
(***************************************************************************)
EXTENDS EvidenceRows

AuthorizedMode == "Active in authorized-read-only-lab"
ActiveModes == {"Active in simulated", "Active in fixture-replay", AuthorizedMode}

Latest(list, needs) == Link(list, "newest", needs, "blocked")

ReadOnlyPrismLabGate ==
  [Row("readOnlyPrismLabGates", "Ready for fixture contract validation", <<>>) EXCEPT
     !.facts = {"activeScope", "nciReachable", "credentialProfile", "readOnlyAllowed",
                "mutationsExcluded"}]

(* `status` is the profile's approvalState. *)
ReadOnlyLabConnectionProfile ==
  [Row("readOnlyLabConnectionProfiles", "Approved", <<>>) EXCEPT
     !.otherwise = "Draft",
     !.inputs = {"prismCentralEndpointRef", "credentialProfileRef", "owner", "approvedBy",
                 "allowedProviderScope", "approvalState", "expiresAt"}]

PrismFixtureReplayRecord ==
  [Row("prismFixtureReplayRecords", "Passed", <<>>) EXCEPT !.inputs = {"records"}]

ReadOnlyAdapterAuthorizationGate ==
  Row("readOnlyAdapterAuthorizationGates", "Ready for future live read-only review",
      "profile" :> Given("readOnlyLabConnectionProfiles", {"Approved"}) @@
      "replay" :> Given("prismFixtureReplayRecords", {"Passed"}) @@
      "labGate" :> Given("readOnlyPrismLabGates",
                         {"Ready for fixture contract validation"}))

OperatorEvidenceExportPack ==
  [Row("operatorEvidenceExportPacks", "Prepared", <<>>) EXCEPT !.always = TRUE]

LabPilotRunbookWorkflow ==
  Row("labPilotRunbookWorkflows", "In review",
      "profile" :> Given("readOnlyLabConnectionProfiles", {"Approved"}) @@
      "authorization" :> Given("readOnlyAdapterAuthorizationGates",
                               {"Ready for future live read-only review"}) @@
      "evidence" :> Given("operatorEvidenceExportPacks", {"Prepared"}))

(* Any step may follow any other: a closed workflow is opened again. *)
AdvancedWorkflow(status, step) == IF step = "close" THEN "Closed" ELSE "In review"

WorkflowSteps == {"approve", "execute-dry-run", "review-evidence", "close"}

RuntimeMode(stage, passes, links) ==
  [Row("readOnlyAdapterRuntimeModeRecords", passes, links) EXCEPT !.stage = stage]

SimulatedModeRecord == RuntimeMode("simulatedMode", "Active in simulated", <<>>)

FixtureReplayModeRecord ==
  RuntimeMode("fixtureReplayMode", "Active in fixture-replay",
              "replay" :> Latest("prismFixtureReplayRecords", {"Passed"}))

AuthorizedModeRecord ==
  RuntimeMode("authorizedMode", AuthorizedMode,
              "replay" :> Latest("prismFixtureReplayRecords", {"Passed"}) @@
              "authorization" :> Link("readOnlyAdapterAuthorizationGates", "id else newest",
                                      {"Ready for future live read-only review"}, "blocked") @@
              "workflow" :> Link("labPilotRunbookWorkflows", "id else newest",
                                 {"Closed"}, "blocked") @@
              "evidence" :> Link("operatorEvidenceExportPacks", "id else newest",
                                 {"Prepared"}, "blocked"))

LiveReadOnlyInventoryPilotRecord ==
  Row("liveReadOnlyInventoryPilots", "Completed",
      "runtimeMode" :> Given("readOnlyAdapterRuntimeModeRecords", {AuthorizedMode}) @@
      "authorization" :> Given("readOnlyAdapterAuthorizationGates",
                               {"Ready for future live read-only review"}) @@
      "workflow" :> Given("labPilotRunbookWorkflows", {"Closed"}) @@
      "replay" :> Latest("prismFixtureReplayRecords", {"Passed"}))

ReadOnlyAdapterObservabilityRecord ==
  [Row("readOnlyAdapterObservabilityRecords", "Prepared",
       "runtimeMode" :> Optional("readOnlyAdapterRuntimeModeRecords") @@
       "inventoryPilot" :> Optional("liveReadOnlyInventoryPilots"))
   EXCEPT !.always = TRUE]

(* What the operator console calls ready, and who decides.  The decision itself, *)
(* Go or No-go, is asked of by no later stage.                                   *)
ProductionReadinessDecisionGate ==
  [Row("productionReadinessDecisionGates", "Ready for CAB review",
       "runtimeMode" :> Latest("readOnlyAdapterRuntimeModeRecords", ActiveModes) @@
       "authorization" :> Latest("readOnlyAdapterAuthorizationGates",
                                 {"Ready for future live read-only review"}) @@
       "workflow" :> Latest("labPilotRunbookWorkflows", {"Closed"}) @@
       "inventoryPilot" :> Latest("liveReadOnlyInventoryPilots", {"Completed"}) @@
       "observability" :> Latest("readOnlyAdapterObservabilityRecords", {"Prepared"}))
   EXCEPT
     !.asked = {"approvers"},
     !.inputs = {"rollbackOwner", "supportContact", "retentionPolicy"}]

RealReadOnlyAdapterConfigBoundary ==
  [Row("realReadOnlyAdapterConfigBoundaries", "Ready for credential contract",
       "profile" :> [Optional("readOnlyLabConnectionProfiles") EXCEPT !.by = "newest"])
   EXCEPT
     !.inputs = {"endpointRef", "credentialProviderRef", "tlsValidationMode",
                 "timeoutSeconds", "retry", "allowedOperations", "killSwitch"},
     !.lends = "endpointRef" :> <<"profile", "prismCentralEndpointRef">> @@
               "credentialProviderRef" :> <<"profile", "credentialProfileRef">>]

CredentialProviderContractRecord ==
  [Row("credentialProviderContractRecords", "Validated reference",
       "config" :> [Optional("realReadOnlyAdapterConfigBoundaries") EXCEPT !.by = "newest"])
   EXCEPT
     !.inputs = {"credentialProviderRef"},
     !.lends = "credentialProviderRef" :> <<"config", "credentialProviderRef">>]

DisabledRealReadOnlyAdapterInterfaceRecord ==
  Row("disabledRealReadOnlyAdapterInterfaceRecords", "Interface ready; execution disabled",
      "config" :> Given("realReadOnlyAdapterConfigBoundaries",
                        {"Ready for credential contract"}) @@
      "credential" :> Given("credentialProviderContractRecords", {"Validated reference"}))

OfflineContractReplaySuiteRecord ==
  Row("offlineContractReplaySuiteRecords", "Passed",
      "adapter" :> Given("disabledRealReadOnlyAdapterInterfaceRecords",
                         {"Interface ready; execution disabled"}) @@
      "replay" :> Given("prismFixtureReplayRecords", {"Passed"}))

(* The adapter interface need only be on file. *)
AuthorizedLabConnectionDryRunRecord ==
  Row("authorizedLabConnectionDryRunRecords", "Ready for authorized lab connection review",
      "config" :> Given("realReadOnlyAdapterConfigBoundaries",
                        {"Ready for credential contract"}) @@
      "credential" :> Given("credentialProviderContractRecords", {"Validated reference"}) @@
      "adapter" :> Given("disabledRealReadOnlyAdapterInterfaceRecords", {}) @@
      "replay" :> Given("offlineContractReplaySuiteRecords", {"Passed"}) @@
      "decision" :> Given("productionReadinessDecisionGates", {"Ready for CAB review"}))

HardenedLabConnectionProfileReview ==
  [Row("hardenedLabConnectionProfileReviews", "Hardened",
       "profile" :> Given("readOnlyLabConnectionProfiles", {"Approved"}))
   EXCEPT !.inputs = {"caCertificateRef"}, !.facts = {"profileUnexpired"}]

CredentialResolverAdapterStubRecord ==
  [Row("credentialResolverAdapterStubRecords", "Stub ready; resolver disabled",
       "contract" :> Given("credentialProviderContractRecords", {"Validated reference"}))
   EXCEPT !.facts = {"credentialSchemeSupported"}]

DisabledPrismReadOnlyHttpClientRecord ==
  [Row("disabledPrismReadOnlyHttpClientRecords", "Client shape ready; execution disabled",
       "adapter" :> Given("disabledRealReadOnlyAdapterInterfaceRecords",
                          {"Interface ready; execution disabled"}) @@
       "config" :> Given("realReadOnlyAdapterConfigBoundaries",
                         {"Ready for credential contract"}) @@
       "resolver" :> Given("credentialResolverAdapterStubRecords",
                           {"Stub ready; resolver disabled"}))
   EXCEPT !.facts = {"httpFlagOff"}]

(* The config's inputs are checked again, not its status. *)
LabConnectivityPreflightRecord ==
  [Row("labConnectivityPreflightRecords", "Ready for operator pilot gate",
       "profileReview" :> Given("hardenedLabConnectionProfileReviews", {"Hardened"}) @@
       "config" :> Given("realReadOnlyAdapterConfigBoundaries", {}) @@
       "resolver" :> Given("credentialResolverAdapterStubRecords",
                           {"Stub ready; resolver disabled"}) @@
       "client" :> Given("disabledPrismReadOnlyHttpClientRecords",
                         {"Client shape ready; execution disabled"}))
   EXCEPT
     !.heeds = {<<"config", "tlsValidationMode">>, <<"config", "timeoutSeconds">>,
                <<"config", "retry">>}]

AuthorizedReadOnlyLabPilotGateRecord ==
  [Row("authorizedReadOnlyLabPilotGateRecords", "Ready for future live read-only pilot",
       "preflight" :> Given("labConnectivityPreflightRecords",
                            {"Ready for operator pilot gate"}) @@
       "dryRun" :> Given("authorizedLabConnectionDryRunRecords",
                         {"Ready for authorized lab connection review"}) @@
       "decision" :> Given("productionReadinessDecisionGates", {"Ready for CAB review"}))
   EXCEPT !.inputs = {"requiredApprovers", "operatorAcknowledgements"}]

ReadOnlyRuntimeEnablementPolicyRecord ==
  [Row("readOnlyRuntimeEnablementPolicies", "Policy ready for pilot session",
       "pilotGate" :> Given("authorizedReadOnlyLabPilotGateRecords",
                            {"Ready for future live read-only pilot"}))
   EXCEPT
     !.inputs = {"requiredApprovals", "allowedEnvironments", "expiresAt",
                 "emergencyStopOwner", "emergencyStopContact",
                 "emergencyStopProcedureRef", "emergencyStopTested"},
     !.facts = {"httpFlagOff"}]

ReadOnlyPilotSessionRecord ==
  [Row("readOnlyPilotSessions", "Session window ready",
       "policy" :> Given("readOnlyRuntimeEnablementPolicies",
                         {"Policy ready for pilot session"}) @@
       "gate" :> [Through("authorizedReadOnlyLabPilotGateRecords", "policy", "pilotGate",
                          {"Ready for future live read-only pilot"})
                  EXCEPT !.by = "id else through", !.absent = "refused"])
   EXCEPT
     !.agrees = {<<"policy", "pilotGate", "gate">>},
     !.inputs = {"operator", "startedAt", "endsAt", "runtimeMode", "evidenceLinks"},
     !.facts = {"httpFlagOff"}]

LiveReadOnlyCallEnvelopeRecord ==
  [Row("liveReadOnlyCallEnvelopes", "Envelope ready; execution disabled",
       "session" :> Given("readOnlyPilotSessions", {"Session window ready"}) @@
       "client" :> Given("disabledPrismReadOnlyHttpClientRecords",
                         {"Client shape ready; execution disabled"}))
   EXCEPT !.facts = {"httpFlagOff"}]

PilotEvidenceReviewRecord ==
  [Row("pilotEvidenceReviewRecords", "Approved for rollback drill",
       "envelope" :> Given("liveReadOnlyCallEnvelopes",
                           {"Envelope ready; execution disabled"}) @@
       "session" :> [Through("readOnlyPilotSessions", "envelope", "session",
                             {"Session window ready"})
                     EXCEPT !.by = "id else through", !.absent = "refused"])
   EXCEPT
     !.agrees = {<<"envelope", "session", "session">>},
     !.inputs = {"reviewer", "findings"},
     !.rejects = "when complete"]

EmergencyStopRollbackDrillRecord ==
  [Row("emergencyStopRollbackDrillRecords", "Drill passed",
       "review" :> Given("pilotEvidenceReviewRecords", {"Approved for rollback drill"}) @@
       "policy" :> Given("readOnlyRuntimeEnablementPolicies",
                         {"Policy ready for pilot session"}))
   EXCEPT
     !.inputs = {"emergencyStopOwner", "simulatedModeRestored", "evidencePreserved"},
     !.lends = "emergencyStopOwner" :> <<"policy", "emergencyStopOwner">>,
     !.facts = {"httpFlagOff"}]

LabReadinessWorkspaceRecord ==
  [Row("labReadinessWorkspaces", "Ready for mock-to-lab review",
       "policy" :> Given("readOnlyRuntimeEnablementPolicies",
                         {"Policy ready for pilot session"}) @@
       "session" :> Given("readOnlyPilotSessions", {"Session window ready"}) @@
       "review" :> Given("pilotEvidenceReviewRecords", {"Approved for rollback drill"}) @@
       "drill" :> Given("emergencyStopRollbackDrillRecords", {"Drill passed"}) @@
       "client" :> Link("disabledPrismReadOnlyHttpClientRecords", "standing",
                        {"Client shape ready; execution disabled"}, "blocked"))
   EXCEPT !.facts = {"mockPrismHealthy", "httpFlagOff"}]

MockPrismEndpointExpansionRecord ==
  [Row("mockPrismEndpointExpansionRecords", "Expanded simulator contract ready",
       "workspace" :> Given("labReadinessWorkspaces", {"Ready for mock-to-lab review"}))
   EXCEPT !.inputs = {"latencySimulationMs", "requestsPerMinute", "failureModes"}]

AdapterContractTestHarnessRecord ==
  Row("adapterContractTestHarnessRecords", "Contract harness passed",
      "expansion" :> Given("mockPrismEndpointExpansionRecords",
                           {"Expanded simulator contract ready"}))

LabConnectionDryRunConsoleRecord ==
  [Row("labConnectionDryRunConsoleRecords", "Dry-run console ready",
       "harness" :> Given("adapterContractTestHarnessRecords", {"Contract harness passed"}) @@
       "config" :> [Optional("realReadOnlyAdapterConfigBoundaries") EXCEPT !.by = "newest"] @@
       "credential" :> [Optional("credentialProviderContractRecords") EXCEPT !.by = "newest"])
   EXCEPT
     !.inputs = {"selectedEndpointRef", "credentialProviderRef"},
     !.lends = "selectedEndpointRef" :> <<"config", "endpointRef">> @@
               "credentialProviderRef" :> <<"credential", "credentialProviderRef">>]

(* The newest record of every list, whichever pilot it belongs to. *)
EvidenceExportPackV2Record ==
  LET Included(list, needs) == Link(list, "newest", needs, "refused") IN
  Row("evidenceExportPackV2Records", "Export pack ready",
      "dryRunConsole" :> Given("labConnectionDryRunConsoleRecords",
                               {"Dry-run console ready"}) @@
      "policy" :> Included("readOnlyRuntimeEnablementPolicies", {}) @@
      "session" :> Included("readOnlyPilotSessions", {}) @@
      "envelope" :> Included("liveReadOnlyCallEnvelopes", {}) @@
      "review" :> Included("pilotEvidenceReviewRecords", {"Approved for rollback drill"}) @@
      "drill" :> Included("emergencyStopRollbackDrillRecords", {"Drill passed"}) @@
      "harness" :> Included("adapterContractTestHarnessRecords",
                            {"Contract harness passed"}))

RealLabAuthorizationPacketRecord ==
  [Row("realLabAuthorizationPacketRecords", "Ready to request real lab access",
       "exportPack" :> Given("evidenceExportPackV2Records", {"Export pack ready"}))
   EXCEPT
     !.inputs = {"approvalOwners", "rollbackOwner", "pentestScopeEvidence"},
     !.facts = {"httpFlagOff"}]

PilotChain ==
  <<ReadOnlyPrismLabGate, ReadOnlyLabConnectionProfile, PrismFixtureReplayRecord,
    ReadOnlyAdapterAuthorizationGate, OperatorEvidenceExportPack, LabPilotRunbookWorkflow,
    SimulatedModeRecord, FixtureReplayModeRecord, AuthorizedModeRecord,
    LiveReadOnlyInventoryPilotRecord, ReadOnlyAdapterObservabilityRecord,
    ProductionReadinessDecisionGate, RealReadOnlyAdapterConfigBoundary,
    CredentialProviderContractRecord, DisabledRealReadOnlyAdapterInterfaceRecord,
    OfflineContractReplaySuiteRecord, AuthorizedLabConnectionDryRunRecord,
    HardenedLabConnectionProfileReview, CredentialResolverAdapterStubRecord,
    DisabledPrismReadOnlyHttpClientRecord, LabConnectivityPreflightRecord,
    AuthorizedReadOnlyLabPilotGateRecord, ReadOnlyRuntimeEnablementPolicyRecord,
    ReadOnlyPilotSessionRecord, LiveReadOnlyCallEnvelopeRecord, PilotEvidenceReviewRecord,
    EmergencyStopRollbackDrillRecord, LabReadinessWorkspaceRecord,
    MockPrismEndpointExpansionRecord, AdapterContractTestHarnessRecord,
    LabConnectionDryRunConsoleRecord, EvidenceExportPackV2Record,
    RealLabAuthorizationPacketRecord>>
=============================================================================
