--------------------------- MODULE SwitchStages ---------------------------
(***************************************************************************)
(* From the activation of an authorized lab scope to the adapter promotion   *)
(* dossier: each stage requires the one before it in its passing status, and *)
(* reviews that a real adapter could be switched on; none switches it on.    *)
(***************************************************************************)
EXTENDS EvidenceRows

RealAdapterLabScopeActivation ==
  Review("realAdapterLabScopeActivations",
         "dispatchApproval", "executionBrokerDispatchApprovals",
         "Ready for authorized lab dispatch review",
         "Ready for manual real-adapter switch review",
         {"authorizedScopeReference", "pentestCompletionEvidence", "rollbackOwner",
          "boundedProviderTargets", "manualOperatorControls"})

ManualRealAdapterSwitchReview ==
  [Review("manualRealAdapterSwitchReviews",
         "activation", "realAdapterLabScopeActivations",
         "Ready for manual real-adapter switch review",
         "Ready for manual switch change review",
         {"switchOperator", "secondReviewer", "maintenanceWindowReference",
          "rollbackContact", "switchStateAuditReferences"})
     EXCEPT !.lends = "rollbackContact" :> <<"activation", "rollbackOwner">>]

RealAdapterSwitchStateAuditPackage ==
  Review("realAdapterSwitchStateAuditPackages",
         "switchReview", "manualRealAdapterSwitchReviews",
         "Ready for manual switch change review",
         "Ready for switch-state audit review",
         {"preChangeSnapshotReference", "postChangeSnapshotReference",
          "reviewerEvidenceReference", "retentionReference", "rollbackTimerMinutes"})

ControlledSwitchConfigurationRequest ==
  [Review("controlledSwitchConfigurationRequests",
         "auditPackage", "realAdapterSwitchStateAuditPackages",
         "Ready for switch-state audit review",
         "Ready for controlled switch request review",
         {"operatorConfirmation", "secondReviewerAcceptance",
          "finalDryRunProofReference", "retentionReference", "rollbackTimerMinutes"})
     EXCEPT !.lends = "rollbackTimerMinutes" :> <<"auditPackage", "rollbackTimerMinutes">> @@
               "retentionReference" :> <<"auditPackage", "retentionReference">>]

SwitchExecutionHandoffPackage ==
  Review("switchExecutionHandoffPackages",
         "switchRequest", "controlledSwitchConfigurationRequests",
         "Ready for controlled switch request review",
         "Ready for switch execution handoff review",
         {"operatorRunSheetReference", "communicationsPlanReference",
          "observationWindowReference", "rollbackOwnerAcceptance",
          "executionFreezeProofReference"})

SwitchExecutionOutcomeRecord ==
  Review("switchExecutionOutcomeRecords",
         "handoffPackage", "switchExecutionHandoffPackages",
         "Ready for switch execution handoff review",
         "Ready for switch outcome review",
         {"operatorResultReference", "postSwitchValidationReference",
          "rollbackDecisionReference", "incidentBridgeLogReference",
          "auditSignOffReference"})

SwitchClosureRetentionPackage ==
  Review("switchClosureRetentionPackages",
         "outcomeRecord", "switchExecutionOutcomeRecords",
         "Ready for switch outcome review",
         "Ready for switch closure review",
         {"closureOwner", "retainedEvidenceManifestReference",
          "lessonsLearnedReference", "rollbackTimerClosureReference",
          "finalAuditRetentionConfirmation"})

AdapterPromotionReadinessDossier ==
  [Review("adapterPromotionReadinessDossiers",
         "closurePackage", "switchClosureRetentionPackages",
         "Ready for switch closure review",
         "Ready for adapter promotion review",
         {"promotionOwner", "retainedSwitchEvidenceReference",
          "monitoringPlanReference", "rollbackDrillConfirmation",
          "securityAcceptanceReference"})
     EXCEPT !.lends = "retainedSwitchEvidenceReference" :>
                 <<"closurePackage", "retainedEvidenceManifestReference">>]

SwitchChain ==
  <<RealAdapterLabScopeActivation, ManualRealAdapterSwitchReview,
    RealAdapterSwitchStateAuditPackage, ControlledSwitchConfigurationRequest,
    SwitchExecutionHandoffPackage, SwitchExecutionOutcomeRecord,
    SwitchClosureRetentionPackage, AdapterPromotionReadinessDossier>>
=============================================================================
