---------------------- MODULE BrowserProductionStages ---------------------
(***************************************************************************)
(* The switch and production stages in the browser's offline mode (App.tsx): *)
(* the click takes the newest parent on the screen and fills every input in, *)
(* so only the parent's status is left to check.                             *)
(***************************************************************************)
EXTENDS EvidenceRows

MockRealAdapterLabScopeActivation ==
  Click("realAdapterLabScopeActivations",
        "dispatchApproval", "executionBrokerDispatchApprovals",
        "Ready for authorized lab dispatch review",
        "Ready for manual real-adapter switch review")

MockManualRealAdapterSwitchReview ==
  Click("manualRealAdapterSwitchReviews",
        "activation", "realAdapterLabScopeActivations",
        "Ready for manual real-adapter switch review",
        "Ready for manual switch change review")

MockRealAdapterSwitchStateAuditPackage ==
  Click("realAdapterSwitchStateAuditPackages",
        "switchReview", "manualRealAdapterSwitchReviews",
        "Ready for manual switch change review",
        "Ready for switch-state audit review")

MockControlledSwitchConfigurationRequest ==
  Click("controlledSwitchConfigurationRequests",
        "auditPackage", "realAdapterSwitchStateAuditPackages",
        "Ready for switch-state audit review",
        "Ready for controlled switch request review")

MockSwitchExecutionHandoffPackage ==
  Click("switchExecutionHandoffPackages",
        "switchRequest", "controlledSwitchConfigurationRequests",
        "Ready for controlled switch request review",
        "Ready for switch execution handoff review")

MockSwitchExecutionOutcomeRecord ==
  Click("switchExecutionOutcomeRecords",
        "handoffPackage", "switchExecutionHandoffPackages",
        "Ready for switch execution handoff review",
        "Ready for switch outcome review")

MockSwitchClosureRetentionPackage ==
  Click("switchClosureRetentionPackages",
        "outcomeRecord", "switchExecutionOutcomeRecords",
        "Ready for switch outcome review",
        "Ready for switch closure review")

MockAdapterPromotionReadinessDossier ==
  Click("adapterPromotionReadinessDossiers",
        "closurePackage", "switchClosureRetentionPackages",
        "Ready for switch closure review",
        "Ready for adapter promotion review")

MockProductionAdapterAuthorizationPacket ==
  Click("productionAdapterAuthorizationPackets",
        "promotionDossier", "adapterPromotionReadinessDossiers",
        "Ready for adapter promotion review",
        "Ready for production adapter authorization review")

MockProductionChangeFreezeRecord ==
  Click("productionChangeFreezeRecords",
        "authorizationPacket", "productionAdapterAuthorizationPackets",
        "Ready for production adapter authorization review",
        "Ready for production change freeze review")

MockProductionCabHandoffPacket ==
  Click("productionCabHandoffPackets",
        "freezeRecord", "productionChangeFreezeRecords",
        "Ready for production change freeze review",
        "Ready for production CAB handoff review")

MockProductionCabDecisionRecord ==
  Click("productionCabDecisionRecords",
        "handoffPacket", "productionCabHandoffPackets",
        "Ready for production CAB handoff review",
        "Ready for production CAB decision review")

MockProductionImplementationHoldRecord ==
  Click("productionImplementationHoldRecords",
        "decisionRecord", "productionCabDecisionRecords",
        "Ready for production CAB decision review",
        "Ready for production implementation hold review")

MockProductionOperatorAssignmentRecord ==
  Click("productionOperatorAssignmentRecords",
        "holdRecord", "productionImplementationHoldRecords",
        "Ready for production implementation hold review",
        "Ready for production operator assignment review")

MockProductionExecutionReadinessRecord ==
  Click("productionExecutionReadinessRecords",
        "assignmentRecord", "productionOperatorAssignmentRecords",
        "Ready for production operator assignment review",
        "Ready for production execution readiness review")

MockProductionExecutionAuthorizationRecord ==
  Click("productionExecutionAuthorizationRecords",
        "readinessRecord", "productionExecutionReadinessRecords",
        "Ready for production execution readiness review",
        "Ready for production execution authorization review")

MockProductionChangeTicketLockRecord ==
  Click("productionChangeTicketLockRecords",
        "authorizationRecord", "productionExecutionAuthorizationRecords",
        "Ready for production execution authorization review",
        "Ready for production change ticket lock review")

MockProductionFinalExecutionPacketRecord ==
  Click("productionFinalExecutionPacketRecords",
        "lockRecord", "productionChangeTicketLockRecords",
        "Ready for production change ticket lock review",
        "Ready for production final execution packet review")

MockProductionExecutionHoldPointRecord ==
  Click("productionExecutionHoldPointRecords",
        "packetRecord", "productionFinalExecutionPacketRecords",
        "Ready for production final execution packet review",
        "Ready for production execution hold-point review")

MockProductionExecutionOutcomeAuthorizationRecord ==
  Click("productionExecutionOutcomeAuthorizationRecords",
        "holdPointRecord", "productionExecutionHoldPointRecords",
        "Ready for production execution hold-point review",
        "Ready for production execution outcome authorization review")

MockProductionExecutionClosureAuthorizationRecord ==
  Click("productionExecutionClosureAuthorizationRecords",
        "outcomeAuthorizationRecord", "productionExecutionOutcomeAuthorizationRecords",
        "Ready for production execution outcome authorization review",
        "Ready for production execution closure authorization review")

MockProductionExecutionClosurePacketRecord ==
  Click("productionExecutionClosurePacketRecords",
        "closureAuthorizationRecord", "productionExecutionClosureAuthorizationRecords",
        "Ready for production execution closure authorization review",
        "Ready for production execution closure packet review")

MockProductionExecutionArchivalHandoffRecord ==
  Click("productionExecutionArchivalHandoffRecords",
        "closurePacketRecord", "productionExecutionClosurePacketRecords",
        "Ready for production execution closure packet review",
        "Ready for production execution archival handoff review")

MockProductionExecutionRetentionAttestationRecord ==
  Click("productionExecutionRetentionAttestationRecords",
        "archivalHandoffRecord", "productionExecutionArchivalHandoffRecords",
        "Ready for production execution archival handoff review",
        "Ready for production execution retention attestation review")

MockProductionExecutionFinalArchiveCertificationRecord ==
  Click("productionExecutionFinalArchiveCertificationRecords",
        "retentionAttestationRecord", "productionExecutionRetentionAttestationRecords",
        "Ready for production execution retention attestation review",
        "Ready for production execution final archive certification review")

MockProductionExecutionCompletionDossierRecord ==
  Click("productionExecutionCompletionDossierRecords",
        "finalArchiveCertificationRecord", "productionExecutionFinalArchiveCertificationRecords",
        "Ready for production execution final archive certification review",
        "Ready for production execution completion dossier review")

MockProductionExecutionOperationsHandoverRecord ==
  Click("productionExecutionOperationsHandoverRecords",
        "completionDossierRecord", "productionExecutionCompletionDossierRecords",
        "Ready for production execution completion dossier review",
        "Ready for production execution operations handover review")

MockProductionExecutionSupportReadinessRecord ==
  Click("productionExecutionSupportReadinessRecords",
        "operationsHandoverRecord", "productionExecutionOperationsHandoverRecords",
        "Ready for production execution operations handover review",
        "Ready for production execution support readiness review")

MockProductionExecutionServiceAcceptanceRecord ==
  Click("productionExecutionServiceAcceptanceRecords",
        "supportReadinessRecord", "productionExecutionSupportReadinessRecords",
        "Ready for production execution support readiness review",
        "Ready for production execution service acceptance review")

MockProductionExecutionFinalTurnoverRecord ==
  Click("productionExecutionFinalTurnoverRecords",
        "serviceAcceptanceRecord", "productionExecutionServiceAcceptanceRecords",
        "Ready for production execution service acceptance review",
        "Ready for production execution final turnover review")

MockProductionExecutionOperationalClosureRecord ==
  Click("productionExecutionOperationalClosureRecords",
        "finalTurnoverRecord", "productionExecutionFinalTurnoverRecords",
        "Ready for production execution final turnover review",
        "Ready for production execution operational closure review")

MockProductionExecutionPostImplementationReviewRecord ==
  Click("productionExecutionPostImplementationReviewRecords",
        "operationalClosureRecord", "productionExecutionOperationalClosureRecords",
        "Ready for production execution operational closure review",
        "Ready for production execution post-implementation review")

MockProductionExecutionImprovementClosureRecord ==
  Click("productionExecutionImprovementClosureRecords",
        "postImplementationReviewRecord", "productionExecutionPostImplementationReviewRecords",
        "Ready for production execution post-implementation review",
        "Ready for production execution improvement closure review")

MockProductionExecutionFinalAcceptanceArchiveRecord ==
  Click("productionExecutionFinalAcceptanceArchiveRecords",
        "improvementClosureRecord", "productionExecutionImprovementClosureRecords",
        "Ready for production execution improvement closure review",
        "Ready for production execution final acceptance archive review")

MockProductionExecutionReadinessArchiveHandoffRecord ==
  Click("productionExecutionReadinessArchiveHandoffRecords",
        "finalAcceptanceArchiveRecord", "productionExecutionFinalAcceptanceArchiveRecords",
        "Ready for production execution final acceptance archive review",
        "Ready for production execution readiness archive handoff review")

MockProductionExecutionArchiveRetrievalValidationRecord ==
  Click("productionExecutionArchiveRetrievalValidationRecords",
        "readinessArchiveHandoffRecord", "productionExecutionReadinessArchiveHandoffRecords",
        "Ready for production execution readiness archive handoff review",
        "Ready for production execution archive retrieval validation review")

MockProductionExecutionArchiveRecoveryDrillRecord ==
  Click("productionExecutionArchiveRecoveryDrillRecords",
        "archiveRetrievalValidationRecord", "productionExecutionArchiveRetrievalValidationRecords",
        "Ready for production execution archive retrieval validation review",
        "Ready for production execution archive recovery drill review")

MockProductionExecutionArchiveRecoveryAcceptanceRecord ==
  Click("productionExecutionArchiveRecoveryAcceptanceRecords",
        "archiveRecoveryDrillRecord", "productionExecutionArchiveRecoveryDrillRecords",
        "Ready for production execution archive recovery drill review",
        "Ready for production execution archive recovery acceptance review")

MockProductionExecutionArchiveRecoveryClosureRecord ==
  Click("productionExecutionArchiveRecoveryClosureRecords",
        "archiveRecoveryAcceptanceRecord", "productionExecutionArchiveRecoveryAcceptanceRecords",
        "Ready for production execution archive recovery acceptance review",
        "Ready for production execution archive recovery closure review")

MockProductionExecutionArchiveRecoveryAuditCertificationRecord ==
  Click("productionExecutionArchiveRecoveryAuditCertificationRecords",
        "archiveRecoveryClosureRecord", "productionExecutionArchiveRecoveryClosureRecords",
        "Ready for production execution archive recovery closure review",
        "Ready for production execution archive recovery audit certification review")

MockProductionExecutionArchiveRecoveryFinalComplianceArchiveRecord ==
  Click("productionExecutionArchiveRecoveryFinalComplianceArchiveRecords",
        "auditCertificationRecord", "productionExecutionArchiveRecoveryAuditCertificationRecords",
        "Ready for production execution archive recovery audit certification review",
        "Ready for production execution archive recovery final compliance archive review")

MockProductionExecutionArchiveRecoveryEvidenceCustodyClosureRecord ==
  Click("productionExecutionArchiveRecoveryEvidenceCustodyClosureRecords",
        "finalComplianceArchiveRecord", "productionExecutionArchiveRecoveryFinalComplianceArchiveRecords",
        "Ready for production execution archive recovery final compliance archive review",
        "Ready for production execution archive recovery evidence custody closure review")

MockProductionExecutionArchiveRecoveryOperationalContinuityRecord ==
  Click("productionExecutionArchiveRecoveryOperationalContinuityRecords",
        "evidenceCustodyClosureRecord", "productionExecutionArchiveRecoveryEvidenceCustodyClosureRecords",
        "Ready for production execution archive recovery evidence custody closure review",
        "Ready for production execution archive recovery operational continuity review")

MockProductionExecutionArchiveRecoveryServiceManagementHandoffRecord ==
  Click("productionExecutionArchiveRecoveryServiceManagementHandoffRecords",
        "operationalContinuityRecord", "productionExecutionArchiveRecoveryOperationalContinuityRecords",
        "Ready for production execution archive recovery operational continuity review",
        "Ready for production execution archive recovery service management handoff review")

MockProductionExecutionArchiveRecoverySupportOwnershipAcceptanceRecord ==
  Click("productionExecutionArchiveRecoverySupportOwnershipAcceptanceRecords",
        "serviceManagementHandoffRecord", "productionExecutionArchiveRecoveryServiceManagementHandoffRecords",
        "Ready for production execution archive recovery service management handoff review",
        "Ready for production execution archive recovery support ownership acceptance review")

MockProductionExecutionArchiveRecoveryMonitoringOwnershipClosureRecord ==
  Click("productionExecutionArchiveRecoveryMonitoringOwnershipClosureRecords",
        "supportOwnershipAcceptanceRecord", "productionExecutionArchiveRecoverySupportOwnershipAcceptanceRecords",
        "Ready for production execution archive recovery support ownership acceptance review",
        "Ready for production execution archive recovery monitoring ownership closure review")

MockProductionExecutionArchiveRecoveryFinalOperationsHandoffRecord ==
  Click("productionExecutionArchiveRecoveryFinalOperationsHandoffRecords",
        "monitoringOwnershipClosureRecord", "productionExecutionArchiveRecoveryMonitoringOwnershipClosureRecords",
        "Ready for production execution archive recovery monitoring ownership closure review",
        "Ready for production execution archive recovery final operations handoff review")

BrowserProductionChain ==
  <<MockRealAdapterLabScopeActivation, MockManualRealAdapterSwitchReview,
    MockRealAdapterSwitchStateAuditPackage, MockControlledSwitchConfigurationRequest,
    MockSwitchExecutionHandoffPackage, MockSwitchExecutionOutcomeRecord,
    MockSwitchClosureRetentionPackage, MockAdapterPromotionReadinessDossier,
    MockProductionAdapterAuthorizationPacket, MockProductionChangeFreezeRecord,
    MockProductionCabHandoffPacket, MockProductionCabDecisionRecord,
    MockProductionImplementationHoldRecord, MockProductionOperatorAssignmentRecord,
    MockProductionExecutionReadinessRecord,
    MockProductionExecutionAuthorizationRecord, MockProductionChangeTicketLockRecord,
    MockProductionFinalExecutionPacketRecord, MockProductionExecutionHoldPointRecord,
    MockProductionExecutionOutcomeAuthorizationRecord,
    MockProductionExecutionClosureAuthorizationRecord,
    MockProductionExecutionClosurePacketRecord,
    MockProductionExecutionArchivalHandoffRecord,
    MockProductionExecutionRetentionAttestationRecord,
    MockProductionExecutionFinalArchiveCertificationRecord,
    MockProductionExecutionCompletionDossierRecord,
    MockProductionExecutionOperationsHandoverRecord,
    MockProductionExecutionSupportReadinessRecord,
    MockProductionExecutionServiceAcceptanceRecord,
    MockProductionExecutionFinalTurnoverRecord,
    MockProductionExecutionOperationalClosureRecord,
    MockProductionExecutionPostImplementationReviewRecord,
    MockProductionExecutionImprovementClosureRecord,
    MockProductionExecutionFinalAcceptanceArchiveRecord,
    MockProductionExecutionReadinessArchiveHandoffRecord,
    MockProductionExecutionArchiveRetrievalValidationRecord,
    MockProductionExecutionArchiveRecoveryDrillRecord,
    MockProductionExecutionArchiveRecoveryAcceptanceRecord,
    MockProductionExecutionArchiveRecoveryClosureRecord,
    MockProductionExecutionArchiveRecoveryAuditCertificationRecord,
    MockProductionExecutionArchiveRecoveryFinalComplianceArchiveRecord,
    MockProductionExecutionArchiveRecoveryEvidenceCustodyClosureRecord,
    MockProductionExecutionArchiveRecoveryOperationalContinuityRecord,
    MockProductionExecutionArchiveRecoveryServiceManagementHandoffRecord,
    MockProductionExecutionArchiveRecoverySupportOwnershipAcceptanceRecord,
    MockProductionExecutionArchiveRecoveryMonitoringOwnershipClosureRecord,
    MockProductionExecutionArchiveRecoveryFinalOperationsHandoffRecord>>
=============================================================================
