------------------------- MODULE ProductionStages -------------------------
(***************************************************************************)
(* From the production adapter authorization to the final operations handoff: *)
(* one review after the other, each on the record before it.                 *)
(***************************************************************************)
EXTENDS EvidenceRows

ProductionAdapterAuthorizationPacket ==
  Review("productionAdapterAuthorizationPackets",
         "promotionDossier", "adapterPromotionReadinessDossiers",
         "Ready for adapter promotion review",
         "Ready for production adapter authorization review",
         {"productionApprover", "changeTicketReference", "releaseWindowReference",
          "emergencyRollbackAuthorization", "complianceAcceptanceReference"})

ProductionChangeFreezeRecord ==
  Review("productionChangeFreezeRecords",
         "authorizationPacket", "productionAdapterAuthorizationPackets",
         "Ready for production adapter authorization review",
         "Ready for production change freeze review",
         {"freezeOwner", "freezeWindowReference", "stakeholderNotificationReference",
          "rollbackStandbyReference", "noChangeExceptionPlanReference"})

ProductionCabHandoffPacket ==
  Review("productionCabHandoffPackets",
         "freezeRecord", "productionChangeFreezeRecords",
         "Ready for production change freeze review",
         "Ready for production CAB handoff review",
         {"cabOwner", "cabAgendaReference", "riskAcceptanceReference",
          "rollbackRepresentationReference", "finalGoNoGoAgendaReference"})

ProductionCabDecisionRecord ==
  Review("productionCabDecisionRecords",
         "handoffPacket", "productionCabHandoffPackets",
         "Ready for production CAB handoff review",
         "Ready for production CAB decision review",
         {"decisionAuthority", "conditionListReference", "rollbackApprovalReference",
          "decisionMinutesReference", "cabDecision"})

ProductionImplementationHoldRecord ==
  Review("productionImplementationHoldRecords",
         "decisionRecord", "productionCabDecisionRecords",
         "Ready for production CAB decision review",
         "Ready for production implementation hold review",
         {"implementationOwner", "holdWindowReference",
          "conditionAcceptanceReference", "rollbackImplementationOwner",
          "releaseFreezeAcknowledgmentReference"})

ProductionOperatorAssignmentRecord ==
  Review("productionOperatorAssignmentRecords",
         "holdRecord", "productionImplementationHoldRecords",
         "Ready for production implementation hold review",
         "Ready for production operator assignment review",
         {"primaryOperator", "secondaryOperator", "executionChannelReference",
          "rollbackOperator", "privilegedAccessConfirmationReference"})

ProductionExecutionReadinessRecord ==
  Review("productionExecutionReadinessRecords",
         "assignmentRecord", "productionOperatorAssignmentRecords",
         "Ready for production operator assignment review",
         "Ready for production execution readiness review",
         {"executionOwner", "preExecutionChecklistReference",
          "rollbackBridgeReference", "monitoringObserver",
          "implementationTimerReference"})

ProductionExecutionAuthorizationRecord ==
  Review("productionExecutionAuthorizationRecords",
         "readinessRecord", "productionExecutionReadinessRecords",
         "Ready for production execution readiness review",
         "Ready for production execution authorization review",
         {"authorizationAuthority", "rollbackBridgeConfirmationReference",
          "monitoringBridgeConfirmationReference", "emergencyStopAuthority",
          "finalGoNoGoDecision"})

ProductionChangeTicketLockRecord ==
  Review("productionChangeTicketLockRecords",
         "authorizationRecord", "productionExecutionAuthorizationRecords",
         "Ready for production execution authorization review",
         "Ready for production change ticket lock review",
         {"changeTicketLockReference", "releaseWindowLockReference",
          "approverRosterLockReference", "rollbackBridgeLockReference",
          "monitoringBridgeLockReference"})

ProductionFinalExecutionPacketRecord ==
  Review("productionFinalExecutionPacketRecords",
         "lockRecord", "productionChangeTicketLockRecords",
         "Ready for production change ticket lock review",
         "Ready for production final execution packet review",
         {"finalPacketManifestReference", "operatorRunSheetReference",
          "communicationsProofReference", "observationWindowReference",
          "finalRollbackStandbyConfirmation"})

ProductionExecutionHoldPointRecord ==
  Review("productionExecutionHoldPointRecords",
         "packetRecord", "productionFinalExecutionPacketRecords",
         "Ready for production final execution packet review",
         "Ready for production execution hold-point review",
         {"holdPointOwner", "finalStopGoCheckpointReference",
          "rollbackTimerCheckpointReference",
          "monitoringReadinessCheckpointReference",
          "incidentBridgeCheckpointReference"})

ProductionExecutionOutcomeAuthorizationRecord ==
  Review("productionExecutionOutcomeAuthorizationRecords",
         "holdPointRecord", "productionExecutionHoldPointRecords",
         "Ready for production execution hold-point review",
         "Ready for production execution outcome authorization review",
         {"outcomeAuthority", "expectedResultEnvelopeReference",
          "rollbackDecisionRuleReference", "incidentDeclarationRuleReference",
          "evidenceCaptureRuleReference"})

ProductionExecutionClosureAuthorizationRecord ==
  Review("productionExecutionClosureAuthorizationRecords",
         "outcomeAuthorizationRecord", "productionExecutionOutcomeAuthorizationRecords",
         "Ready for production execution outcome authorization review",
         "Ready for production execution closure authorization review",
         {"closureAuthority", "successCriteriaReference",
          "rollbackClosureCriteriaReference", "incidentClosureCriteriaReference",
          "auditCaptureConfirmationReference"})

ProductionExecutionClosurePacketRecord ==
  Review("productionExecutionClosurePacketRecords",
         "closureAuthorizationRecord", "productionExecutionClosureAuthorizationRecords",
         "Ready for production execution closure authorization review",
         "Ready for production execution closure packet review",
         {"closurePacketManifestReference", "evidenceBundleReference",
          "auditExportReference", "stakeholderNotificationProofReference",
          "retentionHandoffConfirmationReference"})

ProductionExecutionArchivalHandoffRecord ==
  Review("productionExecutionArchivalHandoffRecords",
         "closurePacketRecord", "productionExecutionClosurePacketRecords",
         "Ready for production execution closure packet review",
         "Ready for production execution archival handoff review",
         {"archiveOwner", "retentionPolicyReference",
          "immutableStorageProofReference", "auditIndexReference",
          "retrievalTestReference"})

ProductionExecutionRetentionAttestationRecord ==
  Review("productionExecutionRetentionAttestationRecords",
         "archivalHandoffRecord", "productionExecutionArchivalHandoffRecords",
         "Ready for production execution archival handoff review",
         "Ready for production execution retention attestation review",
         {"retentionOwner", "retentionScheduleProofReference",
          "legalHoldCheckReference", "deletionExceptionRegisterReference",
          "retrievalSlaProofReference"})

ProductionExecutionFinalArchiveCertificationRecord ==
  Review("productionExecutionFinalArchiveCertificationRecords",
         "retentionAttestationRecord", "productionExecutionRetentionAttestationRecords",
         "Ready for production execution retention attestation review",
         "Ready for production execution final archive certification review",
         {"certificationOwner", "finalArchiveManifestReference",
          "retentionLockProofReference", "complianceSignOffReference",
          "retrievalWitnessProofReference"})

ProductionExecutionCompletionDossierRecord ==
  Review("productionExecutionCompletionDossierRecords",
         "finalArchiveCertificationRecord", "productionExecutionFinalArchiveCertificationRecords",
         "Ready for production execution final archive certification review",
         "Ready for production execution completion dossier review",
         {"dossierOwner", "finalEvidenceIndexReference", "auditExportReference",
          "operationsAcceptanceReference", "complianceClosureProofReference"})

ProductionExecutionOperationsHandoverRecord ==
  Review("productionExecutionOperationsHandoverRecords",
         "completionDossierRecord", "productionExecutionCompletionDossierRecords",
         "Ready for production execution completion dossier review",
         "Ready for production execution operations handover review",
         {"operationsOwner", "supportModelReference",
          "monitoringHandoverProofReference", "escalationRouteReference",
          "serviceDeskAcceptanceReference"})

ProductionExecutionSupportReadinessRecord ==
  Review("productionExecutionSupportReadinessRecords",
         "operationsHandoverRecord", "productionExecutionOperationsHandoverRecords",
         "Ready for production execution operations handover review",
         "Ready for production execution support readiness review",
         {"supportOwner", "runbookAcceptanceReference", "alertRoutingProofReference",
          "incidentProcessReference", "knowledgeBasePublicationReference"})

ProductionExecutionServiceAcceptanceRecord ==
  Review("productionExecutionServiceAcceptanceRecords",
         "supportReadinessRecord", "productionExecutionSupportReadinessRecords",
         "Ready for production execution support readiness review",
         "Ready for production execution service acceptance review",
         {"serviceOwner", "acceptanceCriteriaReference", "operationalSloReference",
          "supportSignOffReference", "finalCustomerNotificationReference"})

ProductionExecutionFinalTurnoverRecord ==
  Review("productionExecutionFinalTurnoverRecords",
         "serviceAcceptanceRecord", "productionExecutionServiceAcceptanceRecords",
         "Ready for production execution service acceptance review",
         "Ready for production execution final turnover review",
         {"turnoverOwner", "finalServiceCatalogReference",
          "ownershipTransferProofReference", "executiveClosureNoteReference",
          "postImplementationReviewScheduleReference"})

ProductionExecutionOperationalClosureRecord ==
  Review("productionExecutionOperationalClosureRecords",
         "finalTurnoverRecord", "productionExecutionFinalTurnoverRecords",
         "Ready for production execution final turnover review",
         "Ready for production execution operational closure review",
         {"closureOwner", "steadyStateOperatingModelReference",
          "sloReviewProofReference", "supportBacklogHandoffReference",
          "residualRiskAcceptanceReference"})

ProductionExecutionPostImplementationReviewRecord ==
  Review("productionExecutionPostImplementationReviewRecords",
         "operationalClosureRecord", "productionExecutionOperationalClosureRecords",
         "Ready for production execution operational closure review",
         "Ready for production execution post-implementation review",
         {"reviewOwner", "pirMinutesReference", "incidentReviewProofReference",
          "costVarianceReviewReference", "improvementBacklogReference"})

ProductionExecutionImprovementClosureRecord ==
  Review("productionExecutionImprovementClosureRecords",
         "postImplementationReviewRecord", "productionExecutionPostImplementationReviewRecords",
         "Ready for production execution post-implementation review",
         "Ready for production execution improvement closure review",
         {"improvementOwner", "actionRegisterReference",
          "acceptedDeferralsReference", "lessonsLearnedPublicationReference",
          "nextCycleOwner"})

ProductionExecutionFinalAcceptanceArchiveRecord ==
  Review("productionExecutionFinalAcceptanceArchiveRecords",
         "improvementClosureRecord", "productionExecutionImprovementClosureRecords",
         "Ready for production execution improvement closure review",
         "Ready for production execution final acceptance archive review",
         {"archiveOwner", "acceptanceArchiveIndexReference",
          "finalEvidenceChecksumReference", "stakeholderReceiptProofReference",
          "retrievalOwner"})

ProductionExecutionReadinessArchiveHandoffRecord ==
  Review("productionExecutionReadinessArchiveHandoffRecords",
         "finalAcceptanceArchiveRecord", "productionExecutionFinalAcceptanceArchiveRecords",
         "Ready for production execution final acceptance archive review",
         "Ready for production execution readiness archive handoff review",
         {"handoffOwner", "archiveRepositoryReference", "retrievalRunbookReference",
          "archiveAccessReviewReference", "archiveCustodyReceiptReference"})

ProductionExecutionArchiveRetrievalValidationRecord ==
  Review("productionExecutionArchiveRetrievalValidationRecords",
         "readinessArchiveHandoffRecord", "productionExecutionReadinessArchiveHandoffRecords",
         "Ready for production execution readiness archive handoff review",
         "Ready for production execution archive retrieval validation review",
         {"retrievalOperator", "sampleRetrievalProofReference",
          "checksumVerificationReference", "accessAuditReference",
          "recoverySlaWitnessReference"})

ProductionExecutionArchiveRecoveryDrillRecord ==
  Review("productionExecutionArchiveRecoveryDrillRecords",
         "archiveRetrievalValidationRecord", "productionExecutionArchiveRetrievalValidationRecords",
         "Ready for production execution archive retrieval validation review",
         "Ready for production execution archive recovery drill review",
         {"drillOwner", "recoveryScenarioReference", "elapsedRecoveryProofReference",
          "restoredArtifactReviewReference", "drillSignOffReference"})

ProductionExecutionArchiveRecoveryAcceptanceRecord ==
  Review("productionExecutionArchiveRecoveryAcceptanceRecords",
         "archiveRecoveryDrillRecord", "productionExecutionArchiveRecoveryDrillRecords",
         "Ready for production execution archive recovery drill review",
         "Ready for production execution archive recovery acceptance review",
         {"acceptanceOwner", "recoveryEvidencePacketReference",
          "rtoRpoVarianceReviewReference", "residualRecoveryRiskRegisterReference",
          "acceptanceSignOffReference"})

ProductionExecutionArchiveRecoveryClosureRecord ==
  Review("productionExecutionArchiveRecoveryClosureRecords",
         "archiveRecoveryAcceptanceRecord", "productionExecutionArchiveRecoveryAcceptanceRecords",
         "Ready for production execution archive recovery acceptance review",
         "Ready for production execution archive recovery closure review",
         {"closureOwner", "recoveryClosurePacketReference",
          "followUpActionRegisterReference", "stakeholderClosureNoticeReference",
          "archiveRecoveryClosureSignOffReference"})

ProductionExecutionArchiveRecoveryAuditCertificationRecord ==
  Review("productionExecutionArchiveRecoveryAuditCertificationRecords",
         "archiveRecoveryClosureRecord", "productionExecutionArchiveRecoveryClosureRecords",
         "Ready for production execution archive recovery closure review",
         "Ready for production execution archive recovery audit certification review",
         {"certificationOwner", "auditEvidenceManifestReference",
          "controlMappingReviewReference", "exceptionDispositionReference",
          "auditCertificationSignOffReference"})

ProductionExecutionArchiveRecoveryFinalComplianceArchiveRecord ==
  Review("productionExecutionArchiveRecoveryFinalComplianceArchiveRecords",
         "auditCertificationRecord", "productionExecutionArchiveRecoveryAuditCertificationRecords",
         "Ready for production execution archive recovery audit certification review",
         "Ready for production execution archive recovery final compliance archive review",
         {"complianceArchiveOwner", "finalComplianceArchiveIndexReference",
          "evidenceRetentionProofReference", "auditWitnessReceiptReference",
          "finalComplianceArchiveSignOffReference"})

ProductionExecutionArchiveRecoveryEvidenceCustodyClosureRecord ==
  Review("productionExecutionArchiveRecoveryEvidenceCustodyClosureRecords",
         "finalComplianceArchiveRecord", "productionExecutionArchiveRecoveryFinalComplianceArchiveRecords",
         "Ready for production execution archive recovery final compliance archive review",
         "Ready for production execution archive recovery evidence custody closure review",
         {"custodyOwner", "finalCustodyLedgerReference",
          "evidenceTransferReceiptReference", "retentionLockConfirmationReference",
          "custodyClosureSignOffReference"})

ProductionExecutionArchiveRecoveryOperationalContinuityRecord ==
  Review("productionExecutionArchiveRecoveryOperationalContinuityRecords",
         "evidenceCustodyClosureRecord", "productionExecutionArchiveRecoveryEvidenceCustodyClosureRecords",
         "Ready for production execution archive recovery evidence custody closure review",
         "Ready for production execution archive recovery operational continuity review",
         {"continuityOwner", "runbookUpdateReference", "kpiBaselineReference",
          "supportHandoffReference", "continuitySignOffReference"})

ProductionExecutionArchiveRecoveryServiceManagementHandoffRecord ==
  Review("productionExecutionArchiveRecoveryServiceManagementHandoffRecords",
         "operationalContinuityRecord", "productionExecutionArchiveRecoveryOperationalContinuityRecords",
         "Ready for production execution archive recovery operational continuity review",
         "Ready for production execution archive recovery service management handoff review",
         {"serviceOwner", "supportQueueMappingReference",
          "knowledgeArticleReference", "escalationMatrixReference",
          "serviceManagementHandoffSignOffReference"})

ProductionExecutionArchiveRecoverySupportOwnershipAcceptanceRecord ==
  Review("productionExecutionArchiveRecoverySupportOwnershipAcceptanceRecords",
         "serviceManagementHandoffRecord", "productionExecutionArchiveRecoveryServiceManagementHandoffRecords",
         "Ready for production execution archive recovery service management handoff review",
         "Ready for production execution archive recovery support ownership acceptance review",
         {"supportOwner", "serviceDeskAcceptanceReference",
          "escalationTestProofReference", "monitoringOwnershipProofReference",
          "supportOwnershipSignOffReference"})

ProductionExecutionArchiveRecoveryMonitoringOwnershipClosureRecord ==
  Review("productionExecutionArchiveRecoveryMonitoringOwnershipClosureRecords",
         "supportOwnershipAcceptanceRecord", "productionExecutionArchiveRecoverySupportOwnershipAcceptanceRecords",
         "Ready for production execution archive recovery support ownership acceptance review",
         "Ready for production execution archive recovery monitoring ownership closure review",
         {"monitoringOwner", "alertOwnershipTransferReference",
          "dashboardAcceptanceReference", "escalationMonitoringValidationReference",
          "monitoringOwnershipClosureSignOffReference"})

ProductionExecutionArchiveRecoveryFinalOperationsHandoffRecord ==
  Review("productionExecutionArchiveRecoveryFinalOperationsHandoffRecords",
         "monitoringOwnershipClosureRecord", "productionExecutionArchiveRecoveryMonitoringOwnershipClosureRecords",
         "Ready for production execution archive recovery monitoring ownership closure review",
         "Ready for production execution archive recovery final operations handoff review",
         {"finalOperationsOwner", "runbookPublicationReference",
          "onCallScheduleHandoffReference", "monitoringClosureAcceptanceReference",
          "operationsHandoffSignOffReference"})

ProductionChain ==
  <<ProductionAdapterAuthorizationPacket, ProductionChangeFreezeRecord,
    ProductionCabHandoffPacket, ProductionCabDecisionRecord,
    ProductionImplementationHoldRecord, ProductionOperatorAssignmentRecord,
    ProductionExecutionReadinessRecord, ProductionExecutionAuthorizationRecord,
    ProductionChangeTicketLockRecord, ProductionFinalExecutionPacketRecord,
    ProductionExecutionHoldPointRecord,
    ProductionExecutionOutcomeAuthorizationRecord,
    ProductionExecutionClosureAuthorizationRecord,
    ProductionExecutionClosurePacketRecord, ProductionExecutionArchivalHandoffRecord,
    ProductionExecutionRetentionAttestationRecord,
    ProductionExecutionFinalArchiveCertificationRecord,
    ProductionExecutionCompletionDossierRecord,
    ProductionExecutionOperationsHandoverRecord,
    ProductionExecutionSupportReadinessRecord,
    ProductionExecutionServiceAcceptanceRecord,
    ProductionExecutionFinalTurnoverRecord,
    ProductionExecutionOperationalClosureRecord,
    ProductionExecutionPostImplementationReviewRecord,
    ProductionExecutionImprovementClosureRecord,
    ProductionExecutionFinalAcceptanceArchiveRecord,
    ProductionExecutionReadinessArchiveHandoffRecord,
    ProductionExecutionArchiveRetrievalValidationRecord,
    ProductionExecutionArchiveRecoveryDrillRecord,
    ProductionExecutionArchiveRecoveryAcceptanceRecord,
    ProductionExecutionArchiveRecoveryClosureRecord,
    ProductionExecutionArchiveRecoveryAuditCertificationRecord,
    ProductionExecutionArchiveRecoveryFinalComplianceArchiveRecord,
    ProductionExecutionArchiveRecoveryEvidenceCustodyClosureRecord,
    ProductionExecutionArchiveRecoveryOperationalContinuityRecord,
    ProductionExecutionArchiveRecoveryServiceManagementHandoffRecord,
    ProductionExecutionArchiveRecoverySupportOwnershipAcceptanceRecord,
    ProductionExecutionArchiveRecoveryMonitoringOwnershipClosureRecord,
    ProductionExecutionArchiveRecoveryFinalOperationsHandoffRecord>>
=============================================================================
