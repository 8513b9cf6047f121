----------------------------- MODULE LabStages -----------------------------
(***************************************************************************)
(* From a provider's release gate to the dispatch approval of the execution  *)
(* broker.  The first stages take their provider from the request, the later *)
(* ones from the record they review.                                         *)
(***************************************************************************)
EXTENDS EvidenceRows

(* Facts: the lab scope on file, the provider's credential, proof, enablement, *)
(* contract and preflight records, the audit exports and the kill switch.      *)
ProviderReleaseGateRecord ==
  [Row("providerReleaseGateRecords", "Ready for release review", <<>>) EXCEPT
     !.facts = {"activeScopeCovers", "credentialApproved", "lifecycleProofVerified",
                "adapterEnablementReady", "contractReady", "preflightReady",
                "auditExported", "auditDestinationValid", "switchOff"}]

ReleaseEvidenceExportRecord ==
  Export("releaseEvidenceExports", "gate", "providerReleaseGateRecords")

ControlledLabReleaseRunbookRecord ==
  [Row("controlledLabReleaseRunbooks", "Ready for controlled lab release review",
       "gate" :> Link("providerReleaseGateRecords", "provider",
                      {"Ready for release review"}, "blocked")) EXCEPT
     !.asked = {"platformOwnerEvidence", "securityReviewerEvidence",
                "rollbackOwnerEvidence", "labOwnerEvidence"},
     !.inputs = {"stopConditions", "escalationContacts"}]

(* Neither the runbook nor the export is compared with the window's provider. *)
ControlledLabDryRunWindowRecord ==
  [Row("controlledLabDryRunWindows", "Ready for scheduling review",
       "runbook" :> Link("controlledLabReleaseRunbooks", "id else provider",
                         {"Ready for controlled lab release review"}, "blocked") @@
       "releaseExport" :> Link("releaseEvidenceExports", "id else provider", {}, "blocked"))
   EXCEPT
     !.inputs = {"emergencyStopContacts", "windowTiming"},
     !.lends = "emergencyStopContacts" :> <<"runbook", "escalationContacts">>,
     !.facts = {"scopeApproved", "auditExported", "auditDestinationValid"}]

LabWindowEvidenceExportRecord ==
  Export("labWindowEvidenceExports", "window", "controlledLabDryRunWindows")

LabEvidenceReviewRecord ==
  [Row("labEvidenceReviews", "Accepted",
       "export" :> Parent("labWindowEvidenceExports", {}) @@
       "window" :> Copied("controlledLabDryRunWindows", "export", "window"))
   EXCEPT
     !.owner = "export",
     !.asked = {"platformOwnerDecision", "securityReviewerDecision",
                "operationsReviewerDecision", "platformOwnerEvidence",
                "securityReviewerEvidence", "operationsReviewerEvidence"},
     !.rejects = "at once"]

(* The window and its runbook need only be on file, whatever their status. *)
LabExecutionProposalEnvelope ==
  [Row("labExecutionProposalEnvelopes", "Ready for proposal review",
       "review" :> Parent("labEvidenceReviews", {"Accepted"}) @@
       "export" :> Through("labWindowEvidenceExports", "review", "export", {}) @@
       "window" :> Through("controlledLabDryRunWindows", "review", "window", {}) @@
       "runbook" :> Through("controlledLabReleaseRunbooks", "window", "runbook", {}))
   EXCEPT
     !.owner = "review",
     !.heeds = {<<"window", "emergencyStopContacts">>},
     !.facts = {"scopeApproved", "auditExported", "auditDestinationValid", "switchOff"}]

LabExecutionProposalExportRecord ==
  [Export("labExecutionProposalExports", "envelope", "labExecutionProposalEnvelopes")
   EXCEPT
     !.links = @ @@
       "review" :> Copied("labEvidenceReviews", "envelope", "review") @@
       "window" :> Copied("controlledLabDryRunWindows", "envelope", "window")]

ControlledLabExecutionApprovalGate ==
  [Row("controlledLabExecutionApprovals", "Approved for controlled lab execution review",
       "proposalExport" :> Parent("labExecutionProposalExports", {"Ready for proposal review"}) @@
       "envelope" :> Copied("labExecutionProposalEnvelopes", "proposalExport", "envelope"))
   EXCEPT
     !.owner = "proposalExport",
     !.asked = {"platformOwner", "securityReviewer", "operationsReviewer",
                "rollbackOwner", "executiveSponsor"}]

ControlledLabExecutionRehearsalPacket ==
  [Row("controlledLabExecutionRehearsalPackets", "Ready for rehearsal review",
       "approvalGate" :> Parent("controlledLabExecutionApprovals",
                                {"Approved for controlled lab execution review"}) @@
       "proposalExport" :> Through("labExecutionProposalExports", "approvalGate",
                                   "proposalExport", {}) @@
       "envelope" :> Through("labExecutionProposalEnvelopes", "approvalGate", "envelope", {}) @@
       "window" :> Copied("controlledLabDryRunWindows", "envelope", "window") @@
       "runbook" :> Through("controlledLabReleaseRunbooks", "window", "runbook", {}))
   EXCEPT
     !.owner = "approvalGate",
     !.heeds = {<<"window", "emergencyStopContacts">>, <<"runbook", "stopConditions">>},
     !.facts = {"auditExported"}]

ControlledLabDryRunExecutionChecklist ==
  Review("controlledLabDryRunExecutionChecklists",
         "packet", "controlledLabExecutionRehearsalPackets", "Ready for rehearsal review",
         "Ready for dry-run review",
         {"operatorRoster", "scheduledEnd", "logCaptureReferences",
          "rollbackTimerMinutes", "stopAuthority"})

ControlledLabExecutionEvidenceLedger ==
  [Review("controlledLabExecutionEvidenceLedgers",
          "checklist", "controlledLabDryRunExecutionChecklists", "Ready for dry-run review",
          "Ready for evidence review",
          {"operatorEvidence", "observerEvidence", "rollbackEvidence", "logEvidence",
           "auditEvidence", "stopAuthorityEvidence"})
   EXCEPT
     !.lends = "logEvidence" :> <<"checklist", "logCaptureReferences">>,
     !.heeds = {<<"checklist", "stopAuthority">>}]

ControlledLabExecutionReadinessAttestation ==
  Review("controlledLabExecutionReadinessAttestations",
         "ledger", "controlledLabExecutionEvidenceLedgers", "Ready for evidence review",
         "Ready for execution review",
         {"platformOwner", "securityReviewer", "operationsReviewer", "rollbackOwner",
          "executiveSponsor"})

(* The key is compared with every record of the queue, blocked ones included. *)
ExecutionBrokerQueueRecord ==
  [Review("executionBrokerQueueRecords",
          "attestation", "controlledLabExecutionReadinessAttestations",
          "Ready for execution review", "Queued for operator review",
          {"approvalEvidenceLinks"})
   EXCEPT !.keyed = TRUE]

ExecutionBrokerDispatchApproval ==
  Review("executionBrokerDispatchApprovals",
         "brokerRecord", "executionBrokerQueueRecords", "Queued for operator review",
         "Ready for authorized lab dispatch review",
         {"operatorApprover", "rollbackProofReference", "pentestEvidenceReference",
          "dispatchWindowReference"})

LabChain ==
  <<ProviderReleaseGateRecord, ReleaseEvidenceExportRecord,
    ControlledLabReleaseRunbookRecord, ControlledLabDryRunWindowRecord,
    LabWindowEvidenceExportRecord, LabEvidenceReviewRecord,
    LabExecutionProposalEnvelope, LabExecutionProposalExportRecord,
    ControlledLabExecutionApprovalGate, ControlledLabExecutionRehearsalPacket,
    ControlledLabDryRunExecutionChecklist, ControlledLabExecutionEvidenceLedger,
    ControlledLabExecutionReadinessAttestation, ExecutionBrokerQueueRecord,
    ExecutionBrokerDispatchApproval>>
=============================================================================
