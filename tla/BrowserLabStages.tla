-------------------------- MODULE BrowserLabStages --------------------------
(***************************************************************************)
(* The lab stages in the browser's offline mode (App.tsx).  A click takes    *)
(* the newest record on the screen; the sign-offs, decisions and evidence    *)
(* the server asks for are left pending, so the stages that ask for them     *)
(* never pass offline.                                                       *)
(***************************************************************************)
EXTENDS EvidenceRows

ClickedExport(list, link, parents) ==
  [Export(list, link, parents) EXCEPT
     !.links = link :> Link(parents, "newest", {}, "refused")]

MockProviderReleaseGateRecord ==
  [Row("providerReleaseGateRecords", "Ready for release review", <<>>) EXCEPT
     !.facts = {"activeScopeCovers", "credentialApproved", "lifecycleProofVerified",
                "adapterEnablementReady", "contractReady", "preflightReady",
                "auditExported"}]

MockReleaseEvidenceExportRecord ==
  ClickedExport("releaseEvidenceExports", "gate", "providerReleaseGateRecords")

MockControlledLabReleaseRunbookRecord ==
  [Row("controlledLabReleaseRunbooks", "Ready for controlled lab release review",
       "gate" :> Link("providerReleaseGateRecords", "provider",
                      {"Ready for release review"}, "blocked")) EXCEPT
     !.asked = {"platformOwnerSigned", "securityReviewerSigned", "rollbackOwnerSigned",
                "labOwnerSigned"}]

(* The provider is the newest runbook's. *)
MockControlledLabDryRunWindowRecord ==
  [Row("controlledLabDryRunWindows", "Ready for scheduling review",
       "runbook" :> Link("controlledLabReleaseRunbooks", "newest",
                         {"Ready for controlled lab release review"}, "blocked") @@
       "releaseExport" :> Link("releaseEvidenceExports", "provider", {}, "blocked"))
   EXCEPT
     !.lends = "emergencyStopContacts" :> <<"runbook", "escalationContacts">>,
     !.facts = {"scopeApproved", "auditExported"}]

MockLabWindowEvidenceExportRecord ==
  ClickedExport("labWindowEvidenceExports", "window", "controlledLabDryRunWindows")

MockLabEvidenceReviewRecord ==
  [Row("labEvidenceReviews", "Accepted",
       "export" :> Link("labWindowEvidenceExports", "newest", {}, "refused") @@
       "window" :> Copied("controlledLabDryRunWindows", "export", "window"))
   EXCEPT
     !.owner = "export",
     !.asked = {"platformOwnerDecision", "securityReviewerDecision",
                "operationsReviewerDecision"}]

MockLabExecutionProposalEnvelope ==
  [Row("labExecutionProposalEnvelopes", "Ready for proposal review",
       "review" :> Link("labEvidenceReviews", "newest", {"Accepted"}, "refused") @@
       "export" :> Through("labWindowEvidenceExports", "review", "export", {}) @@
       "window" :> Through("controlledLabDryRunWindows", "review", "window", {}) @@
       "runbook" :> Through("controlledLabReleaseRunbooks", "window", "runbook", {}))
   EXCEPT
     !.owner = "review",
     !.heeds = {<<"window", "emergencyStopContacts">>},
     !.facts = {"scopeApproved", "auditExported"}]

MockLabExecutionProposalExportRecord ==
  LET export == ClickedExport("labExecutionProposalExports", "envelope",
                              "labExecutionProposalEnvelopes") IN
  [export EXCEPT
     !.links = @ @@
       "review" :> Copied("labEvidenceReviews", "envelope", "review") @@
       "window" :> Copied("controlledLabDryRunWindows", "envelope", "window")]

MockControlledLabExecutionApproval ==
  [Row("controlledLabExecutionApprovals", "Approved for controlled lab execution review",
       "proposalExport" :> Link("labExecutionProposalExports", "newest",
                                {"Ready for proposal review"}, "refused") @@
       "envelope" :> Copied("labExecutionProposalEnvelopes", "proposalExport", "envelope"))
   EXCEPT
     !.owner = "proposalExport",
     !.asked = {"platformOwner", "securityReviewer", "labOwner", "rollbackOwner",
                "executiveSponsor"}]

MockControlledLabExecutionRehearsalPacket ==
  [Row("controlledLabExecutionRehearsalPackets", "Ready for rehearsal review",
       "approvalGate" :> Link("controlledLabExecutionApprovals", "newest",
                              {"Approved for controlled lab execution review"}, "refused") @@
       "proposalExport" :> Through("labExecutionProposalExports", "approvalGate",
                                   "proposalExport", {}) @@
       "envelope" :> Through("labExecutionProposalEnvelopes", "approvalGate", "envelope", {}) @@
       "window" :> Copied("controlledLabDryRunWindows", "envelope", "window") @@
       "runbook" :> Through("controlledLabReleaseRunbooks", "window", "runbook", {}))
   EXCEPT
     !.owner = "approvalGate",
     !.heeds = {<<"window", "emergencyStopContacts">>, <<"runbook", "stopConditions">>},
     !.facts = {"auditExported"}]

MockControlledLabDryRunExecutionChecklist ==
  Click("controlledLabDryRunExecutionChecklists",
        "packet", "controlledLabExecutionRehearsalPackets", "Ready for rehearsal review",
        "Ready for dry-run review")

MockControlledLabExecutionEvidenceLedger ==
  [Click("controlledLabExecutionEvidenceLedgers",
         "checklist", "controlledLabDryRunExecutionChecklists", "Ready for dry-run review",
         "Ready for evidence review")
   EXCEPT
     !.lends = "logEvidence" :> <<"checklist", "logCaptureReferences">>,
     !.heeds = {<<"checklist", "stopAuthority">>}]

MockControlledLabExecutionReadinessAttestation ==
  Click("controlledLabExecutionReadinessAttestations",
        "ledger", "controlledLabExecutionEvidenceLedgers", "Ready for evidence review",
        "Ready for execution review")

(* The key is made of the attestation's id; the duplicates are looked for on the *)
(* screen.                                                                       *)
MockExecutionBrokerQueueRecord ==
  [Click("executionBrokerQueueRecords",
         "attestation", "controlledLabExecutionReadinessAttestations",
         "Ready for execution review", "Queued for operator review")
   EXCEPT !.keyed = TRUE]

MockExecutionBrokerDispatchApproval ==
  Click("executionBrokerDispatchApprovals",
        "brokerRecord", "executionBrokerQueueRecords", "Queued for operator review",
        "Ready for authorized lab dispatch review")

BrowserLabChain ==
  <<MockProviderReleaseGateRecord, MockReleaseEvidenceExportRecord,
    MockControlledLabReleaseRunbookRecord, MockControlledLabDryRunWindowRecord,
    MockLabWindowEvidenceExportRecord, MockLabEvidenceReviewRecord,
    MockLabExecutionProposalEnvelope, MockLabExecutionProposalExportRecord,
    MockControlledLabExecutionApproval, MockControlledLabExecutionRehearsalPacket,
    MockControlledLabDryRunExecutionChecklist, MockControlledLabExecutionEvidenceLedger,
    MockControlledLabExecutionReadinessAttestation, MockExecutionBrokerQueueRecord,
    MockExecutionBrokerDispatchApproval>>
=============================================================================
