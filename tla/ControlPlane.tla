---------------------------- MODULE ControlPlane ----------------------------
(***************************************************************************)
(* The control plane as its authors describe it: one request at a time is   *)
(* served against the current state.  One action per mutating route of      *)
(* apiServer.ts; a request a handler rejects (404, 400) changes nothing and *)
(* is a stuttering step.  The worker that advances and fails jobs and the    *)
(* operators that retry, approve or destroy are all callers of the API: no   *)
(* scheduler in the code makes a job progress, so no fairness is assumed.    *)
(***************************************************************************)
EXTENDS ControlPlaneState

VARIABLE portal

vars == portal

(* The portal keeps the shapes of ApiState: enumerated statuses and states,    *)
(* an environment's status never a job's (controlPlane.ts:123).                *)
TypeOK == portal \in Portal

Init == portal = DefaultPortal

(* POST /api/environments *)
Create(n, approvalRequired) ==
  portal' = CreateEnvironmentRequest(portal, n, approvalRequired)

(* POST /api/environments/:name/destroy *)
Destroy(n) ==
  /\ EnvironmentExists(portal, n)
  /\ portal' = RequestEnvironmentDestroy(portal, n)

(* POST /api/approvals/:id/(approve|reject): the id is `approval-${name}`. *)
Decide(n, decision) ==
  /\ ApprovalExists(portal, n)
  /\ portal' = DecideApproval(portal, n, decision)

(* POST /api/control-plane/jobs/:id/advance *)
Advance(j) ==
  /\ JobExists(portal, j)
  /\ portal' = AdvanceControlPlaneJob(portal, j)

(* POST /api/control-plane/jobs/:id/retry, RetryBound times per job *)
Retry(j) ==
  /\ JobExists(portal, j)
  /\ portal.jobs[j].retries < RetryBound
  /\ portal' = RetryControlPlaneJob(portal, j)

(* POST /api/control-plane/jobs/:id/fail *)
Fail(j) ==
  /\ JobExists(portal, j)
  /\ portal' = FailControlPlaneJob(portal, j)

Next ==
  \/ \E n \in Environments, approvalRequired \in BOOLEAN : Create(n, approvalRequired)
  \/ \E n \in Environments : Destroy(n)
  \/ \E n \in Environments, decision \in {"Approved", "Rejected"} : Decide(n, decision)
  \/ \E j \in JobIds : Advance(j)
  \/ \E j \in JobIds : Retry(j)
  \/ \E j \in JobIds : Fail(j)

Spec == Init /\ [][Next]_vars

-----------------------------------------------------------------------------
(* A job is paused only while its request is undecided or refused.            *)
(* releaseApprovalPausedJobs (controlPlane.ts:222) finds it by its environment. *)
PausedJobsUndecidedInv == PausedJobsUndecided(portal)

(* "Needs approval" and an open approval go together: decideApproval and       *)
(* createEnvironmentRequest (mockPlatform.ts) never change one and not the other. *)
NeedsApprovalIsOpenInv == NeedsApprovalIsOpen(portal)

(* Attempts are counted once per entry to Provisioning and paid by retries     *)
(* (transitionJob, controlPlane.ts:277).                                       *)
AttemptsAccountedForInv == AttemptsAccountedFor(portal)

(* Only a retry carries a job past an undecided approval.                      *)
GatedUntilDecidedInv == GatedUntilDecided(portal)

(* Only a retry makes a teardown job do anything but tear down.                *)
UnretriedTeardownsTearDownInv == UnretriedTeardownsTearDown(portal)

(* api.md:223: the destroy endpoint "marks the mock environment as             *)
(* `Destroying`, queues a control-plane teardown job": an environment in       *)
(* Destroying has that job.  It holds while NoSharedJobId does.                *)
DestroyingHasTeardownJob == TeardownTracked(portal)
=============================================================================
