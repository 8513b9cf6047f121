------------------------- MODULE ControlPlaneState -------------------------
(***************************************************************************)
(* The part of ApiState the control plane reads and writes, and the pure   *)
(* functions of controlPlane.ts and mockPlatform.ts that rewrite it.  Every *)
(* handler takes a whole state and returns a whole state, as the code's     *)
(* handlers do with the object they got from store.load(): ControlPlane     *)
(* applies them one at a time, ApiServer applies them to snapshots.         *)
(*                                                                         *)
(* Abstracted: owner, region, cost, timestamps, transition messages, the    *)
(* adapter job list and the mock Prism evidence record (nothing here reads  *)
(* them back).  A template and its targets are kept as the one bit they     *)
(* decide: whether the request needs approval.                              *)
(***************************************************************************)
EXTENDS Naturals

CONSTANTS
  Environments,     (* environment names a request may carry               *)
  JobIds,           (* identifiers of control-plane jobs                   *)
  provisionJobId,   (* the template literal `cp-${name}`                   *)
  destroyJobId,     (* the template literal `cp-destroy-${name}`           *)
  SeedStatus,       (* initialEnvironments: the seeded status of each name *)
  NoJob,            (* stands for "no job has this id"                     *)
  RetryBound        (* bounds the retries of a job, which the code does not *)

(* The two template literals are functions of the name and each is          *)
(* injective; nothing keeps their ranges apart (see NoSharedJobId).         *)
ASSUME JobIdsAssumption ==
  /\ provisionJobId \in [Environments -> JobIds]
  /\ destroyJobId \in [Environments -> JobIds]
  /\ \A m, n \in Environments :
       m # n => /\ provisionJobId[m] # provisionJobId[n]
                /\ destroyJobId[m] # destroyJobId[n]

ASSUME SeedAssumption ==
  SeedStatus \in [Environments -> {"Absent", "Ready", "Needs approval", "Provisioning"}]

ASSUME BoundAssumption == RetryBound \in Nat

EnvironmentStatus ==
  {"Ready", "Provisioning", "Needs approval", "Failed", "Destroying", "Destroyed"}

ControlPlaneJobState ==
  {"Queued", "Validating", "AwaitingApproval", "Provisioning", "Ready",
   "Failed", "Expired", "Destroying", "Destroyed"}

ApprovalStatus == {"Pending", "Approved", "Rejected"}

(* retries counts the "Retry requested" entries of the job's transitions[],  *)
(* the only part of that history anything below depends on.                 *)
ControlPlaneJob ==
  [environment : Environments, operation : {"Provision", "Destroy"},
   state : ControlPlaneJobState, attempts : Nat, retries : Nat]

ASSUME NoJobAssumption == NoJob \notin ControlPlaneJob

Portal ==
  [environments : [Environments -> EnvironmentStatus \cup {"Absent"}],
   approvals : [Environments -> ApprovalStatus \cup {"None"}],
   jobs : [JobIds -> ControlPlaneJob \cup {NoJob}]]

(* createDefaultState: seeded environments, one pending approval for each   *)
(* seed that needs one, and no control-plane job for any of them.           *)
DefaultPortal ==
  [environments |-> SeedStatus,
   approvals |-> [n \in Environments |->
                    IF SeedStatus[n] = "Needs approval" THEN "Pending" ELSE "None"],
   jobs |-> [j \in JobIds |-> NoJob]]

-----------------------------------------------------------------------------
(* controlPlane.ts *)

NewJob(n, operation, jobState) ==
  [environment |-> n, operation |-> operation, state |-> jobState,
   attempts |-> 0, retries |-> 0]

(* A job with the same id is dropped first: filter(item => item.id !== id). *)
EnqueueControlPlaneJob(jobs, n, approvalRequired) ==
  [jobs EXCEPT ![provisionJobId[n]] =
     NewJob(n, "Provision", IF approvalRequired THEN "AwaitingApproval" ELSE "Queued")]

(* Mutant: the teardown is queued like a provision job. *)
EnqueueDestroyQueued(jobs, n) ==
  [jobs EXCEPT ![destroyJobId[n]] = NewJob(n, "Destroy", "Queued")]

EnqueueDestroyControlPlaneJob(jobs, n) ==
  [jobs EXCEPT ![destroyJobId[n]] = NewJob(n, "Destroy", "Destroying")]

(* Mutant: a worker moves a paused job on. *)
NextIgnoringApproval(jobState) ==
  CASE jobState \in {"Queued", "AwaitingApproval"} -> "Validating"
    [] jobState = "Validating" -> "Provisioning"
    [] jobState = "Provisioning" -> "Ready"
    [] jobState = "Destroying" -> "Destroyed"
    [] OTHER -> jobState

NextControlPlaneState(jobState) ==
  CASE jobState = "Queued" -> "Validating"
    [] jobState = "Validating" -> "Provisioning"
    [] jobState = "Provisioning" -> "Ready"
    [] jobState = "Destroying" -> "Destroyed"
    [] OTHER -> jobState

TransitionJob(job, jobState, countAttempt) ==
  [environment |-> job.environment, operation |-> job.operation, state |-> jobState,
   attempts |-> IF countAttempt THEN job.attempts + 1 ELSE job.attempts,
   retries |-> job.retries]

(* state.environments.map: a name that is not in the list stays absent. *)
WithStatus(environments, n, status) ==
  IF environments[n] = "Absent" THEN environments
                                ELSE [environments EXCEPT ![n] = status]

(* Mutant: the environment copies whatever state its job has. *)
StatusCopied(jobState) == jobState

(* What a job's new state says of its environment; "Keep" leaves it alone. *)
StatusOfJobState(jobState) ==
  CASE jobState = "Ready" -> "Ready"
    [] jobState = "Destroyed" -> "Destroyed"
    [] jobState \in {"Failed", "Expired"} -> "Failed"
    [] OTHER -> "Keep"

FollowJob(environments, job) ==
  IF StatusOfJobState(job.state) = "Keep" THEN environments
  ELSE WithStatus(environments, job.environment, StatusOfJobState(job.state))

(* Mutant: the attempt is counted one state too early. *)
AdvanceCountingEarly(s, j) ==
  LET next == NextControlPlaneState(s.jobs[j].state)
      updated == TransitionJob(s.jobs[j], next, next = "Validating")
  IN  [s EXCEPT !.jobs = [@ EXCEPT ![j] = updated],
                !.environments = FollowJob(@, updated)]

AdvanceControlPlaneJob(s, j) ==
  LET next == NextControlPlaneState(s.jobs[j].state)
      updated == TransitionJob(s.jobs[j], next, next = "Provisioning")
  IN  [s EXCEPT !.jobs = [@ EXCEPT ![j] = updated],
                !.environments = FollowJob(@, updated)]

Retried(job) ==
  [environment |-> job.environment, operation |-> job.operation, state |-> job.state,
   attempts |-> job.attempts, retries |-> job.retries + 1]

RetryControlPlaneJob(s, j) ==
  [s EXCEPT !.jobs = [@ EXCEPT ![j] = TransitionJob(Retried(s.jobs[j]), "Queued", FALSE)]]

FailControlPlaneJob(s, j) ==
  [s EXCEPT !.jobs = [@ EXCEPT ![j] = TransitionJob(s.jobs[j], "Failed", FALSE)],
            !.environments = WithStatus(@, s.jobs[j].environment, "Failed")]

(* Mutant: approval does not reach the job. *)
ReleaseNothing(jobs, n) == jobs

ReleaseApprovalPausedJobs(jobs, n) ==
  [j \in JobIds |->
     IF jobs[j] # NoJob /\ jobs[j].environment = n /\ jobs[j].state = "AwaitingApproval"
     THEN TransitionJob(jobs[j], "Queued", FALSE)
     ELSE jobs[j]]

-----------------------------------------------------------------------------
(* mockPlatform.ts *)

(* Mutant: an existing approval entry is kept when the name is requested again. *)
CreateKeepingDecision(s, n, approvalRequired) ==
  [environments |->
     [s.environments EXCEPT ![n] = IF approvalRequired THEN "Needs approval" ELSE "Provisioning"],
   jobs |-> EnqueueControlPlaneJob(s.jobs, n, approvalRequired),
   approvals |-> IF approvalRequired /\ s.approvals[n] = "None"
                 THEN [s.approvals EXCEPT ![n] = "Pending"]
                 ELSE s.approvals]

(* Mutant: an environment that is Ready stays so when it is requested again. *)
CreateKeepingReady(s, n, approvalRequired) ==
  [environments |->
     [s.environments EXCEPT ![n] = IF @ = "Ready" THEN "Ready"
                                   ELSE IF approvalRequired THEN "Needs approval"
                                   ELSE "Provisioning"],
   jobs |-> EnqueueControlPlaneJob(s.jobs, n, approvalRequired),
   approvals |-> IF approvalRequired THEN [s.approvals EXCEPT ![n] = "Pending"]
                                     ELSE s.approvals]

(* An old decision is replaced only when the new request needs one. *)
CreateEnvironmentRequest(s, n, approvalRequired) ==
  [environments |->
     [s.environments EXCEPT ![n] = IF approvalRequired THEN "Needs approval" ELSE "Provisioning"],
   jobs |-> EnqueueControlPlaneJob(s.jobs, n, approvalRequired),
   approvals |-> IF approvalRequired THEN [s.approvals EXCEPT ![n] = "Pending"]
                                     ELSE s.approvals]

DecideApproval(s, n, decision) ==
  [approvals |-> [s.approvals EXCEPT ![n] = decision],
   environments |-> WithStatus(s.environments, n,
                               IF decision = "Approved" THEN "Provisioning" ELSE "Failed"),
   jobs |-> IF decision = "Approved" THEN ReleaseApprovalPausedJobs(s.jobs, n)
                                     ELSE s.jobs]

(* Mutant: the status is written and the teardown job forgotten. *)
DestroyWithoutJob(s, n) == [s EXCEPT !.environments = WithStatus(@, n, "Destroying")]

RequestEnvironmentDestroy(s, n) ==
  [s EXCEPT !.environments = WithStatus(@, n, "Destroying"),
            !.jobs = EnqueueDestroyControlPlaneJob(@, n)]

-----------------------------------------------------------------------------
(* The look-ups whose failure makes a handler throw (404): a stuttering step. *)

EnvironmentExists(s, n) == s.environments[n] # "Absent"
ApprovalExists(s, n) == s.approvals[n] # "None"
JobExists(s, j) == s.jobs[j] # NoJob

-----------------------------------------------------------------------------
(* What every portal a handler produced has, whatever the order of requests. *)

JobOf(s, j, n) == JobExists(s, j) /\ s.jobs[j].environment = n

(* A job waits for approval only while the approval of its environment is   *)
(* open or was refused: releaseApprovalPausedJobs leaves no approved request *)
(* behind, and re-requesting an environment reopens the decision.            *)
PausedJobsUndecided(s) ==
  \A j \in JobIds :
    s.jobs[j] # NoJob /\ s.jobs[j].state = "AwaitingApproval"
      => s.approvals[s.jobs[j].environment] \in {"Pending", "Rejected"}

(* An environment that says "Needs approval" has an open approval an         *)
(* approver can decide: no handler closes the one and keeps the other.       *)
NeedsApprovalIsOpen(s) ==
  \A n \in Environments :
    s.environments[n] = "Needs approval" => s.approvals[n] = "Pending"

(* transitionJob counts an attempt exactly on entry to Provisioning: a job    *)
(* being provisioned, or provisioned, was attempted, and every attempt after  *)
(* the first was bought by a retry (maxAttempts is stored but never compared). *)
AttemptsAccountedFor(s) ==
  \A j \in JobIds : s.jobs[j] # NoJob =>
    LET job == s.jobs[j] IN
    /\ job.state \in {"Provisioning", "Ready"} => job.attempts > 0
    /\ job.attempts <= job.retries + 1
    /\ job.state \in {"Queued", "Validating", "AwaitingApproval"} => job.attempts <= job.retries

(* Unless an administrator retried it, the job of an environment that needs    *)
(* approval is still paused: no worker can carry it past the approval.         *)
GatedUntilDecided(s) ==
  \A n \in Environments :
    LET job == s.jobs[provisionJobId[n]] IN
    (/\ s.environments[n] = "Needs approval"
     /\ JobOf(s, provisionJobId[n], n)
     /\ job.operation = "Provision"
     /\ job.retries = 0)
      => job.state = "AwaitingApproval"

(* Unless an administrator retried it, a teardown job only tears down.         *)
UnretriedTeardownsTearDown(s) ==
  \A j \in JobIds :
    (s.jobs[j] # NoJob /\ s.jobs[j].operation = "Destroy" /\ s.jobs[j].retries = 0)
      => s.jobs[j].state \in {"Destroying", "Destroyed", "Failed"}

(* A job is found under one of the two ids of its own environment and in the *)
(* states of its operation, and its environment exists.                      *)
JobsFiledUnderTheirEnvironment(s) ==
  \A j \in JobIds : s.jobs[j] # NoJob =>
    /\ s.environments[s.jobs[j].environment] # "Absent"
    /\ s.jobs[j].operation = "Provision"
         => /\ j = provisionJobId[s.jobs[j].environment]
            /\ s.jobs[j].state \notin {"Destroying", "Destroyed"}
    /\ s.jobs[j].operation = "Destroy"
         => /\ j = destroyJobId[s.jobs[j].environment]
            /\ s.jobs[j].state # "AwaitingApproval"

(* An environment marked Destroying or Destroyed has its teardown job: live  *)
(* while Destroying (advancing it can still finish the teardown's run), and  *)
(* not failed nor ready while Destroyed.                                     *)
TeardownTracked(s) ==
  \A n \in Environments :
    LET teardown == s.jobs[destroyJobId[n]] IN
    /\ s.environments[n] = "Destroying" =>
         /\ JobOf(s, destroyJobId[n], n)
         /\ teardown.operation = "Destroy"
         /\ teardown.state \in {"Destroying", "Queued", "Validating", "Provisioning"}
    /\ s.environments[n] = "Destroyed" =>
         /\ JobOf(s, destroyJobId[n], n)
         /\ teardown.operation = "Destroy"
         /\ teardown.state \in {"Destroyed", "Queued", "Validating", "Provisioning"}

(* A Ready environment was seeded so and has had no job since, or has a job    *)
(* that has been in Provisioning.                                            *)
ReadyWasProvisioned(s) ==
  \A n \in Environments : s.environments[n] = "Ready" =>
    \/ SeedStatus[n] = "Ready" /\ \A j \in JobIds : ~JobOf(s, j, n)
    \/ \E j \in JobIds : JobOf(s, j, n) /\ s.jobs[j].attempts > 0

(* No environment's name makes its provision job collide with the teardown  *)
(* job of another ("destroy-dev" against "dev").                             *)
NoSharedJobId ==
  \A m, n \in Environments : provisionJobId[m] # destroyJobId[n]
=============================================================================
