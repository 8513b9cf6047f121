---------------------- MODULE ControlPlaneStateProofs ----------------------
(***************************************************************************)
(* What the handlers of controlPlane.ts and mockPlatform.ts preserve, as     *)
(* lemmas about one call on one state.  ControlPlaneProofs and              *)
(* ApiServerProofs build on them.                                           *)
(***************************************************************************)
EXTENDS ControlPlaneState, TLAPS

PortalInv(s) ==
  /\ s \in Portal
  /\ PausedJobsUndecided(s)
  /\ NeedsApprovalIsOpen(s)
  /\ AttemptsAccountedFor(s)
  /\ JobsFiledUnderTheirEnvironment(s)
  /\ GatedUntilDecided(s)
  /\ UnretriedTeardownsTearDown(s)

(* A handler keeps the invariant and, when no two names share a job id, keeps  *)
(* every teardown tracked and every Ready environment provisioned.             *)
Preserved(s, t) ==
  /\ PortalInv(t)
  /\ NoSharedJobId /\ TeardownTracked(s) => TeardownTracked(t)
  /\ NoSharedJobId /\ ReadyWasProvisioned(s) => ReadyWasProvisioned(t)

(* The seeded state has the invariant: its jobs list is empty. *)
LEMMA DefaultPortalInv ==
  PortalInv(DefaultPortal) /\ TeardownTracked(DefaultPortal) /\ ReadyWasProvisioned(DefaultPortal)
<1>1. DefaultPortal \in Portal
  BY SeedAssumption DEF DefaultPortal, Portal, EnvironmentStatus, ApprovalStatus
<1>2. QED
  BY <1>1, JobIdsAssumption, SeedAssumption
     DEF PortalInv, DefaultPortal, PausedJobsUndecided, NeedsApprovalIsOpen, AttemptsAccountedFor,
         JobsFiledUnderTheirEnvironment, GatedUntilDecided, UnretriedTeardownsTearDown,
         TeardownTracked, ReadyWasProvisioned, JobOf, JobExists

(* The components of a portal, with their types. *)
LEMMA PortalFields ==
  ASSUME NEW s \in Portal
  PROVE  /\ s.environments \in [Environments -> EnvironmentStatus \cup {"Absent"}]
         /\ s.approvals \in [Environments -> ApprovalStatus \cup {"None"}]
         /\ s.jobs \in [JobIds -> ControlPlaneJob \cup {NoJob}]
BY DEF Portal

(* What is filed under an id is a job or nothing. *)
LEMMA JobTypes ==
  ASSUME NEW s, PortalInv(s), NEW j \in JobIds, s.jobs[j] # NoJob
  PROVE  /\ s.jobs[j] \in ControlPlaneJob
         /\ s.jobs[j].environment \in Environments
         /\ s.jobs[j].operation \in {"Provision", "Destroy"}
         /\ s.jobs[j].state \in ControlPlaneJobState
         /\ s.jobs[j].attempts \in Nat
         /\ s.jobs[j].retries \in Nat
<1>1. s.jobs[j] \in ControlPlaneJob
  BY PortalFields DEF PortalInv
<1>2. QED
  BY <1>1 DEF ControlPlaneJob

(* transitionJob keeps a job a job. *)
LEMMA TransitionJobType ==
  ASSUME NEW job \in ControlPlaneJob, NEW jobState \in ControlPlaneJobState, NEW count \in BOOLEAN
  PROVE  /\ TransitionJob(job, jobState, count) \in ControlPlaneJob
         /\ TransitionJob(job, jobState, count).state = jobState
         /\ TransitionJob(job, jobState, count).environment = job.environment
         /\ TransitionJob(job, jobState, count).operation = job.operation
         /\ TransitionJob(job, jobState, count).retries = job.retries
         /\ TransitionJob(job, jobState, count).attempts =
              IF count THEN job.attempts + 1 ELSE job.attempts
BY DEF TransitionJob, ControlPlaneJob

-----------------------------------------------------------------------------
(* Every handler but decideApproval rewrites one job and the status and      *)
(* decision of its environment, and leaves the rest of the state alone.      *)
Rewrites(s, t, n, status, approval, x, job) ==
  /\ \A m \in Environments : t.environments[m] = IF m = n THEN status ELSE s.environments[m]
  /\ \A m \in Environments : t.approvals[m] = IF m = n THEN approval ELSE s.approvals[m]
  /\ \A j \in JobIds : t.jobs[j] = IF j = x THEN job ELSE s.jobs[j]

(* A rewritten job may wait if its environment's decision is open or refused. *)
LEMMA RewritePaused ==
  ASSUME NEW s, NEW t, NEW n \in Environments, NEW status, NEW approval, NEW x \in JobIds, NEW job,
         Rewrites(s, t, n, status, approval, x, job), PausedJobsUndecided(s),
         job.environment = n,
         \A j \in JobIds : s.jobs[j] # NoJob => s.jobs[j].environment \in Environments,
         approval \in {"Pending", "Rejected"} \/ approval = s.approvals[n],
         job.state = "AwaitingApproval" => approval \in {"Pending", "Rejected"}
  PROVE  PausedJobsUndecided(t)
BY DEF Rewrites, PausedJobsUndecided

(* A status of "Needs approval" may be written together with an open decision. *)
LEMMA RewriteNeeds ==
  ASSUME NEW s, NEW t, NEW n \in Environments, NEW status, NEW approval, NEW x \in JobIds, NEW job,
         Rewrites(s, t, n, status, approval, x, job), NeedsApprovalIsOpen(s),
         status = "Needs approval" => approval = "Pending"
  PROVE  NeedsApprovalIsOpen(t)
BY DEF Rewrites, NeedsApprovalIsOpen

(* A rewritten job must itself account for its attempts. *)
LEMMA RewriteAttempts ==
  ASSUME NEW s, NEW t, NEW n \in Environments, NEW status, NEW approval, NEW x \in JobIds, NEW job,
         Rewrites(s, t, n, status, approval, x, job), AttemptsAccountedFor(s),
         job.state \in {"Provisioning", "Ready"} => job.attempts > 0,
         job.attempts <= job.retries + 1,
         job.state \in {"Queued", "Validating", "AwaitingApproval"} => job.attempts <= job.retries
  PROVE  AttemptsAccountedFor(t)
BY DEF Rewrites, AttemptsAccountedFor

(* A rewritten job stays under the id of its operation and environment. *)
LEMMA RewriteFiled ==
  ASSUME NEW s, NEW t, NEW n \in Environments, NEW status, NEW approval, NEW x \in JobIds, NEW job,
         Rewrites(s, t, n, status, approval, x, job), JobsFiledUnderTheirEnvironment(s),
         \A j \in JobIds : s.jobs[j] # NoJob => s.jobs[j].environment \in Environments,
         job.environment = n, status # "Absent",
         job.operation = "Provision"
           => x = provisionJobId[n] /\ job.state \notin {"Destroying", "Destroyed"},
         job.operation = "Destroy"
           => x = destroyJobId[n] /\ job.state # "AwaitingApproval"
  PROVE  JobsFiledUnderTheirEnvironment(t)
BY DEF Rewrites, JobsFiledUnderTheirEnvironment

(* Writing "Needs approval" for a name goes with pausing its provision job. *)
LEMMA RewriteGated ==
  ASSUME NEW s, NEW t, NEW n \in Environments, NEW status, NEW approval, NEW x \in JobIds, NEW job,
         Rewrites(s, t, n, status, approval, x, job), GatedUntilDecided(s),
         job.environment = n,
         status = "Needs approval" => x = provisionJobId[n] \/ s.environments[n] = "Needs approval",
         status = "Needs approval" /\ x = provisionJobId[n] /\ job.operation = "Provision" /\ job.retries = 0
           => job.state = "AwaitingApproval"
  PROVE  GatedUntilDecided(t)
<1> SUFFICES ASSUME NEW m \in Environments,
                    t.environments[m] = "Needs approval",
                    t.jobs[provisionJobId[m]] # NoJob,
                    t.jobs[provisionJobId[m]].environment = m,
                    t.jobs[provisionJobId[m]].operation = "Provision",
                    t.jobs[provisionJobId[m]].retries = 0
             PROVE  t.jobs[provisionJobId[m]].state = "AwaitingApproval"
  BY DEF GatedUntilDecided, JobOf, JobExists
<1>1. provisionJobId[m] \in JobIds
  BY JobIdsAssumption
<1>2. CASE x = provisionJobId[m]
  <2>1. t.jobs[x] = job
    BY DEF Rewrites
  <2>2. m = n
    BY <1>2, <2>1
  <2>3. status = "Needs approval"
    BY <2>2 DEF Rewrites
  <2>4. QED
    BY <1>2, <2>1, <2>2, <2>3
<1>3. CASE x # provisionJobId[m]
  <2>1. t.jobs[provisionJobId[m]] = s.jobs[provisionJobId[m]]
    BY <1>1, <1>3 DEF Rewrites
  <2>2. s.environments[m] = "Needs approval"
    BY <1>3 DEF Rewrites
  <2>3. QED
    BY <2>1, <2>2 DEF GatedUntilDecided, JobOf, JobExists
<1>4. QED
  BY <1>2, <1>3

(* A rewritten teardown job that was never retried still tears down. *)
LEMMA RewriteTeardown ==
  ASSUME NEW s, NEW t, NEW n \in Environments, NEW status, NEW approval, NEW x \in JobIds, NEW job,
         Rewrites(s, t, n, status, approval, x, job), UnretriedTeardownsTearDown(s),
         job.operation = "Destroy" /\ job.retries = 0 => job.state \in {"Destroying", "Destroyed", "Failed"}
  PROVE  UnretriedTeardownsTearDown(t)
BY DEF Rewrites, UnretriedTeardownsTearDown

(* What TeardownTracked asks of one name. *)
Tracked(t, n) ==
  /\ t.environments[n] = "Destroying" =>
       /\ t.jobs[destroyJobId[n]] # NoJob
       /\ t.jobs[destroyJobId[n]].environment = n
       /\ t.jobs[destroyJobId[n]].operation = "Destroy"
       /\ t.jobs[destroyJobId[n]].state \in {"Destroying", "Queued", "Validating", "Provisioning"}
  /\ t.environments[n] = "Destroyed" =>
       /\ t.jobs[destroyJobId[n]] # NoJob
       /\ t.jobs[destroyJobId[n]].environment = n
       /\ t.jobs[destroyJobId[n]].operation = "Destroy"
       /\ t.jobs[destroyJobId[n]].state \in {"Destroyed", "Queued", "Validating", "Provisioning"}

LEMMA TrackedName ==
  ASSUME NEW t
  PROVE  TeardownTracked(t) <=> \A n \in Environments : Tracked(t, n)
BY DEF TeardownTracked, Tracked, JobOf, JobExists

(* The rewritten job is the teardown job in a state its environment's status   *)
(* allows, or the provision job, and then the status is no new teardown's.     *)
FitsTeardown(s, n, status, x, job) ==
  \/ /\ x = destroyJobId[n]
     /\ job # NoJob
     /\ job.environment = n
     /\ job.operation = "Destroy"
     /\ status = "Destroying" => job.state \in {"Destroying", "Queued", "Validating", "Provisioning"}
     /\ status = "Destroyed" => job.state \in {"Destroyed", "Queued", "Validating", "Provisioning"}
  \/ /\ x = provisionJobId[n]
     /\ status \in {"Destroying", "Destroyed"} => s.environments[n] = status

LEMMA RewriteTracked ==
  ASSUME NEW s, NEW t, NEW n \in Environments, NEW status, NEW approval, NEW x \in JobIds, NEW job,
         Rewrites(s, t, n, status, approval, x, job), FitsTeardown(s, n, status, x, job),
         NoSharedJobId, TeardownTracked(s)
  PROVE  TeardownTracked(t)
<1> SUFFICES ASSUME NEW m \in Environments PROVE Tracked(t, m)
  BY TrackedName
<1>1. /\ destroyJobId[m] \in JobIds
      /\ destroyJobId[m] # provisionJobId[n]
      /\ m # n => destroyJobId[m] # destroyJobId[n]
  BY JobIdsAssumption DEF NoSharedJobId
<1>2. Tracked(s, m)
  BY TrackedName
<1>3. x \in {provisionJobId[n], destroyJobId[n]}
  BY DEF FitsTeardown
<1>4. CASE m # n
  <2>1. t.environments[m] = s.environments[m] /\ t.jobs[destroyJobId[m]] = s.jobs[destroyJobId[m]]
    BY <1>1, <1>3, <1>4 DEF Rewrites
  <2>2. QED
    BY <1>2, <2>1 DEF Tracked
<1>5. CASE m = n /\ x = provisionJobId[n]
  <2>1. t.environments[n] = status /\ t.jobs[destroyJobId[n]] = s.jobs[destroyJobId[n]]
    BY <1>1, <1>5 DEF Rewrites
  <2>2. status \in {"Destroying", "Destroyed"} => s.environments[n] = status
    BY <1>1, <1>5 DEF FitsTeardown
  <2>3. QED
    BY <1>2, <1>5, <2>1, <2>2 DEF Tracked
<1>6. CASE m = n /\ x = destroyJobId[n]
  <2>1. t.environments[n] = status /\ t.jobs[destroyJobId[n]] = job
    BY <1>1, <1>6 DEF Rewrites
  <2>2. QED
    BY <1>1, <1>6, <2>1 DEF FitsTeardown, Tracked
<1>7. QED
  BY <1>3, <1>4, <1>5, <1>6

(* The rewritten job may leave its environment Ready if it was attempted, or if *)
(* the environment was Ready and the job keeps the attempts it had.           *)
FitsReady(s, n, status, x, job) ==
  /\ job # NoJob /\ job.environment = n
  /\ x \in {provisionJobId[n], destroyJobId[n]}
  /\ status = "Ready" =>
       \/ job.attempts > 0
       \/ /\ s.environments[n] = "Ready" /\ JobOf(s, x, n)
          /\ s.jobs[x].attempts > 0 => job.attempts > 0

(* Another name's jobs are out of the way: an environment that stays Ready has *)
(* the jobs it had.                                                           *)
LEMMA RewriteReady ==
  ASSUME NEW s, NEW t, NEW n \in Environments, NEW status, NEW approval, NEW x \in JobIds, NEW job,
         Rewrites(s, t, n, status, approval, x, job), FitsReady(s, n, status, x, job),
         NoSharedJobId, PortalInv(s), ReadyWasProvisioned(s)
  PROVE  ReadyWasProvisioned(t)
<1> SUFFICES ASSUME NEW m \in Environments, t.environments[m] = "Ready"
             PROVE  \/ SeedStatus[m] = "Ready" /\ \A j \in JobIds : ~JobOf(t, j, m)
                    \/ \E j \in JobIds : JobOf(t, j, m) /\ t.jobs[j].attempts > 0
  BY DEF ReadyWasProvisioned
<1>1. t.jobs[x] = job
  BY DEF Rewrites
<1>2. CASE m = n /\ job.attempts > 0
  BY <1>1, <1>2 DEF FitsReady, JobOf, JobExists
<1>3. CASE m = n /\ ~(job.attempts > 0)
  <2>1. /\ s.environments[n] = "Ready" /\ JobOf(s, x, n)
        /\ ~(s.jobs[x].attempts > 0)
    BY <1>3 DEF Rewrites, FitsReady
  <2>2. PICK j \in JobIds : JobOf(s, j, n) /\ s.jobs[j].attempts > 0
    BY <2>1 DEF ReadyWasProvisioned
  <2>3. t.jobs[j] = s.jobs[j]
    BY <2>1, <2>2 DEF Rewrites
  <2>4. QED
    BY <1>3, <2>2, <2>3 DEF JobOf, JobExists
<1>4. CASE m # n
  <2>1. s.environments[m] = "Ready"
    BY <1>4 DEF Rewrites
  <2>2. ~JobOf(t, x, m)
    BY <1>1, <1>4 DEF FitsReady, JobOf
  <2>3. ~JobOf(s, x, m)
    <3>1. SUFFICES ASSUME JobOf(s, x, m) PROVE FALSE
      OBVIOUS
    <3>2. s.jobs[x].operation \in {"Provision", "Destroy"}
      BY <3>1, JobTypes DEF JobOf, JobExists
    <3>3. x \in {provisionJobId[m], destroyJobId[m]}
      BY <3>1, <3>2 DEF PortalInv, JobsFiledUnderTheirEnvironment, JobOf, JobExists
    <3>4. QED
      BY <1>4, <3>3, JobIdsAssumption DEF FitsReady, NoSharedJobId
  <2>4. \A j \in JobIds \ {x} : t.jobs[j] = s.jobs[j]
    BY DEF Rewrites
  <2>5. \A j \in JobIds : JobOf(t, j, m) <=> JobOf(s, j, m)
    BY <2>2, <2>3, <2>4 DEF JobOf, JobExists
  <2>6. CASE SeedStatus[m] = "Ready" /\ \A j \in JobIds : ~JobOf(s, j, m)
    BY <2>5, <2>6
  <2>7. CASE \E j \in JobIds : JobOf(s, j, m) /\ s.jobs[j].attempts > 0
    <3>1. PICK j \in JobIds : JobOf(s, j, m) /\ s.jobs[j].attempts > 0
      BY <2>7
    <3>2. t.jobs[j] = s.jobs[j]
      BY <2>3, <2>4, <3>1
    <3>3. QED
      BY <2>5, <3>1, <3>2
  <2>8. QED
    BY <2>1, <2>6, <2>7 DEF ReadyWasProvisioned
<1>5. QED
  BY <1>2, <1>3, <1>4

(* What a rewritten status and decision, a rewritten job, and the two         *)
(* together must satisfy.                                                     *)
FitsEnvironment(s, n, status, approval, x) ==
  /\ status # "Absent"
  /\ approval \in {"Pending", "Rejected"} \/ approval = s.approvals[n]
  /\ status = "Needs approval" =>
       /\ approval = "Pending"
       /\ x = provisionJobId[n] \/ s.environments[n] = "Needs approval"

FitsJob(n, x, job) ==
  /\ job.environment = n
  /\ job.state \in {"Provisioning", "Ready"} => job.attempts > 0
  /\ job.attempts <= job.retries + 1
  /\ job.state \in {"Queued", "Validating", "AwaitingApproval"} => job.attempts <= job.retries
  /\ job.operation = "Provision"
       => x = provisionJobId[n] /\ job.state \notin {"Destroying", "Destroyed"}
  /\ job.operation = "Destroy"
       => x = destroyJobId[n] /\ job.state # "AwaitingApproval"
  /\ (job.operation = "Destroy" /\ job.retries = 0)
       => job.state \in {"Destroying", "Destroyed", "Failed"}

FitsGate(n, status, approval, x, job) ==
  /\ (status = "Needs approval" /\ x = provisionJobId[n] /\ job.operation = "Provision" /\ job.retries = 0)
       => job.state = "AwaitingApproval"
  /\ job.state = "AwaitingApproval" => approval \in {"Pending", "Rejected"}

Fits(s, n, status, approval, x, job) ==
  /\ FitsEnvironment(s, n, status, approval, x)
  /\ FitsJob(n, x, job)
  /\ FitsGate(n, status, approval, x, job)

(* The six together. *)
LEMMA RewritePreserves ==
  ASSUME NEW s, NEW t, NEW n \in Environments, NEW status, NEW approval,
         NEW x \in JobIds, NEW job,
         Rewrites(s, t, n, status, approval, x, job),
         Fits(s, n, status, approval, x, job),
         PortalInv(s), t \in Portal
  PROVE  PortalInv(t)
<1>1. /\ PausedJobsUndecided(s)
      /\ NeedsApprovalIsOpen(s)
      /\ AttemptsAccountedFor(s)
      /\ JobsFiledUnderTheirEnvironment(s)
      /\ GatedUntilDecided(s)
      /\ UnretriedTeardownsTearDown(s)
  BY DEF PortalInv
<1>2. \A j \in JobIds : s.jobs[j] # NoJob => s.jobs[j].environment \in Environments
  BY JobTypes
<1>3. PausedJobsUndecided(t)
  BY <1>1, <1>2, RewritePaused DEF Fits, FitsEnvironment, FitsJob, FitsGate
<1>4. NeedsApprovalIsOpen(t)
  BY <1>1, RewriteNeeds DEF Fits, FitsEnvironment, FitsJob, FitsGate
<1>5. AttemptsAccountedFor(t)
  BY <1>1, RewriteAttempts DEF Fits, FitsEnvironment, FitsJob, FitsGate
<1>6. JobsFiledUnderTheirEnvironment(t)
  BY <1>1, <1>2, RewriteFiled DEF Fits, FitsEnvironment, FitsJob, FitsGate
<1>7. GatedUntilDecided(t)
  BY <1>1, RewriteGated DEF Fits, FitsEnvironment, FitsJob, FitsGate
<1>8. UnretriedTeardownsTearDown(t)
  BY <1>1, RewriteTeardown DEF Fits, FitsEnvironment, FitsJob, FitsGate
<1>9. QED
  BY <1>3, <1>4, <1>5, <1>6, <1>7, <1>8 DEF PortalInv

-----------------------------------------------------------------------------
(* enqueueControlPlaneJob and enqueueDestroyControlPlaneJob file a fresh job. *)
LEMMA NewJobType ==
  ASSUME NEW n \in Environments, NEW operation \in {"Provision", "Destroy"},
         NEW jobState \in ControlPlaneJobState
  PROVE  /\ NewJob(n, operation, jobState) \in ControlPlaneJob
         /\ NewJob(n, operation, jobState).environment = n
         /\ NewJob(n, operation, jobState).operation = operation
         /\ NewJob(n, operation, jobState).state = jobState
         /\ NewJob(n, operation, jobState).attempts = 0
         /\ NewJob(n, operation, jobState).retries = 0
BY DEF NewJob, ControlPlaneJob

(* createEnvironmentRequest of a template that needs approval. *)
LEMMA CreateGatedPreserves ==
  ASSUME NEW s, PortalInv(s), NEW n \in Environments
  PROVE  Preserved(s, CreateEnvironmentRequest(s, n, TRUE))
<1> DEFINE t == CreateEnvironmentRequest(s, n, TRUE)
           job == NewJob(n, "Provision", "AwaitingApproval")
           x == provisionJobId[n]
<1>1. /\ job \in ControlPlaneJob
      /\ job.environment = n /\ job.operation = "Provision" /\ job.state = "AwaitingApproval"
      /\ job.attempts = 0 /\ job.retries = 0
  BY NewJobType DEF ControlPlaneJobState
<1>2. /\ t.environments = [s.environments EXCEPT ![n] = "Needs approval"]
      /\ t.approvals = [s.approvals EXCEPT ![n] = "Pending"]
      /\ t.jobs = [s.jobs EXCEPT ![x] = job]
  BY DEF CreateEnvironmentRequest, EnqueueControlPlaneJob
<1>3. x \in JobIds
  BY JobIdsAssumption
<1>4. t \in Portal
  BY <1>1, <1>3
     DEF CreateEnvironmentRequest, EnqueueControlPlaneJob, PortalInv, Portal, EnvironmentStatus, ApprovalStatus
<1> HIDE DEF t, job, x
<1>5. Rewrites(s, t, n, "Needs approval", "Pending", x, job)
  BY <1>2, PortalFields, ZenonT(60) DEF Rewrites, PortalInv
<1>6. Fits(s, n, "Needs approval", "Pending", x, job)
  BY <1>1 DEF Fits, FitsEnvironment, FitsJob, FitsGate, x
<1>7. PortalInv(t)
  BY <1>3, <1>4, <1>5, <1>6, RewritePreserves
<1>8. FitsTeardown(s, n, "Needs approval", x, job)
  BY DEF FitsTeardown, x
<1>9. NoSharedJobId /\ TeardownTracked(s) => TeardownTracked(t)
  BY <1>1, <1>3, <1>5, <1>8, RewriteTracked
<1>10. FitsReady(s, n, "Needs approval", x, job)
  BY <1>1, NoJobAssumption DEF FitsReady, x
<1>11. NoSharedJobId /\ ReadyWasProvisioned(s) => ReadyWasProvisioned(t)
  BY <1>1, <1>3, <1>5, <1>8, <1>10, RewriteReady
<1>12. QED
  BY <1>7, <1>9, <1>11 DEF t, Preserved

(* createEnvironmentRequest of any other template keeps an old decision. *)
LEMMA CreateUngatedPreserves ==
  ASSUME NEW s, PortalInv(s), NEW n \in Environments
  PROVE  Preserved(s, CreateEnvironmentRequest(s, n, FALSE))
<1> DEFINE t == CreateEnvironmentRequest(s, n, FALSE)
           job == NewJob(n, "Provision", "Queued")
           x == provisionJobId[n]
<1>1. /\ job \in ControlPlaneJob
      /\ job.environment = n /\ job.operation = "Provision" /\ job.state = "Queued"
      /\ job.attempts = 0 /\ job.retries = 0
  BY NewJobType DEF ControlPlaneJobState
<1>2. /\ t.environments = [s.environments EXCEPT ![n] = "Provisioning"]
      /\ t.approvals = s.approvals
      /\ t.jobs = [s.jobs EXCEPT ![x] = job]
  BY DEF CreateEnvironmentRequest, EnqueueControlPlaneJob
<1>3. x \in JobIds
  BY JobIdsAssumption
<1>4. t \in Portal
  BY <1>1, <1>3
     DEF CreateEnvironmentRequest, EnqueueControlPlaneJob, PortalInv, Portal, EnvironmentStatus, ApprovalStatus
<1> HIDE DEF t, job, x
<1>5. Rewrites(s, t, n, "Provisioning", s.approvals[n], x, job)
  BY <1>2, PortalFields DEF Rewrites, PortalInv
<1>6. Fits(s, n, "Provisioning", s.approvals[n], x, job)
  BY <1>1 DEF Fits, FitsEnvironment, FitsJob, FitsGate, x
<1>7. PortalInv(t)
  BY <1>3, <1>4, <1>5, <1>6, RewritePreserves
<1>8. FitsTeardown(s, n, "Provisioning", x, job)
  BY DEF FitsTeardown, x
<1>9. NoSharedJobId /\ TeardownTracked(s) => TeardownTracked(t)
  BY <1>1, <1>3, <1>5, <1>8, RewriteTracked
<1>10. FitsReady(s, n, "Provisioning", x, job)
  BY <1>1, NoJobAssumption DEF FitsReady, x
<1>11. NoSharedJobId /\ ReadyWasProvisioned(s) => ReadyWasProvisioned(t)
  BY <1>1, <1>3, <1>5, <1>8, <1>10, RewriteReady
<1>12. QED
  BY <1>7, <1>9, <1>11 DEF t, Preserved

(* requestEnvironmentDestroy, once it has found the environment. *)
LEMMA DestroyPreserves ==
  ASSUME NEW s, PortalInv(s), NEW n \in Environments, EnvironmentExists(s, n)
  PROVE  Preserved(s, RequestEnvironmentDestroy(s, n))
<1> DEFINE t == RequestEnvironmentDestroy(s, n)
           job == NewJob(n, "Destroy", "Destroying")
           x == destroyJobId[n]
<1>1. /\ job \in ControlPlaneJob
      /\ job.environment = n /\ job.operation = "Destroy" /\ job.state = "Destroying"
      /\ job.attempts = 0 /\ job.retries = 0
  BY NewJobType DEF ControlPlaneJobState
<1>2. /\ s.environments \in [Environments -> EnvironmentStatus \cup {"Absent"}]
      /\ s.approvals \in [Environments -> ApprovalStatus \cup {"None"}]
      /\ s.jobs \in [JobIds -> ControlPlaneJob \cup {NoJob}]
  BY PortalFields DEF PortalInv
<1>3. x \in JobIds
  BY JobIdsAssumption
<1>4. t = [s EXCEPT !.environments = [s.environments EXCEPT ![n] = "Destroying"],
                    !.jobs = [s.jobs EXCEPT ![x] = job]]
  BY DEF RequestEnvironmentDestroy, EnqueueDestroyControlPlaneJob, WithStatus, EnvironmentExists
<1> HIDE DEF t, job, x
<1>5. /\ t.environments = [s.environments EXCEPT ![n] = "Destroying"]
      /\ t.approvals = s.approvals
      /\ t.jobs = [s.jobs EXCEPT ![x] = job]
  BY <1>4 DEF PortalInv, Portal
<1>6. t \in Portal
  BY <1>1, <1>2, <1>3, <1>4 DEF PortalInv, Portal, EnvironmentStatus
<1>7. Rewrites(s, t, n, "Destroying", s.approvals[n], x, job)
  BY <1>2, <1>5 DEF Rewrites
<1>8. Fits(s, n, "Destroying", s.approvals[n], x, job)
  BY <1>1 DEF Fits, FitsEnvironment, FitsJob, FitsGate, x
<1>9. PortalInv(t)
  BY <1>3, <1>6, <1>7, <1>8, RewritePreserves
<1>10. FitsTeardown(s, n, "Destroying", x, job)
  BY <1>1, NoJobAssumption DEF FitsTeardown, x
<1>11. NoSharedJobId /\ TeardownTracked(s) => TeardownTracked(t)
  BY <1>1, <1>3, <1>7, <1>10, RewriteTracked
<1>12. FitsReady(s, n, "Destroying", x, job)
  BY <1>1, NoJobAssumption DEF FitsReady, x
<1>13. NoSharedJobId /\ ReadyWasProvisioned(s) => ReadyWasProvisioned(t)
  BY <1>1, <1>3, <1>7, <1>10, <1>12, RewriteReady
<1>14. QED
  BY <1>9, <1>11, <1>13 DEF t, Preserved

(* What a job handler finds: the job, filed under an id of its environment. *)
LEMMA FoundJob ==
  ASSUME NEW s, PortalInv(s), NEW j \in JobIds, JobExists(s, j)
  PROVE  /\ s.jobs[j] # NoJob
         /\ s.environments[s.jobs[j].environment] # "Absent"
         /\ s.jobs[j].operation = "Provision"
              => /\ j = provisionJobId[s.jobs[j].environment]
                 /\ s.jobs[j].state \notin {"Destroying", "Destroyed"}
         /\ s.jobs[j].operation = "Destroy"
              => /\ j = destroyJobId[s.jobs[j].environment]
                 /\ s.jobs[j].state # "AwaitingApproval"
         /\ s.jobs[j].state \in {"Provisioning", "Ready"} => s.jobs[j].attempts > 0
         /\ s.jobs[j].attempts <= s.jobs[j].retries + 1
         /\ s.jobs[j].state \in {"Queued", "Validating", "AwaitingApproval"}
              => s.jobs[j].attempts <= s.jobs[j].retries
         /\ s.jobs[j].state = "AwaitingApproval"
              => s.approvals[s.jobs[j].environment] \in {"Pending", "Rejected"}
         /\ (s.jobs[j].operation = "Destroy" /\ s.jobs[j].retries = 0)
              => s.jobs[j].state \in {"Destroying", "Destroyed", "Failed"}
BY DEF PortalInv, JobExists, PausedJobsUndecided, AttemptsAccountedFor,
       JobsFiledUnderTheirEnvironment, UnretriedTeardownsTearDown

(* An undecided environment's status is kept only with its decision open, and *)
(* then its own unretried provision job is paused.                            *)
LEMMA FoundEnvironment ==
  ASSUME NEW s, PortalInv(s), NEW n \in Environments, s.environments[n] = "Needs approval"
  PROVE  /\ s.approvals[n] = "Pending"
         /\ (/\ s.jobs[provisionJobId[n]] # NoJob
             /\ s.jobs[provisionJobId[n]].environment = n
             /\ s.jobs[provisionJobId[n]].operation = "Provision"
             /\ s.jobs[provisionJobId[n]].retries = 0)
               => s.jobs[provisionJobId[n]].state = "AwaitingApproval"
BY DEF PortalInv, NeedsApprovalIsOpen, GatedUntilDecided, JobOf, JobExists

(* failControlPlaneJob. *)
LEMMA FailPreserves ==
  ASSUME NEW s, PortalInv(s), NEW j \in JobIds, JobExists(s, j)
  PROVE  Preserved(s, FailControlPlaneJob(s, j))
<1> DEFINE t == FailControlPlaneJob(s, j)
           found == s.jobs[j]
           n == found.environment
           job == TransitionJob(found, "Failed", FALSE)
<1>1. /\ found \in ControlPlaneJob
      /\ n \in Environments
      /\ found.operation \in {"Provision", "Destroy"}
      /\ found.attempts \in Nat /\ found.retries \in Nat
  BY JobTypes DEF JobExists
<1>2. /\ s.environments[n] # "Absent"
      /\ found.operation = "Provision" => j = provisionJobId[n]
      /\ found.operation = "Destroy" => j = destroyJobId[n]
      /\ found.attempts <= found.retries + 1
  BY FoundJob
<1>3. /\ job \in ControlPlaneJob
      /\ job.environment = n /\ job.operation = found.operation /\ job.state = "Failed"
      /\ job.attempts = found.attempts /\ job.retries = found.retries
  BY <1>1, TransitionJobType, ZenonT(60) DEF ControlPlaneJobState
<1>4. /\ s.environments \in [Environments -> EnvironmentStatus \cup {"Absent"}]
      /\ s.approvals \in [Environments -> ApprovalStatus \cup {"None"}]
      /\ s.jobs \in [JobIds -> ControlPlaneJob \cup {NoJob}]
  BY PortalFields DEF PortalInv
<1>5. t = [s EXCEPT !.jobs = [s.jobs EXCEPT ![j] = job],
                    !.environments = [s.environments EXCEPT ![n] = "Failed"]]
  <2>1. WithStatus(s.environments, n, "Failed") = [s.environments EXCEPT ![n] = "Failed"]
    BY <1>2 DEF WithStatus
  <2>2. t = [s EXCEPT !.jobs = [s.jobs EXCEPT ![j] = job],
                      !.environments = WithStatus(s.environments, n, "Failed")]
    BY <1>4 DEF FailControlPlaneJob
  <2>3. QED
    BY <2>1, <2>2
<1> HIDE DEF t, job, n, found
<1>6. /\ t.environments = [s.environments EXCEPT ![n] = "Failed"]
      /\ t.approvals = s.approvals
      /\ t.jobs = [s.jobs EXCEPT ![j] = job]
  BY <1>5 DEF PortalInv, Portal
<1>7. t \in Portal
  BY <1>1, <1>3, <1>4, <1>5 DEF PortalInv, Portal, EnvironmentStatus
<1>8. Rewrites(s, t, n, "Failed", s.approvals[n], j, job)
  BY <1>4, <1>6 DEF Rewrites
<1>9. Fits(s, n, "Failed", s.approvals[n], j, job)
  BY <1>1, <1>2, <1>3 DEF Fits, FitsEnvironment, FitsJob, FitsGate
<1>10. PortalInv(t)
  BY <1>1, <1>7, <1>8, <1>9, RewritePreserves
<1>11. FitsTeardown(s, n, "Failed", j, job)
  BY <1>1, <1>2, <1>3, NoJobAssumption DEF FitsTeardown
<1>12. NoSharedJobId /\ TeardownTracked(s) => TeardownTracked(t)
  BY <1>1, <1>8, <1>11, RewriteTracked
<1>13. FitsReady(s, n, "Failed", j, job)
  BY <1>1, <1>2, <1>3, NoJobAssumption DEF FitsReady
<1>14. NoSharedJobId /\ ReadyWasProvisioned(s) => ReadyWasProvisioned(t)
  BY <1>1, <1>8, <1>11, <1>13, RewriteReady
<1>15. QED
  BY <1>10, <1>12, <1>14 DEF t, Preserved

(* retryControlPlaneJob: the environment keeps its status, and the retry that *)
(* AttemptsAccountedFor charges is recorded with the move to Queued.          *)
LEMMA RetryPreserves ==
  ASSUME NEW s, PortalInv(s), NEW j \in JobIds, JobExists(s, j)
  PROVE  Preserved(s, RetryControlPlaneJob(s, j))
<1> DEFINE t == RetryControlPlaneJob(s, j)
           found == s.jobs[j]
           n == found.environment
           job == TransitionJob(Retried(found), "Queued", FALSE)
<1>1. /\ found \in ControlPlaneJob
      /\ n \in Environments
      /\ found.operation \in {"Provision", "Destroy"}
      /\ found.attempts \in Nat /\ found.retries \in Nat
  BY JobTypes DEF JobExists
<1>2. /\ s.environments[n] # "Absent"
      /\ found.operation = "Provision" => j = provisionJobId[n]
      /\ found.operation = "Destroy" => j = destroyJobId[n]
      /\ found.attempts <= found.retries + 1
  BY FoundJob
<1>3. /\ Retried(found) \in ControlPlaneJob
      /\ Retried(found).environment = n /\ Retried(found).operation = found.operation
      /\ Retried(found).attempts = found.attempts /\ Retried(found).retries = found.retries + 1
  BY <1>1 DEF Retried, ControlPlaneJob
<1>4. /\ job \in ControlPlaneJob
      /\ job.environment = n /\ job.operation = found.operation /\ job.state = "Queued"
      /\ job.attempts = found.attempts /\ job.retries = found.retries + 1
  BY <1>3 DEF TransitionJob, ControlPlaneJob, ControlPlaneJobState
<1>5. /\ s.environments \in [Environments -> EnvironmentStatus \cup {"Absent"}]
      /\ s.approvals \in [Environments -> ApprovalStatus \cup {"None"}]
      /\ s.jobs \in [JobIds -> ControlPlaneJob \cup {NoJob}]
  BY PortalFields DEF PortalInv
<1>6. t = [s EXCEPT !.jobs = [s.jobs EXCEPT ![j] = job]]
  BY DEF RetryControlPlaneJob
<1> HIDE DEF t, job, n, found
<1>7. /\ t.environments = s.environments
      /\ t.approvals = s.approvals
      /\ t.jobs = [s.jobs EXCEPT ![j] = job]
  BY <1>6 DEF PortalInv, Portal
<1>8. t \in Portal
  BY <1>4, <1>5, <1>6 DEF PortalInv, Portal
<1>9. Rewrites(s, t, n, s.environments[n], s.approvals[n], j, job)
  BY <1>5, <1>7 DEF Rewrites
<1>10. s.environments[n] = "Needs approval" => s.approvals[n] = "Pending"
  BY <1>1, FoundEnvironment
<1>11. Fits(s, n, s.environments[n], s.approvals[n], j, job)
  <2>1. FitsEnvironment(s, n, s.environments[n], s.approvals[n], j)
    BY <1>2, <1>10 DEF FitsEnvironment
  <2>2. FitsJob(n, j, job)
    BY <1>1, <1>2, <1>4 DEF FitsJob
  <2>3. FitsGate(n, s.environments[n], s.approvals[n], j, job)
    <3>1. job.retries # 0 /\ job.state # "AwaitingApproval"
      BY <1>1, <1>4
    <3>2. QED
      BY <3>1 DEF FitsGate
  <2>4. QED
    BY <2>1, <2>2, <2>3 DEF Fits
<1>12. PortalInv(t)
  BY <1>1, <1>8, <1>9, <1>11, RewritePreserves
<1>13. FitsTeardown(s, n, s.environments[n], j, job)
  BY <1>1, <1>2, <1>4, NoJobAssumption DEF FitsTeardown
<1>14. NoSharedJobId /\ TeardownTracked(s) => TeardownTracked(t)
  BY <1>1, <1>9, <1>13, RewriteTracked
<1>15. FitsReady(s, n, s.environments[n], j, job)
  BY <1>1, <1>2, <1>4, NoJobAssumption DEF FitsReady, JobOf, n, found
<1>16. NoSharedJobId /\ ReadyWasProvisioned(s) => ReadyWasProvisioned(t)
  BY <1>1, <1>9, <1>13, <1>15, RewriteReady
<1>17. QED
  BY <1>12, <1>14, <1>16 DEF t, Preserved

(* advanceControlPlaneJob when the new state says nothing of the environment: *)
(* the job goes on, or stays where it waits.                                  *)
LEMMA AdvanceKeepsPreserves ==
  ASSUME NEW s, PortalInv(s), NEW j \in JobIds, JobExists(s, j),
         s.jobs[j].state \in {"Queued", "Validating", "AwaitingApproval"}
  PROVE  Preserved(s, AdvanceControlPlaneJob(s, j))
<1> DEFINE t == AdvanceControlPlaneJob(s, j)
           found == s.jobs[j]
           n == found.environment
           next == NextControlPlaneState(found.state)
           job == TransitionJob(found, next, next = "Provisioning")
<1>1. /\ found \in ControlPlaneJob
      /\ n \in Environments
      /\ found.operation \in {"Provision", "Destroy"}
      /\ found.attempts \in Nat /\ found.retries \in Nat
  BY JobTypes DEF JobExists
<1>2. /\ s.environments[n] # "Absent"
      /\ found.operation = "Provision" => j = provisionJobId[n]
      /\ found.operation = "Destroy" => j = destroyJobId[n] /\ found.state # "AwaitingApproval"
      /\ found.attempts <= found.retries
      /\ found.state = "AwaitingApproval" => s.approvals[n] \in {"Pending", "Rejected"}
      /\ ~(found.operation = "Destroy" /\ found.retries = 0)
  BY FoundJob
<1>3. /\ found.state = "Queued" => next = "Validating"
      /\ found.state = "Validating" => next = "Provisioning"
      /\ found.state = "AwaitingApproval" => next = "AwaitingApproval"
  BY DEF NextControlPlaneState
<1>4. /\ job \in ControlPlaneJob
      /\ job.environment = n /\ job.operation = found.operation
      /\ job.retries = found.retries
      /\ job.state = next
      /\ job.attempts = IF next = "Provisioning" THEN found.attempts + 1 ELSE found.attempts
  <2>1. next \in ControlPlaneJobState
    BY <1>3 DEF ControlPlaneJobState
  <2>2. (next = "Provisioning") \in BOOLEAN
    OBVIOUS
  <2> HIDE DEF next, found
  <2>3. QED
    BY <1>1, <2>1, <2>2 DEF TransitionJob, ControlPlaneJob
<1>5. /\ s.environments \in [Environments -> EnvironmentStatus \cup {"Absent"}]
      /\ s.approvals \in [Environments -> ApprovalStatus \cup {"None"}]
      /\ s.jobs \in [JobIds -> ControlPlaneJob \cup {NoJob}]
  BY PortalFields DEF PortalInv
<1>6. FollowJob(s.environments, job) = s.environments
  BY <1>3, <1>4 DEF FollowJob, StatusOfJobState
<1>7. t = [s EXCEPT !.jobs = [s.jobs EXCEPT ![j] = job],
                    !.environments = FollowJob(s.environments, job)]
  BY DEF AdvanceControlPlaneJob
<1> HIDE DEF t, job, n, found, next
<1>8. /\ t.environments = s.environments
      /\ t.approvals = s.approvals
      /\ t.jobs = [s.jobs EXCEPT ![j] = job]
  BY <1>6, <1>7 DEF PortalInv, Portal
<1>9. t \in Portal
  BY <1>4, <1>5, <1>6, <1>7 DEF PortalInv, Portal
<1>10. Rewrites(s, t, n, s.environments[n], s.approvals[n], j, job)
  BY <1>5, <1>8 DEF Rewrites
<1>11. s.environments[n] = "Needs approval" =>
         /\ s.approvals[n] = "Pending"
         /\ (j = provisionJobId[n] /\ job.operation = "Provision" /\ job.retries = 0)
               => found.state = "AwaitingApproval"
  BY <1>1, <1>4, FoundEnvironment, ZenonT(60) DEF found, n, JobExists
<1>12. found.state \in {"Queued", "Validating", "AwaitingApproval"}
  BY DEF found
<1>13. Fits(s, n, s.environments[n], s.approvals[n], j, job)
  <2>1. FitsEnvironment(s, n, s.environments[n], s.approvals[n], j)
    BY <1>2, <1>11 DEF FitsEnvironment
  <2>2. FitsJob(n, j, job)
    BY <1>1, <1>2, <1>3, <1>4, <1>12 DEF FitsJob
  <2>3. FitsGate(n, s.environments[n], s.approvals[n], j, job)
    BY <1>1, <1>2, <1>3, <1>4, <1>11, <1>12 DEF FitsGate
  <2>4. QED
    BY <2>1, <2>2, <2>3 DEF Fits
<1>14. PortalInv(t)
  BY <1>1, <1>9, <1>10, <1>13, RewritePreserves
<1>15. FitsTeardown(s, n, s.environments[n], j, job)
  BY <1>1, <1>2, <1>3, <1>4, <1>12, NoJobAssumption DEF FitsTeardown
<1>16. NoSharedJobId /\ TeardownTracked(s) => TeardownTracked(t)
  BY <1>1, <1>10, <1>15, RewriteTracked
<1>17. FitsReady(s, n, s.environments[n], j, job)
  BY <1>1, <1>2, <1>3, <1>4, NoJobAssumption DEF FitsReady, JobOf, n, found
<1>18. NoSharedJobId /\ ReadyWasProvisioned(s) => ReadyWasProvisioned(t)
  BY <1>1, <1>10, <1>15, <1>17, RewriteReady
<1>19. QED
  BY <1>14, <1>16, <1>18 DEF t, Preserved

(* advanceControlPlaneJob when the new state ends the job's run: the          *)
(* environment takes its status, even if the job had already ended.           *)
LEMMA AdvanceEndsPreserves ==
  ASSUME NEW s, PortalInv(s), NEW j \in JobIds, JobExists(s, j),
         s.jobs[j].state \in {"Provisioning", "Ready", "Failed", "Expired", "Destroying", "Destroyed"}
  PROVE  Preserved(s, AdvanceControlPlaneJob(s, j))
<1> DEFINE t == AdvanceControlPlaneJob(s, j)
           found == s.jobs[j]
           n == found.environment
           next == NextControlPlaneState(found.state)
           job == TransitionJob(found, next, next = "Provisioning")
           status == StatusOfJobState(next)
<1>1. /\ found \in ControlPlaneJob
      /\ n \in Environments
      /\ found.operation \in {"Provision", "Destroy"}
      /\ found.attempts \in Nat /\ found.retries \in Nat
  BY JobTypes DEF JobExists
<1>2. /\ s.environments[n] # "Absent"
      /\ found.operation = "Provision"
           => j = provisionJobId[n] /\ found.state \notin {"Destroying", "Destroyed"}
      /\ found.operation = "Destroy" => j = destroyJobId[n]
      /\ found.attempts <= found.retries + 1
      /\ found.state \in {"Provisioning", "Ready"} => found.attempts > 0
      /\ (found.operation = "Destroy" /\ found.retries = 0)
           => found.state \in {"Destroying", "Destroyed", "Failed"}
  BY FoundJob
<1>3. /\ found.state \in {"Provisioning", "Ready"} => next = "Ready"
      /\ found.state = "Failed" => next = "Failed"
      /\ found.state = "Expired" => next = "Expired"
      /\ found.state \in {"Destroying", "Destroyed"} => next = "Destroyed"
  BY DEF NextControlPlaneState
<1>4. found.state \in {"Provisioning", "Ready", "Failed", "Expired", "Destroying", "Destroyed"}
  OBVIOUS
<1>5. /\ next = "Ready" => status = "Ready"
      /\ next \in {"Failed", "Expired"} => status = "Failed"
      /\ next = "Destroyed" => status = "Destroyed"
  BY DEF StatusOfJobState
<1>6. /\ job \in ControlPlaneJob
      /\ job.environment = n /\ job.operation = found.operation
      /\ job.retries = found.retries
      /\ job.state = next
      /\ job.attempts = found.attempts
  <2>1. next \in ControlPlaneJobState
    BY <1>3, <1>4 DEF ControlPlaneJobState
  <2>2. (next = "Provisioning") = FALSE
    BY <1>3, <1>4
  <2> HIDE DEF next, found
  <2>3. QED
    BY <1>1, <2>1, <2>2 DEF TransitionJob, ControlPlaneJob
<1>7. /\ s.environments \in [Environments -> EnvironmentStatus \cup {"Absent"}]
      /\ s.approvals \in [Environments -> ApprovalStatus \cup {"None"}]
      /\ s.jobs \in [JobIds -> ControlPlaneJob \cup {NoJob}]
  BY PortalFields DEF PortalInv
<1>8. status \in {"Ready", "Failed", "Destroyed"}
  BY <1>3, <1>4, <1>5
<1>9. FollowJob(s.environments, job) = [s.environments EXCEPT ![n] = status]
  <2>1. StatusOfJobState(job.state) = status
    BY <1>6
  <2> HIDE DEF status, job, n
  <2>2. status # "Keep"
    BY <1>8
  <2>3. QED
    BY <1>2, <1>6, <2>1, <2>2 DEF FollowJob, WithStatus
<1>10. t = [s EXCEPT !.jobs = [s.jobs EXCEPT ![j] = job],
                     !.environments = FollowJob(s.environments, job)]
  BY DEF AdvanceControlPlaneJob
<1> HIDE DEF t, job, n, found, next, status
<1>11. /\ t.environments = [s.environments EXCEPT ![n] = status]
       /\ t.approvals = s.approvals
       /\ t.jobs = [s.jobs EXCEPT ![j] = job]
  BY <1>9, <1>10 DEF PortalInv, Portal
<1>12. t \in Portal
  <2>1. [s.environments EXCEPT ![n] = status] \in [Environments -> EnvironmentStatus \cup {"Absent"}]
    BY <1>7, <1>8 DEF EnvironmentStatus
  <2>2. [s.jobs EXCEPT ![j] = job] \in [JobIds -> ControlPlaneJob \cup {NoJob}]
    BY <1>6, <1>7
  <2>3. t = [s EXCEPT !.jobs = [s.jobs EXCEPT ![j] = job],
                      !.environments = [s.environments EXCEPT ![n] = status]]
    BY <1>9, <1>10
  <2>4. QED
    BY <2>1, <2>2, <2>3 DEF PortalInv, Portal
<1>13. Rewrites(s, t, n, status, s.approvals[n], j, job)
  BY <1>7, <1>11 DEF Rewrites
<1>14. Fits(s, n, status, s.approvals[n], j, job)
  <2>1. FitsEnvironment(s, n, status, s.approvals[n], j)
    BY <1>8 DEF FitsEnvironment
  <2>2. FitsJob(n, j, job)
    BY <1>1, <1>2, <1>3, <1>4, <1>6 DEF FitsJob
  <2>3. FitsGate(n, status, s.approvals[n], j, job)
    BY <1>3, <1>4, <1>6, <1>8 DEF FitsGate
  <2>4. QED
    BY <2>1, <2>2, <2>3 DEF Fits
<1>15. PortalInv(t)
  BY <1>1, <1>12, <1>13, <1>14, RewritePreserves
<1>16. FitsTeardown(s, n, status, j, job)
  BY <1>1, <1>2, <1>3, <1>4, <1>5, <1>6, NoJobAssumption DEF FitsTeardown
<1>17. NoSharedJobId /\ TeardownTracked(s) => TeardownTracked(t)
  BY <1>1, <1>13, <1>16, RewriteTracked
<1>18. FitsReady(s, n, status, j, job)
  BY <1>1, <1>2, <1>3, <1>4, <1>5, <1>6, NoJobAssumption DEF FitsReady
<1>19. NoSharedJobId /\ ReadyWasProvisioned(s) => ReadyWasProvisioned(t)
  BY <1>1, <1>13, <1>16, <1>18, RewriteReady
<1>20. QED
  BY <1>15, <1>17, <1>19 DEF t, Preserved

(* advanceControlPlaneJob. *)
LEMMA AdvancePreserves ==
  ASSUME NEW s, PortalInv(s), NEW j \in JobIds, JobExists(s, j)
  PROVE  Preserved(s, AdvanceControlPlaneJob(s, j))
<1>1. s.jobs[j].state \in ControlPlaneJobState
  BY JobTypes DEF JobExists
<1>2. \/ s.jobs[j].state \in {"Queued", "Validating", "AwaitingApproval"}
      \/ s.jobs[j].state \in {"Provisioning", "Ready", "Failed", "Expired", "Destroying", "Destroyed"}
  BY <1>1 DEF ControlPlaneJobState
<1>3. QED
  BY <1>2, AdvanceKeepsPreserves, AdvanceEndsPreserves

-----------------------------------------------------------------------------
(* decideApproval writes one decision and one status, and on approval releases *)
(* every paused job of the environment.                                       *)
Decides(s, t, n, decision, status) ==
  /\ t.environments = WithStatus(s.environments, n, status)
  /\ t.approvals = [s.approvals EXCEPT ![n] = decision]
  /\ t.jobs \in [JobIds -> ControlPlaneJob \cup {NoJob}]

Released(s, t, n, j) ==
  /\ s.jobs[j].environment = n
  /\ s.jobs[j].state = "AwaitingApproval"
  /\ s.jobs[j] # NoJob
  /\ t.jobs[j] = TransitionJob(s.jobs[j], "Queued", FALSE)

(* No status becomes "Needs approval", the other decisions and every name stay. *)
KeepsTheRest(s, t, n) ==
  /\ \A m \in Environments : m # n => t.approvals[m] = s.approvals[m]
  /\ \A m \in Environments : t.environments[m] = "Absent" => s.environments[m] = "Absent"
  /\ \A m \in Environments :
       t.environments[m] = "Needs approval" => m # n /\ s.environments[m] = "Needs approval"

(* The statuses and decisions a decision leaves. *)
LEMMA DecidedEnvironments ==
  ASSUME NEW s, NEW t, PortalInv(s), NEW n \in Environments,
         NEW decision \in {"Approved", "Rejected"}, NEW status \in {"Provisioning", "Failed"},
         Decides(s, t, n, decision, status)
  PROVE  /\ t.environments \in [Environments -> EnvironmentStatus \cup {"Absent"}]
         /\ t.approvals \in [Environments -> ApprovalStatus \cup {"None"}]
         /\ t.approvals[n] = decision
         /\ KeepsTheRest(s, t, n)
<1>1. /\ s.environments \in [Environments -> EnvironmentStatus \cup {"Absent"}]
      /\ s.approvals \in [Environments -> ApprovalStatus \cup {"None"}]
  BY PortalFields DEF PortalInv
<1>2. /\ t.approvals \in [Environments -> ApprovalStatus \cup {"None"}]
      /\ t.approvals[n] = decision
      /\ \A m \in Environments : m # n => t.approvals[m] = s.approvals[m]
  BY <1>1 DEF Decides, ApprovalStatus
<1>3. CASE s.environments[n] = "Absent"
  <2>1. t.environments = s.environments
    BY <1>3 DEF Decides, WithStatus
  <2>2. QED
    BY <1>1, <1>2, <1>3, <2>1 DEF KeepsTheRest
<1>4. CASE s.environments[n] # "Absent"
  <2>1. t.environments = [s.environments EXCEPT ![n] = status]
    BY <1>4 DEF Decides, WithStatus
  <2>2. t.environments \in [Environments -> EnvironmentStatus \cup {"Absent"}]
    BY <1>1, <2>1 DEF EnvironmentStatus
  <2>3. t.environments[n] = status /\ \A m \in Environments : m # n => t.environments[m] = s.environments[m]
    BY <1>1, <2>1
  <2>4. QED
    BY <1>2, <2>2, <2>3 DEF KeepsTheRest
<1>5. QED
  BY <1>3, <1>4

(* A released job keeps its identity and its account. *)
LEMMA ReleasedJob ==
  ASSUME NEW s, NEW t, PortalInv(s), NEW n \in Environments, NEW j \in JobIds, Released(s, t, n, j)
  PROVE  /\ s.jobs[j] # NoJob
         /\ t.jobs[j] \in ControlPlaneJob
         /\ t.jobs[j] # NoJob
         /\ t.jobs[j].environment = n
         /\ s.jobs[j].environment = n
         /\ s.jobs[j].state = "AwaitingApproval"
         /\ t.jobs[j].state = "Queued"
         /\ t.jobs[j].operation = s.jobs[j].operation
         /\ t.jobs[j].attempts = s.jobs[j].attempts
         /\ t.jobs[j].retries = s.jobs[j].retries
<1> DEFINE found == s.jobs[j]
           job == t.jobs[j]
<1>1. found \in ControlPlaneJob /\ found.environment = n /\ found.state = "AwaitingApproval"
  BY JobTypes DEF Released
<1>2. job = TransitionJob(found, "Queued", FALSE)
  BY DEF Released
<1> HIDE DEF found, job
<1>3. /\ job \in ControlPlaneJob
      /\ job.environment = n
      /\ job.state = "Queued"
      /\ job.operation = found.operation
      /\ job.attempts = found.attempts
      /\ job.retries = found.retries
  BY <1>1, <1>2 DEF TransitionJob, ControlPlaneJob, ControlPlaneJobState
<1>4. QED
  BY <1>1, <1>3, NoJobAssumption DEF found, job, Released

(* A decision and its releases preserve the invariant. *)
LEMMA DecidedPreserves ==
  ASSUME NEW s, NEW t, PortalInv(s), t \in Portal, NEW n \in Environments,
         NEW decision \in {"Approved", "Rejected"}, NEW status \in {"Provisioning", "Failed"},
         Decides(s, t, n, decision, status),
         \A j \in JobIds : Released(s, t, n, j) \/ t.jobs[j] = s.jobs[j],
         decision = "Approved" =>
           \A j \in JobIds :
             (s.jobs[j] # NoJob /\ s.jobs[j].environment = n /\ s.jobs[j].state = "AwaitingApproval")
               => Released(s, t, n, j)
  PROVE  Preserved(s, t)
<1>a. KeepsTheRest(s, t, n) /\ t.approvals[n] = decision
  BY ONLY DecidedEnvironments, PortalInv(s), n \in Environments,
     decision \in {"Approved", "Rejected"}, status \in {"Provisioning", "Failed"},
     Decides(s, t, n, decision, status)
<1>1. PausedJobsUndecided(t)
  <2> SUFFICES ASSUME NEW j \in JobIds, t.jobs[j] # NoJob, t.jobs[j].state = "AwaitingApproval"
               PROVE  t.approvals[t.jobs[j].environment] \in {"Pending", "Rejected"}
    BY DEF PausedJobsUndecided
  <2>1. ~Released(s, t, n, j)
    BY ReleasedJob
  <2>2. t.jobs[j] = s.jobs[j]
    BY <2>1
  <2>3. /\ s.jobs[j].environment \in Environments
        /\ s.approvals[s.jobs[j].environment] \in {"Pending", "Rejected"}
    BY <2>2, JobTypes, FoundJob DEF JobExists
  <2>4. CASE s.jobs[j].environment = n
    <3>1. decision = "Rejected"
      BY <2>1, <2>2, <2>4
    <3>2. QED
      BY <1>a, <2>2, <2>4, <3>1 DEF KeepsTheRest
  <2>5. CASE s.jobs[j].environment # n
    <3>1. t.approvals[s.jobs[j].environment] = s.approvals[s.jobs[j].environment]
      BY <1>a, <2>3, <2>5 DEF KeepsTheRest
    <3>2. QED
      BY <2>2, <2>3, <3>1
  <2>6. QED
    BY <2>4, <2>5
<1>2. NeedsApprovalIsOpen(t)
  <2> SUFFICES ASSUME NEW m \in Environments, t.environments[m] = "Needs approval"
               PROVE  t.approvals[m] = "Pending"
    BY DEF NeedsApprovalIsOpen
  <2>1. m # n /\ s.environments[m] = "Needs approval"
    BY <1>a DEF KeepsTheRest
  <2>2. s.approvals[m] = "Pending"
    BY <2>1, FoundEnvironment
  <2>3. t.approvals[m] = s.approvals[m]
    BY <1>a, <2>1 DEF KeepsTheRest
  <2>4. QED
    BY <2>2, <2>3
<1>3. AttemptsAccountedFor(t)
  <2> SUFFICES ASSUME NEW j \in JobIds, t.jobs[j] # NoJob
               PROVE  /\ t.jobs[j].state \in {"Provisioning", "Ready"} => t.jobs[j].attempts > 0
                      /\ t.jobs[j].attempts <= t.jobs[j].retries + 1
                      /\ t.jobs[j].state \in {"Queued", "Validating", "AwaitingApproval"}
                           => t.jobs[j].attempts <= t.jobs[j].retries
    BY DEF AttemptsAccountedFor
  <2>1. CASE Released(s, t, n, j)
    <3>1. s.jobs[j].attempts <= s.jobs[j].retries
      BY <2>1, ReleasedJob, FoundJob DEF JobExists
    <3>2. s.jobs[j].attempts \in Nat /\ s.jobs[j].retries \in Nat
      BY <2>1, ReleasedJob, JobTypes
    <3>3. /\ t.jobs[j].state = "Queued"
          /\ t.jobs[j].attempts = s.jobs[j].attempts
          /\ t.jobs[j].retries = s.jobs[j].retries
      BY <2>1, ReleasedJob
    <3>4. QED
      BY <3>1, <3>2, <3>3
  <2>2. CASE t.jobs[j] = s.jobs[j]
    BY <2>2, FoundJob DEF JobExists
  <2>3. QED
    BY <2>1, <2>2
<1>4. JobsFiledUnderTheirEnvironment(t)
  <2> SUFFICES ASSUME NEW j \in JobIds, t.jobs[j] # NoJob
               PROVE  /\ t.environments[t.jobs[j].environment] # "Absent"
                      /\ t.jobs[j].operation = "Provision"
                           => /\ j = provisionJobId[t.jobs[j].environment]
                              /\ t.jobs[j].state \notin {"Destroying", "Destroyed"}
                      /\ t.jobs[j].operation = "Destroy"
                           => /\ j = destroyJobId[t.jobs[j].environment]
                              /\ t.jobs[j].state # "AwaitingApproval"
    BY DEF JobsFiledUnderTheirEnvironment
  <2>1. /\ s.jobs[j] # NoJob
        /\ t.jobs[j].environment = s.jobs[j].environment
        /\ t.jobs[j].operation = s.jobs[j].operation
        /\ t.jobs[j].state \in {"Queued", s.jobs[j].state}
    BY ReleasedJob
  <2>2. /\ s.jobs[j].environment \in Environments
        /\ s.environments[s.jobs[j].environment] # "Absent"
    BY <2>1, JobTypes, FoundJob DEF JobExists
  <2>3. t.environments[s.jobs[j].environment] # "Absent"
    BY <1>a, <2>2 DEF KeepsTheRest
  <2>4. /\ s.jobs[j].operation = "Provision"
             => /\ j = provisionJobId[s.jobs[j].environment]
                /\ s.jobs[j].state \notin {"Destroying", "Destroyed"}
        /\ s.jobs[j].operation = "Destroy"
             => /\ j = destroyJobId[s.jobs[j].environment]
                /\ s.jobs[j].state # "AwaitingApproval"
    BY <2>1, FoundJob DEF JobExists
  <2>5. QED
    BY <2>1, <2>3, <2>4
<1>5. GatedUntilDecided(t)
  <2> SUFFICES ASSUME NEW m \in Environments, t.environments[m] = "Needs approval",
                      t.jobs[provisionJobId[m]] # NoJob,
                      t.jobs[provisionJobId[m]].environment = m,
                      t.jobs[provisionJobId[m]].operation = "Provision",
                      t.jobs[provisionJobId[m]].retries = 0
               PROVE  t.jobs[provisionJobId[m]].state = "AwaitingApproval"
    BY DEF GatedUntilDecided, JobOf, JobExists
  <2>1. m # n /\ s.environments[m] = "Needs approval"
    BY <1>a DEF KeepsTheRest
  <2>2. provisionJobId[m] \in JobIds
    BY JobIdsAssumption
  <2>3. ~Released(s, t, n, provisionJobId[m])
    BY <2>1, <2>2, ReleasedJob
  <2>4. t.jobs[provisionJobId[m]] = s.jobs[provisionJobId[m]]
    BY <2>2, <2>3
  <2>5. QED
    BY <2>1, <2>4 DEF PortalInv, GatedUntilDecided, JobOf, JobExists
<1>6. UnretriedTeardownsTearDown(t)
  <2> SUFFICES ASSUME NEW j \in JobIds, t.jobs[j] # NoJob,
                      t.jobs[j].operation = "Destroy", t.jobs[j].retries = 0
               PROVE  t.jobs[j].state \in {"Destroying", "Destroyed", "Failed"}
    BY DEF UnretriedTeardownsTearDown
  <2>1. ~Released(s, t, n, j)
    <3> SUFFICES ASSUME Released(s, t, n, j) PROVE FALSE
      OBVIOUS
    <3>1. /\ s.jobs[j] # NoJob
          /\ s.jobs[j].state = "AwaitingApproval"
          /\ s.jobs[j].operation = "Destroy"
          /\ s.jobs[j].retries = 0
      BY ReleasedJob
    <3>2. QED
      BY <3>1 DEF PortalInv, UnretriedTeardownsTearDown
  <2>2. t.jobs[j] = s.jobs[j]
    BY <2>1
  <2>3. QED
    BY <2>2, FoundJob DEF JobExists
<1>7. ASSUME NoSharedJobId, TeardownTracked(s)
      PROVE  TeardownTracked(t)
  <2> SUFFICES ASSUME NEW m \in Environments PROVE Tracked(t, m)
    BY TrackedName
  <2>1. Tracked(s, m)
    BY <1>7, TrackedName
  <2>2. destroyJobId[m] \in JobIds
    BY JobIdsAssumption
  <2>3. t.environments[m] \in {"Destroying", "Destroyed"}
          => s.environments[m] = t.environments[m]
    <3>1. CASE s.environments[n] = "Absent"
      BY <3>1 DEF Decides, WithStatus
    <3>2. CASE s.environments[n] # "Absent"
      <4>1. t.environments = [s.environments EXCEPT ![n] = status]
        BY <3>2 DEF Decides, WithStatus
      <4>2. s.environments \in [Environments -> EnvironmentStatus \cup {"Absent"}]
        BY PortalFields DEF PortalInv
      <4>3. t.environments[m] = IF m = n THEN status ELSE s.environments[m]
        BY <4>1, <4>2
      <4>4. QED
        BY <4>3
    <3>3. QED
      BY <3>1, <3>2
  <2>4. CASE Released(s, t, n, destroyJobId[m])
    <3>1. s.environments[m] \notin {"Destroying", "Destroyed"}
      BY <2>1, <2>4 DEF Released, Tracked
    <3>2. QED
      BY <2>3, <3>1 DEF Tracked
  <2>5. CASE t.jobs[destroyJobId[m]] = s.jobs[destroyJobId[m]]
    BY <2>1, <2>3, <2>5 DEF Tracked
  <2>6. QED
    BY <2>2, <2>4, <2>5
<1>8. ASSUME NoSharedJobId, ReadyWasProvisioned(s)
      PROVE  ReadyWasProvisioned(t)
  <2> SUFFICES ASSUME NEW m \in Environments, t.environments[m] = "Ready"
               PROVE  \/ SeedStatus[m] = "Ready" /\ \A j \in JobIds : ~JobOf(t, j, m)
                      \/ \E j \in JobIds : JobOf(t, j, m) /\ t.jobs[j].attempts > 0
    BY DEF ReadyWasProvisioned
  <2>1. s.environments[m] = "Ready"
    <3>1. s.environments \in [Environments -> EnvironmentStatus \cup {"Absent"}]
      BY PortalFields DEF PortalInv
    <3>2. QED
      BY <3>1 DEF Decides, WithStatus
  <2>2. \A j \in JobIds : /\ JobOf(t, j, m) <=> JobOf(s, j, m)
                          /\ JobOf(s, j, m) => t.jobs[j].attempts = s.jobs[j].attempts
    <3> SUFFICES ASSUME NEW j \in JobIds
                 PROVE  /\ JobOf(t, j, m) <=> JobOf(s, j, m)
                        /\ JobOf(s, j, m) => t.jobs[j].attempts = s.jobs[j].attempts
      OBVIOUS
    <3>1. CASE Released(s, t, n, j)
      BY <3>1, ReleasedJob DEF JobOf, JobExists
    <3>2. CASE t.jobs[j] = s.jobs[j]
      BY <3>2 DEF JobOf, JobExists
    <3>3. QED
      BY <3>1, <3>2
  <2>3. QED
    BY <1>8, <2>1, <2>2 DEF ReadyWasProvisioned
<1>9. PortalInv(t)
  BY <1>1, <1>2, <1>3, <1>4, <1>5, <1>6 DEF PortalInv
<1>10. QED
  BY <1>7, <1>8, <1>9 DEF Preserved

(* decideApproval, rejecting: the jobs stay as they are. *)
LEMMA RejectPreserves ==
  ASSUME NEW s, PortalInv(s), NEW n \in Environments
  PROVE  Preserved(s, DecideApproval(s, n, "Rejected"))
<1> DEFINE t == DecideApproval(s, n, "Rejected")
<1>1. /\ t.environments = WithStatus(s.environments, n, "Failed")
      /\ t.approvals = [s.approvals EXCEPT ![n] = "Rejected"]
      /\ t.jobs = s.jobs
  BY DEF DecideApproval
<1>2. t = [approvals |-> t.approvals, environments |-> t.environments, jobs |-> t.jobs]
  BY DEF DecideApproval
<1> HIDE DEF t
<1>3. Decides(s, t, n, "Rejected", "Failed")
  BY <1>1, PortalFields DEF Decides, PortalInv
<1>4. t \in Portal
  <2>1. /\ t.environments \in [Environments -> EnvironmentStatus \cup {"Absent"}]
        /\ t.approvals \in [Environments -> ApprovalStatus \cup {"None"}]
    BY <1>3, DecidedEnvironments
  <2>2. t.jobs \in [JobIds -> ControlPlaneJob \cup {NoJob}]
    BY <1>3 DEF Decides
  <2>3. QED
    BY <1>2, <2>1, <2>2 DEF Portal
<1>5. \A j \in JobIds : t.jobs[j] = s.jobs[j]
  BY <1>1
<1>6. Preserved(s, t)
  BY <1>3, <1>4, <1>5, DecidedPreserves
<1>7. QED
  BY <1>6 DEF t

(* decideApproval, approving: exactly the paused jobs are released. *)
LEMMA ApprovePreserves ==
  ASSUME NEW s, PortalInv(s), NEW n \in Environments
  PROVE  Preserved(s, DecideApproval(s, n, "Approved"))
<1> DEFINE t == DecideApproval(s, n, "Approved")
<1>1. /\ t.environments = WithStatus(s.environments, n, "Provisioning")
      /\ t.approvals = [s.approvals EXCEPT ![n] = "Approved"]
      /\ t.jobs = ReleaseApprovalPausedJobs(s.jobs, n)
  BY DEF DecideApproval
<1>2. t = [approvals |-> t.approvals, environments |-> t.environments, jobs |-> t.jobs]
  BY DEF DecideApproval
<1> HIDE DEF t
<1>3. ASSUME NEW j \in JobIds, s.jobs[j] # NoJob, s.jobs[j].environment = n,
             s.jobs[j].state = "AwaitingApproval"
      PROVE  Released(s, t, n, j)
  BY <1>1, <1>3 DEF ReleaseApprovalPausedJobs, Released
<1>4. ASSUME NEW j \in JobIds,
             ~(s.jobs[j] # NoJob /\ s.jobs[j].environment = n /\ s.jobs[j].state = "AwaitingApproval")
      PROVE  t.jobs[j] = s.jobs[j]
  BY <1>1, <1>4 DEF ReleaseApprovalPausedJobs
<1>5. \A j \in JobIds : Released(s, t, n, j) \/ t.jobs[j] = s.jobs[j]
  BY <1>3, <1>4
<1>6. t.jobs \in [JobIds -> ControlPlaneJob \cup {NoJob}]
  <2>1. \A j \in JobIds : s.jobs[j] \in ControlPlaneJob \cup {NoJob}
    BY PortalFields DEF PortalInv
  <2>2. \A j \in JobIds : t.jobs[j] \in ControlPlaneJob \cup {NoJob}
    BY <1>5, <2>1, ReleasedJob
  <2>3. t.jobs = [j \in JobIds |-> t.jobs[j]]
    BY <1>1 DEF ReleaseApprovalPausedJobs
  <2>4. QED
    BY <2>2, <2>3
<1>7. Decides(s, t, n, "Approved", "Provisioning")
  BY <1>1, <1>6 DEF Decides
<1>8. t \in Portal
  <2>1. /\ t.environments \in [Environments -> EnvironmentStatus \cup {"Absent"}]
        /\ t.approvals \in [Environments -> ApprovalStatus \cup {"None"}]
    BY <1>7, DecidedEnvironments
  <2>2. QED
    BY <1>2, <1>6, <2>1 DEF Portal
<1>9. Preserved(s, t)
  BY <1>3, <1>5, <1>7, <1>8, DecidedPreserves
<1>10. QED
  BY <1>9 DEF t

(* createEnvironmentRequest and decideApproval, whatever is asked. *)
LEMMA CreatePreserves ==
  ASSUME NEW s, PortalInv(s), NEW n \in Environments, NEW approvalRequired \in BOOLEAN
  PROVE  Preserved(s, CreateEnvironmentRequest(s, n, approvalRequired))
BY CreateGatedPreserves, CreateUngatedPreserves

LEMMA DecidePreserves ==
  ASSUME NEW s, PortalInv(s), NEW n \in Environments, NEW decision \in {"Approved", "Rejected"}
  PROVE  Preserved(s, DecideApproval(s, n, decision))
BY ApprovePreserves, RejectPreserves
=============================================================================
