------------------------- MODULE ControlPlaneProofs -------------------------
(***************************************************************************)
(* The control plane's invariants for every set of names and jobs.  None of  *)
(* them is inductive alone; PortalInv, their conjunction with the type and   *)
(* with JobsFiledUnderTheirEnvironment, is.                                  *)
(***************************************************************************)
EXTENDS ControlPlane, ControlPlaneStateProofs

IInv == PortalInv(portal)

(* Each request preserves the invariant, and tracks teardowns if it can. *)
LEMMA StepPreserves ==
  ASSUME IInv, Next
  PROVE  Preserved(portal, portal')
<1>1. ASSUME NEW n \in Environments, NEW approvalRequired \in BOOLEAN, Create(n, approvalRequired)
      PROVE  Preserved(portal, portal')
  BY <1>1, CreatePreserves DEF IInv, Create
<1>2. ASSUME NEW n \in Environments, Destroy(n)
      PROVE  Preserved(portal, portal')
  BY <1>2, DestroyPreserves DEF IInv, Destroy
<1>3. ASSUME NEW n \in Environments, NEW decision \in {"Approved", "Rejected"}, Decide(n, decision)
      PROVE  Preserved(portal, portal')
  BY <1>3, DecidePreserves DEF IInv, Decide
<1>4. ASSUME NEW j \in JobIds, Advance(j)
      PROVE  Preserved(portal, portal')
  BY <1>4, AdvancePreserves DEF IInv, Advance
<1>5. ASSUME NEW j \in JobIds, Retry(j)
      PROVE  Preserved(portal, portal')
  BY <1>5, RetryPreserves DEF IInv, Retry
<1>6. ASSUME NEW j \in JobIds, Fail(j)
      PROVE  Preserved(portal, portal')
  BY <1>6, FailPreserves DEF IInv, Fail
<1>7. QED
  BY <1>1, <1>2, <1>3, <1>4, <1>5, <1>6 DEF Next

(* PortalInv is an invariant of the control plane. *)
THEOREM InductiveInvariant == Spec => []IInv
<1>1. Init => IInv
  BY DefaultPortalInv DEF Init, IInv
<1>2. IInv /\ [Next]_vars => IInv'
  <2> SUFFICES ASSUME IInv, [Next]_vars PROVE IInv'
    OBVIOUS
  <2>1. CASE Next
    BY <2>1, StepPreserves DEF Preserved, IInv
  <2>2. CASE UNCHANGED vars
    BY <2>2 DEF vars, IInv
  <2>3. QED
    BY <2>1, <2>2
<1>3. QED
  BY <1>1, <1>2, PTL DEF Spec

(* The portal stays a portal: every request leaves statuses, decisions and jobs *)
(* of the kinds cloudStudioDomain.ts declares.                                *)
THEOREM TypeCorrect == Spec => []TypeOK
<1>1. IInv => TypeOK
  BY DEF IInv, PortalInv, TypeOK
<1>2. QED
  BY <1>1, InductiveInvariant, PTL

(* No approved request leaves a paused job behind (releaseApprovalPausedJobs). *)
THEOREM PausedJobsStayUndecided == Spec => []PausedJobsUndecidedInv
<1>1. IInv => PausedJobsUndecidedInv
  BY DEF IInv, PortalInv, PausedJobsUndecidedInv
<1>2. QED
  BY <1>1, InductiveInvariant, PTL

(* Whatever needs approval can be approved (decideApproval finds it Pending). *)
THEOREM NeedsApprovalStaysOpen == Spec => []NeedsApprovalIsOpenInv
<1>1. IInv => NeedsApprovalIsOpenInv
  BY DEF IInv, PortalInv, NeedsApprovalIsOpenInv
<1>2. QED
  BY <1>1, InductiveInvariant, PTL

(* No job is provisioned more often than it was queued (transitionJob). *)
THEOREM AttemptsStayAccountedFor == Spec => []AttemptsAccountedForInv
<1>1. IInv => AttemptsAccountedForInv
  BY DEF IInv, PortalInv, AttemptsAccountedForInv
<1>2. QED
  BY <1>1, InductiveInvariant, PTL

(* Without a retry no job passes its approval (nextControlPlaneState leaves    *)
(* AwaitingApproval alone).                                                    *)
THEOREM ApprovalGateHolds == Spec => []GatedUntilDecidedInv
<1>1. IInv => GatedUntilDecidedInv
  BY DEF IInv, PortalInv, GatedUntilDecidedInv
<1>2. QED
  BY <1>1, InductiveInvariant, PTL

(* Without a retry a teardown job never provisions. *)
THEOREM TeardownsOnlyTearDown == Spec => []UnretriedTeardownsTearDownInv
<1>1. IInv => UnretriedTeardownsTearDownInv
  BY DEF IInv, PortalInv, UnretriedTeardownsTearDownInv
<1>2. QED
  BY <1>1, InductiveInvariant, PTL

(* While no name's provision job has the id of another's teardown job, every  *)
(* environment being torn down has its teardown job (requestEnvironmentDestroy). *)
THEOREM TeardownsStayTracked ==
  ASSUME NoSharedJobId
  PROVE  Spec => []DestroyingHasTeardownJob
<1> DEFINE TInv == IInv /\ TeardownTracked(portal)
<1>1. Init => TInv
  BY DefaultPortalInv DEF Init, IInv
<1>2. TInv /\ [Next]_vars => TInv'
  <2> SUFFICES ASSUME TInv, [Next]_vars PROVE TInv'
    OBVIOUS
  <2>1. CASE Next
    BY <2>1, StepPreserves DEF Preserved, IInv
  <2>2. CASE UNCHANGED vars
    BY <2>2 DEF vars, IInv
  <2>3. QED
    BY <2>1, <2>2
<1>3. TInv => DestroyingHasTeardownJob
  BY DEF DestroyingHasTeardownJob
<1> HIDE DEF TInv
<1>4. QED
  BY <1>1, <1>2, <1>3, PTL DEF Spec
=============================================================================
