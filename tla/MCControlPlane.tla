--------------------------- MODULE MCControlPlane ---------------------------
(***************************************************************************)
(* The control plane over two names requested by users whose job ids meet:   *)
(* `cp-${name}` of "destroy-dev" is `cp-destroy-${name}` of "dev".  Two names *)
(* that share no id only multiply each other's states.                       *)
(***************************************************************************)
EXTENDS ControlPlane

MCEnvironments == {"dev", "destroy-dev"}
MCSeedStatus == [n \in MCEnvironments |-> "Absent"]
MCJobIds == {"cp-dev", "cp-destroy-dev", "cp-destroy-destroy-dev"}
MCProvisionJobId == [n \in MCEnvironments |-> IF n = "dev" THEN "cp-dev" ELSE "cp-destroy-dev"]
MCDestroyJobId == [n \in MCEnvironments |->
                     IF n = "dev" THEN "cp-destroy-dev" ELSE "cp-destroy-destroy-dev"]

(* build-plan.md:264: "Approval-required jobs pause in `AwaitingApproval` and *)
(* return to `Queued` after approval": while the request is undecided its job *)
(* is paused.                                                                *)
UndecidedRequestsArePaused ==
  \A n \in Environments :
    (portal.environments[n] = "Needs approval" /\ JobOf(portal, provisionJobId[n], n))
      => portal.jobs[provisionJobId[n]].state = "AwaitingApproval"
=============================================================================
