---------------------------- MODULE MCApiServer ----------------------------
(***************************************************************************)
(* Two concurrent connections over the seeded environment ml-reco-lab.       *)
(***************************************************************************)
EXTENDS ApiServer

MCEnvironments == {"ml-reco-lab"}
MCSeedStatus == [n \in MCEnvironments |-> "Needs approval"]
MCJobIds == {"cp-ml-reco-lab", "cp-destroy-ml-reco-lab"}
MCProvisionJobId == [n \in MCEnvironments |-> "cp-ml-reco-lab"]
MCDestroyJobId == [n \in MCEnvironments |-> "cp-destroy-ml-reco-lab"]
=============================================================================
