------------------------ MODULE MCProvisioningGate ------------------------
EXTENDS ProvisioningGate, Sequences

CONSTANTS dev, qa, none

MCNames == {dev, qa}
MCLabNames == {dev}

Setting(on) ==
  [x \in {"create", "adapter", "lab", "configured", "pentest"} |-> x \in on]

Lab == Setting({"create", "adapter", "lab", "configured", "pentest"})
MCImports == {Kinds, {"Cluster"}}
MCSwitches ==
  {Setting({"pentest"}), Setting({"create", "adapter"}), Lab}

-----------------------------------------------------------------------------
(* A behaviour starts with the first requests of the usual course, qa's and then  *)
(* dev's, one document after the other, and goes on freely from one of them.  On   *)
(* the course no other request is handled.                                        *)

Made(d, e) ==
  LET p == PlanOf(Planned(d, e, TRUE), e)
      d1 == Planned(d, e, TRUE)
      d2 == WithProof(d1, p, TRUE)
      d3 == Requested(d2, p, TRUE, TRUE, Lab)
      d4 == Decided(d3, p, "Approved")
      d5 == LifecycleProved(d4, p)
      d6 == Authorised(d5, Lab, 0) IN
  <<d1, d2, d3, d4, d5, d6>>

Course ==
  LET d1 == Imported(DefaultDocument, Kinds)
      d2 == RecordDecided(d1, "Cluster", "Approved")
      d3 == RecordDecided(d2, "Network", "Approved")
      d4 == RecordDecided(d3, "VM", "Approved")
      d5 == WithAuditExport(WithScope(d4, 1))
      qas == Made(d5, qa)
      devs == Made(qas[6], dev) IN
  <<DefaultDocument, d1, d2, d3, d4, d5>> \o qas \o devs \o <<Submitted(devs[6], <<dev, 1>>)>>

Pauses == {6, 11} \cup 14 .. Len(Course)   \* where it can go on freely

MCInit ==
  /\ doc = DefaultDocument
  /\ switches = Lab
  /\ now = 0
  /\ requests \in {0, RequestBound}

Follow(n) ==
  /\ requests = RequestBound
  /\ doc = Course[n]
  /\ doc' = Course[n + 1]
  /\ requests' = RequestBound \/ (n + 1 \in Pauses /\ requests' = 0)
  /\ UNCHANGED <<switches, now>>

MCNext == (\E n \in 1 .. Len(Course) - 1 : Follow(n)) \/ Next

MCSpec == MCInit /\ [][MCNext]_vars
=============================================================================
