----------------------- MODULE ProvisioningGateProofs -----------------------
(***************************************************************************)
(* What holds of the gate chain for any names, switches, imports and bounds.  *)
(***************************************************************************)
EXTENDS ProvisioningGate, TLAPS

-----------------------------------------------------------------------------
(* The inductive invariant: a rejected gate is blocked, and an approved gate of a *)
(* plan on file is of a plan that passed.                                         *)
SoundGate(d, p) ==
  /\ d.gates[p].approval = "Rejected" => d.gates[p].status = "Blocked"
  /\ IsApproved(d, p) /\ OnFile(d, p) => Passed(d, p)

Sound(d) == \A p \in Gated(d) : SoundGate(d, p)

DocumentOK(d) == d \in Document /\ Rooted(d) /\ Sound(d)

IInv == TypeOK /\ Sound(doc)

(* What Rooted and Sound speak of is the same. *)
SameChain(d, d2) ==
  /\ d2.plans = d.plans /\ d2.proofs = d.proofs /\ d2.gates = d.gates
  /\ d2.newestGate = d.newestGate /\ d2.newestEnvelope = d.newestEnvelope
  /\ d2.verified = d.verified /\ d2.authorised = d.authorised /\ d2.runs = d.runs

LEMMA SameChainKeeps ==
  ASSUME NEW d, NEW d2, DocumentOK(d), SameChain(d, d2), d2 \in Document
  PROVE  DocumentOK(d2)
BY ZenonT(60)
DEF DocumentOK, SameChain, Rooted, Sound, SoundGate, Gated, IsApproved, OnFile, Passed,
       AdmittedPlans

LEMMA PlanOfOnFile ==
  ASSUME NEW d \in Document, NEW e \in Names, HasPlan(d, e)
  PROVE  /\ PlanOf(d, e) \in PlanIds
         /\ PlanOf(d, e)[1] = e
         /\ PlanOf(d, e)[2] = d.plans[e].id
         /\ OnFile(d, PlanOf(d, e))
<1>1. d.plans[e].id \in 1 .. PlanBound
  BY BoundsAssumption DEF Document, HasPlan
<1> QED
  BY <1>1 DEF PlanOf, OnFile, PlanIds

LEMMA DefaultIsOK == DocumentOK(DefaultDocument)
<1>1. DefaultDocument \in Document
  BY BoundsAssumption DEF DefaultDocument, Document, PlanIds, RegistryStatus, Entries, Kinds
<1>2. Gated(DefaultDocument) = {}
  BY DEF Gated, DefaultDocument
<1>3. Rooted(DefaultDocument)
  BY <1>2 DEF Rooted, DefaultDocument, AdmittedPlans
<1> QED
  BY <1>1, <1>2, <1>3 DEF DocumentOK, Sound

-----------------------------------------------------------------------------
(* Each handler makes a sound document of a sound one. *)

LEMMA PlannedOK ==
  ASSUME NEW d, DocumentOK(d), NEW e \in Names, d.plans[e].id < PlanBound,
         NEW good \in BOOLEAN
  PROVE  DocumentOK(Planned(d, e, good))
<1> DEFINE d2 == Planned(d, e, good)
<1> USE DEF DocumentOK
<1>1. d2 \in Document
  <2>1. d.plans[e].id + 1 \in 0 .. PlanBound
    BY BoundsAssumption DEF Document
  <2>2. [id |-> d.plans[e].id + 1,
         passed |-> good /\ \A x \in Entries : d.registry[x] = "Published"]
          \in [id : 0 .. PlanBound, passed : BOOLEAN]
    BY <2>1, Zenon
  <2>3. [d.plans EXCEPT ![e] =
           [id |-> d.plans[e].id + 1,
            passed |-> good /\ \A x \in Entries : d.registry[x] = "Published"]]
          \in [Names -> [id : 0 .. PlanBound, passed : BOOLEAN]]
    BY <2>2, Zenon DEF Document
  <2> QED
    BY <2>3 DEF Planned, Document
<1>2. /\ \A f \in Names \ {e} : d2.plans[f] = d.plans[f]
      /\ d2.plans[e].id = d.plans[e].id + 1
      /\ d.plans[e].id \in Nat
      /\ d2.proofs = d.proofs /\ d2.gates = d.gates
      /\ d2.newestGate = d.newestGate /\ d2.newestEnvelope = d.newestEnvelope
      /\ d2.verified = d.verified /\ d2.authorised = d.authorised /\ d2.runs = d.runs
  BY BoundsAssumption DEF Planned, Document
<1>3. Gated(d2) = Gated(d) /\ AdmittedPlans(d2) = AdmittedPlans(d)
  BY <1>2 DEF Gated, AdmittedPlans
<1>4. \A p \in PlanIds : d.plans[p[1]].id \in Nat /\ p[2] \in Nat /\ p[1] \in Names
  BY BoundsAssumption DEF Document, PlanIds
<1>5. \A p \in PlanIds : p[2] <= d.plans[p[1]].id => p[2] <= d2.plans[p[1]].id
  BY <1>2, <1>4
<1> HIDE DEF d2
<1>6. Rooted(d2)
  <2>1. d.proofs \cup Gated(d) \subseteq PlanIds
    BY DEF Gated, Document
  <2> QED
    BY <1>2, <1>3, <1>5, <2>1 DEF Rooted
<1>7. Sound(d2)
  <2> SUFFICES ASSUME NEW p \in Gated(d) PROVE SoundGate(d2, p)
    BY <1>3 DEF Sound
  <2>1. SoundGate(d, p) /\ p \in PlanIds /\ p[2] <= d.plans[p[1]].id
    BY DEF Sound, Gated, Rooted
  <2>2. CASE p[1] = e
    <3>1. ~OnFile(d2, p)
      BY <2>1, <2>2, <1>2, <1>4 DEF OnFile
    <3> QED
      BY <2>1, <3>1, <1>2 DEF SoundGate, IsApproved
  <2>3. CASE p[1] # e
    BY <2>1, <2>3, <1>2, <1>4 DEF SoundGate, IsApproved, OnFile, Passed
  <2> QED
    BY <2>2, <2>3
<1> QED
  BY <1>1, <1>6, <1>7 DEF d2

LEMMA RecordsAsideOK ==
  ASSUME NEW d, DocumentOK(d)
  PROVE  /\ \A expiresAt \in 0 .. TimeBound : DocumentOK(WithScope(d, expiresAt))
         /\ DocumentOK(WithAuditExport(d))
         /\ DocumentOK([d EXCEPT !.enabled = TRUE])
         /\ \A e : DocumentOK([d EXCEPT !.active = @ \ {e}])
<1>1. ASSUME NEW expiresAt \in 0 .. TimeBound
      PROVE  DocumentOK(WithScope(d, expiresAt))
  <2>1. WithScope(d, expiresAt) \in Document
    BY DEF DocumentOK, WithScope, Document
  <2>2. SameChain(d, WithScope(d, expiresAt))
    BY DEF DocumentOK, WithScope, Document, SameChain
  <2> QED
    BY <2>1, <2>2, SameChainKeeps
<1>2. DocumentOK(WithAuditExport(d))
  <2>1. WithAuditExport(d) \in Document
    BY DEF DocumentOK, WithAuditExport, Document
  <2>2. SameChain(d, WithAuditExport(d))
    BY DEF DocumentOK, WithAuditExport, Document, SameChain
  <2> QED
    BY <2>1, <2>2, SameChainKeeps
<1>3. DocumentOK([d EXCEPT !.enabled = TRUE])
  <2>1. [d EXCEPT !.enabled = TRUE] \in Document
    BY DEF DocumentOK, Document
  <2>2. SameChain(d, [d EXCEPT !.enabled = TRUE])
    BY DEF DocumentOK, Document, SameChain
  <2> QED
    BY <2>1, <2>2, SameChainKeeps
<1>4. ASSUME NEW e
      PROVE  DocumentOK([d EXCEPT !.active = @ \ {e}])
  <2>1. [d EXCEPT !.active = @ \ {e}] \in Document
    BY DEF DocumentOK, Document
  <2>2. SameChain(d, [d EXCEPT !.active = @ \ {e}])
    BY DEF DocumentOK, Document, SameChain
  <2> QED
    BY <2>1, <2>2, SameChainKeeps
<1> QED
  BY <1>1, <1>2, <1>3, <1>4

LEMMA InventoryOK ==
  ASSUME NEW d, DocumentOK(d)
  PROVE  /\ \A kinds \in Imports : DocumentOK(Imported(d, kinds))
         /\ \A k \in Kinds, decision \in {"Approved", "Rejected"} :
              DocumentOK(RecordDecided(d, k, decision))
         /\ \A x \in Entries, action \in DOMAIN NextRegistryStatus :
              DocumentOK([d EXCEPT !.registry[x] = NextRegistryStatus[action]])
<1>1. ASSUME NEW kinds \in Imports
      PROVE  DocumentOK(Imported(d, kinds))
  <2>1. Imported(d, kinds) \in Document
    BY DEF DocumentOK, Imported, Document
  <2>2. SameChain(d, Imported(d, kinds))
    BY DEF DocumentOK, Imported, Document, SameChain
  <2> QED
    BY <2>1, <2>2, SameChainKeeps
<1>2. ASSUME NEW k \in Kinds, NEW decision \in {"Approved", "Rejected"}
      PROVE  DocumentOK(RecordDecided(d, k, decision))
  <2>1. RecordDecided(d, k, decision) \in Document
    BY DEF DocumentOK, RecordDecided, Document
  <2>2. SameChain(d, RecordDecided(d, k, decision))
    BY DEF DocumentOK, RecordDecided, Document, SameChain
  <2> QED
    BY <2>1, <2>2, SameChainKeeps
<1>3. ASSUME NEW x \in Entries, NEW action \in DOMAIN NextRegistryStatus
      PROVE  DocumentOK([d EXCEPT !.registry[x] = NextRegistryStatus[action]])
  <2>1. NextRegistryStatus[action] \in RegistryStatus
    <3>1. action \in {"submit", "approve", "deprecate", "restore"}
      BY DEF NextRegistryStatus
    <3>2. /\ NextRegistryStatus.submit \in RegistryStatus
          /\ NextRegistryStatus.approve \in RegistryStatus
          /\ NextRegistryStatus.deprecate \in RegistryStatus
          /\ NextRegistryStatus.restore \in RegistryStatus
      BY DEF NextRegistryStatus, RegistryStatus
    <3> QED
      BY <3>1, <3>2
  <2>2. [d EXCEPT !.registry[x] = NextRegistryStatus[action]] \in Document
    BY <2>1 DEF DocumentOK, Document
  <2>3. SameChain(d, [d EXCEPT !.registry[x] = NextRegistryStatus[action]])
    BY DEF DocumentOK, Document, SameChain
  <2> QED
    BY <2>2, <2>3, SameChainKeeps
<1> QED
  BY <1>1, <1>2, <1>3

LEMMA ProofOK ==
  ASSUME NEW d, DocumentOK(d), NEW p \in PlanIds, OnFile(d, p), NEW good \in BOOLEAN
  PROVE  DocumentOK(WithProof(d, p, good))
<1> DEFINE d2 == WithProof(d, p, good)
<1>1. d2 \in Document
  BY DEF DocumentOK, WithProof, Document
<1>2. /\ d2.plans = d.plans /\ d2.gates = d.gates /\ d2.proofs \subseteq d.proofs \cup {p}
      /\ d2.newestGate = d.newestGate /\ d2.newestEnvelope = d.newestEnvelope
      /\ d2.verified = d.verified /\ d2.authorised = d.authorised /\ d2.runs = d.runs
  BY DEF DocumentOK, WithProof, Document
<1> HIDE DEF d2
<1>3. d.plans[p[1]].id \in Nat
  BY DEF DocumentOK, Document, PlanIds
<1>4. Rooted(d2)
  BY <1>2, <1>3 DEF DocumentOK, Rooted, Gated, AdmittedPlans, OnFile
<1>5. Sound(d2)
  BY <1>2 DEF DocumentOK, Sound, SoundGate, Gated, IsApproved, OnFile, Passed
<1> QED
  BY <1>1, <1>4, <1>5 DEF DocumentOK, d2

LEMMA EvaluatedGate ==
  ASSUME NEW d, NEW p, NEW gate \in Gate
  PROVE  /\ Evaluated(d, p, gate) \in Gate
         /\ Evaluated(d, p, gate).approval = gate.approval
         /\ gate.approval = "Rejected" => Evaluated(d, p, gate).status = "Blocked"
         /\ Evaluated(d, p, gate).status = "Approved for controlled create"
              => Passed(d, p) /\ ReadyProof(d, p)
<1>1. /\ GateStatus(d, p, gate) \in {"Blocked", "Manual approval required",
                                    "Mutation disabled", "Approved for controlled create"}
      /\ gate.approval = "Rejected" => GateStatus(d, p, gate) = "Blocked"
      /\ GateStatus(d, p, gate) = "Approved for controlled create"
           => Passed(d, p) /\ ReadyProof(d, p)
  <2> HIDE DEF Gate
  <2> QED
    BY DEF GateStatus
<1> QED
  BY <1>1 DEF Evaluated, Gate

LEMMA GateIsGate ==
  ASSUME NEW d, d \in Document, NEW p \in Gated(d)
  PROVE  p \in PlanIds /\ d.gates[p] \in Gate
BY DEF Gated, Document

(* The document with one gate filed under its plan, as request and decision leave it. *)
Filed(d, d2, p, gate) ==
  /\ d2.gates = WithGate(d, p, Evaluated(d, p, gate))
  /\ d2.newestGate \in {d.newestGate, p}
  /\ d2.plans = d.plans /\ d2.proofs = d.proofs
  /\ d2.newestEnvelope = d.newestEnvelope
  /\ d2.verified = d.verified /\ d2.authorised = d.authorised /\ d2.runs = d.runs

(* What the filing makes of the gates, plan by plan. *)
GatesFiled(d, d2, p, gate) ==
  /\ d2.gates \in [PlanIds -> Gate \cup {None}]
  /\ d2.gates[p] = Evaluated(d, p, gate)
  /\ \A q \in PlanIds \ {p} : d2.gates[q] = d.gates[q]
  /\ Gated(d2) = Gated(d) \cup {p}

LEMMA FiledGates ==
  ASSUME NEW d, DocumentOK(d), NEW d2, NEW p \in PlanIds, NEW gate \in Gate,
         Filed(d, d2, p, gate)
  PROVE  GatesFiled(d, d2, p, gate)
<1>1. Evaluated(d, p, gate) \in Gate
  BY EvaluatedGate
<1>2. d.gates \in [PlanIds -> Gate \cup {None}]
  BY DEF DocumentOK, Document
<1>3. /\ d2.gates \in [PlanIds -> Gate \cup {None}]
      /\ d2.gates[p] = Evaluated(d, p, gate)
      /\ \A q \in PlanIds \ {p} : d2.gates[q] = d.gates[q]
  <2> HIDE DEF Gate, PlanIds
  <2> QED
    BY <1>1, <1>2 DEF Filed, WithGate
<1>4. Evaluated(d, p, gate) # None
  BY <1>1, NoneAssumption
<1> HIDE DEF Gate, PlanIds
<1> QED
  BY <1>3, <1>4 DEF Gated, GatesFiled

LEMMA FiledOK ==
  ASSUME NEW d, DocumentOK(d), NEW d2 \in Document, NEW p \in PlanIds, OnFile(d, p),
         NEW gate \in Gate, Filed(d, d2, p, gate)
  PROVE  DocumentOK(d2)
<1>1. /\ d2.gates[p] = Evaluated(d, p, gate)
      /\ \A q \in PlanIds \ {p} : d2.gates[q] = d.gates[q]
      /\ Gated(d2) = Gated(d) \cup {p}
  <2>1. GatesFiled(d, d2, p, gate)
    BY FiledGates, Zenon
  <2> QED
    BY <2>1, Zenon DEF GatesFiled
<1>2. /\ d2.plans = d.plans /\ d2.proofs = d.proofs
      /\ d2.newestGate \in {d.newestGate, p}
      /\ d2.newestEnvelope = d.newestEnvelope
      /\ d2.verified = d.verified /\ d2.authorised = d.authorised /\ d2.runs = d.runs
  BY DEF Filed
<1>3. d.plans[p[1]].id \in Nat
  BY DEF DocumentOK, Document, PlanIds
<1>4. Rooted(d2)
  BY <1>1, <1>2, <1>3 DEF DocumentOK, Rooted, AdmittedPlans, OnFile
<1>5. Sound(d2)
  <2> SUFFICES ASSUME NEW q \in Gated(d2) PROVE SoundGate(d2, q)
    BY DEF Sound
  <2>1. CASE q = p
    <3>1. /\ Evaluated(d, p, gate).approval = gate.approval
          /\ gate.approval = "Rejected" => Evaluated(d, p, gate).status = "Blocked"
          /\ Evaluated(d, p, gate).status = "Approved for controlled create" => Passed(d, p)
      BY EvaluatedGate
    <3> QED
      BY <2>1, <3>1, <1>1, <1>2 DEF SoundGate, IsApproved, OnFile, Passed
  <2>2. CASE q # p
    <3>1. q \in Gated(d) /\ q \in PlanIds
      BY <2>2, <1>1 DEF Gated
    <3>2. SoundGate(d, q) /\ d2.gates[q] = d.gates[q]
      BY <2>2, <3>1, <1>1 DEF DocumentOK, Sound
    <3> QED
      BY <3>2, <1>2 DEF SoundGate, IsApproved, OnFile, Passed
  <2> QED
    BY <2>1, <2>2
<1> QED
  BY <1>4, <1>5 DEF DocumentOK

(* What a request makes of the gate before it is evaluated. *)
Asked(d, p, present, valid, s) ==
  [(IF p \in Gated(d) THEN d.gates[p] ELSE FreshGate) EXCEPT
     !.present = @ \/ present, !.valid = @ \/ valid, !.mutationKillSwitch = s["create"]]

LEMMA RequestedOK ==
  ASSUME NEW d, DocumentOK(d), NEW p \in PlanIds, OnFile(d, p),
         NEW present \in BOOLEAN, NEW valid \in BOOLEAN, NEW s \in Switches
  PROVE  /\ DocumentOK(Requested(d, p, present, valid, s))
         /\ Asked(d, p, present, valid, s) \in Gate
         /\ Filed(d, Requested(d, p, present, valid, s), p, Asked(d, p, present, valid, s))
<1> DEFINE d2 == Requested(d, p, present, valid, s)
           gate == Asked(d, p, present, valid, s)
           base == IF p \in Gated(d) THEN d.gates[p] ELSE FreshGate
<1>1. base \in Gate
  <2>1. FreshGate \in Gate
    BY DEF FreshGate, Gate
  <2> QED
    BY <2>1, GateIsGate DEF DocumentOK
<1>2. s["create"] \in BOOLEAN
  BY SwitchesAssumption
<1>3. gate \in Gate
  <2> HIDE DEF base
  <2>1. gate = [base EXCEPT !.present = @ \/ present, !.valid = @ \/ valid,
                            !.mutationKillSwitch = s["create"]]
    BY Zenon DEF Asked, base
  <2>2. (base.present \/ present) \in BOOLEAN /\ (base.valid \/ valid) \in BOOLEAN
    OBVIOUS
  <2> HIDE DEF gate
  <2> QED
    BY <1>1, <1>2, <2>1 DEF Gate
<1>4. d2 = [d EXCEPT !.gates = WithGate(d, p, Evaluated(d, p, gate)), !.newestGate = p]
  BY Zenon DEF Requested, Asked
<1> HIDE DEF d2, gate
<1>5. Filed(d, d2, p, gate)
  BY <1>4 DEF DocumentOK, Document, Filed
<1>6. d2.gates \in [PlanIds -> Gate \cup {None}]
  <2>1. GatesFiled(d, d2, p, gate)
    BY <1>3, <1>5, FiledGates, Zenon
  <2> QED
    BY <2>1, Zenon DEF GatesFiled
<1>7. d2 \in Document
  BY <1>4, <1>6 DEF DocumentOK, Document
<1>8. DocumentOK(d2)
  BY <1>3, <1>5, <1>7, FiledOK
<1> QED
  BY <1>3, <1>5, <1>8 DEF d2, gate

LEMMA DecidedOK ==
  ASSUME NEW d, DocumentOK(d), NEW p, CanDecide(d, p),
         NEW decision \in {"Approved", "Rejected"}
  PROVE  /\ DocumentOK(Decided(d, p, decision))
         /\ [d.gates[p] EXCEPT !.approval = decision] \in Gate
         /\ Filed(d, Decided(d, p, decision), p, [d.gates[p] EXCEPT !.approval = decision])
<1> DEFINE d2 == Decided(d, p, decision)
           gate == [d.gates[p] EXCEPT !.approval = decision]
<1>1. p \in PlanIds /\ d.gates[p] \in Gate /\ OnFile(d, p)
  BY GateIsGate DEF CanDecide, DocumentOK
<1>2. gate \in Gate
  BY <1>1 DEF Gate
<1>3. d2 = [d EXCEPT !.gates = WithGate(d, p, Evaluated(d, p, gate))]
  BY Zenon DEF Decided
<1> HIDE DEF d2, gate
<1>4. Filed(d, d2, p, gate)
  BY <1>3 DEF DocumentOK, Document, Filed
<1>5. d2.gates \in [PlanIds -> Gate \cup {None}]
  <2>1. GatesFiled(d, d2, p, gate)
    BY <1>1, <1>2, <1>4, FiledGates, Zenon
  <2> QED
    BY <2>1, Zenon DEF GatesFiled
<1>6. d2 \in Document
  BY <1>3, <1>5 DEF DocumentOK, Document
<1>7. DocumentOK(d2)
  BY <1>1, <1>2, <1>4, <1>6, FiledOK
<1> QED
  BY <1>2, <1>4, <1>7 DEF d2, gate

(* Nothing but the sets of what was proved, authorized, reviewed and run changed. *)
SameGates(d, d2) ==
  /\ d2.plans = d.plans /\ d2.proofs = d.proofs /\ d2.gates = d.gates
  /\ d2.newestGate = d.newestGate

LEMMA SameGatesKeeps ==
  ASSUME NEW d, NEW d2 \in Document, DocumentOK(d), SameGates(d, d2),
         d2.verified \cup d2.authorised \cup AdmittedPlans(d2) \subseteq Gated(d),
         d2.newestEnvelope \in Gated(d) \cup {None}
  PROVE  DocumentOK(d2)
<1>1. Gated(d2) = Gated(d)
  BY DEF SameGates, Gated
<1>2. Rooted(d2)
  BY <1>1 DEF DocumentOK, SameGates, Rooted
<1>3. Sound(d2)
  BY <1>1 DEF DocumentOK, SameGates, Sound, SoundGate, IsApproved, OnFile, Passed
<1> QED
  BY <1>2, <1>3 DEF DocumentOK

LEMMA RootedSets ==
  ASSUME NEW d, DocumentOK(d)
  PROVE  /\ d.verified \subseteq Gated(d) /\ d.authorised \subseteq Gated(d)
         /\ AdmittedPlans(d) \subseteq Gated(d)
         /\ d.newestGate \in Gated(d) \cup {None}
         /\ d.newestEnvelope \in Gated(d) \cup {None}
         /\ Gated(d) \subseteq PlanIds
BY DEF DocumentOK, Rooted, Gated

LEMMA LifecycleOK ==
  ASSUME NEW d, DocumentOK(d), NEW p \in Gated(d)
  PROVE  DocumentOK(LifecycleProved(d, p))
<1> DEFINE d2 == LifecycleProved(d, p)
<1>1. d2 \in Document
  <2>1. d \in Document /\ p \in PlanIds
    BY RootedSets DEF DocumentOK
  <2> QED
    BY <2>1 DEF LifecycleProved, Document
<1>2. /\ SameGates(d, d2) /\ d2.verified \subseteq d.verified \cup {p}
      /\ d2.authorised = d.authorised /\ d2.runs = d.runs
      /\ d2.newestEnvelope = d.newestEnvelope
  BY DEF DocumentOK, LifecycleProved, Document, SameGates
<1> HIDE DEF d2
<1>3. AdmittedPlans(d2) = AdmittedPlans(d)
  BY <1>2 DEF AdmittedPlans
<1>4. DocumentOK(d2)
  BY <1>1, <1>2, <1>3, SameGatesKeeps, RootedSets
<1> QED
  BY <1>4 DEF d2

LEMMA AuthorisedOK ==
  ASSUME NEW d, DocumentOK(d), CanAuthorise(d), NEW s, NEW t
  PROVE  DocumentOK(Authorised(d, s, t))
<1> DEFINE d2 == Authorised(d, s, t)
<1>1. d.newestGate \in Gated(d) /\ d.newestGate \in PlanIds
  BY RootedSets DEF CanAuthorise
<1>2. d2 \in Document
  BY <1>1 DEF DocumentOK, Authorised, Document
<1>3. /\ SameGates(d, d2) /\ d2.authorised \subseteq d.authorised \cup {d.newestGate}
      /\ d2.verified = d.verified /\ d2.runs = d.runs
      /\ d2.newestEnvelope = d.newestGate
  BY DEF DocumentOK, Authorised, Document, SameGates
<1> HIDE DEF d2
<1>4. AdmittedPlans(d2) = AdmittedPlans(d)
  BY <1>3 DEF AdmittedPlans
<1>5. DocumentOK(d2)
  BY <1>1, <1>2, <1>3, <1>4, SameGatesKeeps, RootedSets
<1> QED
  BY <1>5 DEF d2

LEMMA ReviewedOK ==
  ASSUME NEW d, DocumentOK(d), d.newestEnvelope # None, NEW s
  PROVE  DocumentOK(Reviewed(d, s))
<1> DEFINE d2 == Reviewed(d, s)
<1>1. d.newestEnvelope \in PlanIds
  BY RootedSets
<1>2. d2 \in Document
  <2>1. \E r \in Review : d2 = [d EXCEPT !.reviews = @ \cup {r}]
    <3>1. \A status \in {"Payload ready but execution disabled", "Blocked"} :
            [plan |-> d.newestEnvelope, status |-> status] \in Review
      BY <1>1 DEF Review
    <3> QED
      BY <3>1, Zenon DEF Reviewed
  <2> HIDE DEF d2
  <2>2. d \in Document
    BY DEF DocumentOK
  <2> QED
    BY ONLY <2>1, <2>2 DEF Document
<1>3. SameChain(d, d2)
  BY DEF DocumentOK, Reviewed, Document, SameChain
<1> QED
  BY <1>2, <1>3, SameChainKeeps

LEMMA RunsOK ==
  ASSUME NEW d, DocumentOK(d), NEW p \in Gated(d), NEW s, NEW t
  PROVE  /\ DocumentOK(Preflighted(d, p, s, t))
         /\ AdmittedPlans(Preflighted(d, p, s, t)) = AdmittedPlans(d)
         /\ SameGates(d, Preflighted(d, p, s, t))
         /\ DocumentOK(Submitted(d, p))
         /\ AdmittedPlans(Submitted(d, p)) = AdmittedPlans(d) \cup {p}
         /\ SameGates(d, Submitted(d, p))
<1>1. p \in PlanIds
  BY RootedSets
<1> DEFINE d2 == Preflighted(d, p, s, t)
           d3 == Submitted(d, p)
<1>2. d2 \in Document
  <2>1. \E r \in Run : d2 = [d EXCEPT !.runs = @ \cup {r}]
    <3>1. \A status \in {"Ready but disabled", "Preflight blocked"} :
            [plan |-> p, status |-> status] \in Run
      BY <1>1 DEF Run
    <3> QED
      BY <3>1, Zenon DEF Preflighted
  <2> HIDE DEF d2
  <2> QED
    BY <2>1 DEF DocumentOK, Document
<1>3. \E status \in {"Ready but disabled", "Preflight blocked"} :
        d2.runs = d.runs \cup {[plan |-> p, status |-> status]}
  BY DEF DocumentOK, Preflighted, Document
<1>4. /\ SameGates(d, d2) /\ d2.authorised = d.authorised /\ d2.verified = d.verified
      /\ d2.newestEnvelope = d.newestEnvelope
  BY DEF DocumentOK, Preflighted, Document, SameGates
<1>5. d3 \in Document
  <2>1. [plan |-> p, status |-> "Submitted"] \in Run /\ p[1] \in Names
    BY <1>1 DEF Run, PlanIds
  <2> QED
    BY <2>1 DEF DocumentOK, Submitted, Document
<1>6. d3.runs = d.runs \cup {[plan |-> p, status |-> "Submitted"]}
  BY DEF DocumentOK, Submitted, Document
<1>7. /\ SameGates(d, d3) /\ d3.authorised = d.authorised /\ d3.verified = d.verified
      /\ d3.newestEnvelope = d.newestEnvelope
  BY DEF DocumentOK, Submitted, Document, SameGates
<1> HIDE DEF d2, d3
<1>8. AdmittedPlans(d2) = AdmittedPlans(d)
  BY <1>3 DEF AdmittedPlans
<1>9. AdmittedPlans(d3) = AdmittedPlans(d) \cup {p}
  BY <1>1, <1>6 DEF AdmittedPlans
<1>10. DocumentOK(d2)
  BY <1>2, <1>4, <1>8, SameGatesKeeps, RootedSets
<1>11. DocumentOK(d3)
  BY <1>5, <1>7, <1>9, SameGatesKeeps, RootedSets
<1> QED
  BY <1>4, <1>7, <1>8, <1>9, <1>10, <1>11 DEF d2, d3

-----------------------------------------------------------------------------
(* The invariant is inductive. *)

LEMMA InitIInv == Init => IInv
<1> SUFFICES ASSUME Init PROVE IInv
  OBVIOUS
<1>1. DocumentOK(doc)
  BY DefaultIsOK DEF Init
<1> QED
  BY <1>1, BoundsAssumption DEF Init, IInv, TypeOK, DocumentOK

LEMMA SavedKeeps ==
  ASSUME IInv, NEW STATE d, Saves(d), DocumentOK(d)
  PROVE  IInv'
<1>1. DocumentOK(doc')
  BY DEF Saves
<1> QED
  BY <1>1, BoundsAssumption DEF Saves, IInv, TypeOK, DocumentOK

LEMMA StepIInv == IInv /\ [Next]_vars => IInv'
<1> SUFFICES ASSUME IInv, [Next]_vars PROVE IInv'
  OBVIOUS
<1>0. /\ DocumentOK(doc) /\ doc \in Document
      /\ switches \in Switches /\ now \in 0 .. TimeBound
  BY DEF IInv, TypeOK, DocumentOK
<1>1. ASSUME NEW e \in Names, CreateDryRun(e) PROVE IInv'
  <2>1. PICK good \in BOOLEAN : Saves(Planned(doc, e, good))
    BY <1>1 DEF CreateDryRun
  <2>2. DocumentOK(Planned(doc, e, good))
    BY <1>0, <1>1, PlannedOK DEF CreateDryRun
  <2> QED
    BY <2>1, <2>2, SavedKeeps
<1>2. ASSUME NEW e \in Names, RecordRollbackProof(e) PROVE IInv'
  <2>1. PICK good \in BOOLEAN : Saves(WithProof(doc, PlanOf(doc, e), good))
    BY <1>2 DEF RecordRollbackProof
  <2>2. PlanOf(doc, e) \in PlanIds /\ OnFile(doc, PlanOf(doc, e))
    BY <1>0, <1>2, PlanOfOnFile DEF RecordRollbackProof
  <2>3. DocumentOK(WithProof(doc, PlanOf(doc, e), good))
    BY <1>0, <2>2, ProofOK
  <2> QED
    BY <2>1, <2>3, SavedKeeps
<1>3. ASSUME NEW e \in Names, RequestGate(e) PROVE IInv'
  <2>1. PICK present \in BOOLEAN, valid \in BOOLEAN :
          Saves(Requested(doc, PlanOf(doc, e), present, valid, switches))
    BY <1>3 DEF RequestGate
  <2>2. PlanOf(doc, e) \in PlanIds /\ OnFile(doc, PlanOf(doc, e))
    BY <1>0, <1>3, PlanOfOnFile DEF RequestGate
  <2>3. DocumentOK(Requested(doc, PlanOf(doc, e), present, valid, switches))
    BY <1>0, <2>2, RequestedOK
  <2> QED
    BY <2>1, <2>3, SavedKeeps
<1>4. ASSUME NEW e \in Names, EndRun(e) PROVE IInv'
  <2>1. DocumentOK([doc EXCEPT !.active = @ \ {e}])
    BY <1>0, RecordsAsideOK
  <2> QED
    BY <1>4, <2>1, SavedKeeps DEF EndRun
<1>5. ASSUME NEW p \in PlanIds, DecideGate(p) PROVE IInv'
  <2>1. PICK decision \in {"Approved", "Rejected"} : Saves(Decided(doc, p, decision))
    BY <1>5 DEF DecideGate
  <2>2. DocumentOK(Decided(doc, p, decision))
    BY <1>0, <1>5, DecidedOK DEF DecideGate
  <2> QED
    BY <2>1, <2>2, SavedKeeps
<1>6. ASSUME NEW p \in PlanIds, RecordLifecycleProof(p) PROVE IInv'
  <2>1. DocumentOK(LifecycleProved(doc, p))
    BY <1>0, <1>6, LifecycleOK DEF RecordLifecycleProof
  <2> QED
    BY <1>6, <2>1, SavedKeeps DEF RecordLifecycleProof
<1>7. ASSUME NEW p \in PlanIds, CreateRun(p) PROVE IInv'
  <2>1. DocumentOK(Submitted(doc, p))
    BY <1>0, <1>7, RunsOK DEF CreateRun, Admissible
  <2> QED
    BY <1>7, <2>1, SavedKeeps DEF CreateRun
<1>8. ASSUME NEW p \in PlanIds, PreflightRun(p) PROVE IInv'
  <2>1. DocumentOK(Preflighted(doc, p, switches, now))
    BY <1>0, <1>8, RunsOK DEF PreflightRun
  <2> QED
    BY <1>8, <2>1, SavedKeeps DEF PreflightRun
<1>9. ASSUME NEW k \in Kinds, DecideRecord(k) PROVE IInv'
  <2>1. PICK decision \in {"Approved", "Rejected"} : Saves(RecordDecided(doc, k, decision))
    BY <1>9 DEF DecideRecord
  <2>2. DocumentOK(RecordDecided(doc, k, decision))
    BY <1>0, InventoryOK
  <2> QED
    BY <2>1, <2>2, SavedKeeps
<1>10. ASSUME NEW x \in Entries, RegistryAction(x) PROVE IInv'
  <2>1. PICK action \in DOMAIN NextRegistryStatus :
          Saves([doc EXCEPT !.registry[x] = NextRegistryStatus[action]])
    BY <1>10 DEF RegistryAction
  <2>2. DocumentOK([doc EXCEPT !.registry[x] = NextRegistryStatus[action]])
    BY <1>0, InventoryOK
  <2> QED
    BY <2>1, <2>2, SavedKeeps
<1>11. CASE RecordScope
  <2>1. PICK expiresAt \in now + 1 .. TimeBound : Saves(WithScope(doc, expiresAt))
    BY <1>11 DEF RecordScope
  <2>2. expiresAt \in 0 .. TimeBound
    BY <1>0, BoundsAssumption
  <2>3. DocumentOK(WithScope(doc, expiresAt))
    BY <1>0, <2>2, RecordsAsideOK
  <2> QED
    BY <2>1, <2>3, SavedKeeps
<1>12. CASE PrepareAuditExport
  <2>1. DocumentOK(WithAuditExport(doc))
    BY <1>0, RecordsAsideOK
  <2> QED
    BY <1>12, <2>1, SavedKeeps DEF PrepareAuditExport
<1>13. CASE ReviewEnablement
  <2>1. DocumentOK([doc EXCEPT !.enabled = TRUE])
    BY <1>0, RecordsAsideOK
  <2> QED
    BY <1>13, <2>1, SavedKeeps DEF ReviewEnablement
<1>14. CASE AuthoriseCreate
  <2>1. DocumentOK(Authorised(doc, switches, now))
    BY <1>0, <1>14, AuthorisedOK DEF AuthoriseCreate
  <2> QED
    BY <1>14, <2>1, SavedKeeps DEF AuthoriseCreate
<1>15. CASE ReviewContract
  <2>1. DocumentOK(Reviewed(doc, switches))
    BY <1>0, <1>15, ReviewedOK DEF ReviewContract
  <2> QED
    BY <1>15, <2>1, SavedKeeps DEF ReviewContract
<1>16. CASE ImportInventory
  <2>1. PICK kinds \in Imports : Saves(Imported(doc, kinds))
    BY <1>16 DEF ImportInventory
  <2>2. DocumentOK(Imported(doc, kinds))
    BY <1>0, InventoryOK
  <2> QED
    BY <2>1, <2>2, SavedKeeps
<1>17. CASE Restart
  BY <1>17 DEF Restart, IInv, TypeOK
<1>18. CASE Tick
  BY <1>17, <1>18, BoundsAssumption DEF Tick, IInv, TypeOK
<1>19. CASE UNCHANGED vars
  BY <1>19 DEF vars, IInv, TypeOK
<1> QED
  BY <1>1, <1>2, <1>3, <1>4, <1>5, <1>6, <1>7, <1>8, <1>9, <1>10, <1>11, <1>12, <1>13,
     <1>14, <1>15, <1>16, <1>17, <1>18, <1>19 DEF Next

LEMMA Invariance == Spec => []IInv
<1>1. Init => IInv
  BY InitIInv
<1>2. IInv /\ [Next]_vars => IInv'
  BY StepIInv
<1> QED
  BY <1>1, <1>2, PTL DEF Spec

(* Every record has its type and is about a plan, a gate that was made. *)
THEOREM TypeCorrect == Spec => []TypeOK
<1>1. IInv => TypeOK
  BY DEF IInv
<1> QED
  BY <1>1, Invariance, PTL

(* A rejected gate admits no create, and any gate that would admit one can be rejected. *)
THEOREM RejectionStopsAlways == Spec => []RejectionStops
<1>1. IInv => RejectionStops
  <2> SUFFICES ASSUME IInv, NEW p \in Gated(doc)
               PROVE  /\ doc.gates[p].approval = "Rejected" => ~Admissible(doc, p, now)
                      /\ Admissible(doc, p, now) =>
                           CanDecide(doc, p) /\ ~Admissible(Decided(doc, p, "Rejected"), p, now)
    BY DEF RejectionStops
  <2>1. DocumentOK(doc)
    BY DEF IInv, TypeOK, DocumentOK
  <2>2. SoundGate(doc, p) /\ p \in PlanIds
    BY <2>1, RootedSets DEF DocumentOK, Sound
  <2>3. doc.gates[p].approval = "Rejected" => ~Admissible(doc, p, now)
    BY <2>2 DEF SoundGate, Admissible, IsApproved
  <2>4. ASSUME Admissible(doc, p, now)
        PROVE  CanDecide(doc, p) /\ ~Admissible(Decided(doc, p, "Rejected"), p, now)
    <3> DEFINE gate == [doc.gates[p] EXCEPT !.approval = "Rejected"]
               d2 == Decided(doc, p, "Rejected")
    <3>1. CanDecide(doc, p)
      BY <2>4 DEF Admissible, CanDecide
    <3>2. gate \in Gate /\ Filed(doc, d2, p, gate)
      BY <2>1, <3>1, DecidedOK
    <3>3. gate.approval = "Rejected"
      BY <2>1, GateIsGate DEF DocumentOK, Gate
    <3> HIDE DEF gate, d2
    <3>4. d2.gates[p] = Evaluated(doc, p, gate)
      <4>1. GatesFiled(doc, d2, p, gate)
        BY <2>1, <2>2, <3>2, FiledGates, Zenon
      <4> QED
        BY <4>1, Zenon DEF GatesFiled
    <3>5. d2.gates[p].status = "Blocked"
      <4>1. gate \in Gate
        BY <3>2
      <4>2. gate.approval = "Rejected" => Evaluated(doc, p, gate).status = "Blocked"
        BY <4>1, EvaluatedGate
      <4> QED
        BY <3>3, <3>4, <4>2
    <3>6. ~Admissible(d2, p, now)
      BY <3>5 DEF Admissible, IsApproved
    <3> QED
      BY <3>1, <3>6 DEF d2
  <2> QED
    BY <2>3, <2>4
<1> QED
  BY <1>1, Invariance, PTL

-----------------------------------------------------------------------------
(* The chain is open.  Completed files a scope that may end after the last moment a *)
(* behaviour reaches, so its documents are those of Document with any scopes.       *)
ScopedDocument ==
  [plans : [Names -> [id : 0 .. PlanBound, passed : BOOLEAN]],
   proofs : SUBSET PlanIds,
   scopes : SUBSET Nat,
   exported : BOOLEAN,
   enabled : BOOLEAN,
   gates : [PlanIds -> Gate \cup {None}],
   newestGate : PlanIds \cup {None},
   verified : SUBSET PlanIds,
   authorised : SUBSET PlanIds,
   newestEnvelope : PlanIds \cup {None},
   reviews : SUBSET Review,
   registry : [Entries -> RegistryStatus],
   inventory : [Kinds -> {"none", "Discovered", "Approved", "Rejected"}],
   runs : SUBSET Run,
   active : SUBSET Names]

LEMMA DocumentIsScoped == Document \subseteq ScopedDocument
<1> SUFFICES ASSUME NEW d \in Document PROVE d \in ScopedDocument
  OBVIOUS
<1>1. d.scopes \subseteq Nat
  BY BoundsAssumption DEF Document
<1> HIDE DEF PlanIds, Gate, Review, RegistryStatus, Run, Kinds, Entries
<1> QED
  BY <1>1 DEF Document, ScopedDocument

(* What the rest of the chain needs of the plan's evidence. *)
Grounded(d, p, t) ==
  /\ d \in ScopedDocument
  /\ OnFile(d, p) /\ Passed(d, p)
  /\ ReadyProof(d, p) /\ HasActiveScope(d, t) /\ d.exported
  /\ p[1] \notin d.active

LEMMA GroundedCarries ==
  ASSUME NEW d, NEW d2 \in ScopedDocument, NEW p, NEW t, Grounded(d, p, t),
         d2.plans = d.plans, d2.proofs = d.proofs, d2.scopes = d.scopes,
         d2.exported = d.exported, d2.active = d.active
  PROVE  Grounded(d2, p, t)
BY DEF Grounded, OnFile, Passed, ReadyProof, HasActiveScope

LEMMA ProvedIsGrounded ==
  ASSUME NEW d \in ScopedDocument, NEW p \in PlanIds, NEW t \in Nat,
         OnFile(d, p), Passed(d, p), p[1] \notin d.active
  PROVE  Grounded(WithProof(WithAuditExport(WithScope(d, t + 1)), p, TRUE), p, t)
<1> HIDE DEF PlanIds
<1> DEFINE d1 == WithScope(d, t + 1)
           d2 == WithAuditExport(d1)
           d3 == WithProof(d2, p, TRUE)
<1>1. /\ d1 \in ScopedDocument
      /\ d1.plans = d.plans /\ d1.active = d.active /\ t + 1 \in d1.scopes
  BY DEF ScopedDocument, WithScope
<1> HIDE DEF d1
<1>2. /\ d2 \in ScopedDocument /\ d2.exported
      /\ d2.plans = d.plans /\ d2.active = d.active /\ t + 1 \in d2.scopes
  BY <1>1 DEF ScopedDocument, WithAuditExport
<1> HIDE DEF d2
<1>3. /\ d3 \in ScopedDocument /\ d3.exported /\ p \in d3.proofs
      /\ d3.plans = d.plans /\ d3.active = d.active /\ t + 1 \in d3.scopes
  BY <1>2, ZenonT(60) DEF ScopedDocument, WithProof
<1> HIDE DEF d3
<1>4. HasActiveScope(d3, t)
  BY <1>3 DEF HasActiveScope
<1>5. Grounded(d3, p, t)
  BY <1>3, <1>4 DEF Grounded, OnFile, Passed, ReadyProof
<1> QED
  BY <1>5 DEF d1, d2, d3

(* A gate of such a plan that is requested with a valid scope while creates are on *)
(* and then approved is approved for the create, whatever was decided on it before. *)
LEMMA GroundedGateIsApproved ==
  ASSUME NEW d, NEW p \in PlanIds, NEW t, Grounded(d, p, t), NEW s \in Switches, s["create"]
  PROVE  LET d2 == Decided(Requested(d, p, TRUE, TRUE, s), p, "Approved") IN
         Grounded(d2, p, t) /\ p \in Gated(d2) /\ IsApproved(d2, p) /\ d2.newestGate = p
<1> DEFINE base == IF p \in Gated(d) THEN d.gates[p] ELSE FreshGate
           asked == [base EXCEPT !.present = @ \/ TRUE, !.valid = @ \/ TRUE,
                                 !.mutationKillSwitch = s["create"]]
           d1 == Requested(d, p, TRUE, TRUE, s)
           decided == [d1.gates[p] EXCEPT !.approval = "Approved"]
           d2 == Decided(d1, p, "Approved")
<1>1. d.gates \in [PlanIds -> Gate \cup {None}]
  BY DEF Grounded, ScopedDocument
<1>2. base \in Gate
  <2>1. FreshGate \in Gate
    BY DEF FreshGate, Gate
  <2> HIDE DEF Gate, PlanIds
  <2> QED
    BY <1>1, <2>1 DEF Gated
<1>3. asked \in Gate /\ asked.present /\ asked.valid /\ asked.mutationKillSwitch
  <2> HIDE DEF base
  <2>0. s["create"] = TRUE
    BY SwitchesAssumption
  <2>1. asked = [base EXCEPT !.present = TRUE, !.valid = TRUE, !.mutationKillSwitch = TRUE]
    BY <1>2, <2>0 DEF Gate
  <2> QED
    BY <1>2, <2>1 DEF Gate
<1>4. d1 = [d EXCEPT !.gates = WithGate(d, p, Evaluated(d, p, asked)), !.newestGate = p]
  BY Zenon DEF Requested
<1> HIDE DEF asked, d1
<1>5. /\ Evaluated(d, p, asked) \in Gate
      /\ Evaluated(d, p, asked).present /\ Evaluated(d, p, asked).valid
      /\ Evaluated(d, p, asked).mutationKillSwitch
  <2>1. Evaluated(d, p, asked) \in Gate
    BY <1>3, EvaluatedGate
  <2> QED
    BY <1>3, <2>1 DEF Evaluated, Gate
<1>6. WithGate(d, p, Evaluated(d, p, asked)) \in [PlanIds -> Gate \cup {None}]
  <2> HIDE DEF Gate, PlanIds
  <2> QED
    BY <1>1, <1>5 DEF WithGate
<1>7. /\ d1 \in ScopedDocument
      /\ d1.plans = d.plans /\ d1.proofs = d.proofs /\ d1.scopes = d.scopes
      /\ d1.exported = d.exported /\ d1.active = d.active /\ d1.newestGate = p
      /\ d1.gates = WithGate(d, p, Evaluated(d, p, asked))
  <2> HIDE DEF Gate, PlanIds
  <2> QED
    BY <1>4, <1>6 DEF Grounded, ScopedDocument
<1>8. Grounded(d1, p, t)
  BY <1>7, GroundedCarries
<1>9. d1.gates[p] = Evaluated(d, p, asked)
  BY <1>7 DEF WithGate
<1>10. /\ decided \in Gate /\ decided.approval = "Approved"
       /\ decided.present /\ decided.valid /\ decided.mutationKillSwitch
  BY <1>5, <1>9 DEF Gate
<1>11. d2 = [d1 EXCEPT !.gates = WithGate(d1, p, Evaluated(d1, p, decided))]
  BY Zenon DEF Decided
<1> HIDE DEF decided, d2
<1>12. /\ Evaluated(d1, p, decided) \in Gate
       /\ Evaluated(d1, p, decided).status = "Approved for controlled create"
  <2>1. Evaluated(d1, p, decided) \in Gate
    BY <1>10, EvaluatedGate
  <2>2. GateStatus(d1, p, decided) = "Approved for controlled create"
    BY <1>8, <1>10 DEF GateStatus, Grounded
  <2> QED
    BY <1>10, <2>1, <2>2 DEF Evaluated, Gate
<1>13. WithGate(d1, p, Evaluated(d1, p, decided)) \in [PlanIds -> Gate \cup {None}]
  <2>1. d1.gates \in [PlanIds -> Gate \cup {None}]
    BY <1>6, <1>7
  <2> HIDE DEF Gate, PlanIds
  <2> QED
    BY <1>12, <2>1 DEF WithGate
<1>14. /\ d2 \in ScopedDocument
       /\ d2.plans = d1.plans /\ d2.proofs = d1.proofs /\ d2.scopes = d1.scopes
       /\ d2.exported = d1.exported /\ d2.active = d1.active /\ d2.newestGate = p
       /\ d2.gates = WithGate(d1, p, Evaluated(d1, p, decided))
  <2> HIDE DEF Gate, PlanIds
  <2> QED
    BY <1>7, <1>11, <1>13 DEF ScopedDocument
<1>15. Grounded(d2, p, t)
  BY <1>8, <1>14, GroundedCarries
<1>16. d2.gates[p] = Evaluated(d1, p, decided) /\ Evaluated(d1, p, decided) # None
  BY <1>12, <1>14, NoneAssumption DEF WithGate
<1>17. p \in Gated(d2) /\ IsApproved(d2, p)
  BY <1>12, <1>16 DEF Gated, IsApproved
<1> QED
  BY <1>14, <1>15, <1>17 DEF d1, d2

(* Such a gate has its lifecycle proof verified and its envelope ready. *)
LEMMA ApprovedGateIsAuthorised ==
  ASSUME NEW d, NEW p \in PlanIds, NEW t, NEW s,
         Grounded(d, p, t), p \in Gated(d), IsApproved(d, p), d.newestGate = p,
         LabLifecycleEnabled(s), s["pentest"]
  PROVE  LET d2 == Authorised(LifecycleProved(d, p), s, t) IN
         /\ Grounded(d2, p, t) /\ p \in Gated(d2) /\ IsApproved(d2, p)
         /\ p \in d2.verified /\ p \in d2.authorised
<1> DEFINE d1 == LifecycleProved(d, p)
           d2 == Authorised(d1, s, t)
<1> HIDE DEF PlanIds
<1>1. /\ d1 \in ScopedDocument
      /\ d1.plans = d.plans /\ d1.proofs = d.proofs /\ d1.scopes = d.scopes
      /\ d1.exported = d.exported /\ d1.active = d.active /\ d1.newestGate = p
      /\ d1.gates = d.gates /\ p \in d1.verified
  BY ZenonT(60) DEF LifecycleProved, Grounded, ScopedDocument
<1> HIDE DEF d1
<1>2. Grounded(d1, p, t)
  BY <1>1, GroundedCarries
<1>3. p \in Gated(d1) /\ IsApproved(d1, p)
  BY <1>1 DEF Gated, IsApproved
<1>4. EnvelopeReady(d1, s, t)
  BY <1>1, <1>2, <1>3 DEF EnvelopeReady, Grounded
<1>5. /\ d2 \in ScopedDocument
      /\ d2.plans = d1.plans /\ d2.proofs = d1.proofs /\ d2.scopes = d1.scopes
      /\ d2.exported = d1.exported /\ d2.active = d1.active
      /\ d2.gates = d1.gates /\ d2.verified = d1.verified /\ p \in d2.authorised
  <2>1. d2 = [d1 EXCEPT !.authorised = @ \cup {p}, !.newestEnvelope = p]
    BY <1>1, <1>4, Zenon DEF Authorised
  <2> HIDE DEF d2, Gate
  <2> QED
    BY <1>1, <2>1, ZenonT(60) DEF ScopedDocument
<1> HIDE DEF d2
<1>6. Grounded(d2, p, t)
  BY <1>2, <1>5, GroundedCarries
<1>7. p \in Gated(d2) /\ IsApproved(d2, p)
  BY <1>3, <1>5 DEF Gated, IsApproved
<1> QED
  BY <1>1, <1>5, <1>6, <1>7 DEF d1, d2

(* The last request: every imported record approved. *)
LEMMA AuthorisedIsAdmissible ==
  ASSUME NEW d, NEW p \in PlanIds, NEW t,
         Grounded(d, p, t), p \in Gated(d), IsApproved(d, p),
         p \in d.verified, p \in d.authorised, p[1] \in LabNames
  PROVE  Admissible([d EXCEPT !.inventory = [k \in Kinds |-> "Approved"]], p, t)
<1> DEFINE d2 == [d EXCEPT !.inventory = [k \in Kinds |-> "Approved"]]
<1>1. /\ d2.plans = d.plans /\ d2.proofs = d.proofs /\ d2.scopes = d.scopes
      /\ d2.active = d.active /\ d2.gates = d.gates
      /\ d2.verified = d.verified /\ d2.authorised = d.authorised
      /\ d2.inventory = [k \in Kinds |-> "Approved"]
  BY DEF Grounded, ScopedDocument
<1> HIDE DEF d2
<1>2. ApprovedKinds(d2) = Kinds
  BY <1>1 DEF ApprovedKinds
<1>3. Kinds \in CompleteScopes
  BY DEF Kinds, CompleteScopes
<1>4. p \in Gated(d2) /\ IsApproved(d2, p)
  BY <1>1 DEF Gated, IsApproved
<1>5. OnFile(d2, p) /\ HasActiveScope(d2, t) /\ p[1] \notin d2.active
  BY <1>1 DEF Grounded, OnFile, HasActiveScope
<1>6. Admissible(d2, p, t)
  BY <1>1, <1>2, <1>3, <1>4, <1>5 DEF Admissible
<1> QED
  BY <1>6 DEF d2

LEMMA ChainIsOpen ==
  ASSUME NEW d \in Document, NEW e \in LabNames \ d.active, NEW s \in Switches, NEW t \in Nat,
         HasPlan(d, e), d.plans[e].passed, LabReady(s), s["pentest"]
  PROVE  Admissible(Completed(d, e, s, t), PlanOf(d, e), t)
<1> DEFINE p == PlanOf(d, e)
           d1 == WithProof(WithAuditExport(WithScope(d, t + 1)), p, TRUE)
           d2 == Decided(Requested(d1, p, TRUE, TRUE, s), p, "Approved")
           d3 == Authorised(LifecycleProved(d2, p), s, t)
<1>1. e \in Names /\ p \in PlanIds /\ p[1] = e /\ OnFile(d, p)
  BY PlanOfOnFile, LabNamesAssumption
<1> HIDE DEF p
<1>2. Passed(d, p)
  BY <1>1 DEF Passed
<1>3. Grounded(d1, p, t)
  BY <1>1, <1>2, DocumentIsScoped, ProvedIsGrounded
<1> HIDE DEF d1
<1>4. LabLifecycleEnabled(s) /\ s["create"]
  BY DEF LabReady, LabLifecycleEnabled
<1>5. Grounded(d2, p, t) /\ p \in Gated(d2) /\ IsApproved(d2, p) /\ d2.newestGate = p
  BY <1>1, <1>3, <1>4, GroundedGateIsApproved
<1> HIDE DEF d2
<1>6. /\ Grounded(d3, p, t) /\ p \in Gated(d3) /\ IsApproved(d3, p)
      /\ p \in d3.verified /\ p \in d3.authorised
  BY <1>1, <1>4, <1>5, ApprovedGateIsAuthorised
<1> HIDE DEF d3
<1>7. Admissible([d3 EXCEPT !.inventory = [k \in Kinds |-> "Approved"]], p, t)
  BY <1>1, <1>6, AuthorisedIsAdmissible
<1>8. Completed(d, e, s, t) = [d3 EXCEPT !.inventory = [k \in Kinds |-> "Approved"]]
  BY Zenon DEF Completed, p, d1, d2, d3
<1> QED
  BY <1>7, <1>8 DEF p

(* Whatever was rejected, blocked, superseded or lapsed before, a plan that passed *)
(* can be carried to an admitted create.                                            *)
THEOREM ChainHasNoDeadEnd == Spec => []NoDeadEnd
<1>1. IInv => NoDeadEnd
  <2> SUFFICES ASSUME IInv, NEW e \in LabNames \ doc.active, NEW s \in Switches,
                      HasPlan(doc, e), doc.plans[e].passed, LabReady(s), s["pentest"]
               PROVE  Admissible(Completed(doc, e, s, now), PlanOf(doc, e), now)
    BY DEF NoDeadEnd
  <2>1. doc \in Document /\ now \in Nat
    BY BoundsAssumption DEF IInv, TypeOK
  <2> QED
    BY <2>1, ChainIsOpen
<1> QED
  BY <1>1, Invariance, PTL

-----------------------------------------------------------------------------
(* The chain implements CreateAuthorization. *)

Seen(d) ==
  <<PassedPlans(d), d.proofs, ApprovedKinds(d), ApprovedPlans(d), d.verified, d.authorised,
    AdmittedPlans(d)>>

LEMMA SeenIsAll == Authorization!vars = Seen(doc)
BY DEF Authorization!vars, Seen

LEMMA InitRefines == Init => Authorization!Init
<1> SUFFICES ASSUME Init PROVE Authorization!Init
  OBVIOUS
<1>1. doc = DefaultDocument
  BY DEF Init
<1>2. PassedPlans(doc) = {}
  BY <1>1 DEF PassedPlans, OnFile, Passed, DefaultDocument, PlanIds
<1>3. ApprovedPlans(doc) = {}
  BY <1>1 DEF ApprovedPlans, Gated, DefaultDocument
<1>4. ApprovedKinds(doc) = {} /\ AdmittedPlans(doc) = {}
  BY <1>1 DEF ApprovedKinds, AdmittedPlans, DefaultDocument
<1>5. doc.proofs = {} /\ doc.verified = {} /\ doc.authorised = {}
  BY <1>1 DEF DefaultDocument
<1> QED
  BY <1>2, <1>3, <1>4, <1>5 DEF Authorization!Init

(* A request that leaves plans and gates alone, and what is on file of the rest. *)
LEMMA SeenAside ==
  ASSUME NEW d, NEW d2, SameChain(d, d2), d2.inventory = d.inventory
  PROVE  Seen(d2) = Seen(d)
BY DEF SameChain, Seen, PassedPlans, ApprovedKinds, ApprovedPlans, AdmittedPlans, OnFile,
       Passed, Gated, IsApproved

LEMMA SeenSameGates ==
  ASSUME NEW d, NEW d2, SameGates(d, d2)
  PROVE  /\ PassedPlans(d2) = PassedPlans(d)
         /\ ApprovedPlans(d2) = ApprovedPlans(d)
         /\ d2.proofs = d.proofs
BY DEF SameGates, PassedPlans, ApprovedPlans, OnFile, Passed, Gated, IsApproved

(* What a filed gate changes of what is seen: whether its plan is approved. *)
LEMMA FiledSeen ==
  ASSUME NEW d, DocumentOK(d), NEW d2, NEW p \in PlanIds, OnFile(d, p), NEW gate \in Gate,
         Filed(d, d2, p, gate), d2.inventory = d.inventory
  PROVE  /\ PassedPlans(d2) = PassedPlans(d) /\ d2.proofs = d.proofs
         /\ ApprovedKinds(d2) = ApprovedKinds(d) /\ AdmittedPlans(d2) = AdmittedPlans(d)
         /\ d2.verified = d.verified /\ d2.authorised = d.authorised
         /\ \/ ApprovedPlans(d2) = ApprovedPlans(d) \ {p}
            \/ /\ p \in PassedPlans(d) \cap d.proofs
               /\ ApprovedPlans(d2) = ApprovedPlans(d) \cup {p}
<1>1. /\ PassedPlans(d2) = PassedPlans(d) /\ d2.proofs = d.proofs
      /\ ApprovedKinds(d2) = ApprovedKinds(d) /\ AdmittedPlans(d2) = AdmittedPlans(d)
      /\ d2.verified = d.verified /\ d2.authorised = d.authorised
  BY DEF Filed, PassedPlans, OnFile, Passed, ApprovedKinds, AdmittedPlans
<1>2. /\ d2.gates[p] = Evaluated(d, p, gate)
      /\ \A q \in PlanIds \ {p} : d2.gates[q] = d.gates[q]
      /\ Gated(d2) = Gated(d) \cup {p}
  <2>1. GatesFiled(d, d2, p, gate)
    BY FiledGates, Zenon
  <2> QED
    BY <2>1, Zenon DEF GatesFiled
<1>3. \A q \in PlanIds \ {p} : q \in ApprovedPlans(d2) <=> q \in ApprovedPlans(d)
  BY <1>2 DEF ApprovedPlans, IsApproved
<1>4. ApprovedPlans(d2) \subseteq PlanIds /\ ApprovedPlans(d) \subseteq PlanIds
  BY DEF ApprovedPlans, Gated
<1>5. CASE IsApproved(d2, p)
  <2>1. p \in ApprovedPlans(d2)
    BY <1>2, <1>5 DEF ApprovedPlans
  <2>2. Passed(d, p) /\ ReadyProof(d, p)
    <3>1. Evaluated(d, p, gate).status = "Approved for controlled create"
      BY <1>2, <1>5 DEF IsApproved
    <3>2. Evaluated(d, p, gate).status = "Approved for controlled create"
            => Passed(d, p) /\ ReadyProof(d, p)
      BY EvaluatedGate
    <3> QED
      BY <3>1, <3>2
  <2>3. p \in PassedPlans(d) \cap d.proofs
    BY <2>2 DEF PassedPlans, ReadyProof
  <2> QED
    BY <1>1, <1>3, <1>4, <2>1, <2>3
<1>6. CASE ~IsApproved(d2, p)
  <2>1. p \notin ApprovedPlans(d2)
    BY <1>6 DEF ApprovedPlans
  <2> QED
    BY <1>1, <1>3, <1>4, <2>1
<1> QED
  BY <1>5, <1>6

AStep == [Authorization!Next]_(Authorization!vars)

LEMMA SameSeen ==
  ASSUME Seen(doc') = Seen(doc)
  PROVE  AStep
BY SeenIsAll DEF AStep, Seen, Authorization!vars

LEMMA PlannedRefines ==
  ASSUME IInv, NEW e \in Names, CreateDryRun(e)
  PROVE  AStep
<1> DEFINE p == <<e, doc.plans[e].id + 1>>
           old == PlanOf(doc, e)
<1>1. PICK good \in BOOLEAN : doc' = Planned(doc, e, good)
  BY DEF CreateDryRun, Saves
<1>2. DocumentOK(doc) /\ doc.plans[e].id \in Nat /\ p \in PlanIds
  BY BoundsAssumption DEF IInv, TypeOK, DocumentOK, Document, CreateDryRun, PlanIds
<1>3. /\ \A f \in Names \ {e} : doc'.plans[f] = doc.plans[f]
      /\ doc'.plans[e].id = doc.plans[e].id + 1
      /\ doc'.proofs = doc.proofs /\ doc'.gates = doc.gates /\ doc'.inventory = doc.inventory
      /\ doc'.verified = doc.verified /\ doc'.authorised = doc.authorised
      /\ doc'.runs = doc.runs
  BY <1>1, <1>2 DEF DocumentOK, Document, Planned
<1>4. /\ ApprovedPlans(doc') = ApprovedPlans(doc) /\ ApprovedKinds(doc') = ApprovedKinds(doc)
      /\ AdmittedPlans(doc') = AdmittedPlans(doc)
  BY <1>3 DEF ApprovedPlans, Gated, IsApproved, ApprovedKinds, AdmittedPlans
<1>5. p \notin PassedPlans(doc)
  BY <1>2 DEF PassedPlans, OnFile
<1>6. p \notin doc.proofs \cup Gated(doc)
  BY <1>2 DEF DocumentOK, Rooted
<1>7. p \notin ApprovedPlans(doc) \cup doc.verified \cup doc.authorised \cup AdmittedPlans(doc)
  BY <1>2, <1>6 DEF DocumentOK, Rooted, ApprovedPlans
<1>8. \A q \in PlanIds :
        /\ q[1] # e => (q \in PassedPlans(doc') <=> q \in PassedPlans(doc))
        /\ q[1] = e /\ q # p => q \notin PassedPlans(doc')
        /\ q[1] = e /\ q # old => q \notin PassedPlans(doc)
        /\ q \in PassedPlans(doc') => q = p \/ q[1] # e
  BY <1>2, <1>3 DEF PassedPlans, OnFile, Passed, PlanOf, PlanIds
<1>9. old[1] = e /\ p[1] = e
  BY DEF PlanOf
<1> HIDE DEF p, old
<1>10. PassedPlans(doc') \subseteq PlanIds /\ PassedPlans(doc) \subseteq PlanIds
  BY DEF PassedPlans
<1>11. \/ PassedPlans(doc') = PassedPlans(doc) \ (PassedPlans(doc) \cap {old})
       \/ PassedPlans(doc') = (PassedPlans(doc) \ (PassedPlans(doc) \cap {old})) \cup {p}
  BY <1>2, <1>5, <1>8, <1>9, <1>10
<1>12. \E replaced \in SUBSET PassedPlans(doc) :
         PassedPlans(doc') \in {PassedPlans(doc) \ replaced,
                               (PassedPlans(doc) \ replaced) \cup {p}}
  <2>1. PassedPlans(doc) \cap {old} \in SUBSET PassedPlans(doc)
    OBVIOUS
  <2> QED
    BY <1>11, <2>1
<1>13. Authorization!Plan(p)
  BY <1>3, <1>4, <1>5, <1>6, <1>7, <1>12 DEF Authorization!Plan
<1> QED
  BY <1>2, <1>13 DEF AStep, Authorization!Next

LEMMA ProofRefines ==
  ASSUME IInv, NEW e \in Names, RecordRollbackProof(e)
  PROVE  AStep
<1> DEFINE p == PlanOf(doc, e)
<1>1. PICK good \in BOOLEAN : doc' = WithProof(doc, p, good)
  BY DEF RecordRollbackProof, Saves
<1>2. DocumentOK(doc) /\ p \in PlanIds
  BY PlanOfOnFile DEF IInv, TypeOK, DocumentOK, RecordRollbackProof
<1> HIDE DEF p
<1>3. /\ doc'.proofs \in {doc.proofs \cup {p}, doc.proofs \ {p}}
      /\ doc'.plans = doc.plans /\ doc'.gates = doc.gates /\ doc'.inventory = doc.inventory
      /\ doc'.verified = doc.verified /\ doc'.authorised = doc.authorised
      /\ doc'.runs = doc.runs
  BY <1>1, <1>2 DEF DocumentOK, Document, WithProof
<1>4. /\ PassedPlans(doc') = PassedPlans(doc)
      /\ ApprovedPlans(doc') = ApprovedPlans(doc) /\ ApprovedKinds(doc') = ApprovedKinds(doc)
      /\ AdmittedPlans(doc') = AdmittedPlans(doc)
  BY <1>3 DEF PassedPlans, OnFile, Passed, ApprovedPlans, Gated, IsApproved, ApprovedKinds,
              AdmittedPlans
<1>5. Authorization!Prove(p)
  BY <1>3, <1>4 DEF Authorization!Prove
<1> QED
  BY <1>2, <1>5 DEF AStep, Authorization!Next

LEMMA FiledRefines ==
  ASSUME IInv, NEW p \in PlanIds, OnFile(doc, p), NEW STATE gate, gate \in Gate,
         Filed(doc, doc', p, gate), doc'.inventory = doc.inventory
  PROVE  AStep
<1>1. DocumentOK(doc)
  BY DEF IInv, TypeOK, DocumentOK
<1>2. /\ PassedPlans(doc') = PassedPlans(doc) /\ doc'.proofs = doc.proofs
      /\ ApprovedKinds(doc') = ApprovedKinds(doc) /\ AdmittedPlans(doc') = AdmittedPlans(doc)
      /\ doc'.verified = doc.verified /\ doc'.authorised = doc.authorised
      /\ \/ ApprovedPlans(doc') = ApprovedPlans(doc) \ {p}
         \/ /\ p \in PassedPlans(doc) \cap doc.proofs
            /\ ApprovedPlans(doc') = ApprovedPlans(doc) \cup {p}
  BY <1>1, FiledSeen
<1>3. Authorization!Withdraw(p) \/ Authorization!Approve(p)
  BY <1>2 DEF Authorization!Withdraw, Authorization!Approve
<1> QED
  BY <1>3 DEF AStep, Authorization!Next

LEMMA LifecycleRefines ==
  ASSUME IInv, NEW p \in PlanIds, RecordLifecycleProof(p)
  PROVE  AStep
<1>1. doc' = LifecycleProved(doc, p) /\ p \in Gated(doc) /\ doc \in Document
  BY DEF RecordLifecycleProof, Saves, IInv, TypeOK
<1>2. /\ SameGates(doc, doc') /\ doc'.authorised = doc.authorised
      /\ doc'.runs = doc.runs /\ doc'.inventory = doc.inventory
      /\ doc'.verified = IF IsApproved(doc, p) THEN doc.verified \cup {p} ELSE doc.verified
  BY <1>1 DEF LifecycleProved, Document, SameGates
<1>3. /\ PassedPlans(doc') = PassedPlans(doc)
      /\ ApprovedPlans(doc') = ApprovedPlans(doc)
      /\ doc'.proofs = doc.proofs
  BY <1>2, SeenSameGates
<1>4. ApprovedKinds(doc') = ApprovedKinds(doc) /\ AdmittedPlans(doc') = AdmittedPlans(doc)
  BY <1>2 DEF ApprovedKinds, AdmittedPlans
<1>5. CASE IsApproved(doc, p)
  <2>1. p \in ApprovedPlans(doc)
    BY <1>1, <1>5 DEF ApprovedPlans
  <2>2. Authorization!Verify(p)
    BY <1>2, <1>3, <1>4, <1>5, <2>1 DEF Authorization!Verify
  <2> QED
    BY <2>2 DEF AStep, Authorization!Next
<1>6. CASE ~IsApproved(doc, p)
  BY <1>2, <1>3, <1>4, <1>6, SameSeen DEF Seen
<1> QED
  BY <1>5, <1>6

LEMMA AuthoriseRefines ==
  ASSUME IInv, AuthoriseCreate
  PROVE  AStep
<1> DEFINE p == doc.newestGate
           ready == EnvelopeReady(doc, switches, now)
<1>1. doc' = Authorised(doc, switches, now) /\ DocumentOK(doc)
  BY DEF AuthoriseCreate, Saves, IInv, TypeOK, DocumentOK
<1>2. p \in Gated(doc) /\ p \in PlanIds /\ OnFile(doc, p)
  BY <1>1, RootedSets DEF AuthoriseCreate, CanAuthorise
<1>3. /\ SameGates(doc, doc') /\ doc'.verified = doc.verified
      /\ doc'.runs = doc.runs /\ doc'.inventory = doc.inventory
      /\ doc'.authorised = IF ready THEN doc.authorised \cup {p} ELSE doc.authorised \ {p}
  BY <1>1 DEF Authorised, DocumentOK, Document, SameGates
<1>4. ready => IsApproved(doc, p) /\ ReadyProof(doc, p) /\ p \in doc.verified
  BY DEF EnvelopeReady
<1> HIDE DEF p, ready
<1>5. /\ PassedPlans(doc') = PassedPlans(doc)
      /\ ApprovedPlans(doc') = ApprovedPlans(doc)
      /\ doc'.proofs = doc.proofs
  BY <1>3, SeenSameGates
<1>6. ApprovedKinds(doc') = ApprovedKinds(doc) /\ AdmittedPlans(doc') = AdmittedPlans(doc)
  BY <1>3 DEF ApprovedKinds, AdmittedPlans
<1>7. CASE ready
  <2>1. p \in ApprovedPlans(doc) /\ p \in doc.proofs
    BY <1>2, <1>4, <1>7 DEF ApprovedPlans, ReadyProof
  <2>2. p \in PassedPlans(doc)
    BY <1>1, <1>2, <1>4, <1>7 DEF DocumentOK, Sound, SoundGate, PassedPlans
  <2>3. Authorization!Authorise(p)
    BY <1>3, <1>4, <1>5, <1>6, <1>7, <2>1, <2>2 DEF Authorization!Authorise
  <2> QED
    BY <1>2, <2>3 DEF AStep, Authorization!Next
<1>8. CASE ~ready
  <2>1. Authorization!Deauthorise(p)
    BY <1>3, <1>5, <1>6, <1>8 DEF Authorization!Deauthorise
  <2> QED
    BY <1>2, <2>1 DEF AStep, Authorization!Next
<1> QED
  BY <1>7, <1>8

LEMMA RunRefines ==
  ASSUME IInv, NEW p \in PlanIds, CreateRun(p) \/ PreflightRun(p)
  PROVE  AStep
<1>1. DocumentOK(doc) /\ doc \in Document
  BY DEF IInv, TypeOK, DocumentOK
<1>2. CASE CreateRun(p)
  <2>1. /\ doc' = Submitted(doc, p) /\ p \in Gated(doc) /\ OnFile(doc, p)
        /\ IsApproved(doc, p) /\ p \in doc.verified /\ p \in doc.authorised
        /\ ApprovedKinds(doc) \in CompleteScopes
    BY <1>2 DEF CreateRun, Saves, Admissible
  <2>2. /\ AdmittedPlans(doc') = AdmittedPlans(doc) \cup {p}
        /\ SameGates(doc, doc')
    BY <1>1, <2>1, RunsOK
  <2>3. /\ doc'.verified = doc.verified /\ doc'.authorised = doc.authorised
        /\ doc'.inventory = doc.inventory
    BY <1>1, <2>1 DEF Document, Submitted
  <2>4. /\ PassedPlans(doc') = PassedPlans(doc)
        /\ ApprovedPlans(doc') = ApprovedPlans(doc)
        /\ doc'.proofs = doc.proofs
    BY <2>2, SeenSameGates
  <2>5. ApprovedKinds(doc') = ApprovedKinds(doc)
    BY <2>3 DEF ApprovedKinds
  <2>6. p \in ApprovedPlans(doc) /\ p \in PassedPlans(doc)
    BY <1>1, <2>1 DEF DocumentOK, Sound, SoundGate, PassedPlans, ApprovedPlans
  <2>7. Authorization!Admit(p)
    BY <2>1, <2>2, <2>3, <2>4, <2>5, <2>6 DEF Authorization!Admit
  <2> QED
    BY <2>7 DEF AStep, Authorization!Next
<1>3. CASE PreflightRun(p)
  <2>1. doc' = Preflighted(doc, p, switches, now) /\ p \in Gated(doc)
    BY <1>3 DEF PreflightRun, Saves
  <2>2. AdmittedPlans(doc') = AdmittedPlans(doc) /\ SameGates(doc, doc')
    BY <1>1, <2>1, RunsOK
  <2>3. /\ doc'.verified = doc.verified /\ doc'.authorised = doc.authorised
        /\ doc'.inventory = doc.inventory
    BY <1>1, <2>1 DEF Document, Preflighted
  <2>4. /\ PassedPlans(doc') = PassedPlans(doc)
        /\ ApprovedPlans(doc') = ApprovedPlans(doc)
        /\ doc'.proofs = doc.proofs
    BY <2>2, SeenSameGates
  <2> QED
    BY <2>2, <2>3, <2>4, SameSeen DEF Seen, ApprovedKinds
<1> QED
  BY <1>2, <1>3

LEMMA InventoryRefines ==
  ASSUME IInv, ImportInventory \/ (\E k \in Kinds : DecideRecord(k))
  PROVE  AStep
<1>1. doc \in Document
  BY DEF IInv, TypeOK
<1>2. CASE ImportInventory
  <2>1. PICK kinds \in Imports : doc' = Imported(doc, kinds)
    BY <1>2 DEF ImportInventory, Saves
  <2>2. SameChain(doc, doc')
    BY <1>1, <2>1 DEF Imported, Document, SameChain
  <2>3. ApprovedKinds(doc') = {}
    BY <1>1, <2>1 DEF Imported, Document, ApprovedKinds
  <2>4. Authorization!Forget
    BY <2>2, <2>3 DEF Authorization!Forget, SameChain, PassedPlans, ApprovedPlans, AdmittedPlans,
                      OnFile, Passed, Gated, IsApproved
  <2> QED
    BY <2>4 DEF AStep, Authorization!Next
<1>3. ASSUME NEW k \in Kinds, DecideRecord(k) PROVE AStep
  <2>1. PICK decision \in {"Approved", "Rejected"} : doc' = RecordDecided(doc, k, decision)
    BY <1>3 DEF DecideRecord, Saves
  <2>2. SameChain(doc, doc')
    BY <1>1, <2>1 DEF RecordDecided, Document, SameChain
  <2>3. /\ \A j \in Kinds \ {k} : doc'.inventory[j] = doc.inventory[j]
        /\ doc'.inventory[k] = decision
    BY <1>1, <2>1 DEF RecordDecided, Document
  <2>4. /\ PassedPlans(doc') = PassedPlans(doc) /\ doc'.proofs = doc.proofs
        /\ ApprovedPlans(doc') = ApprovedPlans(doc) /\ AdmittedPlans(doc') = AdmittedPlans(doc)
        /\ doc'.verified = doc.verified /\ doc'.authorised = doc.authorised
    BY <2>2 DEF SameChain, PassedPlans, ApprovedPlans, AdmittedPlans, OnFile, Passed, Gated,
                IsApproved
  <2>5. CASE decision = "Approved"
    <3>1. ApprovedKinds(doc') = ApprovedKinds(doc) \cup {k}
      BY <2>3, <2>5 DEF ApprovedKinds
    <3>2. Authorization!Vet(k)
      BY <2>4, <3>1 DEF Authorization!Vet
    <3> QED
      BY <3>2 DEF AStep, Authorization!Next
  <2>6. CASE decision = "Rejected"
    <3>1. ApprovedKinds(doc') \in SUBSET ApprovedKinds(doc)
      BY <2>3, <2>6 DEF ApprovedKinds
    <3>2. Authorization!Forget
      BY <2>4, <3>1 DEF Authorization!Forget
    <3> QED
      BY <3>2 DEF AStep, Authorization!Next
  <2> QED
    BY <2>5, <2>6
<1> QED
  BY <1>2, <1>3

(* What leaves plans, gates, proofs, records and submitted runs alone. *)
Aside ==
  \/ \E e \in Names : EndRun(e)
  \/ \E x \in Entries : RegistryAction(x)
  \/ RecordScope \/ PrepareAuditExport \/ ReviewEnablement \/ ReviewContract

LEMMA AsideRefines ==
  ASSUME IInv, Aside
  PROVE  AStep
<1>1. doc \in Document
  BY DEF IInv, TypeOK
<1>2. ASSUME SameChain(doc, doc'), doc'.inventory = doc.inventory PROVE AStep
  BY <1>2, SeenAside, SameSeen
<1>3. ASSUME NEW e \in Names, EndRun(e) PROVE AStep
  <2>1. doc' = [doc EXCEPT !.active = @ \ {e}]
    BY <1>3 DEF EndRun, Saves
  <2> QED
    BY <1>1, <1>2, <2>1 DEF Document, SameChain
<1>4. ASSUME NEW x \in Entries, RegistryAction(x) PROVE AStep
  <2>1. \E status : doc' = [doc EXCEPT !.registry[x] = status]
    BY <1>4 DEF RegistryAction, Saves
  <2> QED
    BY <1>1, <1>2, <2>1 DEF Document, SameChain
<1>5. CASE RecordScope
  <2>1. \E expiresAt : doc' = WithScope(doc, expiresAt)
    BY <1>5 DEF RecordScope, Saves
  <2> QED
    BY <1>1, <1>2, <2>1 DEF WithScope, Document, SameChain
<1>6. CASE PrepareAuditExport
  BY <1>1, <1>2, <1>6 DEF PrepareAuditExport, Saves, WithAuditExport, Document, SameChain
<1>7. CASE ReviewEnablement
  BY <1>1, <1>2, <1>7 DEF ReviewEnablement, Saves, Document, SameChain
<1>8. CASE ReviewContract
  <2>1. \E reviews : doc' = [doc EXCEPT !.reviews = reviews]
    BY <1>8 DEF ReviewContract, Saves, Reviewed
  <2> QED
    BY <1>1, <1>2, <2>1 DEF Document, SameChain
<1> QED
  BY <1>3, <1>4, <1>5, <1>6, <1>7, <1>8 DEF Aside

LEMMA StepRefines == IInv /\ [Next]_vars => AStep
<1> SUFFICES ASSUME IInv, [Next]_vars PROVE AStep
  OBVIOUS
<1>1. ASSUME NEW e \in Names, RequestGate(e) PROVE AStep
  <2> DEFINE p == PlanOf(doc, e)
  <2>1. PICK present \in BOOLEAN, valid \in BOOLEAN :
          doc' = Requested(doc, p, present, valid, switches)
    BY <1>1 DEF RequestGate, Saves
  <2>2. DocumentOK(doc) /\ p \in PlanIds /\ OnFile(doc, p) /\ switches \in Switches
    BY <1>1, PlanOfOnFile DEF IInv, TypeOK, DocumentOK, RequestGate
  <2> HIDE DEF p
  <2>3. /\ Asked(doc, p, present, valid, switches) \in Gate
        /\ Filed(doc, doc', p, Asked(doc, p, present, valid, switches))
    BY <2>1, <2>2, RequestedOK
  <2>4. doc'.inventory = doc.inventory
    BY <2>1, <2>2 DEF Requested, DocumentOK, Document
  <2> QED
    BY <2>2, <2>3, <2>4, FiledRefines
<1>2. ASSUME NEW p \in PlanIds, DecideGate(p) PROVE AStep
  <2>1. PICK decision \in {"Approved", "Rejected"} : doc' = Decided(doc, p, decision)
    BY <1>2 DEF DecideGate, Saves
  <2>2. DocumentOK(doc) /\ CanDecide(doc, p) /\ OnFile(doc, p)
    BY <1>2 DEF IInv, TypeOK, DocumentOK, DecideGate, CanDecide
  <2>3. /\ [doc.gates[p] EXCEPT !.approval = decision] \in Gate
        /\ Filed(doc, doc', p, [doc.gates[p] EXCEPT !.approval = decision])
    BY <2>1, <2>2, DecidedOK
  <2>4. doc'.inventory = doc.inventory
    BY <2>1, <2>2 DEF Decided, DocumentOK, Document
  <2> QED
    BY <2>2, <2>3, <2>4, FiledRefines
<1>3. CASE UNCHANGED vars \/ Restart \/ Tick
  <2>1. doc' = doc
    BY <1>3 DEF vars, Restart, Tick
  <2> QED
    BY <2>1, SameSeen
<1> QED
  BY <1>1, <1>2, <1>3, PlannedRefines, ProofRefines, LifecycleRefines, RunRefines,
     InventoryRefines, AuthoriseRefines, AsideRefines DEF Next, Aside

(* Evidence of one plan never serves another: every step of the chain is one that *)
(* CreateAuthorization allows.                                                     *)
THEOREM Refinement == Spec => ImplementsCreateAuthorization
<1>1. Init => Authorization!Init
  BY InitRefines
<1>2. IInv /\ [Next]_vars => [Authorization!Next]_(Authorization!vars)
  BY StepRefines DEF AStep
<1> QED
  BY <1>1, <1>2, Invariance, PTL DEF Spec, ImplementsCreateAuthorization, Authorization!Spec
=============================================================================
