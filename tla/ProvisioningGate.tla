-------------------------- MODULE ProvisioningGate --------------------------
(***************************************************************************)
(* The chain of evidence before a real create: dry-run, lab scope, rollback  *)
(* proof, controlled gate and its decision, lifecycle proof, authorization    *)
(* envelope, approved Prism records, and the run they admit.  A request is    *)
(* one step: every document on file is the one some earlier request saved     *)
(* with one handler applied, so that requests that overlap (ApiServer) lose   *)
(* records but make no document that is not reached here.                     *)
(*                                                                         *)
(* Records are kept by what can still be asked of them.  A name has at most   *)
(* one plan on file, its newest; a plan has at most one gate, for a gate is   *)
(* looked up by its plan before it is made, and has its id.  Of the proofs of *)
(* a plan, the lifecycle proofs of a gate and the scopes only those that are  *)
(* good are asked for; of the envelopes the newest of a gate.  No two records *)
(* are made in one millisecond (EvidenceChain has that case).                 *)
(***************************************************************************)
EXTENDS Naturals, FiniteSets

CONSTANTS
  Names,         \* environment names
  LabNames,      \* those the lab's prefix, name and quota rules let through
  None,          \* stands for "no record"
  Switches,      \* the settings a process can be started with
  Imports,       \* the kinds of record an import can bring
  PlanBound,     \* plans made for a name
  TimeBound,     \* the last moment
  RequestBound   \* requests in a behaviour

ASSUME BoundsAssumption ==
  PlanBound \in Nat /\ TimeBound \in Nat /\ RequestBound \in Nat

ASSUME LabNamesAssumption == LabNames \subseteq Names

(* create, adapter: the two real switches.  lab: APP_ENV=lab and the lab lifecycle *)
(* switch.  configured: endpoint, credentials and allow lists.  pentest: an active *)
(* authorized scope.                                                               *)
ASSUME SwitchesAssumption ==
  Switches \subseteq [{"create", "adapter", "lab", "configured", "pentest"} -> BOOLEAN]

VARIABLES
  doc,       \* the document on file
  switches,  \* what the process was started with
  now,       \* the time
  requests   \* handled so far

vars == <<doc, switches, now, requests>>

-----------------------------------------------------------------------------
PlanIds == Names \X (1 .. PlanBound)

Kinds == {"Cluster", "Network", "Image", "VM"}

ASSUME ImportsAssumption == Imports \subseteq SUBSET Kinds

RegistryStatus == {"Draft", "Pending approval", "Published", "Deprecated"}
Entries == {"vm-app", "ahv-rocky-9-hardened"}   \* the template, the AHV image

Gate ==
  [approval : {"Pending", "Approved", "Rejected"},
   present : BOOLEAN, valid : BOOLEAN,    \* the pentest scope
   mutationKillSwitch : BOOLEAN,
   status : {"Blocked", "Manual approval required", "Mutation disabled",
             "Approved for controlled create"}]

ASSUME NoneAssumption == None \notin PlanIds /\ None \notin Gate

Run ==
  [plan : PlanIds, status : {"Submitted", "Ready but disabled", "Preflight blocked"}]

Review == [plan : PlanIds, status : {"Payload ready but execution disabled", "Blocked"}]

DefaultDocument ==
  [plans |-> [e \in Names |-> [id |-> 0, passed |-> FALSE]],   \* vmSandboxDryRuns
   proofs |-> {},          \* plans with a rollback proof that is ready
   scopes |-> {},          \* when the complete lab scopes expire
   exported |-> FALSE,     \* an audit export was prepared
   enabled |-> FALSE,      \* an NCI enablement review is ready
   gates |-> [p \in PlanIds |-> None],   \* controlledProvisioningGates, by plan
   newestGate |-> None,    \* the first of them
   verified |-> {},        \* gates with a verified lifecycle proof
   authorised |-> {},      \* gates whose newest envelope is ready
   newestEnvelope |-> None,
   reviews |-> {},         \* ahvCreateAdapterContractReviews
   registry |-> [x \in Entries |-> "Published"],
   inventory |-> [k \in Kinds |-> "none"],    \* prismInventory
   runs |-> {},            \* ahvControlledProvisioningRuns
   active |-> {}]          \* names with a run of the real adapter that has not ended

-----------------------------------------------------------------------------
(* Reading the document. *)

PlanOf(d, e) == <<e, d.plans[e].id>>
HasPlan(d, e) == d.plans[e].id > 0
OnFile(d, p) == d.plans[p[1]].id = p[2]
Passed(d, p) == d.plans[p[1]].passed
Gated(d) == {p \in PlanIds : d.gates[p] # None}
IsApproved(d, p) == d.gates[p].status = "Approved for controlled create"
HasActiveScope(d, t) == \E expiresAt \in d.scopes : expiresAt > t

CompleteScopes ==
  {kinds \in SUBSET Kinds :
     {"Cluster", "Network"} \subseteq kinds /\ ({"Image", "VM"} \cap kinds) # {}}

ApprovedKinds(d) == {k \in Kinds : d.inventory[k] = "Approved"}

LabLifecycleEnabled(s) == s["create"] /\ s["adapter"] /\ s["lab"]
LabReady(s) == LabLifecycleEnabled(s) /\ s["configured"]

(* Mutant: any plan's proof will do. *)
ReadyProofOfAny(d, p) == d.proofs # {}

(* getReadyRollbackDestroyProof. *)
ReadyProof(d, p) == p \in d.proofs

-----------------------------------------------------------------------------
(* The handlers. *)

(* Mutant: a new dry-run of a name keeps the id of the old one. *)
PlannedInPlace(d, e, good) ==
  [d EXCEPT !.plans[e] =
     [id |-> IF @.id = 0 THEN 1 ELSE @.id,
      passed |-> good /\ \A x \in Entries : d.registry[x] = "Published"]]

(* A new dry-run of a name replaces the old one. *)
Planned(d, e, good) ==
  [d EXCEPT !.plans[e] =
     [id |-> @.id + 1,
      passed |-> good /\ \A x \in Entries : d.registry[x] = "Published"]]

WithScope(d, expiresAt) == [d EXCEPT !.scopes = @ \cup {expiresAt}]
WithAuditExport(d) == [d EXCEPT !.exported = TRUE]

(* The new proof of a plan replaces its old ones, ready or not. *)
WithProof(d, p, good) ==
  [d EXCEPT !.proofs = IF good /\ d.exported THEN @ \cup {p} ELSE @ \ {p}]

GateStatus(d, p, gate) ==
  IF ~Passed(d, p) \/ ~ReadyProof(d, p) \/ gate.approval = "Rejected" THEN "Blocked"
  ELSE IF gate.approval # "Approved" THEN "Manual approval required"
  ELSE IF ~(gate.present /\ gate.valid /\ gate.mutationKillSwitch) THEN "Mutation disabled"
  ELSE "Approved for controlled create"

(* Mutant: the status of a rejected gate is not worked out again. *)
EvaluatedOnce(d, p, gate) ==
  IF gate.approval = "Rejected" THEN gate
  ELSE [gate EXCEPT !.status = GateStatus(d, p, gate)]

Evaluated(d, p, gate) == [gate EXCEPT !.status = GateStatus(d, p, gate)]

WithGate(d, p, gate) == [q \in PlanIds |-> IF q = p THEN gate ELSE d.gates[q]]

FreshGate ==
  [approval |-> "Pending", present |-> FALSE, valid |-> FALSE,
   mutationKillSwitch |-> FALSE, status |-> "Blocked"]

(* Mutant: a gate that is requested again stays where it is in the list. *)
RequestedInPlace(d, p, present, valid, s) ==
  LET base == IF p \in Gated(d) THEN d.gates[p] ELSE FreshGate
      gate == [base EXCEPT !.present = @ \/ present,
                           !.valid = @ \/ valid,
                           !.mutationKillSwitch = s["create"]] IN
  [d EXCEPT
     !.gates = WithGate(d, p, Evaluated(d, p, gate)),
     !.newestGate = IF p \in Gated(d) THEN @ ELSE p]

(* An existing gate keeps its approval, and what it once had of a pentest scope. *)
Requested(d, p, present, valid, s) ==
  LET base == IF p \in Gated(d) THEN d.gates[p] ELSE FreshGate
      gate == [base EXCEPT !.present = @ \/ present,
                           !.valid = @ \/ valid,
                           !.mutationKillSwitch = s["create"]] IN
  [d EXCEPT
     !.gates = WithGate(d, p, Evaluated(d, p, gate)),
     !.newestGate = p]

(* Any gate of a plan on file, decided or not; its kill switch is not read again. *)
CanDecide(d, p) == p \in Gated(d) /\ OnFile(d, p)

(* Mutant: the decision is stored in the words of the route. *)
DecidedInWords(d, p, decision) ==
  LET gate == [d.gates[p] EXCEPT
                !.approval = IF decision = "Approved" THEN "approve" ELSE "reject"] IN
  [d EXCEPT !.gates = WithGate(d, p, Evaluated(d, p, gate))]

Decided(d, p, decision) ==
  LET gate == [d.gates[p] EXCEPT !.approval = decision] IN
  [d EXCEPT !.gates = WithGate(d, p, Evaluated(d, p, gate))]

LifecycleProved(d, p) ==
  [d EXCEPT !.verified = IF IsApproved(d, p) THEN @ \cup {p} ELSE @]

(* The envelope is of the newest gate, whichever that is now. *)
CanAuthorise(d) == d.newestGate # None /\ OnFile(d, d.newestGate)

EnvelopeReady(d, s, t) ==
  LET p == d.newestGate IN
  /\ HasActiveScope(d, t)
  /\ ReadyProof(d, p)
  /\ IsApproved(d, p)
  /\ p \in d.verified
  /\ d.enabled \/ LabLifecycleEnabled(s)
  /\ d.exported
  /\ s["pentest"]
  /\ (~s["create"] /\ ~s["adapter"]) \/ LabLifecycleEnabled(s)

Authorised(d, s, t) ==
  LET p == d.newestGate IN
  [d EXCEPT !.authorised = IF EnvelopeReady(d, s, t) THEN @ \cup {p} ELSE @ \ {p},
            !.newestEnvelope = p]

Reviewed(d, s) ==
  LET p == d.newestEnvelope
      ready == p \in d.authorised /\ Passed(d, p) /\ ~s["create"] /\ ~s["adapter"] IN
  [d EXCEPT !.reviews = @ \cup
     {[plan |-> p,
       status |-> IF ready THEN "Payload ready but execution disabled" ELSE "Blocked"]}]

Imported(d, kinds) ==
  [d EXCEPT !.inventory = [k \in Kinds |-> IF k \in kinds THEN "Discovered" ELSE "none"]]

RecordDecided(d, k, decision) == [d EXCEPT !.inventory[k] = decision]

NextRegistryStatus ==
  [submit |-> "Pending approval", approve |-> "Published",
   deprecate |-> "Deprecated", restore |-> "Draft"]

(* Mutant: the first ready envelope will do, whichever gate it is of. *)
AdmissibleOnAnyEnvelope(d, p, t) ==
  /\ p \in Gated(d) /\ OnFile(d, p)
  /\ IsApproved(d, p)
  /\ HasActiveScope(d, t)
  /\ p \in d.verified
  /\ d.authorised # {}
  /\ ApprovedKinds(d) \in CompleteScopes
  /\ p[1] \in LabNames
  /\ p[1] \notin d.active

(* What create() asks for before it calls Prism: the statuses are those that were *)
(* recorded, only the scope is looked at again.                                   *)
Admissible(d, p, t) ==
  /\ p \in Gated(d) /\ OnFile(d, p)
  /\ IsApproved(d, p)
  /\ HasActiveScope(d, t)
  /\ p \in d.verified
  /\ p \in d.authorised
  /\ ApprovedKinds(d) \in CompleteScopes
  /\ p[1] \in LabNames
  /\ p[1] \notin d.active

Submitted(d, p) ==
  [d EXCEPT !.runs = @ \cup {[plan |-> p, status |-> "Submitted"]},
            !.active = @ \cup {p[1]}]

(* Without the lab's switches a create is only a preflight, which asks for no *)
(* envelope.                                                                  *)
PreflightPasses(d, p, s, t) ==
  /\ IsApproved(d, p)
  /\ HasActiveScope(d, t)
  /\ p \in d.verified
  /\ ApprovedKinds(d) \in CompleteScopes
  /\ s["create"] /\ s["adapter"]

Preflighted(d, p, s, t) ==
  [d EXCEPT !.runs = @ \cup
     {[plan |-> p,
       status |-> IF PreflightPasses(d, p, s, t) THEN "Ready but disabled"
                  ELSE "Preflight blocked"]}]

-----------------------------------------------------------------------------
Init ==
  /\ doc = DefaultDocument
  /\ switches \in Switches
  /\ now = 0
  /\ requests = 0

(* A request that is refused saves nothing and is not a step. *)
Saves(d) ==
  /\ requests < RequestBound
  /\ doc' = d
  /\ requests' = requests + 1
  /\ UNCHANGED <<switches, now>>

(* The other checks of a dry-run are of the request. *)
CreateDryRun(e) ==
  /\ doc.plans[e].id < PlanBound
  /\ \E good \in BOOLEAN : Saves(Planned(doc, e, good))

RecordScope ==
  \E expiresAt \in now + 1 .. TimeBound : Saves(WithScope(doc, expiresAt))

PrepareAuditExport == Saves(WithAuditExport(doc))

(* Of its checks the request and other records decide those not named here. *)
ReviewEnablement ==
  /\ HasActiveScope(doc, now) /\ doc.exported /\ ~switches["adapter"]
  /\ Saves([doc EXCEPT !.enabled = TRUE])

RecordRollbackProof(e) ==
  /\ HasPlan(doc, e)
  /\ \E good \in BOOLEAN : Saves(WithProof(doc, PlanOf(doc, e), good))

(* A request that gives no pentest reference takes the active scope's. *)
RequestGate(e) ==
  /\ HasPlan(doc, e)
  /\ \E present, valid \in BOOLEAN :
       Saves(Requested(doc, PlanOf(doc, e), present, valid, switches))

DecideGate(p) ==
  /\ CanDecide(doc, p)
  /\ \E decision \in {"Approved", "Rejected"} : Saves(Decided(doc, p, decision))

(* With both verifications; a proof without them is Blocked. *)
RecordLifecycleProof(p) ==
  /\ p \in Gated(doc)
  /\ Saves(LifecycleProved(doc, p))

AuthoriseCreate ==
  /\ CanAuthorise(doc)
  /\ Saves(Authorised(doc, switches, now))

ReviewContract ==
  /\ doc.newestEnvelope # None /\ OnFile(doc, doc.newestEnvelope)
  /\ Saves(Reviewed(doc, switches))

(* The mock's records have every kind, a preview's those it was sent. *)
ImportInventory ==
  \E kinds \in Imports : Saves(Imported(doc, kinds))

DecideRecord(k) ==
  /\ doc.inventory[k] # "none"
  /\ \E decision \in {"Approved", "Rejected"} : Saves(RecordDecided(doc, k, decision))

RegistryAction(x) ==
  \E action \in DOMAIN NextRegistryStatus :
    Saves([doc EXCEPT !.registry[x] = NextRegistryStatus[action]])

CreateRun(p) ==
  /\ LabReady(switches)
  /\ Admissible(doc, p, now)
  /\ Saves(Submitted(doc, p))

PreflightRun(p) ==
  /\ ~LabReady(switches)
  /\ p \in Gated(doc) /\ OnFile(doc, p)
  /\ Saves(Preflighted(doc, p, switches, now))

(* A poll finds the run Failed or Destroyed (AhvLifecycle). *)
EndRun(e) ==
  /\ e \in doc.active
  /\ Saves([doc EXCEPT !.active = @ \ {e}])

Restart ==
  /\ switches' \in Switches
  /\ UNCHANGED <<doc, now, requests>>

Tick ==
  /\ now < TimeBound
  /\ now' = now + 1
  /\ UNCHANGED <<doc, switches, requests>>

Next ==
  \/ \E e \in Names :
       \/ CreateDryRun(e) \/ RecordRollbackProof(e)
       \/ RequestGate(e) \/ EndRun(e)
  \/ \E p \in PlanIds :
       \/ DecideGate(p) \/ RecordLifecycleProof(p)
       \/ CreateRun(p) \/ PreflightRun(p)
  \/ \E k \in Kinds : DecideRecord(k)
  \/ \E x \in Entries : RegistryAction(x)
  \/ RecordScope \/ PrepareAuditExport \/ ReviewEnablement
  \/ AuthoriseCreate \/ ReviewContract \/ ImportInventory
  \/ Restart \/ Tick

Spec == Init /\ [][Next]_vars

-----------------------------------------------------------------------------
PassedPlans(d) == {p \in PlanIds : OnFile(d, p) /\ Passed(d, p)}
ApprovedPlans(d) == {p \in Gated(d) : IsApproved(d, p)}
AdmittedPlans(d) == {p \in PlanIds : [plan |-> p, status |-> "Submitted"] \in d.runs}

Document ==
  [plans : [Names -> [id : 0 .. PlanBound, passed : BOOLEAN]],
   proofs : SUBSET PlanIds,
   scopes : SUBSET (0 .. TimeBound),
   exported : BOOLEAN,
   enabled : BOOLEAN,
   gates : [PlanIds -> Gate \cup {None}],
   newestGate : PlanIds \cup {None},
   verified : SUBSET PlanIds,
   authorised : SUBSET PlanIds,
   newestEnvelope : PlanIds \cup {None},
   reviews : SUBSET Review,
   registry : [Entries -> RegistryStatus],
   inventory : [Kinds -> {"none", "Discovered", "Approved", "Rejected"}],
   runs : SUBSET Run,
   active : SUBSET Names]

(* Proofs and gates are of plans that were made; lifecycle proofs, envelopes and *)
(* runs of gates that were.                                                      *)
Rooted(d) ==
  /\ \A p \in d.proofs \cup Gated(d) : p[2] <= d.plans[p[1]].id
  /\ d.verified \cup d.authorised \cup AdmittedPlans(d) \subseteq Gated(d)
  /\ {d.newestGate, d.newestEnvelope} \subseteq Gated(d) \cup {None}

(* Every variable has its type, and no record is about one that was never made. *)
TypeOK ==
  /\ doc \in Document /\ Rooted(doc)
  /\ switches \in Switches
  /\ now \in 0 .. TimeBound
  /\ requests \in 0 .. RequestBound

(* The approver has the last word: while a gate's last decision is a rejection no    *)
(* create is admitted on it, whatever is recorded, requested again or restarted;    *)
(* and a create that would be admitted can be stopped, also where a newer dry-run    *)
(* put a gate out of the approver's reach.                                           *)
RejectionStops ==
  \A p \in Gated(doc) :
    /\ doc.gates[p].approval = "Rejected" => ~Admissible(doc, p, now)
    /\ Admissible(doc, p, now) =>
         CanDecide(doc, p) /\ ~Admissible(Decided(doc, p, "Rejected"), p, now)

(* A name with a plan that passed, carried through the chain from the start. *)
Completed(d, e, s, t) ==
  LET p == PlanOf(d, e)
      proved == WithProof(WithAuditExport(WithScope(d, t + 1)), p, TRUE)
      gated == Decided(Requested(proved, p, TRUE, TRUE, s), p, "Approved")
      authorised == Authorised(LifecycleProved(gated, p), s, t) IN
  [authorised EXCEPT !.inventory = [k \in Kinds |-> "Approved"]]

(* Nothing on file closes the chain: whatever was rejected, blocked, superseded or    *)
(* lapsed before, with the lab's switches on the usual requests for a plan that       *)
(* passed end in a create that is admitted.                                           *)
NoDeadEnd ==
  \A e \in LabNames \ doc.active, s \in Switches :
    HasPlan(doc, e) /\ doc.plans[e].passed /\ LabReady(s) /\ s["pentest"] =>
      Admissible(Completed(doc, e, s, now), PlanOf(doc, e), now)

(* The abstract promise, and how the document keeps it. *)
Authorization ==
  INSTANCE CreateAuthorization WITH
    Plans <- PlanIds,
    Kinds <- Kinds,
    CompleteScopes <- CompleteScopes,
    passed <- PassedPlans(doc),
    proved <- doc.proofs,
    vetted <- ApprovedKinds(doc),
    approved <- ApprovedPlans(doc),
    verified <- doc.verified,
    authorised <- doc.authorised,
    admitted <- AdmittedPlans(doc)

(* Every request, restart and tick is a step of CreateAuthorization or changes none *)
(* of what it speaks of: evidence of one plan never serves another, and a create is *)
(* admitted on a complete set for its own plan only.                                *)
ImplementsCreateAuthorization == Authorization!Spec
=============================================================================
