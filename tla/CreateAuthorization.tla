------------------------ MODULE CreateAuthorization ------------------------
(***************************************************************************)
(* What the gate chain promises of a real create: the plan passed its        *)
(* dry-run, its gate was approved on a proof of that plan's own rollback and  *)
(* is not withdrawn, the lifecycle was verified under that approval and the   *)
(* authorization given on top of both, and the Prism records it uses were     *)
(* approved since they were imported.  ProvisioningGate implements it.        *)
(***************************************************************************)
CONSTANTS
  Plans,
  Kinds,           \* of Prism record
  CompleteScopes   \* the sets of kinds a create can do with

VARIABLES
  passed,      \* plans on file whose dry-run passed
  proved,      \* plans with a proof of rollback and destroy
  vetted,      \* kinds of Prism record that are approved
  approved,    \* plans whose gate is approved
  verified,    \* plans whose lifecycle was verified
  authorised,  \* plans whose create is authorized
  admitted     \* plans a create was submitted for

vars == <<passed, proved, vetted, approved, verified, authorised, admitted>>

Init ==
  /\ passed = {} /\ proved = {} /\ vetted = {} /\ approved = {}
  /\ verified = {} /\ authorised = {} /\ admitted = {}

(* A plan comes without a past, and may take the place of another. *)
Plan(p) ==
  /\ p \notin passed \cup proved \cup approved \cup verified \cup authorised \cup admitted
  /\ \E replaced \in SUBSET passed : passed' \in {passed \ replaced, (passed \ replaced) \cup {p}}
  /\ UNCHANGED <<proved, vetted, approved, verified, authorised, admitted>>

Prove(p) ==
  /\ proved' \in {proved \cup {p}, proved \ {p}}
  /\ UNCHANGED <<passed, vetted, approved, verified, authorised, admitted>>

Approve(p) ==
  /\ p \in passed \cap proved
  /\ approved' = approved \cup {p}
  /\ UNCHANGED <<passed, proved, vetted, verified, authorised, admitted>>

Withdraw(p) ==
  /\ approved' = approved \ {p}
  /\ UNCHANGED <<passed, proved, vetted, verified, authorised, admitted>>

Verify(p) ==
  /\ p \in approved
  /\ verified' = verified \cup {p}
  /\ UNCHANGED <<passed, proved, vetted, approved, authorised, admitted>>

Authorise(p) ==
  /\ p \in passed \cap proved \cap approved \cap verified
  /\ authorised' = authorised \cup {p}
  /\ UNCHANGED <<passed, proved, vetted, approved, verified, admitted>>

Deauthorise(p) ==
  /\ authorised' = authorised \ {p}
  /\ UNCHANGED <<passed, proved, vetted, approved, verified, admitted>>

Vet(k) ==
  /\ vetted' = vetted \cup {k}
  /\ UNCHANGED <<passed, proved, approved, verified, authorised, admitted>>

Forget ==
  /\ vetted' \in SUBSET vetted
  /\ UNCHANGED <<passed, proved, approved, verified, authorised, admitted>>

Admit(p) ==
  /\ p \in passed \cap approved \cap verified \cap authorised
  /\ vetted \in CompleteScopes
  /\ admitted' = admitted \cup {p}
  /\ UNCHANGED <<passed, proved, vetted, approved, verified, authorised>>

Next ==
  \/ \E p \in Plans :
       Plan(p) \/ Prove(p) \/ Approve(p) \/ Withdraw(p) \/ Verify(p)
         \/ Authorise(p) \/ Deauthorise(p) \/ Admit(p)
  \/ \E k \in Kinds : Vet(k)
  \/ Forget

Spec == Init /\ [][Next]_vars
=============================================================================
