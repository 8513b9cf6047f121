------------------------ MODULE AhvLifecycleProofs ------------------------
(***************************************************************************)
(* The safety of the lab lifecycle for any number of connections, requests   *)
(* and faults.                                                               *)
(***************************************************************************)
EXTENDS AhvLifecycle, FiniteSetTheorems, TLAPS

-----------------------------------------------------------------------------
(* The inductive invariant, over Prism's tasks ts, its VMs vs and its inventory ls. *)
(* Prism: an operation other than a create is of a VM that was made, or of the       *)
(* source VM, and a VM exists only once its create task succeeded, and not after a   *)
(* destroy task did.                                                                *)
Made(ts, v) == v \in DOMAIN ts /\ ts[v].kind \in Making /\ ts[v].state = "SUCCEEDED"

Existed(ts, v) == v = SourceVm \/ Made(ts, v)

TaskOK(ts, t) ==
  /\ ts[t] \in Task
  /\ ts[t].kind \in Making => ts[t].vm = t
  /\ ts[t].kind \notin Making => Existed(ts, ts[t].vm)

PrismOK(ts, vs, ls) ==
  /\ SourceVm \notin DOMAIN ts
  /\ \A t \in DOMAIN ts : TaskOK(ts, t)
  /\ \A t \in DOMAIN ts :
       ts[t].kind = "destroy" /\ ts[t].state = "SUCCEEDED" => ts[t].vm \notin vs
  /\ vs \subseteq ls /\ ls \subseteq DOMAIN ts \cup {SourceVm}
  /\ \A v \in vs : Existed(ts, v)

(* A run's tasks are of its VM or of the one it was cloned from; the task it is      *)
(* polled by is its create, or one of its last action on the VM it names.            *)
KindOf(action) == IF action = "Power VM" THEN "power" ELSE "destroy"

Owns(ts, r, v) == v = r \/ (v = SourceVm /\ ts[r].kind = "clone")

TasksOK(ts, run, r) ==
  /\ r \in DOMAIN ts /\ ts[r].kind \in Making
  /\ run.prismTaskUuid \in run.prismTaskUuids
  /\ run.prismTaskUuids \subseteq DOMAIN ts
  /\ \A t \in run.prismTaskUuids : Owns(ts, r, ts[t].vm)
  /\ run.vmUuid # Pending => Owns(ts, r, run.vmUuid)
  /\ run.action = "Create VM" => run.prismTaskUuid = r
  /\ run.action # "Create VM" =>
       /\ ts[run.prismTaskUuid].kind = KindOf(run.action)
       /\ ts[run.prismTaskUuid].vm = run.vmUuid
       /\ run.vmUuid # Pending

(* A recorded outcome is that of one of the run's tasks; the outcome of the destroy *)
(* that was asked for last is that of the task the run is polled by.                *)
Recorded(ts, outcome, run, kind) ==
  outcome \in {"Succeeded", "Failed"} =>
    \E t \in run.prismTaskUuids : ts[t].kind = kind /\ OutcomeOf(ts[t].state) = outcome

OutcomesOK(ts, run, r) ==
  /\ run.createStatus = "Succeeded" => ts[r].state = "SUCCEEDED"
  /\ run.createStatus = "Failed" => ts[r].state = "FAILED"
  /\ Recorded(ts, run.powerStatus, run, "power")
  /\ Recorded(ts, run.destroyStatus, run, "destroy")
  /\ run.action = "Destroy VM" =>
       /\ run.destroyStatus # "Not requested"
       /\ run.destroyStatus # "Submitted" =>
            OutcomeOf(ts[run.prismTaskUuid].state) = run.destroyStatus

Gone(vs, run) ==
  run.status = "Destroyed" =>
    /\ run.action = "Destroy VM"
    /\ run.vmUuid \notin vs
    /\ run.inventoryReconciliation = "Reconciled"
    /\ run.destroyStatus = "Succeeded"

RunOK(ts, vs, run, r) ==
  /\ run \in Run
  /\ TasksOK(ts, run, r)
  /\ OutcomesOK(ts, run, r)
  /\ Gone(vs, run)

RunsOK(ts, vs, copy) ==
  /\ copy \in Runs
  /\ \A r \in TaskIds : copy[r] # NoRun => RunOK(ts, vs, copy[r], r)

(* A request that waits for Prism keeps the run it serves in its copy; one that *)
(* waits for the inventory was told that the destroy task is done.              *)
RequestOK(ts, at, request, copy) ==
  /\ at \in {"call", "list"} =>
       \/ request.operation \in Making /\ at = "call"
       \/ request.run \in TaskIds /\ copy[request.run] # NoRun
  /\ at = "list" =>
       /\ copy[request.run].action = "Destroy VM"
       /\ ts[copy[request.run].prismTaskUuid].state = "SUCCEEDED"

(* Every task of Prism took a request, and every call is a request without one yet. *)
Calling == {c \in Connections : pc[c] = "call"}

Numbered(ts, n) == n \in Nat /\ DOMAIN ts = 1 .. n
Counted ==
  /\ IsFiniteSet(Calling)
  /\ \E n : Numbered(tasks, n) /\ n + Cardinality(Calling) <= requests

ControlOK ==
  /\ pc \in [Connections -> {"idle", "call", "list", "save"}]
  /\ asks \in [Connections -> Requests]
  /\ held \in [Connections -> Runs]
  /\ disturbed \in BOOLEAN
  /\ requests \in 0..RequestBound
  /\ faults \in 0..FaultBound

IInv ==
  /\ ControlOK
  /\ PrismOK(tasks, vms, listed)
  /\ RunsOK(tasks, vms, runs)
  /\ \A c \in Connections :
       RunsOK(tasks, vms, held[c]) /\ RequestOK(tasks, pc[c], asks[c], held[c])
  /\ Counted

-----------------------------------------------------------------------------
(* What the invariant says. *)

LEMMA InvariantIsTyped == IInv => TypeOK
<1> SUFFICES ASSUME IInv PROVE TypeOK
  OBVIOUS
<1>1. PICK n : Numbered(tasks, n) /\ n + Cardinality(Calling) <= requests
  BY DEF IInv, Counted
<1>2. Cardinality(Calling) \in Nat
  BY FS_CardinalityType DEF IInv, Counted
<1>3. n <= RequestBound
  BY <1>1, <1>2, BoundsAssumption DEF IInv, ControlOK, Numbered
<1>4. DOMAIN tasks \subseteq TaskIds
  BY <1>1, <1>3, BoundsAssumption DEF Numbered, TaskIds
<1>5. \A t \in DOMAIN tasks : tasks[t] \in Task
  BY DEF IInv, PrismOK, TaskOK
<1> QED
  BY <1>4, <1>5 DEF IInv, ControlOK, PrismOK, RunsOK, TypeOK

LEMMA InvariantIsSafe == IInv => DestroyedIsGone /\ OutcomesAreTrue
<1> SUFFICES ASSUME IInv, NEW r \in TaskIds, runs[r] # NoRun
             PROVE  /\ runs[r].status = "Destroyed" =>
                         /\ OwnVm(r, runs[r].vmUuid)
                         /\ runs[r].vmUuid \notin vms
                         /\ runs[r].inventoryReconciliation = "Reconciled"
                         /\ runs[r].destroyStatus = "Succeeded"
                         /\ \E t \in runs[r].prismTaskUuids :
                              /\ tasks[t].kind = "destroy" /\ tasks[t].vm = runs[r].vmUuid
                              /\ tasks[t].state = "SUCCEEDED"
                    /\ \A t \in runs[r].prismTaskUuids : OwnVm(r, tasks[t].vm)
                    /\ runs[r].createStatus = "Succeeded" => tasks[r].state = "SUCCEEDED"
                    /\ runs[r].createStatus = "Failed" => tasks[r].state = "FAILED"
                    /\ runs[r].powerStatus \in {"Succeeded", "Failed"} =>
                         \E t \in runs[r].prismTaskUuids :
                           /\ tasks[t].kind = "power"
                           /\ OutcomeOf(tasks[t].state) = runs[r].powerStatus
                    /\ runs[r].destroyStatus \in {"Succeeded", "Failed"} =>
                         \E t \in runs[r].prismTaskUuids :
                           /\ tasks[t].kind = "destroy"
                           /\ OutcomeOf(tasks[t].state) = runs[r].destroyStatus
  BY DEF DestroyedIsGone, Destroyed, OutcomesAreTrue
<1>1. RunOK(tasks, vms, runs[r], r)
  BY DEF IInv, RunsOK
<1>2. ASSUME NEW t \in DOMAIN tasks, OutcomeOf(tasks[t].state) = "Succeeded"
      PROVE  tasks[t].state = "SUCCEEDED"
  BY <1>2 DEF OutcomeOf, IInv, PrismOK, TaskOK, Task
<1>3. ASSUME runs[r].status = "Destroyed"
      PROVE  \E t \in runs[r].prismTaskUuids :
               /\ tasks[t].kind = "destroy" /\ tasks[t].vm = runs[r].vmUuid
               /\ tasks[t].state = "SUCCEEDED"
  <2> DEFINE t == runs[r].prismTaskUuid
  <2>1. runs[r].action = "Destroy VM" /\ runs[r].destroyStatus = "Succeeded"
    BY <1>1, <1>3 DEF RunOK, Gone
  <2>2. /\ t \in runs[r].prismTaskUuids /\ t \in DOMAIN tasks
        /\ tasks[t].kind = "destroy" /\ tasks[t].vm = runs[r].vmUuid
    BY <1>1, <2>1 DEF RunOK, TasksOK, KindOf
  <2>3. OutcomeOf(tasks[t].state) = "Succeeded"
    BY <1>1, <2>1 DEF RunOK, OutcomesOK
  <2> QED
    BY <1>2, <2>2, <2>3
<1>4. runs[r].status = "Destroyed" => OwnVm(r, runs[r].vmUuid)
  BY <1>1 DEF RunOK, Gone, TasksOK, Owns, OwnVm
<1>5. \A t \in runs[r].prismTaskUuids : OwnVm(r, tasks[t].vm)
  BY <1>1 DEF RunOK, TasksOK, Owns, OwnVm
<1> QED
  BY <1>1, <1>3, <1>4, <1>5 DEF RunOK, OutcomesOK, Recorded, Gone

-----------------------------------------------------------------------------
(* Prism goes on: tasks stay what they are and end once. *)
Advances(ts, vs, ts2, vs2) ==
  /\ DOMAIN ts \subseteq DOMAIN ts2
  /\ \A t \in DOMAIN ts :
       /\ ts2[t].kind = ts[t].kind /\ ts2[t].vm = ts[t].vm
       /\ ts[t].state # "RUNNING" => ts2[t].state = ts[t].state
  /\ \A v \in vs2 \ vs : v # SourceVm /\ (v \in DOMAIN ts => ts[v].state = "RUNNING")

LEMMA RunKept ==
  ASSUME NEW ts, NEW vs, NEW ls, NEW ts2, NEW vs2, PrismOK(ts, vs, ls),
         Advances(ts, vs, ts2, vs2), NEW run, NEW r, RunOK(ts, vs, run, r)
  PROVE  RunOK(ts2, vs2, run, r)
<1>1. ASSUME NEW t \in DOMAIN ts, NEW outcome \in {"Succeeded", "Failed"},
             OutcomeOf(ts[t].state) = outcome
      PROVE  OutcomeOf(ts2[t].state) = outcome
  BY <1>1 DEF OutcomeOf, PrismOK, TaskOK, Task, Advances
<1>2. TasksOK(ts2, run, r)
  BY DEF RunOK, TasksOK, Owns, Advances
<1>3. OutcomesOK(ts2, run, r)
  <2>1. \A kind, outcome : Recorded(ts, outcome, run, kind) => Recorded(ts2, outcome, run, kind)
    BY <1>1 DEF Recorded, RunOK, TasksOK, Advances
  <2>2. r \in DOMAIN ts /\ run.prismTaskUuid \in DOMAIN ts
    BY DEF RunOK, TasksOK
  <2>3. run.destroyStatus \in {"Not requested", "Submitted", "Succeeded", "Failed"}
    BY DEF RunOK, Run, Outcome
  <2> QED
    BY <1>1, <2>1, <2>2, <2>3 DEF RunOK, OutcomesOK, Advances
<1>4. Gone(vs2, run)
  <2> SUFFICES ASSUME run.status = "Destroyed" PROVE run.vmUuid \notin vs2
    BY DEF RunOK, Gone
  <2> DEFINE t == run.prismTaskUuid
  <2>1. /\ t \in DOMAIN ts /\ ts[t].kind = "destroy" /\ ts[t].vm = run.vmUuid
        /\ run.vmUuid \notin vs
    BY DEF RunOK, Gone, TasksOK, KindOf
  <2>2. Existed(ts, run.vmUuid)
    BY <2>1 DEF PrismOK, TaskOK, Making
  <2> QED
    BY <2>1, <2>2 DEF Existed, Made, Advances
<1> QED
  BY <1>2, <1>3, <1>4 DEF RunOK

LEMMA CopyKept ==
  ASSUME NEW ts, NEW vs, NEW ls, NEW ts2, NEW vs2, PrismOK(ts, vs, ls),
         Advances(ts, vs, ts2, vs2), NEW copy, RunsOK(ts, vs, copy)
  PROVE  RunsOK(ts2, vs2, copy)
BY RunKept DEF RunsOK

LEMMA RequestKept ==
  ASSUME NEW ts, NEW vs, NEW ts2, NEW vs2, Advances(ts, vs, ts2, vs2),
         NEW at, NEW request, NEW copy, RunsOK(ts, vs, copy), RequestOK(ts, at, request, copy)
  PROVE  RequestOK(ts2, at, request, copy)
<1>1. ASSUME at = "list"
      PROVE  copy[request.run].prismTaskUuid \in DOMAIN ts
  BY <1>1 DEF RequestOK, RunsOK, RunOK, TasksOK
<1> QED
  BY <1>1 DEF RequestOK, Advances

LEMMA NoRunsOK ==
  ASSUME NEW ts, NEW vs PROVE RunsOK(ts, vs, [r \in TaskIds |-> NoRun])
BY DEF RunsOK, Runs

LEMMA CopyUpdated ==
  ASSUME NEW ts, NEW vs, NEW copy, RunsOK(ts, vs, copy), NEW r, NEW run, RunOK(ts, vs, run, r)
  PROVE  RunsOK(ts, vs, [copy EXCEPT ![r] = run])
BY DEF RunsOK, Runs, RunOK

-----------------------------------------------------------------------------
(* What the adapter makes of a run. *)

LEMMA CreatedOK ==
  ASSUME NEW ts, NEW vs, NEW t \in TaskIds, t \in DOMAIN ts, TaskOK(ts, t),
         ts[t].kind \in Making, NEW vmUuid \in {Pending} \cup Involved(ts[t])
  PROVE  RunOK(ts, vs, Created(t, vmUuid), t)
<1>1. vmUuid = Pending \/ (vmUuid \in VmIds /\ Owns(ts, t, vmUuid))
  BY DEF Involved, TaskOK, Owns, VmIds
<1>2. Created(t, vmUuid) \in Run
  BY <1>1 DEF Created, Run, Outcome
<1>3. TasksOK(ts, Created(t, vmUuid), t)
  BY <1>1 DEF TasksOK, Created, TaskOK, Owns
<1>4. OutcomesOK(ts, Created(t, vmUuid), t) /\ Gone(vs, Created(t, vmUuid))
  BY DEF OutcomesOK, Recorded, Gone, Created
<1> QED
  BY <1>2, <1>3, <1>4 DEF RunOK

LEMMA PoweredOK ==
  ASSUME NEW ts, NEW vs, NEW run, NEW r, RunOK(ts, vs, run, r),
         NEW t \in TaskIds, t \in DOMAIN ts, ts[t].kind = "power",
         ts[t].vm = run.vmUuid, run.vmUuid # Pending
  PROVE  RunOK(ts, vs, Powered(run, t), r)
<1> DEFINE new == Powered(run, t)
<1>1. new \in Run
  BY ZenonT(60) DEF RunOK, Powered, Run, Outcome
<1>2. /\ new.action = "Power VM" /\ new.status = "Submitted" /\ new.prismTaskUuid = t
      /\ new.prismTaskUuids = run.prismTaskUuids \cup {t} /\ new.powerStatus = "Submitted"
      /\ new.createStatus = run.createStatus /\ new.destroyStatus = run.destroyStatus
      /\ new.vmUuid = run.vmUuid
  BY DEF RunOK, Powered, Run
<1> HIDE DEF new
<1>3. TasksOK(ts, new, r)
  BY <1>2 DEF RunOK, TasksOK, KindOf
<1>4. OutcomesOK(ts, new, r)
  BY <1>2 DEF RunOK, OutcomesOK, Recorded
<1>5. Gone(vs, new)
  BY <1>2 DEF Gone
<1> QED
  BY <1>1, <1>3, <1>4, <1>5 DEF RunOK, new

LEMMA DestroyingOK ==
  ASSUME NEW ts, NEW vs, NEW run, NEW r, RunOK(ts, vs, run, r),
         NEW t \in TaskIds, t \in DOMAIN ts, ts[t].kind = "destroy",
         ts[t].vm = run.vmUuid, run.vmUuid # Pending
  PROVE  RunOK(ts, vs, Destroying(run, t), r)
<1> DEFINE new == Destroying(run, t)
<1>1. new \in Run
  <2> DEFINE uuids == run.prismTaskUuids \cup {t}
  <2>1. run \in Run /\ uuids \in SUBSET TaskIds
    BY DEF RunOK, Run
  <2>2. new = [run EXCEPT !.action = "Destroy VM", !.status = "Submitted",
                 !.prismTaskUuid = t, !.prismTaskUuids = uuids,
                 !.destroyStatus = "Submitted", !.inventoryReconciliation = "Pending"]
    BY DEF Destroying
  <2>3. "Submitted" \in Outcome
    BY DEF Outcome
  <2> HIDE DEF uuids, new
  <2> QED
    BY <2>1, <2>2, <2>3 DEF Run
<1>2. /\ new.action = "Destroy VM" /\ new.status = "Submitted" /\ new.prismTaskUuid = t
      /\ new.prismTaskUuids = run.prismTaskUuids \cup {t} /\ new.powerStatus = run.powerStatus
      /\ new.createStatus = run.createStatus /\ new.destroyStatus = "Submitted"
      /\ new.vmUuid = run.vmUuid
  BY DEF RunOK, Destroying, Run
<1> HIDE DEF new
<1>3. TasksOK(ts, new, r)
  BY <1>2 DEF RunOK, TasksOK, KindOf
<1>4. OutcomesOK(ts, new, r)
  BY <1>2 DEF RunOK, OutcomesOK, Recorded
<1>5. Gone(vs, new)
  BY <1>2 DEF Gone
<1> QED
  BY <1>1, <1>3, <1>4, <1>5 DEF RunOK, new

(* What a poll may take for the run's VM: what it has, or what its task involves.   *)
Nameable(ts, run) == {run.vmUuid} \cup Involved(ts[run.prismTaskUuid])

LEMMA NamedOK ==
  ASSUME NEW ts, NEW vs, NEW ls, PrismOK(ts, vs, ls), NEW run, NEW r, RunOK(ts, vs, run, r),
         NEW vmUuid \in Nameable(ts, run)
  PROVE  /\ vmUuid \in VmIds \cup {Pending}
         /\ vmUuid # Pending => Owns(ts, r, vmUuid)
         /\ run.action # "Create VM" => vmUuid = run.vmUuid
<1> DEFINE t == run.prismTaskUuid
<1>1. /\ t \in run.prismTaskUuids /\ t \in DOMAIN ts /\ TaskOK(ts, t)
      /\ run.vmUuid \in VmIds \cup {Pending}
  BY DEF RunOK, TasksOK, PrismOK, Run
<1>2. CASE run.action = "Create VM"
  <2>1. t = r /\ ts[r].kind \in Making /\ ts[r].vm = r /\ ts[r].vm \in VmIds
    BY <1>1, <1>2 DEF RunOK, TasksOK, TaskOK, Task
  <2> QED
    BY <1>1, <1>2, <2>1 DEF Nameable, Involved, Owns, RunOK, TasksOK, VmIds
<1>3. CASE run.action # "Create VM"
  <2>1. ts[t].kind # "clone" /\ ts[t].vm = run.vmUuid
    BY <1>3 DEF RunOK, TasksOK, KindOf
  <2>2. vmUuid = run.vmUuid
    BY <2>1 DEF Nameable, Involved
  <2> QED
    BY <1>1, <2>2 DEF RunOK, TasksOK
<1> QED
  BY <1>2, <1>3

(* The outcome goes to the last action, whose task was read. *)
LEMMA UpdatedOK ==
  ASSUME NEW ts, NEW vs, NEW ls, PrismOK(ts, vs, ls), NEW run, NEW r, RunOK(ts, vs, run, r),
         NEW new, new \in Run,
         LET read == LifecycleStatusUpdate(run, ts[run.prismTaskUuid].state) IN
         /\ new.createStatus = read.createStatus
         /\ new.powerStatus = read.powerStatus
         /\ new.destroyStatus = read.destroyStatus,
         new.action = run.action, new.prismTaskUuid = run.prismTaskUuid,
         new.prismTaskUuids = run.prismTaskUuids, new.vmUuid \in Nameable(ts, run)
  PROVE  TasksOK(ts, new, r) /\ OutcomesOK(ts, new, r)
<1> DEFINE t == run.prismTaskUuid
           outcome == OutcomeOf(ts[t].state)
           Next1(action, status) ==
             IF run.action = action /\ status = "Submitted" THEN outcome ELSE status
<1>1. TasksOK(ts, new, r)
  <2>1. /\ new.vmUuid # Pending => Owns(ts, r, new.vmUuid)
        /\ run.action # "Create VM" => new.vmUuid = run.vmUuid
    BY NamedOK
  <2> QED
    BY <2>1 DEF RunOK, TasksOK
<1>2. /\ new.createStatus = Next1("Create VM", run.createStatus)
      /\ new.powerStatus = Next1("Power VM", run.powerStatus)
      /\ new.destroyStatus = Next1("Destroy VM", run.destroyStatus)
  BY DEF RunOK, Run, LifecycleStatusUpdate
<1>3. /\ t \in run.prismTaskUuids
      /\ run.action = "Create VM" => t = r
      /\ run.action # "Create VM" => ts[t].kind = KindOf(run.action)
  BY DEF RunOK, TasksOK
<1>4. ts[t].state \in {"RUNNING", "SUCCEEDED", "FAILED"}
  BY <1>3 DEF RunOK, TasksOK, PrismOK, TaskOK, Task
<1>5. /\ outcome = "Succeeded" => ts[t].state = "SUCCEEDED"
      /\ outcome = "Failed" => ts[t].state = "FAILED"
  BY <1>4 DEF OutcomeOf
<1>6. /\ new.createStatus = "Succeeded" => ts[r].state = "SUCCEEDED"
      /\ new.createStatus = "Failed" => ts[r].state = "FAILED"
  <2> HIDE DEF outcome
  <2> QED
    BY <1>2, <1>3, <1>4, <1>5 DEF KindOf, RunOK, OutcomesOK
<1>7. Recorded(ts, new.powerStatus, new, "power")
  <2> HIDE DEF Next1
  <2>1. CASE new.powerStatus = run.powerStatus
    BY <2>1 DEF RunOK, OutcomesOK, Recorded
  <2>2. CASE run.action = "Power VM" /\ new.powerStatus = outcome
    BY <2>2, <1>3 DEF Recorded, KindOf
  <2> QED
    BY <1>2, <2>1, <2>2 DEF Next1
<1>8. Recorded(ts, new.destroyStatus, new, "destroy")
  <2> HIDE DEF Next1
  <2>1. CASE new.destroyStatus = run.destroyStatus
    BY <2>1 DEF RunOK, OutcomesOK, Recorded
  <2>2. CASE run.action = "Destroy VM" /\ new.destroyStatus = outcome
    BY <2>2, <1>3 DEF Recorded, KindOf
  <2> QED
    BY <1>2, <2>1, <2>2 DEF Next1
<1>9. new.action = "Destroy VM" =>
        /\ new.destroyStatus # "Not requested"
        /\ new.destroyStatus # "Submitted" => outcome = new.destroyStatus
  <2>1. outcome # "Not requested"
    BY <1>4 DEF OutcomeOf
  <2> HIDE DEF outcome
  <2>2. run.action = "Destroy VM" =>
          /\ run.destroyStatus # "Not requested"
          /\ run.destroyStatus # "Submitted" => outcome = run.destroyStatus
    BY DEF RunOK, OutcomesOK, outcome
  <2> QED
    BY <1>2, <2>1, <2>2
<1> QED
  BY <1>1, <1>6, <1>7, <1>8, <1>9 DEF OutcomesOK

LEMMA PolledOK ==
  ASSUME NEW ts, NEW vs, NEW ls, PrismOK(ts, vs, ls), NEW run, NEW r, RunOK(ts, vs, run, r),
         NEW vmUuid \in Nameable(ts, run)
  PROVE  RunOK(ts, vs, Polled(run, ts[run.prismTaskUuid].state, vmUuid), r)
<1> DEFINE state == ts[run.prismTaskUuid].state
           new == Polled(run, state, vmUuid)
           read == LifecycleStatusUpdate(run, state)
<1>1. run \in Run
  BY DEF RunOK
<1>2. state \in {"RUNNING", "SUCCEEDED", "FAILED"}
  BY DEF RunOK, TasksOK, PrismOK, TaskOK, Task
<1>3. read \in Run
  <2> DEFINE outcome == OutcomeOf(state)
  <2>1. outcome \in Outcome
    BY <1>2 DEF OutcomeOf, Outcome
  <2> HIDE DEF outcome
  <2>2. read = [run EXCEPT
          !.createStatus = IF run.action = "Create VM" /\ @ = "Submitted" THEN outcome ELSE @,
          !.powerStatus = IF run.action = "Power VM" /\ @ = "Submitted" THEN outcome ELSE @,
          !.destroyStatus = IF run.action = "Destroy VM" /\ @ = "Submitted" THEN outcome ELSE @]
    BY DEF LifecycleStatusUpdate, outcome
  <2> DEFINE create == IF run.action = "Create VM" /\ run.createStatus = "Submitted"
                       THEN outcome ELSE run.createStatus
             power == IF run.action = "Power VM" /\ run.powerStatus = "Submitted"
                      THEN outcome ELSE run.powerStatus
             destroy == IF run.action = "Destroy VM" /\ run.destroyStatus = "Submitted"
                        THEN outcome ELSE run.destroyStatus
  <2>3. /\ create \in Outcome /\ power \in Outcome \cup {"Not requested"}
        /\ destroy \in Outcome \cup {"Not requested"}
    BY <1>1, <2>1 DEF Run
  <2>4. read = [run EXCEPT !.createStatus = create, !.powerStatus = power,
                           !.destroyStatus = destroy]
    BY <1>1, <2>2 DEF Run
  <2> HIDE DEF read, create, power, destroy
  <2> QED
    BY <1>1, <2>3, <2>4 DEF Run
<1>4. /\ read.action = run.action /\ read.prismTaskUuid = run.prismTaskUuid
      /\ read.prismTaskUuids = run.prismTaskUuids
  BY <1>1 DEF LifecycleStatusUpdate, Run
<1>5. new = [read EXCEPT
               !.status = IF state = "SUCCEEDED" THEN "Succeeded"
                          ELSE IF state = "FAILED" THEN "Failed" ELSE "Polling",
               !.vmUuid = vmUuid,
               !.failureReason = @ \/ state = "FAILED"]
  BY <1>2 DEF Polled
<1> HIDE DEF read, new
<1>6. /\ new \in Run /\ new.status # "Destroyed"
      /\ new.createStatus = read.createStatus /\ new.powerStatus = read.powerStatus
      /\ new.destroyStatus = read.destroyStatus /\ new.action = read.action
      /\ new.prismTaskUuid = read.prismTaskUuid /\ new.prismTaskUuids = read.prismTaskUuids
      /\ new.vmUuid = vmUuid
  <2>1. vmUuid \in VmIds \cup {Pending}
    BY NamedOK
  <2> QED
    BY <1>2, <1>3, <1>5, <2>1, ZenonT(60) DEF Run
<1>7. TasksOK(ts, new, r) /\ OutcomesOK(ts, new, r)
  BY <1>4, <1>6, UpdatedOK DEF read
<1> QED
  BY <1>6, <1>7 DEF RunOK, Gone, new

LEMMA ReconciledOK ==
  ASSUME NEW ts, NEW vs, NEW ls, PrismOK(ts, vs, ls), NEW run, NEW r, RunOK(ts, vs, run, r),
         run.action = "Destroy VM", ts[run.prismTaskUuid].state = "SUCCEEDED",
         NEW present \in BOOLEAN
  PROVE  RunOK(ts, vs, Reconciled(run, present), r)
<1> DEFINE new == Reconciled(run, present)
           read == LifecycleStatusUpdate(run, "SUCCEEDED")
<1>1. run \in Run
  BY DEF RunOK
<1>2. read \in Run
  BY <1>1, ZenonT(60) DEF LifecycleStatusUpdate, Run, OutcomeOf, Outcome
<1>3. /\ read.action = run.action /\ read.prismTaskUuid = run.prismTaskUuid
      /\ read.prismTaskUuids = run.prismTaskUuids /\ read.vmUuid = run.vmUuid
      /\ read.destroyStatus =
           IF run.destroyStatus = "Submitted" THEN "Succeeded" ELSE run.destroyStatus
  BY <1>1 DEF LifecycleStatusUpdate, Run, OutcomeOf
<1>4. new = [read EXCEPT
               !.status = IF present THEN "Failed" ELSE "Destroyed",
               !.inventoryReconciliation = IF present THEN "Still present" ELSE "Reconciled"]
  BY DEF Reconciled
<1> HIDE DEF read, new
<1>5. /\ new \in Run
      /\ new.status = IF present THEN "Failed" ELSE "Destroyed"
      /\ new.inventoryReconciliation = IF present THEN "Still present" ELSE "Reconciled"
      /\ new.createStatus = read.createStatus /\ new.powerStatus = read.powerStatus
      /\ new.destroyStatus = read.destroyStatus /\ new.action = read.action
      /\ new.prismTaskUuid = read.prismTaskUuid /\ new.prismTaskUuids = read.prismTaskUuids
      /\ new.vmUuid = read.vmUuid
  BY <1>2, <1>4, ZenonT(60) DEF Run
<1>6. TasksOK(ts, new, r) /\ OutcomesOK(ts, new, r)
  BY <1>3, <1>5, UpdatedOK DEF read, Nameable
<1>7. new.destroyStatus = "Succeeded"
  <2>1. OutcomeOf("SUCCEEDED") = "Succeeded"
    BY DEF OutcomeOf
  <2>2. run.destroyStatus # "Submitted" => run.destroyStatus = "Succeeded"
    BY <2>1 DEF RunOK, OutcomesOK
  <2> QED
    BY <1>3, <1>5, <2>2
<1>8. run.vmUuid \notin vs
  BY DEF RunOK, TasksOK, KindOf, PrismOK
<1>9. Gone(vs, new)
  BY <1>3, <1>5, <1>7, <1>8 DEF Gone
<1> QED
  BY <1>5, <1>6, <1>9 DEF RunOK, new

-----------------------------------------------------------------------------
(* Prism's steps. *)

LEMMA StillAdvances ==
  ASSUME NEW ts, NEW vs, NEW vs2 \in SUBSET vs PROVE Advances(ts, vs, ts, vs2)
BY DEF Advances

LEMMA AcceptAdvances ==
  ASSUME IInv, NEW c \in Connections, PrismAccepts(c),
         NEW n, Numbered(tasks, n), n + 1 \in TaskIds
  PROVE  /\ NewTask = n + 1
         /\ Numbered(tasks', n + 1)
         /\ Advances(tasks, vms, tasks', vms')
         /\ PrismOK(tasks', vms', listed')
         /\ tasks'[n + 1] = TaskFor(c)
         /\ asks[c].operation \notin Making => held[c][asks[c].run].vmUuid \in VmIds
<1>1. Cardinality(1 .. n) = n
  <2>1. Cardinality(1 .. n) = IF 1 > n THEN 0 ELSE n - 1 + 1
    BY FS_Interval DEF Numbered
  <2> QED
    BY <2>1 DEF Numbered
<1>2. NewTask = n + 1
  BY <1>1 DEF NewTask, Numbered
<1> DEFINE new == TaskFor(c)
<1>3. /\ new.kind = asks[c].operation /\ new.state = "RUNNING"
      /\ asks[c].operation \in Making => new.vm = n + 1
      /\ asks[c].operation \notin Making => new.vm = held[c][asks[c].run].vmUuid
      /\ new = [kind |-> new.kind, state |-> new.state, vm |-> new.vm]
  BY <1>2 DEF TaskFor
<1>4. /\ tasks' = [t \in DOMAIN tasks \cup {n + 1} |-> IF t = n + 1 THEN new ELSE tasks[t]]
      /\ vms' = vms /\ listed' = listed
      /\ new.kind \in Making \cup {"power", "destroy"}
      /\ new.kind \notin Making => new.vm \in vms
  BY <1>2, <1>3, Zenon DEF PrismAccepts
<1> HIDE DEF new
<1>5. PrismOK(tasks, vms, listed)
  BY DEF IInv
<1>6. /\ DOMAIN tasks' = 1 .. (n + 1)
      /\ DOMAIN tasks' = DOMAIN tasks \cup {n + 1}
      /\ n + 1 \notin DOMAIN tasks
      /\ tasks'[n + 1] = new
      /\ \A t \in DOMAIN tasks : tasks'[t] = tasks[t]
  BY <1>4 DEF Numbered
<1>7. Numbered(tasks', n + 1)
  BY <1>6 DEF Numbered
<1>8. Advances(tasks, vms, tasks', vms')
  BY <1>4, <1>6 DEF Advances
<1>9. \A v : Existed(tasks, v) => Existed(tasks', v)
  BY <1>6 DEF Existed, Made
<1>10. new.kind \notin Making => Existed(tasks, new.vm) /\ new.vm \in VmIds
  <2>1. DOMAIN tasks \subseteq TaskIds
    BY BoundsAssumption DEF Numbered, TaskIds
  <2> QED
    BY <1>4, <1>5, <2>1 DEF PrismOK, VmIds
<1>11. TaskOK(tasks', n + 1)
  <2>1. new.vm \in VmIds
    BY <1>3, <1>10 DEF VmIds
  <2>2. new \in Task
    BY <1>3, <1>4, <2>1 DEF Task
  <2> QED
    BY <1>3, <1>6, <1>9, <1>10, <2>2 DEF TaskOK
<1>12. \A t \in DOMAIN tasks : TaskOK(tasks', t)
  BY <1>5, <1>6, <1>9 DEF PrismOK, TaskOK
<1>13. SourceVm \notin DOMAIN tasks'
  BY <1>6 DEF Numbered, SourceVm
<1>14. \A t \in DOMAIN tasks' :
         tasks'[t].state = "SUCCEEDED" => t \in DOMAIN tasks /\ tasks'[t] = tasks[t]
  BY <1>3, <1>6
<1>15. PrismOK(tasks', vms', listed')
  BY <1>4, <1>5, <1>6, <1>9, <1>11, <1>12, <1>13, <1>14 DEF PrismOK
<1> QED
  BY <1>2, <1>3, <1>6, <1>7, <1>8, <1>10, <1>15 DEF new

(* A task that ends. *)
LEMMA EndAdvances ==
  ASSUME PrismOK(tasks, vms, listed), NEW t \in DOMAIN tasks, tasks[t].state = "RUNNING",
         NEW state \in {"SUCCEEDED", "FAILED"}, tasks' = [tasks EXCEPT ![t].state = state],
         NEW vs, vms' = vs, vs \subseteq vms \cup {t},
         t \in vs => state = "SUCCEEDED" /\ tasks[t].kind \in Making,
         tasks[t].kind = "destroy" /\ state = "SUCCEEDED" => tasks[t].vm \notin vs,
         vs \subseteq listed', listed' \subseteq DOMAIN tasks \cup {SourceVm}
  PROVE  /\ DOMAIN tasks' = DOMAIN tasks
         /\ Advances(tasks, vms, tasks', vms')
         /\ PrismOK(tasks', vms', listed')
<1>1. tasks[t] \in Task
  BY DEF PrismOK, TaskOK
<1>2. /\ DOMAIN tasks' = DOMAIN tasks
      /\ \A u \in DOMAIN tasks \ {t} : tasks'[u] = tasks[u]
      /\ tasks'[t] = [tasks[t] EXCEPT !.state = state]
  OBVIOUS
<1>3. /\ tasks'[t] \in Task /\ tasks'[t].state = state
      /\ tasks'[t].kind = tasks[t].kind /\ tasks'[t].vm = tasks[t].vm
  BY <1>1, <1>2 DEF Task
<1>4. SourceVm \notin DOMAIN tasks /\ t # SourceVm
  BY DEF PrismOK
<1>5. Advances(tasks, vms, tasks', vms')
  BY <1>2, <1>3, <1>4 DEF Advances
<1>6. \A v : Existed(tasks, v) => v # t /\ Existed(tasks', v)
  BY <1>2, <1>4 DEF Existed, Made
<1>7. \A u \in DOMAIN tasks : TaskOK(tasks', u)
  BY <1>2, <1>3, <1>6 DEF PrismOK, TaskOK
<1>8. \A v \in vs : Existed(tasks', v)
  <2>1. t \in vs => Existed(tasks', t)
    BY <1>2, <1>3 DEF Existed, Made
  <2> QED
    BY <1>6, <2>1 DEF PrismOK
<1>9. ASSUME NEW u \in DOMAIN tasks, tasks'[u].kind = "destroy", tasks'[u].state = "SUCCEEDED"
      PROVE  tasks'[u].vm \notin vs
  <2>1. CASE u = t
    BY <1>3, <1>9, <2>1
  <2>2. CASE u # t
    <3>1. tasks'[u] = tasks[u] /\ tasks[u].vm \notin vms /\ Existed(tasks, tasks[u].vm)
      BY <1>2, <1>9, <2>2 DEF PrismOK, TaskOK, Making
    <3> QED
      BY <1>6, <3>1
  <2> QED
    BY <2>1, <2>2
<1>10. PrismOK(tasks', vms', listed')
  BY <1>2, <1>4, <1>7, <1>8, <1>9 DEF PrismOK
<1> QED
  BY <1>2, <1>5, <1>10

-----------------------------------------------------------------------------
(* The calls that are open. *)

LEMMA CallEnds ==
  ASSUME IInv, NEW c \in Connections, NEW at \in {"idle", "list", "save"},
         pc' = [pc EXCEPT ![c] = at]
  PROVE  /\ IsFiniteSet(Calling')
         /\ Cardinality(Calling') \in Nat /\ Cardinality(Calling) \in Nat
         /\ Cardinality(Calling') <= Cardinality(Calling)
         /\ pc[c] = "call" => Cardinality(Calling') + 1 = Cardinality(Calling)
<1>1. Calling' = Calling \ {c}
  BY DEF Calling, IInv, ControlOK
<1>2. IsFiniteSet(Calling)
  BY DEF IInv, Counted
<1>3. /\ IsFiniteSet(Calling \ {c})
      /\ Cardinality(Calling \ {c}) =
           IF c \in Calling THEN Cardinality(Calling) - 1 ELSE Cardinality(Calling)
  BY <1>2, FS_RemoveElement
<1>4. Cardinality(Calling) \in Nat /\ Cardinality(Calling \ {c}) \in Nat
  BY <1>2, <1>3, FS_CardinalityType
<1>5. pc[c] = "call" => c \in Calling
  BY DEF Calling
<1> QED
  BY <1>1, <1>3, <1>4, <1>5

LEMMA CallBegins ==
  ASSUME IInv, NEW c \in Connections, NEW at \in {"call", "save"},
         pc' = [pc EXCEPT ![c] = at], requests' = requests + 1, tasks' = tasks
  PROVE  Counted'
<1>1. IsFiniteSet(Calling)
  BY DEF IInv, Counted
<1>2. Calling' \subseteq Calling \cup {c}
  BY DEF Calling, IInv, ControlOK
<1>3. /\ IsFiniteSet(Calling \cup {c})
      /\ Cardinality(Calling \cup {c}) =
           IF c \in Calling THEN Cardinality(Calling) ELSE Cardinality(Calling) + 1
  BY <1>1, FS_AddElement
<1>4. IsFiniteSet(Calling') /\ Cardinality(Calling') <= Cardinality(Calling \cup {c})
  BY <1>2, <1>3, FS_Subset
<1>5. Cardinality(Calling) \in Nat /\ Cardinality(Calling') \in Nat
  BY <1>1, <1>4, FS_CardinalityType
<1>6. PICK n : Numbered(tasks, n) /\ n + Cardinality(Calling) <= requests
  BY DEF IInv, Counted
<1>7. n + Cardinality(Calling') <= requests'
  BY <1>3, <1>4, <1>5, <1>6 DEF IInv, ControlOK, Numbered
<1> QED
  BY <1>4, <1>6, <1>7 DEF Counted

(* A step of one connection, whatever Prism does meanwhile. *)
LEMMA Served ==
  ASSUME IInv, Advances(tasks, vms, tasks', vms'), PrismOK(tasks', vms', listed'),
         NEW c \in Connections, NEW at \in {"idle", "call", "list", "save"},
         NEW request \in Requests, NEW copy,
         pc' = [pc EXCEPT ![c] = at], asks' = [asks EXCEPT ![c] = request],
         held' = [held EXCEPT ![c] = copy],
         RunsOK(tasks', vms', copy), RequestOK(tasks', at, request, copy),
         RunsOK(tasks', vms', runs'), Counted',
         disturbed' \in BOOLEAN, requests' \in 0..RequestBound, faults' \in 0..FaultBound
  PROVE  IInv'
<1>1. ControlOK'
  BY DEF IInv, ControlOK, RunsOK
<1>2. ASSUME NEW d \in Connections
      PROVE  RunsOK(tasks', vms', held'[d]) /\ RequestOK(tasks', pc'[d], asks'[d], held'[d])
  <2>1. CASE d = c
    BY <2>1 DEF IInv, ControlOK
  <2>2. CASE d # c
    <3>1. pc'[d] = pc[d] /\ asks'[d] = asks[d] /\ held'[d] = held[d]
      BY <2>2 DEF IInv, ControlOK
    <3>2. RunsOK(tasks, vms, held[d]) /\ RequestOK(tasks, pc[d], asks[d], held[d])
      BY DEF IInv
    <3>3. RunsOK(tasks', vms', held[d])
      BY <3>2, CopyKept DEF IInv
    <3>4. RequestOK(tasks', pc[d], asks[d], held[d])
      BY <3>2, RequestKept
    <3> QED
      BY <3>1, <3>3, <3>4
  <2> QED
    BY <2>1, <2>2
<1> QED
  BY <1>1, <1>2 DEF IInv

(* A step of Prism or of nobody's request. *)
LEMMA Unserved ==
  ASSUME IInv, Advances(tasks, vms, tasks', vms'), PrismOK(tasks', vms', listed'),
         DOMAIN tasks' = DOMAIN tasks,
         UNCHANGED <<runs, pc, asks, held, disturbed, requests, faults>>
  PROVE  IInv'
<1>1. ControlOK'
  BY DEF IInv, ControlOK
<1>2. Counted'
  BY DEF IInv, Counted, Calling, Numbered
<1>3. RunsOK(tasks', vms', runs')
  BY CopyKept DEF IInv
<1>4. ASSUME NEW d \in Connections
      PROVE  RunsOK(tasks', vms', held'[d]) /\ RequestOK(tasks', pc'[d], asks'[d], held'[d])
  <2>1. RunsOK(tasks, vms, held[d]) /\ RequestOK(tasks, pc[d], asks[d], held[d])
    BY DEF IInv
  <2>2. RunsOK(tasks', vms', held[d])
    BY <2>1, CopyKept DEF IInv
  <2>3. RequestOK(tasks', pc[d], asks[d], held[d])
    BY <2>1, RequestKept
  <2> QED
    BY <2>2, <2>3
<1> QED
  BY <1>1, <1>2, <1>3, <1>4 DEF IInv

-----------------------------------------------------------------------------
(* The steps. *)

LEMMA InitIInv == Init => IInv
<1> SUFFICES ASSUME Init PROVE IInv
  OBVIOUS
<1>1. DOMAIN tasks = {} /\ vms = {SourceVm} /\ listed = {SourceVm}
  BY DEF Init
<1>2. PrismOK(tasks, vms, listed)
  BY <1>1 DEF PrismOK, Existed
<1>3. RunsOK(tasks, vms, runs)
  BY NoRunsOK DEF Init
<1>4. ControlOK
  <2>1. runs \in Runs
    BY <1>3 DEF RunsOK
  <2>2. NoRequest \in Requests
    BY DEF NoRequest, Requests, Operations
  <2>3. 0 \in 0..RequestBound /\ 0 \in 0..FaultBound
    BY BoundsAssumption
  <2> QED
    BY <2>1, <2>2, <2>3 DEF Init, ControlOK
<1>5. Calling = {} /\ IsFiniteSet(Calling) /\ Cardinality(Calling) = 0
  BY FS_EmptySet DEF Init, Calling
<1>6. Numbered(tasks, 0) /\ 0 + Cardinality(Calling) <= requests
  BY <1>1, <1>5 DEF Init, Numbered
<1>7. \A c \in Connections : RequestOK(tasks, pc[c], asks[c], held[c])
  BY DEF Init, RequestOK
<1> QED
  BY <1>2, <1>3, <1>4, <1>5, <1>6, <1>7 DEF Init, IInv, Counted

LEMMA BeginKeeps ==
  ASSUME IInv, NEW c \in Connections, NEW request \in Requests, NEW next \in {"call", "save"},
         next = "call" => \/ request.operation \in Making
                          \/ request.run \in TaskIds /\ runs[request.run] # NoRun,
         Begin(c, request, next)
  PROVE  IInv'
<1>1. Advances(tasks, vms, tasks', vms') /\ PrismOK(tasks', vms', listed')
  BY StillAdvances DEF Begin, IInv
<1>2. Counted'
  BY CallBegins DEF Begin
<1>3. RunsOK(tasks', vms', runs) /\ RequestOK(tasks', next, request, runs)
  BY DEF Begin, IInv, RequestOK
<1>4. requests' \in 0..RequestBound /\ disturbed' \in BOOLEAN
  BY BoundsAssumption DEF Begin, IInv, ControlOK
<1>5. /\ pc' = [pc EXCEPT ![c] = next] /\ asks' = [asks EXCEPT ![c] = request]
      /\ held' = [held EXCEPT ![c] = runs]
      /\ RunsOK(tasks', vms', runs') /\ faults' \in 0..FaultBound
  BY <1>3 DEF Begin, IInv, ControlOK
<1> QED
  BY <1>1, <1>2, <1>3, <1>4, <1>5, Served

LEMMA ArrivalKeeps ==
  ASSUME IInv, NEW c \in Connections,
         \/ (\E operation \in Making : Create(c, operation)) \/ Other(c)
         \/ \E r \in TaskIds : Change(c, "power", r) \/ Change(c, "destroy", r) \/ Poll(c, r)
  PROVE  IInv'
<1>1. ASSUME NEW operation \in Making, Create(c, operation)
      PROVE  IInv'
  BY <1>1, BeginKeeps DEF Create, Requests, Operations
<1>2. CASE Other(c)
  BY <1>2, BeginKeeps DEF Other, NoRequest, Requests, Operations
<1>3. ASSUME NEW r \in TaskIds, NEW operation \in {"power", "destroy"}, Change(c, operation, r)
      PROVE  IInv'
  BY <1>3, BeginKeeps DEF Change, Requests, Operations
<1>4. ASSUME NEW r \in TaskIds, Poll(c, r)
      PROVE  IInv'
  BY <1>4, BeginKeeps DEF Poll, Requests, Operations
<1> QED
  BY <1>1, <1>2, <1>3, <1>4

(* A request that ends, saved or not. *)
LEMMA AnswerKeeps ==
  ASSUME IInv, NEW c \in Connections, Answer(c),
         Advances(tasks, vms, tasks', vms'), PrismOK(tasks', vms', listed'), Counted',
         RunsOK(tasks', vms', runs'),
         disturbed' \in BOOLEAN, requests' = requests, faults' \in 0..FaultBound
  PROVE  IInv'
<1> DEFINE empty == [r \in TaskIds |-> NoRun]
<1>1. RunsOK(tasks', vms', empty)
  BY NoRunsOK
<1>2. RequestOK(tasks', "idle", NoRequest, empty) /\ NoRequest \in Requests
  BY DEF RequestOK, NoRequest, Requests, Operations
<1>3. requests' \in 0..RequestBound
  BY DEF IInv, ControlOK
<1>4. /\ pc' = [pc EXCEPT ![c] = "idle"] /\ asks' = [asks EXCEPT ![c] = NoRequest]
      /\ held' = [held EXCEPT ![c] = empty]
  BY DEF Answer
<1> HIDE DEF empty
<1> QED
  BY <1>1, <1>2, <1>3, <1>4, Served

(* A request that goes on with its copy. *)
LEMMA GoesOn ==
  ASSUME IInv, NEW c \in Connections, NEW at \in {"list", "save"}, NEW copy,
         pc' = [pc EXCEPT ![c] = at], UNCHANGED <<asks, runs, disturbed, requests, faults>>,
         held' = [held EXCEPT ![c] = copy],
         Advances(tasks, vms, tasks', vms'), PrismOK(tasks', vms', listed'), Counted',
         RunsOK(tasks', vms', copy), RequestOK(tasks', at, asks[c], copy)
  PROVE  IInv'
<1>1. asks[c] \in Requests /\ asks' = [asks EXCEPT ![c] = asks[c]]
  BY DEF IInv, ControlOK
<1>2. RunsOK(tasks', vms', runs')
  BY CopyKept DEF IInv
<1>3. /\ disturbed' \in BOOLEAN /\ requests' \in 0..RequestBound /\ faults' \in 0..FaultBound
      /\ at \in {"idle", "call", "list", "save"}
  BY DEF IInv, ControlOK
<1> QED
  BY <1>1, <1>2, <1>3, Served

(* Tasks are counted when a call ends without a new one. *)
LEMMA NoNewTask ==
  ASSUME IInv, NEW c \in Connections, NEW at \in {"idle", "list", "save"},
         pc' = [pc EXCEPT ![c] = at], requests' = requests, DOMAIN tasks' = DOMAIN tasks
  PROVE  Counted'
<1>1. PICK n : Numbered(tasks, n) /\ n + Cardinality(Calling) <= requests
  BY DEF IInv, Counted
<1>2. /\ IsFiniteSet(Calling') /\ Cardinality(Calling') <= Cardinality(Calling)
      /\ Cardinality(Calling') \in Nat /\ Cardinality(Calling) \in Nat
  BY CallEnds
<1>3. n + Cardinality(Calling') <= requests'
  BY <1>1, <1>2 DEF Numbered, IInv, ControlOK
<1> QED
  BY <1>1, <1>2, <1>3 DEF Counted, Numbered

(* When Prism accepts an operation there is room for its task. *)
LEMMA Room ==
  ASSUME IInv, NEW c \in Connections, pc[c] = "call", NEW at \in {"idle", "save"},
         pc' = [pc EXCEPT ![c] = at], requests' = requests, PrismAccepts(c)
  PROVE  /\ NewTask \in TaskIds /\ NewTask \in DOMAIN tasks'
         /\ Advances(tasks, vms, tasks', vms') /\ PrismOK(tasks', vms', listed')
         /\ tasks'[NewTask] = TaskFor(c)
         /\ asks[c].operation \notin Making => held[c][asks[c].run].vmUuid \in VmIds
         /\ Counted'
<1>1. PICK n : Numbered(tasks, n) /\ n + Cardinality(Calling) <= requests
  BY DEF IInv, Counted
<1>2. /\ Cardinality(Calling') + 1 = Cardinality(Calling)
      /\ Cardinality(Calling') \in Nat /\ IsFiniteSet(Calling')
  BY CallEnds
<1>3. n + 1 <= RequestBound
  BY <1>1, <1>2, BoundsAssumption DEF Numbered, IInv, ControlOK
<1>4. n + 1 \in TaskIds
  BY <1>1, <1>3, BoundsAssumption DEF Numbered, TaskIds
<1>5. /\ NewTask = n + 1
      /\ Numbered(tasks', n + 1)
      /\ Advances(tasks, vms, tasks', vms')
      /\ PrismOK(tasks', vms', listed')
      /\ tasks'[n + 1] = TaskFor(c)
      /\ asks[c].operation \notin Making => held[c][asks[c].run].vmUuid \in VmIds
  BY <1>1, <1>4, AcceptAdvances
<1>6. n + 1 + Cardinality(Calling') <= requests'
  BY <1>1, <1>2 DEF Numbered, IInv, ControlOK
<1>7. Counted'
  BY <1>2, <1>5, <1>6 DEF Counted
<1>8. n + 1 \in DOMAIN tasks'
  BY <1>1, <1>5 DEF Numbered
<1> QED
  BY <1>4, <1>5, <1>7, <1>8

(* The task of a power or a destroy is of the VM its run names. *)
LEMMA NewTaskOfRun ==
  ASSUME NEW c \in Connections, NEW operation \in {"power", "destroy"},
         asks[c].operation = operation, tasks'[NewTask] = TaskFor(c),
         asks[c].operation \notin Making => held[c][asks[c].run].vmUuid \in VmIds
  PROVE  LET vmUuid == held[c][asks[c].run].vmUuid IN
         /\ tasks'[NewTask].kind = operation
         /\ tasks'[NewTask].vm = vmUuid /\ vmUuid # Pending
BY PendingAssumption DEF TaskFor, Making

LEMMA SubmittedKeeps ==
  ASSUME IInv, NEW c \in Connections, Submitted(c)
  PROVE  IInv'
<1>1. /\ pc[c] = "call" /\ PrismAccepts(c)
      /\ pc' = [pc EXCEPT ![c] = "save"]
      /\ UNCHANGED <<asks, runs, disturbed, requests, faults>>
  BY Zenon DEF Submitted, Update
<1>2. /\ NewTask \in TaskIds /\ NewTask \in DOMAIN tasks'
      /\ Advances(tasks, vms, tasks', vms') /\ PrismOK(tasks', vms', listed')
      /\ tasks'[NewTask] = TaskFor(c)
      /\ asks[c].operation \notin Making => held[c][asks[c].run].vmUuid \in VmIds
      /\ Counted'
  BY <1>1, Room, Zenon
<1>3. RunsOK(tasks, vms, held[c]) /\ RunsOK(tasks', vms', held[c])
  BY <1>2, CopyKept DEF IInv
<1> DEFINE r == asks[c].run
<1>4. asks[c].operation \notin Making => r \in TaskIds /\ RunOK(tasks', vms', held[c][r], r)
  BY <1>1, <1>3 DEF IInv, RequestOK, RunsOK
<1>5. \E q, run : /\ RunOK(tasks', vms', run, q)
                  /\ held' = [held EXCEPT ![c] = [held[c] EXCEPT ![q] = run]]
  <2>1. CASE asks[c].operation \in Making
    <3>1. PICK vmUuid \in {Pending} \cup Involved(TaskFor(c)) :
            Update(c, NewTask, Created(NewTask, vmUuid))
      BY <2>1, Zenon DEF Submitted, Making
    <3>2. held' = [held EXCEPT ![c] = [held[c] EXCEPT ![NewTask] = Created(NewTask, vmUuid)]]
      BY <3>1, Zenon DEF Update, IInv, ControlOK
    <3>3. TaskOK(tasks', NewTask) /\ tasks'[NewTask].kind \in Making
      BY <1>2, <2>1 DEF PrismOK, TaskFor
    <3>4. RunOK(tasks', vms', Created(NewTask, vmUuid), NewTask)
      BY <1>2, <3>1, <3>3, CreatedOK
    <3> QED
      BY <3>2, <3>4
  <2>2. CASE asks[c].operation = "power"
    <3>1. held' = [held EXCEPT ![c] = [held[c] EXCEPT ![r] = Powered(held[c][r], NewTask)]]
      BY <2>2, Zenon DEF Submitted, Update, IInv, ControlOK, Making
    <3>2. /\ tasks'[NewTask].kind = "power" /\ tasks'[NewTask].vm = held[c][r].vmUuid
          /\ held[c][r].vmUuid # Pending
      BY <1>2, <2>2, NewTaskOfRun
    <3>3. RunOK(tasks', vms', Powered(held[c][r], NewTask), r)
      BY <1>2, <1>4, <2>2, <3>2, PoweredOK DEF Making
    <3> QED
      BY <3>1, <3>3
  <2>3. CASE asks[c].operation = "destroy"
    <3>1. held' = [held EXCEPT ![c] = [held[c] EXCEPT ![r] = Destroying(held[c][r], NewTask)]]
      BY <2>3, Zenon DEF Submitted, Update, IInv, ControlOK, Making
    <3>2. /\ tasks'[NewTask].kind = "destroy" /\ tasks'[NewTask].vm = held[c][r].vmUuid
          /\ held[c][r].vmUuid # Pending
      BY <1>2, <2>3, NewTaskOfRun
    <3>3. RunOK(tasks', vms', Destroying(held[c][r], NewTask), r)
      BY <1>2, <1>4, <2>3, <3>2, DestroyingOK DEF Making
    <3> QED
      BY <3>1, <3>3
  <2> QED
    BY <1>1, <2>1, <2>2, <2>3, Zenon DEF Submitted
<1>6. PICK q, run : /\ RunOK(tasks', vms', run, q)
                    /\ held' = [held EXCEPT ![c] = [held[c] EXCEPT ![q] = run]]
  BY <1>5
<1>7. RunsOK(tasks', vms', [held[c] EXCEPT ![q] = run])
  BY <1>3, <1>6, CopyUpdated
<1>8. RequestOK(tasks', "save", asks[c], [held[c] EXCEPT ![q] = run])
  BY DEF RequestOK
<1> QED
  BY <1>1, <1>2, <1>6, <1>7, <1>8, GoesOn

(* A request that ends without a reply, or with its save. *)
LEMMA EndKeeps ==
  ASSUME IInv, NEW c \in Connections, Rejected(c) \/ ReplyLost(c) \/ Save(c) \/ SaveFails(c)
  PROVE  IInv'
<1>1. CASE Rejected(c) \/ Save(c)
  <2>1. /\ Answer(c) /\ UNCHANGED prism
        /\ UNCHANGED <<disturbed, requests, faults>> /\ runs' \in {runs, held[c]}
    BY <1>1 DEF Rejected, Save
  <2>2. Advances(tasks, vms, tasks', vms') /\ PrismOK(tasks', vms', listed')
    BY <2>1, StillAdvances DEF prism, IInv
  <2>3. RunsOK(tasks', vms', runs')
    BY <2>1 DEF prism, IInv
  <2>4. Counted'
    BY <2>1, NoNewTask DEF Answer, prism
  <2> QED
    BY <2>1, <2>2, <2>3, <2>4, AnswerKeeps DEF IInv, ControlOK
<1>2. CASE ReplyLost(c)
  <2>1. /\ pc[c] = "call" /\ PrismAccepts(c) /\ Answer(c)
        /\ UNCHANGED <<runs, requests>> /\ disturbed' = TRUE
    BY <1>2 DEF ReplyLost
  <2>2. faults' \in 0..FaultBound
    BY <1>2, BoundsAssumption DEF ReplyLost, IInv, ControlOK
  <2>3. Advances(tasks, vms, tasks', vms') /\ PrismOK(tasks', vms', listed') /\ Counted'
    BY <2>1, Room DEF Answer
  <2>4. RunsOK(tasks', vms', runs')
    BY <2>1, <2>3, CopyKept DEF IInv
  <2> QED
    BY <2>1, <2>2, <2>3, <2>4, AnswerKeeps
<1>3. CASE SaveFails(c)
  <2>1. /\ Answer(c) /\ UNCHANGED <<tasks, vms, listed>>
        /\ UNCHANGED <<runs, requests>> /\ disturbed' = TRUE
    BY <1>3 DEF SaveFails, prism
  <2>2. faults' \in 0..FaultBound
    BY <1>3, BoundsAssumption DEF SaveFails, IInv, ControlOK
  <2>3. Advances(tasks, vms, tasks', vms') /\ PrismOK(tasks', vms', listed')
    BY <2>1, StillAdvances DEF IInv
  <2>4. RunsOK(tasks', vms', runs')
    BY <2>1 DEF IInv
  <2>5. Counted'
    BY <2>1, NoNewTask DEF Answer
  <2> QED
    BY <2>1, <2>2, <2>3, <2>4, <2>5, AnswerKeeps
<1> QED
  BY <1>1, <1>2, <1>3

(* A poll whose task was read goes on to the inventory with the copy it has, as the *)
(* VM of a destroy is the one its run names, or to save what the task says.         *)
LEMMA TaskReadCases ==
  ASSUME IInv, NEW c \in Connections, TaskRead(c)
  PROVE  LET r == asks[c].run
             run == held[c][r]
             state == tasks[run.prismTaskUuid].state
         IN  /\ UNCHANGED <<asks, runs, disturbed, requests, faults>>
             /\ UNCHANGED <<tasks, vms, listed>>
             /\ RunsOK(tasks, vms, held[c]) /\ r \in TaskIds
             /\ RunOK(tasks, vms, run, r) /\ run # NoRun
             /\ \/ /\ NeedsReconciliation(run, state)
                   /\ pc' = [pc EXCEPT ![c] = "list"] /\ held' = held
                \/ \E vmUuid \in Nameable(tasks, run) :
                     /\ ~NeedsReconciliation(run, state)
                     /\ Update(c, r, Polled(run, state, vmUuid))
<1> DEFINE r == asks[c].run
           run == held[c][r]
           state == tasks[run.prismTaskUuid].state
<1>1. /\ UNCHANGED <<asks, runs, disturbed, requests, faults>>
      /\ UNCHANGED <<tasks, vms, listed>>
  BY ZenonT(60) DEF TaskRead, prism, Update
<1>2. RunsOK(tasks, vms, held[c]) /\ r \in TaskIds /\ RunOK(tasks, vms, run, r) /\ run # NoRun
  <2>1. RunsOK(tasks, vms, held[c]) /\ RequestOK(tasks, pc[c], asks[c], held[c])
    BY DEF IInv
  <2>2. pc[c] = "call" /\ asks[c].operation \notin Making
    BY DEF TaskRead, Making
  <2> QED
    BY <2>1, <2>2 DEF RequestOK, RunsOK
<1>3. PICK vmUuid \in {run.vmUuid} \cup Named(tasks[run.prismTaskUuid]) :
        \/ /\ NeedsReconciliation(run, state)
           /\ pc' = [pc EXCEPT ![c] = "list"]
           /\ held' = [held EXCEPT ![c] = [@ EXCEPT ![r] = [run EXCEPT !.vmUuid = vmUuid]]]
        \/ /\ ~NeedsReconciliation(run, state)
           /\ Update(c, r, Polled(run, state, vmUuid))
  BY ZenonT(60) DEF TaskRead
<1>4. vmUuid \in Nameable(tasks, run)
  BY DEF Named, Nameable
<1>5. ASSUME NeedsReconciliation(run, state),
             held' = [held EXCEPT ![c] = [@ EXCEPT ![r] = [run EXCEPT !.vmUuid = vmUuid]]]
      PROVE  held' = held
  <2>1. PrismOK(tasks, vms, listed) /\ run.action = "Destroy VM"
    BY <1>5 DEF IInv, NeedsReconciliation
  <2>2. vmUuid = run.vmUuid
    BY <1>2, <1>4, <2>1, NamedOK
  <2>3. run \in Run /\ held[c] \in Runs /\ held \in [Connections -> Runs]
    BY <1>2 DEF RunOK, IInv, ControlOK
  <2>4. [run EXCEPT !.vmUuid = vmUuid] = run
    BY <2>2, <2>3 DEF Run
  <2> HIDE DEF run, r
  <2>5. [held[c] EXCEPT ![r] = run] = held[c]
    BY <2>3 DEF Runs, run
  <2> QED
    BY <1>5, <2>3, <2>4, <2>5
<1> HIDE DEF run, r, state
<1>6. \/ /\ NeedsReconciliation(run, state)
         /\ pc' = [pc EXCEPT ![c] = "list"] /\ held' = held
      \/ \E uuid \in Nameable(tasks, run) :
           /\ ~NeedsReconciliation(run, state)
           /\ Update(c, r, Polled(run, state, uuid))
  BY <1>3, <1>4, <1>5, Zenon
<1> QED
  BY <1>1, <1>2, <1>6 DEF run, r, state

LEMMA TaskReadKeeps ==
  ASSUME IInv, NEW c \in Connections, TaskRead(c)
  PROVE  IInv'
<1> DEFINE r == asks[c].run
           run == held[c][r]
           state == tasks[run.prismTaskUuid].state
<1>1. /\ UNCHANGED <<asks, runs, disturbed, requests, faults>>
      /\ UNCHANGED <<tasks, vms, listed>>
      /\ RunsOK(tasks, vms, held[c]) /\ r \in TaskIds
      /\ RunOK(tasks, vms, run, r) /\ run # NoRun
      /\ \/ /\ NeedsReconciliation(run, state)
            /\ pc' = [pc EXCEPT ![c] = "list"] /\ held' = held
         \/ \E vmUuid \in Nameable(tasks, run) :
              /\ ~NeedsReconciliation(run, state)
              /\ Update(c, r, Polled(run, state, vmUuid))
  BY TaskReadCases, Zenon
<1>2. Advances(tasks, vms, tasks', vms') /\ PrismOK(tasks', vms', listed')
  BY <1>1, StillAdvances, Zenon DEF IInv
<1> HIDE DEF state
<1>3. CASE /\ NeedsReconciliation(run, state)
           /\ pc' = [pc EXCEPT ![c] = "list"] /\ held' = held
  <2>1. RequestOK(tasks', "list", asks[c], held[c])
    BY <1>1, <1>3 DEF RequestOK, NeedsReconciliation, state
  <2> HIDE DEF run, r
  <2>2. held' = [held EXCEPT ![c] = held[c]]
    BY <1>3 DEF IInv, ControlOK
  <2>3. Counted'
    BY <1>1, <1>3, NoNewTask
  <2>4. RunsOK(tasks', vms', held[c])
    BY <1>1
  <2> QED
    BY <1>1, <1>2, <1>3, <2>1, <2>2, <2>3, <2>4, GoesOn
<1>4. CASE \E vmUuid \in Nameable(tasks, run) : Update(c, r, Polled(run, state, vmUuid))
  <2>1. PICK vmUuid \in Nameable(tasks, run) : Update(c, r, Polled(run, state, vmUuid))
    BY <1>4
  <2> DEFINE copy == [held[c] EXCEPT ![r] = Polled(run, state, vmUuid)]
  <2>2. pc' = [pc EXCEPT ![c] = "save"] /\ held' = [held EXCEPT ![c] = copy]
    BY <2>1, Zenon DEF Update, IInv, ControlOK
  <2>3. PrismOK(tasks, vms, listed)
    BY DEF IInv
  <2>4. RunOK(tasks, vms, Polled(run, state, vmUuid), r)
    BY <1>1, <2>1, <2>3, PolledOK, Zenon DEF state
  <2>5. RunsOK(tasks', vms', copy)
    BY <1>1, <2>4, CopyUpdated
  <2> HIDE DEF copy, run, r
  <2>6. RequestOK(tasks', "save", asks[c], copy)
    BY DEF RequestOK
  <2>7. Counted'
    BY <1>1, <2>2, NoNewTask
  <2> QED
    BY <1>1, <1>2, <2>2, <2>5, <2>6, <2>7, GoesOn
<1> QED
  BY <1>1, <1>3, <1>4

LEMMA InventoryReadKeeps ==
  ASSUME IInv, NEW c \in Connections, InventoryRead(c)
  PROVE  IInv'
<1> DEFINE r == asks[c].run
           run == held[c][r]
<1>1. PICK present \in Shown(run.vmUuid) : Update(c, r, Reconciled(run, present))
  BY Zenon DEF InventoryRead
<1> DEFINE copy == [held[c] EXCEPT ![r] = Reconciled(run, present)]
<1>2. /\ pc[c] = "list" /\ UNCHANGED <<asks, runs, disturbed, requests, faults>>
      /\ UNCHANGED <<tasks, vms, listed>>
      /\ pc' = [pc EXCEPT ![c] = "save"] /\ held' = [held EXCEPT ![c] = copy]
  BY <1>1, ZenonT(60) DEF InventoryRead, prism, Update, IInv, ControlOK
<1>3. Advances(tasks, vms, tasks', vms') /\ PrismOK(tasks', vms', listed')
  BY <1>2, StillAdvances DEF IInv
<1>4. /\ RunsOK(tasks, vms, held[c]) /\ RunOK(tasks, vms, run, r)
      /\ run.action = "Destroy VM" /\ tasks[run.prismTaskUuid].state = "SUCCEEDED"
  BY <1>2 DEF IInv, RequestOK, RunsOK
<1>5. present \in BOOLEAN
  BY DEF Shown
<1>6. RunOK(tasks, vms, Reconciled(run, present), r)
  BY <1>4, <1>5, ReconciledOK, Zenon DEF IInv
<1>7. RunsOK(tasks', vms', copy)
  BY <1>2, <1>4, <1>6, CopyUpdated
<1>8. RequestOK(tasks', "save", asks[c], copy)
  BY DEF RequestOK
<1>9. Counted'
  BY <1>2, NoNewTask
<1> HIDE DEF copy
<1> QED
  BY <1>2, <1>3, <1>7, <1>8, <1>9, GoesOn

LEMMA CrashKeeps ==
  ASSUME IInv, Crash
  PROVE  IInv'
<1> DEFINE empty == [r \in TaskIds |-> NoRun]
<1>1. UNCHANGED <<tasks, vms, listed>> /\ UNCHANGED <<runs, requests>>
  BY DEF Crash, prism
<1>2. PrismOK(tasks', vms', listed') /\ RunsOK(tasks', vms', runs')
  BY <1>1 DEF IInv
<1>3. RunsOK(tasks', vms', empty)
  BY NoRunsOK
<1>4. \A c \in Connections : held'[c] = empty /\ pc'[c] = "idle" /\ asks'[c] = NoRequest
  BY DEF Crash
<1>5. ControlOK'
  BY <1>1, <1>3, BoundsAssumption
     DEF Crash, IInv, ControlOK, RunsOK, NoRequest, Requests, Operations
<1>6. Counted'
  <2>1. Calling' = {}
    BY <1>4 DEF Calling
  <2>2. IsFiniteSet(Calling') /\ Cardinality(Calling') = 0
    BY <2>1, FS_EmptySet
  <2>3. PICK n : Numbered(tasks, n) /\ n + Cardinality(Calling) <= requests
    BY DEF IInv, Counted
  <2>4. Cardinality(Calling) \in Nat
    BY FS_CardinalityType DEF IInv, Counted
  <2>5. n + Cardinality(Calling') <= requests'
    BY <1>1, <2>2, <2>3, <2>4 DEF Numbered, IInv, ControlOK
  <2> QED
    BY <1>1, <2>2, <2>3, <2>5 DEF Counted
<1>7. \A c \in Connections : RequestOK(tasks', pc'[c], asks'[c], held'[c])
  BY <1>4 DEF RequestOK
<1> QED
  BY <1>2, <1>3, <1>4, <1>5, <1>6, <1>7 DEF IInv

LEMMA PrismKeeps ==
  ASSUME IInv, (\E t \in DOMAIN tasks : Succeed(t) \/ FailTask(t)) \/ InventoryCatchesUp
  PROVE  IInv'
<1>1. PrismOK(tasks, vms, listed)
  BY DEF IInv
<1>2. ASSUME NEW t \in DOMAIN tasks, Succeed(t)
      PROVE  IInv'
  <2>1. /\ tasks[t].state = "RUNNING" /\ tasks' = [tasks EXCEPT ![t].state = "SUCCEEDED"]
        /\ UNCHANGED <<runs, pc, asks, held, disturbed, requests, faults>>
    BY <1>2 DEF Succeed
  <2>2. TaskOK(tasks, t) /\ tasks[t] \in Task /\ t # SourceVm
    BY <1>1 DEF PrismOK, TaskOK
  <2>3. /\ vms' \subseteq vms \cup {t} /\ listed' = listed \cup vms'
        /\ tasks[t].kind \notin Making => vms' \subseteq vms
        /\ tasks[t].kind = "destroy" => tasks[t].vm \notin vms'
    BY <1>2, <2>2 DEF Succeed, Making, Task
  <2>4. t \notin vms
    BY <1>1, <2>1, <2>2 DEF PrismOK, Existed, Made
  <2>5. /\ t \in vms' => tasks[t].kind \in Making
        /\ vms' \subseteq listed' /\ listed' \subseteq DOMAIN tasks \cup {SourceVm}
    BY <1>1, <2>3, <2>4 DEF PrismOK
  <2>6. /\ DOMAIN tasks' = DOMAIN tasks /\ Advances(tasks, vms, tasks', vms')
        /\ PrismOK(tasks', vms', listed')
    BY <1>1, <2>1, <2>3, <2>5, EndAdvances
  <2> QED
    BY <2>1, <2>6, Unserved
<1>3. ASSUME NEW t \in DOMAIN tasks, FailTask(t)
      PROVE  IInv'
  <2>1. /\ tasks[t].state = "RUNNING" /\ tasks' = [tasks EXCEPT ![t].state = "FAILED"]
        /\ UNCHANGED <<runs, pc, asks, held, disturbed, requests, faults>>
        /\ vms' = vms /\ listed' = listed
    BY <1>3 DEF FailTask
  <2>2. t \notin vms /\ vms' \subseteq listed' /\ listed' \subseteq DOMAIN tasks \cup {SourceVm}
    BY <1>1, <2>1 DEF PrismOK, Existed, Made
  <2>3. /\ DOMAIN tasks' = DOMAIN tasks /\ Advances(tasks, vms, tasks', vms')
        /\ PrismOK(tasks', vms', listed')
    BY <1>1, <2>1, <2>2, EndAdvances
  <2> QED
    BY <2>1, <2>3, Unserved
<1>4. CASE InventoryCatchesUp
  <2>1. /\ UNCHANGED <<runs, pc, asks, held, disturbed, requests, faults>>
        /\ tasks' = tasks /\ vms' = vms /\ listed' = vms
    BY <1>4 DEF InventoryCatchesUp
  <2>2. Advances(tasks, vms, tasks', vms') /\ PrismOK(tasks', vms', listed')
    BY <1>1, <2>1, StillAdvances DEF PrismOK
  <2> QED
    BY <2>1, <2>2, Unserved
<1> QED
  BY <1>2, <1>3, <1>4

LEMMA StutterKeeps ==
  ASSUME IInv, UNCHANGED vars
  PROVE  IInv'
<1>1. /\ UNCHANGED <<runs, pc, asks, held, disturbed, requests, faults>>
      /\ tasks' = tasks /\ vms' = vms /\ listed' = listed
  BY DEF vars
<1>2. Advances(tasks, vms, tasks', vms') /\ PrismOK(tasks', vms', listed')
  BY <1>1, StillAdvances DEF IInv
<1> QED
  BY <1>1, <1>2, Unserved

LEMMA NextKeeps == IInv /\ [Next]_vars => IInv'
<1> SUFFICES ASSUME IInv, [Next]_vars PROVE IInv'
  OBVIOUS
<1>1. ASSUME NEW c \in Connections,
             \/ (\E operation \in Making : Create(c, operation)) \/ Other(c)
             \/ \E r \in TaskIds :
                  Change(c, "power", r) \/ Change(c, "destroy", r) \/ Poll(c, r)
      PROVE  IInv'
  BY <1>1, ArrivalKeeps
<1>2. ASSUME NEW c \in Connections,
             \/ Submitted(c) \/ Rejected(c) \/ ReplyLost(c)
             \/ TaskRead(c) \/ InventoryRead(c) \/ Save(c) \/ SaveFails(c)
      PROVE  IInv'
  BY <1>2, SubmittedKeeps, EndKeeps, TaskReadKeeps, InventoryReadKeeps
<1> QED
  BY <1>1, <1>2, CrashKeeps, PrismKeeps, StutterKeeps DEF Next

LEMMA Invariance == Spec => []IInv
BY InitIInv, NextKeeps, PTL DEF Spec

-----------------------------------------------------------------------------
(* Runs keep their shape, and there is room for every task Prism accepts, with any *)
(* number of requests open.                                                        *)
THEOREM TypeCorrect == Spec => []TypeOK
BY Invariance, InvariantIsTyped, PTL

(* A run that says Destroyed names a VM, its own or the one it was cloned from, that *)
(* a destroy task of this run deleted, and that was reconciled: however requests     *)
(* overlap, whichever copy is saved last, whatever reply or save is lost.            *)
THEOREM DestroyedStaysGone == Spec => []DestroyedIsGone
<1>1. IInv => DestroyedIsGone
  BY InvariantIsSafe
<1> QED
  BY <1>1, Invariance, PTL

(* Every outcome a run records is that of one of its own tasks, of that kind, also *)
(* when the run was loaded before that task ended or an older copy of it is saved. *)
THEOREM OutcomesStayTrue == Spec => []OutcomesAreTrue
<1>1. IInv => OutcomesAreTrue
  BY InvariantIsSafe
<1> QED
  BY <1>1, Invariance, PTL

-----------------------------------------------------------------------------
(* Ends.  A run whose status is Failed or Destroyed is over: something failed, or     *)
(* its VM was made and is gone, or it changed the VM it was cloned from instead.      *)
(* The VM of a Destroyed one existed, and where the whole inventory is read not even  *)
(* a late inventory lists it.                                                        *)
Over(ts, vs, run, r) ==
  \/ run.failureReason
  \/ r \notin vs /\ ts[r].state = "SUCCEEDED"
  \/ run.action # "Create VM" /\ run.vmUuid = SourceVm

EndOK(ts, vs, ls, run, r) ==
  /\ run.status \in {"Failed", "Destroyed"} => Over(ts, vs, run, r)
  /\ run.status = "Destroyed" =>
       Existed(ts, run.vmUuid) /\ (InventoryFits => run.vmUuid \notin ls)

EndsOK(ts, vs, ls, copy) ==
  \A r \in TaskIds : copy[r] # NoRun => EndOK(ts, vs, ls, copy[r], r)

EndInv ==
  /\ EndsOK(tasks, vms, listed, runs)
  /\ \A c \in Connections : EndsOK(tasks, vms, listed, held[c])

(* The inventory starts to list a VM only when its create task succeeds. *)
Lists(ts, ls, ls2) ==
  \A v \in ls2 \ ls : v # SourceVm /\ (v \in DOMAIN ts => ts[v].state = "RUNNING")

LEMMA OverKept ==
  ASSUME NEW ts, NEW vs, NEW ts2, NEW vs2, Advances(ts, vs, ts2, vs2),
         NEW run, NEW r \in DOMAIN ts, Over(ts, vs, run, r)
  PROVE  Over(ts2, vs2, run, r)
BY DEF Over, Advances

LEMMA EndsKept ==
  ASSUME NEW ts, NEW vs, NEW ls, NEW ts2, NEW vs2, NEW ls2,
         Advances(ts, vs, ts2, vs2), Lists(ts, ls, ls2),
         NEW copy, RunsOK(ts, vs, copy), EndsOK(ts, vs, ls, copy)
  PROVE  EndsOK(ts2, vs2, ls2, copy)
<1> SUFFICES ASSUME NEW r \in TaskIds, copy[r] # NoRun
             PROVE  EndOK(ts2, vs2, ls2, copy[r], r)
  BY DEF EndsOK
<1>1. r \in DOMAIN ts /\ EndOK(ts, vs, ls, copy[r], r)
  BY DEF RunsOK, RunOK, TasksOK, EndsOK
<1>2. copy[r].status \in {"Failed", "Destroyed"} => Over(ts2, vs2, copy[r], r)
  BY <1>1, OverKept DEF EndOK
<1>3. ASSUME NEW v, Existed(ts, v)
      PROVE  Existed(ts2, v) /\ (v \notin ls => v \notin ls2)
  BY <1>3 DEF Existed, Made, Advances, Lists
<1> QED
  BY <1>1, <1>2, <1>3 DEF EndOK

LEMMA NoRunsEnd ==
  ASSUME NEW ts, NEW vs, NEW ls PROVE EndsOK(ts, vs, ls, [r \in TaskIds |-> NoRun])
BY DEF EndsOK

(* Where everything there can be fits on the page, the inventory is read whole. *)
LEMMA FitsIsWhole ==
  ASSUME IInv, InventoryFits
  PROVE  WholeInventory
<1>1. SUFFICES ASSUME Provider # "prism-element" PROVE Cardinality(listed) + OtherVms <= PageLength
  BY DEF WholeInventory
<1>2. listed \subseteq 0 .. RequestBound
  <2>1. TypeOK
    BY InvariantIsTyped
  <2>2. DOMAIN tasks \subseteq 1 .. RequestBound
    BY <2>1 DEF TypeOK, TaskIds
  <2>3. listed \subseteq DOMAIN tasks \cup {0}
    BY <2>1 DEF TypeOK, SourceVm
  <2> QED
    BY <2>2, <2>3, BoundsAssumption
<1>3. IsFiniteSet(0 .. RequestBound) /\ Cardinality(0 .. RequestBound) = RequestBound + 1
  BY FS_Interval, BoundsAssumption
<1>4. /\ IsFiniteSet(listed) /\ Cardinality(listed) <= RequestBound + 1
      /\ Cardinality(listed) \in Nat
  BY <1>2, <1>3, FS_Subset, FS_CardinalityType
<1> QED
  BY <1>1, <1>4, BoundsAssumption, ClusterAssumption DEF InventoryFits, PageLength

(* What any step does to Prism. *)
LEMMA PrismGoesOn ==
  ASSUME IInv, [Next]_vars
  PROVE  Advances(tasks, vms, tasks', vms') /\ Lists(tasks, listed, listed')
<1>1. PrismOK(tasks, vms, listed)
  BY DEF IInv
<1>2. CASE UNCHANGED <<tasks, vms, listed>>
  BY <1>2, StillAdvances DEF Lists
<1>3. ASSUME NEW c \in Connections, Submitted(c) \/ ReplyLost(c)
      PROVE  Advances(tasks, vms, tasks', vms') /\ Lists(tasks, listed, listed')
  <2>1. \E at \in {"idle", "save"} : pc' = [pc EXCEPT ![c] = at]
    BY <1>3, Zenon DEF Submitted, ReplyLost, Update, Answer
  <2>2. pc[c] = "call" /\ PrismAccepts(c) /\ requests' = requests
    BY <1>3, Zenon DEF Submitted, ReplyLost
  <2>3. Advances(tasks, vms, tasks', vms')
    BY <2>1, <2>2, Room, Zenon
  <2>4. listed' = listed
    BY <2>2 DEF PrismAccepts
  <2> QED
    BY <2>3, <2>4 DEF Lists
<1>4. ASSUME NEW t \in DOMAIN tasks, Succeed(t)
      PROVE  Advances(tasks, vms, tasks', vms') /\ Lists(tasks, listed, listed')
  <2>1. tasks[t] \in Task /\ t # SourceVm
    BY <1>1 DEF PrismOK, TaskOK
  <2>2. /\ tasks[t].state = "RUNNING"
        /\ DOMAIN tasks' = DOMAIN tasks
        /\ \A u \in DOMAIN tasks \ {t} : tasks'[u] = tasks[u]
        /\ tasks'[t].kind = tasks[t].kind /\ tasks'[t].vm = tasks[t].vm
    BY <1>4, <2>1 DEF Succeed, Task
  <2>3. vms' \subseteq vms \cup {t} /\ listed' = listed \cup vms'
    BY <1>4, <2>1 DEF Succeed, Task, Making
  <2>4. Advances(tasks, vms, tasks', vms')
    BY <2>1, <2>2, <2>3 DEF Advances
  <2>5. Lists(tasks, listed, listed')
    BY <1>1, <2>1, <2>2, <2>3 DEF Lists, PrismOK
  <2> QED
    BY <2>4, <2>5
<1>5. ASSUME NEW t \in DOMAIN tasks, FailTask(t)
      PROVE  Advances(tasks, vms, tasks', vms') /\ Lists(tasks, listed, listed')
  <2>1. tasks[t] \in Task
    BY <1>1 DEF PrismOK, TaskOK
  <2>2. /\ tasks[t].state = "RUNNING" /\ vms' = vms /\ listed' = listed
        /\ DOMAIN tasks' = DOMAIN tasks
        /\ \A u \in DOMAIN tasks \ {t} : tasks'[u] = tasks[u]
        /\ tasks'[t].kind = tasks[t].kind /\ tasks'[t].vm = tasks[t].vm
    BY <1>5, <2>1 DEF FailTask, Task
  <2> QED
    BY <2>2 DEF Advances, Lists
<1>6. CASE InventoryCatchesUp
  <2>1. tasks' = tasks /\ vms' = vms /\ listed' \subseteq listed
    BY <1>1, <1>6 DEF InventoryCatchesUp, PrismOK
  <2> QED
    BY <2>1, StillAdvances DEF Lists
<1> QED
  BY <1>2, <1>3, <1>4, <1>5, <1>6
  DEF Next, vars, prism, Create, Change, Poll, Other, Begin, Rejected, TaskRead, InventoryRead,
      Save, SaveFails, Crash

(* What the adapter makes of a run, as to its end. *)
LEMMA PolledEnds ==
  ASSUME NEW ts, NEW vs, NEW ls, NEW run \in Run, NEW r, NEW vmUuid,
         NEW state \in {"RUNNING", "SUCCEEDED", "FAILED"}
  PROVE  LET new == Polled(run, state, vmUuid) IN
         /\ EndOK(ts, vs, ls, new, r)
         /\ new.status # "Destroyed"
         /\ new.prismTaskUuids = run.prismTaskUuids
         /\ run.failureReason => new.failureReason
         /\ new.action = run.action /\ new.vmUuid = vmUuid
<1> DEFINE read == LifecycleStatusUpdate(run, state)
           new == Polled(run, state, vmUuid)
<1>1. /\ DOMAIN read = DOMAIN run
      /\ read.failureReason = run.failureReason /\ read.action = run.action
      /\ read.prismTaskUuids = run.prismTaskUuids
  BY DEF LifecycleStatusUpdate, Run
<1>2. /\ {"status", "vmUuid", "failureReason", "prismTaskUuids", "action"} \subseteq DOMAIN read
      /\ run.failureReason \in BOOLEAN
  BY <1>1 DEF Run
<1>3. new = [read EXCEPT
               !.status = IF state = "SUCCEEDED" THEN "Succeeded"
                          ELSE IF state = "FAILED" THEN "Failed" ELSE "Polling",
               !.vmUuid = vmUuid,
               !.failureReason = @ \/ state = "FAILED"]
  BY DEF Polled
<1> HIDE DEF read, new
<1>4. /\ new.status = IF state = "SUCCEEDED" THEN "Succeeded"
                      ELSE IF state = "FAILED" THEN "Failed" ELSE "Polling"
      /\ new.failureReason = (read.failureReason \/ state = "FAILED")
      /\ new.prismTaskUuids = read.prismTaskUuids
      /\ new.action = read.action /\ new.vmUuid = vmUuid
  BY <1>2, <1>3
<1> QED
  BY <1>1, <1>2, <1>4 DEF EndOK, Over, new

LEMMA ReconciledFields ==
  ASSUME NEW run \in Run, NEW present
  PROVE  LET new == Reconciled(run, present) IN
         /\ new.status = IF present THEN "Failed" ELSE "Destroyed"
         /\ new.action = run.action /\ new.vmUuid = run.vmUuid
         /\ new.prismTaskUuids = run.prismTaskUuids
         /\ new.failureReason = run.failureReason
<1> DEFINE read == LifecycleStatusUpdate(run, "SUCCEEDED")
<1>1. /\ DOMAIN read = DOMAIN run /\ read.action = run.action /\ read.vmUuid = run.vmUuid
      /\ read.failureReason = run.failureReason
      /\ read.prismTaskUuids = run.prismTaskUuids
  BY DEF LifecycleStatusUpdate, Run
<1>2. {"status", "inventoryReconciliation", "action", "vmUuid", "failureReason",
       "prismTaskUuids"} \subseteq DOMAIN read
  BY <1>1 DEF Run
<1>3. Reconciled(run, present)
        = [read EXCEPT
             !.status = IF present THEN "Failed" ELSE "Destroyed",
             !.inventoryReconciliation = IF present THEN "Still present" ELSE "Reconciled"]
  BY DEF Reconciled
<1> HIDE DEF read
<1> QED
  BY <1>1, <1>2, <1>3

(* A destroy that is reconciled is over, whatever the inventory still lists. *)
LEMMA ReconciledEnds ==
  ASSUME NEW ts, NEW vs, NEW ls, PrismOK(ts, vs, ls),
         NEW run, NEW r, RunOK(ts, vs, run, r),
         run.action = "Destroy VM", ts[run.prismTaskUuid].state = "SUCCEEDED",
         NEW present, InventoryFits => (present <=> run.vmUuid \in ls),
         NEW new, new.action = run.action, new.vmUuid = run.vmUuid,
         new.status = IF present THEN "Failed" ELSE "Destroyed"
  PROVE  EndOK(ts, vs, ls, new, r)
<1> DEFINE t == run.prismTaskUuid
<1>1. /\ t \in DOMAIN ts /\ ts[t].kind = "destroy" /\ ts[t].vm = run.vmUuid
      /\ Owns(ts, r, run.vmUuid)
  BY DEF RunOK, TasksOK, KindOf
<1>2. run.vmUuid \notin vs /\ Existed(ts, run.vmUuid)
  BY <1>1 DEF PrismOK, TaskOK, Making
<1>3. Over(ts, vs, new, r)
  BY <1>1, <1>2 DEF Over, Owns, Existed, Made
<1> QED
  BY <1>2, <1>3 DEF EndOK

(* What a request that Prism answered makes of its copy: one run is replaced by a  *)
(* later version of it.                                                            *)
Rewrites(c, r, run) ==
  /\ held' = [held EXCEPT ![c] = [held[c] EXCEPT ![r] = run]]
  /\ pc' = [pc EXCEPT ![c] = "save"]
  /\ EndOK(tasks', vms', listed', run, r)
  /\ held[c][r] = NoRun => asks[c].operation \in Making
  /\ held[c][r] # NoRun =>
       /\ held[c][r].prismTaskUuids \subseteq run.prismTaskUuids
       /\ held[c][r].failureReason => run.failureReason
       /\ held[c][r].action # "Create VM" =>
            run.action # "Create VM" /\ run.vmUuid = held[c][r].vmUuid
       /\ InventoryFits /\ held[c][r].status = "Destroyed" => run.status = "Destroyed"
  /\ DOMAIN tasks' = DOMAIN tasks \cup run.prismTaskUuids

LEMMA NewTaskIsNew ==
  ASSUME IInv
  PROVE  NewTask \notin DOMAIN tasks
<1>1. PICK n \in Nat : DOMAIN tasks = 1 .. n
  BY DEF IInv, Counted, Numbered
<1>2. Cardinality(1 .. n) = IF 1 > n THEN 0 ELSE n - 1 + 1
  BY FS_Interval
<1>3. NewTask = n + 1
  BY <1>1, <1>2 DEF NewTask
<1> QED
  BY <1>1, <1>3

LEMMA SubmittedRewrites ==
  ASSUME IInv, EndInv, NEW c \in Connections, Submitted(c)
  PROVE  \E r \in TaskIds, run \in Run : Rewrites(c, r, run)
<1>1. /\ pc[c] = "call" /\ PrismAccepts(c)
      /\ pc' = [pc EXCEPT ![c] = "save"] /\ requests' = requests
  BY Zenon DEF Submitted, Update
<1>2. /\ NewTask \in TaskIds /\ NewTask \in DOMAIN tasks'
      /\ Advances(tasks, vms, tasks', vms') /\ PrismOK(tasks', vms', listed')
      /\ tasks'[NewTask] = TaskFor(c)
      /\ asks[c].operation \notin Making => held[c][asks[c].run].vmUuid \in VmIds
  BY <1>1, Room, Zenon
<1>3. DOMAIN tasks' = DOMAIN tasks \cup {NewTask}
  BY <1>1 DEF PrismAccepts
<1>4. RunsOK(tasks, vms, held[c]) /\ RunsOK(tasks', vms', held[c])
  BY <1>2, CopyKept DEF IInv
<1>5. CASE asks[c].operation \in Making
  <2>1. PICK vmUuid \in {Pending} \cup Involved(TaskFor(c)) :
          Update(c, NewTask, Created(NewTask, vmUuid))
    BY <1>5, Zenon DEF Submitted, Making
  <2> DEFINE run == Created(NewTask, vmUuid)
  <2>2. held' = [held EXCEPT ![c] = [held[c] EXCEPT ![NewTask] = run]]
    BY <2>1, Zenon DEF Update, IInv, ControlOK
  <2>3. TaskOK(tasks', NewTask) /\ tasks'[NewTask].kind \in Making
    BY <1>2, <1>5 DEF PrismOK, TaskFor
  <2>4. run \in Run
    BY <1>2, <2>1, <2>3, CreatedOK DEF RunOK
  <2>5. held[c][NewTask] = NoRun
    BY <1>2, <1>4, NewTaskIsNew DEF RunsOK, RunOK, TasksOK
  <2>6. run.status = "Submitted" /\ run.prismTaskUuids = {NewTask}
    BY DEF Created
  <2> HIDE DEF run
  <2>7. EndOK(tasks', vms', listed', run, NewTask)
    BY <2>6 DEF EndOK
  <2> QED
    BY <1>1, <1>2, <1>3, <1>5, <2>2, <2>4, <2>5, <2>6, <2>7 DEF Rewrites
<1>6. CASE asks[c].operation \in {"power", "destroy"}
  <2> DEFINE r == asks[c].run
             old == held[c][r]
             run == IF asks[c].operation = "power" THEN Powered(old, NewTask)
                                                   ELSE Destroying(old, NewTask)
  <2>1. /\ r \in TaskIds /\ old # NoRun
        /\ RunOK(tasks, vms, old, r) /\ RunOK(tasks', vms', old, r)
    BY <1>1, <1>4, <1>6 DEF IInv, RequestOK, RunsOK, Making
  <2>2. held' = [held EXCEPT ![c] = [held[c] EXCEPT ![r] = run]]
    BY <1>6, ZenonT(60) DEF Submitted, Update, IInv, ControlOK, Making
  <2>3. run \in Run
    <3>1. /\ tasks'[NewTask].kind = asks[c].operation /\ tasks'[NewTask].vm = old.vmUuid
          /\ old.vmUuid # Pending
      BY <1>2, <1>6, NewTaskOfRun
    <3>2. asks[c].operation = "power" => Powered(old, NewTask) \in Run
      BY <1>2, <2>1, <3>1, PoweredOK, Zenon DEF RunOK
    <3>3. asks[c].operation = "destroy" => Destroying(old, NewTask) \in Run
      BY <1>2, <2>1, <3>1, DestroyingOK, Zenon DEF RunOK
    <3> QED
      BY <1>6, <3>2, <3>3
  <2>4. old.status # "Destroyed"
    <3>1. asks[c].operation \notin Making
      BY <1>6 DEF Making
    <3>2. old.vmUuid \in vms
      BY <1>1, <3>1 DEF PrismAccepts, TaskFor
    <3> QED
      BY <2>1, <3>2 DEF RunOK, Gone
  <2>5. /\ run.status = "Submitted" /\ run.failureReason = old.failureReason
        /\ run.prismTaskUuids = old.prismTaskUuids \cup {NewTask}
        /\ run.action # "Create VM" /\ run.vmUuid = old.vmUuid
    <3>1. old \in Run
      BY <2>1 DEF RunOK
    <3> HIDE DEF old
    <3> QED
      BY <3>1 DEF Run, Powered, Destroying
  <2>6. DOMAIN tasks' = DOMAIN tasks \cup run.prismTaskUuids
    BY <1>3, <2>1, <2>5, ZenonT(60) DEF RunOK, TasksOK
  <2> HIDE DEF run, old, r
  <2>7. EndOK(tasks', vms', listed', run, r)
    BY <2>5 DEF EndOK
  <2> QED
    BY <1>1, <2>1, <2>2, <2>3, <2>4, <2>5, <2>6, <2>7 DEF Rewrites, old
<1> QED
  BY <1>1, <1>5, <1>6 DEF PrismAccepts

LEMMA TaskReadRewrites ==
  ASSUME IInv, EndInv, NEW c \in Connections, TaskRead(c)
  PROVE  \/ held' = held /\ pc' = [pc EXCEPT ![c] = "list"]
         \/ \E r \in TaskIds, run \in Run : Rewrites(c, r, run)
<1> DEFINE r == asks[c].run
           old == held[c][r]
           state == tasks[old.prismTaskUuid].state
<1>1. /\ UNCHANGED <<tasks, vms, listed>>
      /\ r \in TaskIds /\ old # NoRun /\ RunOK(tasks, vms, old, r)
      /\ \/ held' = held /\ pc' = [pc EXCEPT ![c] = "list"]
         \/ \E vmUuid \in Nameable(tasks, old) :
              /\ ~NeedsReconciliation(old, state)
              /\ Update(c, r, Polled(old, state, vmUuid))
  BY TaskReadCases, Zenon
<1>2. PrismOK(tasks, vms, listed)
  BY DEF IInv
<1>3. state \in {"RUNNING", "SUCCEEDED", "FAILED"}
  BY <1>1, <1>2, ZenonT(60) DEF RunOK, TasksOK, PrismOK, TaskOK, Task
<1>4. ASSUME NEW vmUuid \in Nameable(tasks, old), ~NeedsReconciliation(old, state),
             Update(c, r, Polled(old, state, vmUuid))
      PROVE  \E q \in TaskIds, new \in Run : Rewrites(c, q, new)
  <2> DEFINE run == Polled(old, state, vmUuid)
  <2>1. run \in Run
    BY <1>1, <1>2, PolledOK, Zenon DEF RunOK
  <2>2. old \in Run
    BY <1>1 DEF RunOK
  <2>3. /\ EndOK(tasks, vms, listed, run, r)
        /\ run.prismTaskUuids = old.prismTaskUuids
        /\ old.failureReason => run.failureReason
        /\ run.action = old.action /\ run.vmUuid = vmUuid
    <3> HIDE DEF old, state, r
    <3> QED
      BY <1>3, <2>2, PolledEnds
  <2>4. old.action # "Create VM" => vmUuid = old.vmUuid
    BY <1>1, <1>2, NamedOK, Zenon
  <2>5. old.status # "Destroyed"
    <3>1. SUFFICES ASSUME old.status = "Destroyed" PROVE FALSE
      OBVIOUS
    <3>2. old.action = "Destroy VM" /\ old.destroyStatus = "Succeeded"
      BY <1>1, <3>1 DEF RunOK, Gone
    <3>3. OutcomeOf(state) = "Succeeded"
      BY <1>1, <3>2 DEF RunOK, OutcomesOK
    <3>4. state = "SUCCEEDED"
      BY <1>3, <3>3 DEF OutcomeOf
    <3> QED
      BY <1>4, <3>2, <3>4 DEF NeedsReconciliation
  <2>6. /\ held' = [held EXCEPT ![c] = [held[c] EXCEPT ![r] = run]]
        /\ pc' = [pc EXCEPT ![c] = "save"]
    BY <1>4, Zenon DEF Update, IInv, ControlOK
  <2>7. DOMAIN tasks' = DOMAIN tasks \cup run.prismTaskUuids
    BY <1>1, <2>3, ZenonT(60) DEF RunOK, TasksOK
  <2> HIDE DEF run, old, r
  <2>8. Rewrites(c, r, run)
    BY <1>1, <2>1, <2>3, <2>4, <2>5, <2>6, <2>7 DEF Rewrites, old
  <2> QED
    BY <1>1, <2>1, <2>8
<1> HIDE DEF r, old, state
<1> QED
  BY <1>1, <1>4, Zenon

LEMMA InventoryReadRewrites ==
  ASSUME IInv, EndInv, NEW c \in Connections, InventoryRead(c)
  PROVE  \E r \in TaskIds, run \in Run : Rewrites(c, r, run)
<1> DEFINE r == asks[c].run
           old == held[c][r]
<1>1. PICK present \in Shown(old.vmUuid) : Update(c, r, Reconciled(old, present))
  BY Zenon DEF InventoryRead
<1> DEFINE run == Reconciled(old, present)
<1>2. /\ r \in TaskIds /\ old # NoRun /\ RunOK(tasks, vms, old, r)
      /\ EndOK(tasks, vms, listed, old, r)
      /\ PrismOK(tasks, vms, listed)
      /\ old.action = "Destroy VM" /\ tasks[old.prismTaskUuid].state = "SUCCEEDED"
  BY DEF InventoryRead, IInv, RequestOK, RunsOK, EndInv, EndsOK
<1>3. UNCHANGED <<tasks, vms, listed>>
  BY DEF InventoryRead, prism
<1>4. present \in BOOLEAN /\ (InventoryFits => (present <=> old.vmUuid \in listed))
  BY FitsIsWhole DEF Shown
<1>5. run \in Run
  BY <1>2, <1>4, ReconciledOK, Zenon DEF RunOK
<1>6. /\ run.status = IF present THEN "Failed" ELSE "Destroyed"
      /\ run.action = old.action /\ run.vmUuid = old.vmUuid
      /\ run.prismTaskUuids = old.prismTaskUuids
      /\ run.failureReason = old.failureReason
  <2>1. old \in Run
    BY <1>2 DEF RunOK
  <2> QED
    BY <2>1, ReconciledFields
<1>7. EndOK(tasks, vms, listed, run, r)
  <2> HIDE DEF run, old, r
  <2> QED
    BY <1>2, <1>4, <1>6, ReconciledEnds
<1>8. /\ held' = [held EXCEPT ![c] = [held[c] EXCEPT ![r] = run]]
      /\ pc' = [pc EXCEPT ![c] = "save"]
  BY <1>1, Zenon DEF Update, IInv, ControlOK
<1>9. DOMAIN tasks' = DOMAIN tasks \cup run.prismTaskUuids
  BY <1>2, <1>3, <1>6 DEF RunOK, TasksOK
<1>10. InventoryFits /\ old.status = "Destroyed" => run.status = "Destroyed"
  BY <1>2, <1>4, <1>6 DEF EndOK
<1> HIDE DEF run, old, r
<1>11. Rewrites(c, r, run)
  BY <1>2, <1>3, <1>5, <1>6, <1>7, <1>8, <1>9, <1>10 DEF Rewrites, old
<1> QED
  BY <1>2, <1>5, <1>11

(* Every step keeps the ends in order. *)
LEMMA EndStays ==
  ASSUME IInv, EndInv, [Next]_vars
  PROVE  EndInv'
<1>1. Advances(tasks, vms, tasks', vms') /\ Lists(tasks, listed, listed')
  BY PrismGoesOn
<1>2. EndsOK(tasks', vms', listed', runs)
  BY <1>1, EndsKept DEF IInv, EndInv
<1>3. ASSUME NEW c \in Connections
      PROVE  EndsOK(tasks', vms', listed', held[c])
  BY <1>1, EndsKept DEF IInv, EndInv
<1>4. EndsOK(tasks', vms', listed', [r \in TaskIds |-> NoRun])
  BY NoRunsEnd
<1>5. runs' = runs \/ \E c \in Connections : runs' = held[c]
  BY DEF Next, vars, Create, Change, Poll, Other, Begin, Submitted, Rejected, ReplyLost,
         TaskRead, InventoryRead, Save, SaveFails, Crash, Succeed, FailTask, InventoryCatchesUp
<1>6. EndsOK(tasks', vms', listed', runs')
  BY <1>2, <1>3, <1>5
<1>7. held \in [Connections -> Runs]
  BY DEF IInv, ControlOK
<1>8. ASSUME NEW c \in Connections,
             \E copy : held' = [held EXCEPT ![c] = copy] /\ EndsOK(tasks', vms', listed', copy)
      PROVE  EndInv'
  BY <1>1, <1>3, <1>6, <1>7, <1>8 DEF EndInv
<1>9. CASE held' = held
  BY <1>1, <1>3, <1>6, <1>9 DEF EndInv
<1>10. ASSUME NEW c \in Connections, NEW r \in TaskIds, NEW run \in Run, Rewrites(c, r, run)
       PROVE  EndInv'
  <2> DEFINE copy == [held[c] EXCEPT ![r] = run]
  <2>1. \A q \in TaskIds : copy[q] = IF q = r THEN run ELSE held[c][q]
    BY <1>7 DEF Runs
  <2>2. held' = [held EXCEPT ![c] = copy] /\ EndOK(tasks', vms', listed', run, r)
    BY <1>10 DEF Rewrites
  <2> HIDE DEF copy
  <2>3. EndsOK(tasks', vms', listed', copy)
    BY <1>3, <2>1, <2>2 DEF EndsOK
  <2> QED
    BY <1>8, <2>2, <2>3
<1>11. ASSUME NEW c \in Connections, NEW request, NEW next, Begin(c, request, next)
       PROVE  EndInv'
  BY <1>2, <1>8, <1>11 DEF Begin
<1>12. ASSUME NEW c \in Connections,
              \/ (\E operation \in Making : Create(c, operation)) \/ Other(c)
              \/ \E r \in TaskIds : Change(c, "power", r) \/ Change(c, "destroy", r) \/ Poll(c, r)
       PROVE  EndInv'
  BY <1>11, <1>12 DEF Create, Other, Change, Poll
<1>13. ASSUME NEW c \in Connections, Rejected(c) \/ ReplyLost(c) \/ Save(c) \/ SaveFails(c)
       PROVE  EndInv'
  BY <1>4, <1>8, <1>13 DEF Rejected, ReplyLost, Save, SaveFails, Answer
<1>14. ASSUME NEW c \in Connections, Submitted(c) \/ TaskRead(c) \/ InventoryRead(c)
       PROVE  EndInv'
  BY <1>9, <1>10, <1>14, SubmittedRewrites, TaskReadRewrites, InventoryReadRewrites
<1>15. CASE Crash
  <2>1. \A c \in Connections : held'[c] = [r \in TaskIds |-> NoRun]
    BY <1>15 DEF Crash
  <2> QED
    BY <1>1, <1>4, <1>6, <2>1 DEF EndInv
<1> QED
  BY <1>9, <1>12, <1>13, <1>14, <1>15 DEF Next, vars, Succeed, FailTask, InventoryCatchesUp

LEMMA EndInvariance == Spec => []EndInv
<1>1. Init => EndInv
  BY DEF Init, EndInv, EndsOK
<1> QED
  BY <1>1, EndStays, Invariance, PTL DEF Spec

(* ahv-lab-lifecycle.md:108: where reconcileVmAbsence sees the whole inventory, the VM *)
(* of a run that says Destroyed is not listed then, and never after, however long     *)
(* Prism takes to drop deleted VMs and whatever overlaps or fails.                    *)
THEOREM DestroyedStaysUnlisted == Spec => []DestroyedIsUnlistedIfItFits
<1>1. EndInv => DestroyedIsUnlistedIfItFits
  BY DEF EndInv, EndsOK, EndOK, DestroyedIsUnlistedIfItFits, DestroyedIsUnlisted, Destroyed
<1> QED
  BY <1>1, EndInvariance, PTL

-----------------------------------------------------------------------------
(* Undisturbed: one request at a time, each to its end.                            *)

(* The tasks a copy of the runs records; the runs of which only one is not over;   *)
(* what a copy may never undo.                                                     *)
TasksOf(copy) == UNION {copy[r].prismTaskUuids : r \in {q \in TaskIds : copy[q] # NoRun}}

AllOver(ts, vs, copy) == \A r \in TaskIds : copy[r] # NoRun => Over(ts, vs, copy[r], r)

OneOpen(ts, vs, copy) ==
  \A r, q \in TaskIds :
    (r # q /\ copy[r] # NoRun /\ copy[q] # NoRun) =>
      Over(ts, vs, copy[r], r) \/ Over(ts, vs, copy[q], q)

KeepsDestroyed(old, new) == InventoryFits =>
  \A r \in TaskIds : (old[r] # NoRun /\ old[r].status = "Destroyed") =>
    new[r] # NoRun /\ new[r].status = "Destroyed"

(* A copy worth saving over stored: it has every task, and loses nothing. *)
CopyOK(ts, vs, stored, copy) ==
  /\ TasksOf(copy) = DOMAIN ts
  /\ OneOpen(ts, vs, copy)
  /\ KeepsDestroyed(stored, copy)

(* What the only request has: until Prism answered it, the stored runs; then a copy *)
(* worth saving.  A create was admitted with every run over.                       *)
AloneOK(ts, vs, stored, at, request, copy) ==
  /\ at # "save" => CopyOK(ts, vs, stored, stored)
  /\ at \in {"call", "list"} =>
       copy = stored /\ (request.operation \in Making => AllOver(ts, vs, stored))
  /\ at = "save" => CopyOK(ts, vs, stored, copy)

AloneInv == ~disturbed =>
  /\ \A c, d \in Connections : pc[c] # "idle" /\ pc[d] # "idle" => c = d
  /\ Quiet => CopyOK(tasks, vms, runs, runs)
  /\ \A c \in Connections :
       pc[c] # "idle" => AloneOK(tasks, vms, runs, pc[c], asks[c], held[c])

LEMMA InitAlone == Init => AloneInv
<1> SUFFICES ASSUME Init PROVE AloneInv
  OBVIOUS
<1>1. TasksOf(runs) = {} /\ DOMAIN tasks = {}
  BY DEF Init, TasksOf
<1>2. CopyOK(tasks, vms, runs, runs)
  BY <1>1 DEF Init, CopyOK, OneOpen, KeepsDestroyed
<1> QED
  BY <1>2 DEF Init, AloneInv

(* Prism's own steps leave a copy worth saving so. *)
LEMMA CopyOKKept ==
  ASSUME NEW ts, NEW vs, NEW ts2, NEW vs2, Advances(ts, vs, ts2, vs2), DOMAIN ts2 = DOMAIN ts,
         NEW stored, NEW copy, RunsOK(ts, vs, copy), CopyOK(ts, vs, stored, copy)
  PROVE  CopyOK(ts2, vs2, stored, copy)
<1>1. \A r \in TaskIds : copy[r] # NoRun => r \in DOMAIN ts
  BY DEF RunsOK, RunOK, TasksOK
<1>2. OneOpen(ts2, vs2, copy)
  BY <1>1, OverKept DEF CopyOK, OneOpen
<1> QED
  BY <1>2 DEF CopyOK

LEMMA AllOverKept ==
  ASSUME NEW ts, NEW vs, NEW ts2, NEW vs2, Advances(ts, vs, ts2, vs2),
         NEW copy, RunsOK(ts, vs, copy), AllOver(ts, vs, copy)
  PROVE  AllOver(ts2, vs2, copy)
BY OverKept DEF RunsOK, RunOK, TasksOK, AllOver

LEMMA AloneKept ==
  ASSUME IInv, AloneInv, Advances(tasks, vms, tasks', vms'), DOMAIN tasks' = DOMAIN tasks,
         UNCHANGED <<runs, pc, asks, held, disturbed>>
  PROVE  AloneInv'
<1> SUFFICES ASSUME ~disturbed PROVE AloneInv'
  BY DEF AloneInv
<1>1. ASSUME NEW copy, RunsOK(tasks, vms, copy), CopyOK(tasks, vms, runs, copy)
      PROVE  CopyOK(tasks', vms', runs', copy)
  BY <1>1, CopyOKKept
<1>2. RunsOK(tasks, vms, runs)
  BY DEF IInv
<1>3. Quiet' => CopyOK(tasks', vms', runs', runs')
  BY <1>1, <1>2 DEF AloneInv, Quiet
<1>4. ASSUME NEW c \in Connections, pc[c] # "idle"
      PROVE  AloneOK(tasks', vms', runs', pc'[c], asks'[c], held'[c])
  <2>1. AloneOK(tasks, vms, runs, pc[c], asks[c], held[c]) /\ RunsOK(tasks, vms, held[c])
    BY <1>4 DEF AloneInv, IInv
  <2>2. AllOver(tasks, vms, runs) => AllOver(tasks', vms', runs)
    BY <1>2, AllOverKept
  <2> QED
    BY <1>1, <1>2, <2>1, <2>2 DEF AloneOK
<1>5. \A c, d \in Connections : pc'[c] # "idle" /\ pc'[d] # "idle" => c = d
  BY DEF AloneInv
<1> QED
  BY <1>3, <1>4, <1>5 DEF AloneInv

(* A step of the only request. *)
LEMMA AloneServed ==
  ASSUME IInv, NEW c \in Connections, \A d \in Connections \ {c} : pc[d] = "idle",
         NEW at, pc' = [pc EXCEPT ![c] = at],
         at = "idle" => CopyOK(tasks', vms', runs', runs'),
         at # "idle" => AloneOK(tasks', vms', runs', at, asks'[c], held'[c])
  PROVE  AloneInv'
<1>1. pc'[c] = at /\ \A d \in Connections \ {c} : pc'[d] = "idle"
  BY DEF IInv, ControlOK
<1> QED
  BY <1>1 DEF AloneInv, Quiet

(* A request is let in alone: it starts from the stored runs. *)
LEMMA AloneBegins ==
  ASSUME IInv, EndInv, AloneInv, NEW c \in Connections, NEW request, NEW next \in {"call", "save"},
         Begin(c, request, next), request.operation \in Making => EnsureNoActiveRun(runs)
  PROVE  AloneInv'
<1> SUFFICES ASSUME ~disturbed' PROVE AloneInv'
  BY DEF AloneInv
<1>1. ~disturbed /\ Quiet
  BY DEF Begin, Quiet
<1>2. CopyOK(tasks, vms, runs, runs)
  BY <1>1 DEF AloneInv
<1>3. request.operation \in Making => AllOver(tasks, vms, runs)
  <2>1. ASSUME EnsureNoActiveRun(runs) PROVE AllOver(tasks, vms, runs)
    <3>1. SUFFICES ASSUME NEW r \in TaskIds, runs[r] # NoRun
                   PROVE  Over(tasks, vms, runs[r], r)
      BY DEF AllOver
    <3>2. runs[r].status \in {"Failed", "Destroyed"}
      BY <2>1, <3>1 DEF EnsureNoActiveRun, Active
    <3> QED
      BY <3>1, <3>2 DEF EndInv, EndsOK, EndOK
  <2> QED
    BY <2>1
<1>4. /\ pc' = [pc EXCEPT ![c] = next] /\ UNCHANGED <<tasks, vms, runs>>
      /\ asks'[c] = request /\ held'[c] = runs
  BY DEF Begin, IInv, ControlOK
<1>5. AloneOK(tasks', vms', runs', next, asks'[c], held'[c])
  BY <1>2, <1>3, <1>4 DEF AloneOK
<1> QED
  BY <1>1, <1>4, <1>5, AloneServed DEF Quiet

(* A new version of one run makes a copy worth saving of the stored runs. *)
LEMMA AloneRewrites ==
  ASSUME IInv, AloneInv, NEW c \in Connections, pc[c] \in {"call", "list"},
         NEW r \in TaskIds, NEW run \in Run, Rewrites(c, r, run),
         Advances(tasks, vms, tasks', vms'), UNCHANGED <<runs, disturbed>>
  PROVE  AloneInv'
<1> SUFFICES ASSUME ~disturbed PROVE AloneInv'
  BY DEF AloneInv
<1> DEFINE copy == [runs EXCEPT ![r] = run]
<1>1. /\ \A d \in Connections \ {c} : pc[d] = "idle"
      /\ AloneOK(tasks, vms, runs, pc[c], asks[c], held[c])
  BY DEF AloneInv
<1>2. /\ held[c] = runs /\ CopyOK(tasks, vms, runs, runs)
      /\ asks[c].operation \in Making => AllOver(tasks, vms, runs)
  BY <1>1 DEF AloneOK
<1>3. runs \in Runs /\ RunsOK(tasks, vms, runs) /\ held \in [Connections -> Runs]
  BY DEF IInv, RunsOK, ControlOK
<1>4. held'[c] = copy /\ pc' = [pc EXCEPT ![c] = "save"]
  BY <1>2, <1>3 DEF Rewrites
<1>5. \A q \in TaskIds : copy[q] = IF q = r THEN run ELSE runs[q]
  BY <1>3 DEF Runs
<1>6. run # NoRun
  BY NoRunAssumption
<1> HIDE DEF copy
<1>7. TasksOf(copy) = TasksOf(runs) \cup run.prismTaskUuids
  <2>1. runs[r] # NoRun => runs[r].prismTaskUuids \subseteq run.prismTaskUuids
    BY <1>2 DEF Rewrites
  <2> QED
    BY <1>5, <1>6, <2>1 DEF TasksOf
<1>8. TasksOf(copy) = DOMAIN tasks'
  BY <1>2, <1>7 DEF CopyOK, Rewrites
<1>9. KeepsDestroyed(runs, copy)
  BY <1>2, <1>5, <1>6 DEF KeepsDestroyed, Rewrites
<1>10. ASSUME NEW q \in TaskIds, runs[q] # NoRun, Over(tasks, vms, runs[q], q)
       PROVE  Over(tasks', vms', runs[q], q)
  BY <1>3, <1>10, OverKept DEF RunsOK, RunOK, TasksOK
<1>11. OneOpen(tasks', vms', copy)
  <2>1. CASE runs[r] = NoRun
    <3>1. AllOver(tasks, vms, runs)
      BY <1>2, <2>1 DEF Rewrites
    <3> QED
      BY <1>5, <1>10, <3>1 DEF AllOver, OneOpen
  <2>2. CASE runs[r] # NoRun
    <3>1. ASSUME Over(tasks', vms', runs[r], r) PROVE Over(tasks', vms', run, r)
      BY <1>2, <2>2, <3>1 DEF Over, Rewrites
    <3>2. OneOpen(tasks, vms, runs)
      BY <1>2 DEF CopyOK
    <3> QED
      BY <1>5, <1>10, <2>2, <3>1, <3>2 DEF OneOpen
  <2> QED
    BY <2>1, <2>2
<1>12. AloneOK(tasks', vms', runs', "save", asks'[c], held'[c])
  BY <1>4, <1>8, <1>9, <1>11 DEF AloneOK, CopyOK
<1> QED
  BY <1>1, <1>4, <1>12, AloneServed

LEMMA AloneStays ==
  ASSUME IInv, EndInv, AloneInv, [Next]_vars
  PROVE  AloneInv'
<1>0. Advances(tasks, vms, tasks', vms')
  BY PrismGoesOn
<1>1. CASE UNCHANGED vars
  BY <1>0, <1>1, AloneKept DEF vars
<1>2. ASSUME NEW c \in Connections,
             \/ (\E operation \in Making : Create(c, operation)) \/ Other(c)
             \/ \E r \in TaskIds : Change(c, "power", r) \/ Change(c, "destroy", r) \/ Poll(c, r)
      PROVE  AloneInv'
  <2>1. ASSUME NEW operation \in Making, Create(c, operation)
        PROVE  AloneInv'
    BY <2>1, AloneBegins DEF Create
  <2>2. CASE Other(c)
    BY <2>2, AloneBegins DEF Other, NoRequest, Making
  <2>3. ASSUME NEW r \in TaskIds, NEW operation \in {"power", "destroy"}, Change(c, operation, r)
        PROVE  AloneInv'
    BY <2>3, AloneBegins DEF Change, Making
  <2>4. ASSUME NEW r \in TaskIds, Poll(c, r)
        PROVE  AloneInv'
    BY <2>4, AloneBegins DEF Poll, Making
  <2> QED
    BY <1>2, <2>1, <2>2, <2>3, <2>4
<1>3. ASSUME NEW c \in Connections, Submitted(c)
      PROVE  AloneInv'
  <2>1. pc[c] = "call" /\ UNCHANGED <<runs, disturbed>>
    BY <1>3 DEF Submitted
  <2> QED
    BY <1>0, <1>3, <2>1, SubmittedRewrites, AloneRewrites
<1>4. ASSUME NEW c \in Connections, InventoryRead(c)
      PROVE  AloneInv'
  <2>1. pc[c] = "list" /\ UNCHANGED <<runs, disturbed>>
    BY <1>4 DEF InventoryRead
  <2> QED
    BY <1>0, <1>4, <2>1, InventoryReadRewrites, AloneRewrites
<1>5. ASSUME NEW c \in Connections, TaskRead(c)
      PROVE  AloneInv'
  <2>1. pc[c] = "call" /\ UNCHANGED <<runs, disturbed, tasks, vms>> /\ asks' = asks
    BY <1>5 DEF TaskRead, prism, Update
  <2>2. CASE held' = held /\ pc' = [pc EXCEPT ![c] = "list"]
    <3>1. SUFFICES ASSUME ~disturbed PROVE AloneInv'
      BY <2>1 DEF AloneInv
    <3>2. /\ \A d \in Connections \ {c} : pc[d] = "idle"
          /\ AloneOK(tasks, vms, runs, pc[c], asks[c], held[c])
      BY <2>1, <3>1 DEF AloneInv
    <3>3. AloneOK(tasks', vms', runs', "list", asks'[c], held'[c])
      BY <2>1, <2>2, <3>2 DEF AloneOK
    <3> QED
      BY <2>2, <3>2, <3>3, AloneServed
  <2>3. CASE \E r \in TaskIds, run \in Run : Rewrites(c, r, run)
    BY <1>0, <2>1, <2>3, AloneRewrites
  <2> QED
    BY <1>5, <2>2, <2>3, TaskReadRewrites
<1>6. ASSUME NEW c \in Connections, Rejected(c) \/ Save(c)
      PROVE  AloneInv'
  <2>1. /\ pc' = [pc EXCEPT ![c] = "idle"] /\ UNCHANGED <<tasks, vms, disturbed>>
        /\ pc[c] # "idle"
        /\ pc[c] = "save" => runs' = held[c]
        /\ pc[c] # "save" => runs' = runs
    BY <1>6 DEF Rejected, Save, Answer, prism
  <2>2. SUFFICES ASSUME ~disturbed PROVE AloneInv'
    BY <2>1 DEF AloneInv
  <2>3. /\ \A d \in Connections \ {c} : pc[d] = "idle"
        /\ AloneOK(tasks, vms, runs, pc[c], asks[c], held[c])
    BY <2>1, <2>2 DEF AloneInv
  <2>4. CopyOK(tasks', vms', runs', runs')
    BY <2>1, <2>3 DEF AloneOK, CopyOK, KeepsDestroyed
  <2> QED
    BY <2>1, <2>3, <2>4, AloneServed
<1>7. ASSUME NEW c \in Connections, ReplyLost(c) \/ SaveFails(c)
      PROVE  AloneInv'
  BY <1>7 DEF ReplyLost, SaveFails, AloneInv
<1>8. CASE Crash
  <2>1. SUFFICES ASSUME ~disturbed' PROVE AloneInv'
    BY DEF AloneInv
  <2>2. ~disturbed /\ Quiet
    BY <1>8, <2>1 DEF Crash, Quiet
  <2>3. CopyOK(tasks', vms', runs', runs')
    BY <1>8, <2>2 DEF Crash, prism, AloneInv
  <2>4. \A c \in Connections : pc'[c] = "idle"
    BY <1>8 DEF Crash
  <2> QED
    BY <2>3, <2>4 DEF AloneInv
<1>9. ASSUME NEW t \in DOMAIN tasks, Succeed(t) \/ FailTask(t)
      PROVE  AloneInv'
  <2>1. DOMAIN tasks' = DOMAIN tasks /\ UNCHANGED <<runs, pc, asks, held, disturbed>>
    BY <1>9 DEF Succeed, FailTask
  <2> QED
    BY <1>0, <2>1, AloneKept
<1>10. CASE InventoryCatchesUp
  BY <1>0, <1>10, AloneKept DEF InventoryCatchesUp
<1> QED
  BY <1>1, <1>2, <1>3, <1>4, <1>5, <1>6, <1>7, <1>8, <1>9, <1>10 DEF Next

LEMMA AloneInvariance == Spec => []AloneInv
BY InitAlone, AloneStays, Invariance, EndInvariance, PTL DEF Spec

(* As long as requests neither overlap nor are cut short, every task of Prism is in *)
(* a run once the requests are done: nothing the adapter started is forgotten.      *)
THEOREM UndisturbedTasksStayRecorded == Spec => []UndisturbedTasksAreRecorded
<1>1. AloneInv => UndisturbedTasksAreRecorded
  BY DEF AloneInv, CopyOK, UndisturbedTasksAreRecorded, TasksAreRecorded, RecordedTasks, TasksOf
<1> QED
  BY <1>1, AloneInvariance, PTL

(* Undisturbed, two VMs of one environment exist only if something failed on one of *)
(* them, or was done to the VM it was cloned from: a run is over without its own VM *)
(* gone only by a failure it records, or by naming the source VM.                   *)
THEOREM SecondVmsFollowFailures == Spec => []SecondVmFollowsFailure
<1>1. ASSUME IInv, AloneInv
      PROVE  SecondVmFollowsFailure
  <2> SUFFICES ASSUME ~disturbed, Quiet, NEW r \in vms \ {SourceVm}, NEW q \in vms \ {SourceVm},
                      r # q
               PROVE  \E failed \in {runs[r], runs[q]} :
                        failed # NoRun /\ (failed.failureReason \/ failed.vmUuid = SourceVm)
    BY DEF SecondVmFollowsFailure
  <2>1. CopyOK(tasks, vms, runs, runs)
    BY <1>1 DEF AloneInv
  <2>2. ASSUME NEW v \in vms \ {SourceVm}
        PROVE  v \in TaskIds /\ runs[v] # NoRun
    <3>1. v \in DOMAIN tasks /\ TaskOK(tasks, v) /\ tasks[v].kind \in Making /\ tasks[v].vm = v
      BY <1>1 DEF IInv, PrismOK, Existed, Made, TaskOK
    <3>2. PICK p \in TaskIds : runs[p] # NoRun /\ v \in runs[p].prismTaskUuids
      BY <2>1, <3>1 DEF CopyOK, TasksOf
    <3>3. v = p
      BY <1>1, <3>1, <3>2 DEF IInv, RunsOK, RunOK, TasksOK, Owns
    <3> QED
      BY <3>2, <3>3
  <2>3. Over(tasks, vms, runs[r], r) \/ Over(tasks, vms, runs[q], q)
    BY <2>1, <2>2 DEF CopyOK, OneOpen
  <2> QED
    BY <2>2, <2>3 DEF Over
<1> QED
  BY <1>1, Invariance, AloneInvariance, PTL

(* Undisturbed, and where reconcileVmAbsence sees the whole inventory, no step takes *)
(* a run out of Destroyed: Prism refuses what is asked of a VM that is gone, and its *)
(* inventory does not list it again.                                                *)
THEOREM DestroyedStaysFinal == Spec => DestroyedIsFinal
<1>1. ASSUME AloneInv, [Next]_vars, ~disturbed, InventoryFits, NEW r \in TaskIds,
             runs[r] # NoRun, runs[r].status = "Destroyed"
      PROVE  runs'[r] # NoRun /\ runs'[r].status = "Destroyed"
  <2>1. CASE runs' = runs
    BY <1>1, <2>1
  <2>2. ASSUME NEW c \in Connections, Save(c)
        PROVE  runs'[r] # NoRun /\ runs'[r].status = "Destroyed"
    <3>1. KeepsDestroyed(runs, held[c])
      BY <1>1, <2>2 DEF Save, AloneInv, AloneOK, CopyOK
    <3> QED
      BY <1>1, <2>2, <3>1 DEF Save, KeepsDestroyed
  <2> QED
    BY <1>1, <2>1, <2>2, ZenonT(60)
    DEF Next, vars, Create, Change, Poll, Other, Begin, Submitted, Rejected, ReplyLost,
        TaskRead, InventoryRead, SaveFails, Crash, Succeed, FailTask, InventoryCatchesUp
<1>2. AloneInv /\ [Next]_vars => DestroyedStays
  BY <1>1 DEF DestroyedStays, Destroyed
<1> QED
  BY <1>2, AloneInvariance, PTL DEF Spec, DestroyedIsFinal
=============================================================================
