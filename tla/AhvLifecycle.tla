--------------------------- MODULE AhvLifecycle ---------------------------
(***************************************************************************)
(* The lab lifecycle of a VM (ahvLabRuntime.ts) under its routes in          *)
(* apiServer.ts, for one environment name and one adapter.  A request loads  *)
(* the whole state, waits for Prism, and saves the whole state it loaded     *)
(* with its own run changed: what other requests saved meanwhile is lost.    *)
(*                                                                         *)
(* Prism is external: it accepts an operation as a task, ends the task in    *)
(* success or failure, names the VMs a task involves when it is asked about  *)
(* it, and lists a deleted VM for a while.  A run's id, its create task and   *)
(* the VM that task makes are one number here (one Date.now() per create);   *)
(* the VM a run works on is the one its vmUuid names, which a clone's reply   *)
(* may set to the VM it was cloned from.  The gates that may refuse a create, *)
(* quotas and event texts are left out.                                      *)
(***************************************************************************)
EXTENDS Naturals, FiniteSets

CONSTANTS
  Connections,   (* requests the server handles at a time            *)
  NoRun,         (* stands for "no run has this id"                  *)
  Pending,       (* stands for a vmUuid `pending-${taskUuid}`         *)
  Provider,      (* the adapter that serves the runs                 *)
  OtherVms,      (* VMs of the cluster that no run made or cloned     *)
  RequestBound,  (* requests in a behaviour                          *)
  FaultBound     (* lost replies of Prism, saves that fail, restarts *)

ASSUME BoundsAssumption == RequestBound \in Nat /\ FaultBound \in Nat
ASSUME ClusterAssumption ==
  Provider \in {"prism-central", "prism-element"} /\ OtherVms \in Nat

VARIABLES
  runs,       (* the stored ahvControlledProvisioningRuns               *)
  pc,         (* where each connection's request is                     *)
  asks,       (* the request it serves                                  *)
  held,       (* its copy of the runs                                   *)
  tasks,      (* Prism: the tasks it accepted                           *)
  vms,        (* Prism: the VMs that exist                              *)
  listed,     (* Prism: the VMs its inventory lists                     *)
  disturbed,  (* history: requests overlapped, or one was cut short by a *)
              (* restart, a lost reply or a save that failed             *)
  requests, faults

vars == <<runs, pc, asks, held, tasks, vms, listed, disturbed, requests, faults>>
prism == <<tasks, vms, listed>>

-----------------------------------------------------------------------------
TaskIds == 1..RequestBound

(* The VM that clones are made from; a task's VM otherwise has its number. *)
SourceVm == 0
VmIds == TaskIds \cup {SourceVm}
ASSUME PendingAssumption == Pending \notin VmIds

Making == {"create", "clone"}
Outcome == {"Submitted", "Succeeded", "Failed"}

Run ==
  [action : {"Create VM", "Power VM", "Destroy VM"},
   status : {"Submitted", "Polling", "Succeeded", "Failed", "Destroyed"},
   prismTaskUuid : TaskIds,
   prismTaskUuids : SUBSET TaskIds,
   vmUuid : VmIds \cup {Pending},
   createStatus : Outcome,
   powerStatus : Outcome \cup {"Not requested"},
   destroyStatus : Outcome \cup {"Not requested"},
   inventoryReconciliation : {"None", "Pending", "Still present", "Reconciled"},
   failureReason : BOOLEAN]

ASSUME NoRunAssumption == NoRun \notin Run

Runs == [TaskIds -> Run \cup {NoRun}]

Operations == Making \cup {"power", "destroy", "poll", "other"}
Requests == [operation : Operations, run : TaskIds \cup {0}]
NoRequest == [operation |-> "other", run |-> 0]

Task == [kind : Making \cup {"power", "destroy"}, vm : VmIds,
         state : {"RUNNING", "SUCCEEDED", "FAILED"}]

(* Runs keep the shape of AhvControlledProvisioningRun (poll() writes no other  *)
(* word into an outcome), and Prism lists every VM that exists.                *)
TypeOK ==
  /\ runs \in Runs
  /\ pc \in [Connections -> {"idle", "call", "list", "save"}]
  /\ asks \in [Connections -> Requests]
  /\ held \in [Connections -> Runs]
  /\ DOMAIN tasks \subseteq TaskIds
  /\ \A t \in DOMAIN tasks : tasks[t] \in Task
  /\ vms \subseteq listed
  /\ listed \subseteq DOMAIN tasks \cup {SourceVm}
  /\ disturbed \in BOOLEAN
  /\ requests \in 0..RequestBound
  /\ faults \in 0..FaultBound

Init ==
  /\ runs = [r \in TaskIds |-> NoRun]
  /\ pc = [c \in Connections |-> "idle"]
  /\ asks = [c \in Connections |-> NoRequest]
  /\ held = [c \in Connections |-> runs]
  /\ tasks = <<>>
  /\ vms = {SourceVm}
  /\ listed = {SourceVm}
  /\ disturbed = FALSE
  /\ requests = 0
  /\ faults = 0

-----------------------------------------------------------------------------
(* ahvLabRuntime.ts *)

(* Mutant: a run whose task has succeeded no longer holds its name. *)
ActiveWhilePending(run) == run # NoRun /\ run.status \in {"Submitted", "Polling"}

Active(run) == run # NoRun /\ run.status \notin {"Failed", "Destroyed"}

EnsureNoActiveRun(stored) == \A r \in TaskIds : ~Active(stored[r])

Created(task, vmUuid) ==
  [action |-> "Create VM", status |-> "Submitted",
   prismTaskUuid |-> task, prismTaskUuids |-> {task}, vmUuid |-> vmUuid,
   createStatus |-> "Submitted", powerStatus |-> "Not requested",
   destroyStatus |-> "Not requested", inventoryReconciliation |-> "None",
   failureReason |-> FALSE]

(* Mutant: the new task replaces the ones before it. *)
PoweredForgetting(run, task) ==
  [run EXCEPT !.action = "Power VM", !.status = "Submitted",
              !.prismTaskUuid = task, !.prismTaskUuids = {task},
              !.powerStatus = "Submitted"]

Powered(run, task) ==
  [run EXCEPT !.action = "Power VM", !.status = "Submitted",
              !.prismTaskUuid = task, !.prismTaskUuids = @ \cup {task},
              !.powerStatus = "Submitted"]

Destroying(run, task) ==
  [run EXCEPT !.action = "Destroy VM", !.status = "Submitted",
              !.prismTaskUuid = task, !.prismTaskUuids = @ \cup {task},
              !.destroyStatus = "Submitted", !.inventoryReconciliation = "Pending"]

(* Mutant: the run's own status word for a task that still runs. *)
OutcomeOrPolling(state) ==
  CASE state = "SUCCEEDED" -> "Succeeded"
    [] state = "FAILED" -> "Failed"
    [] OTHER -> "Polling"

OutcomeOf(state) ==
  CASE state = "SUCCEEDED" -> "Succeeded"
    [] state = "FAILED" -> "Failed"
    [] OTHER -> "Submitted"

(* Mutant: the outcome goes to every action still Submitted. *)
EveryStatusUpdate(run, state) ==
  [run EXCEPT
     !.createStatus = IF @ = "Submitted" THEN OutcomeOf(state) ELSE @,
     !.powerStatus = IF @ = "Submitted" THEN OutcomeOf(state) ELSE @,
     !.destroyStatus = IF @ = "Submitted" THEN OutcomeOf(state) ELSE @]

(* Only the action last submitted is updated, and only while it is Submitted. *)
LifecycleStatusUpdate(run, state) ==
  [run EXCEPT
     !.createStatus = IF run.action = "Create VM" /\ @ = "Submitted" THEN OutcomeOf(state) ELSE @,
     !.powerStatus = IF run.action = "Power VM" /\ @ = "Submitted" THEN OutcomeOf(state) ELSE @,
     !.destroyStatus = IF run.action = "Destroy VM" /\ @ = "Submitted" THEN OutcomeOf(state) ELSE @]

(* Mutant: a destroy counts as done while its task still runs. *)
PolledOptimistically(run, state, vmUuid) ==
  [LifecycleStatusUpdate(run, state) EXCEPT
     !.status = CASE state = "SUCCEEDED" -> "Succeeded"
                  [] state = "FAILED" -> "Failed"
                  [] OTHER -> IF run.action = "Destroy VM" THEN "Destroyed" ELSE "Polling",
     !.vmUuid = vmUuid,
     !.failureReason = @ \/ state = "FAILED"]

(* poll() of a task that needs no reconciliation. *)
Polled(run, state, vmUuid) ==
  [LifecycleStatusUpdate(run, state) EXCEPT
     !.status = CASE state = "SUCCEEDED" -> "Succeeded"
                  [] state = "FAILED" -> "Failed"
                  [] OTHER -> "Polling",
     !.vmUuid = vmUuid,
     !.failureReason = @ \/ state = "FAILED"]

(* Mutant: the inventory is asked only until the destroy has its outcome. *)
ReconciledOnlyOnce(run, state) ==
  run.action = "Destroy VM" /\ run.destroyStatus = "Submitted" /\ state = "SUCCEEDED"

NeedsReconciliation(run, state) == run.action = "Destroy VM" /\ state = "SUCCEEDED"

(* poll() of a destroy task that succeeded, once the inventory answered. *)
Reconciled(run, vmPresent) ==
  [LifecycleStatusUpdate(run, "SUCCEEDED") EXCEPT
     !.status = IF vmPresent THEN "Failed" ELSE "Destroyed",
     !.inventoryReconciliation = IF vmPresent THEN "Still present" ELSE "Reconciled"]

-----------------------------------------------------------------------------
(* apiServer.ts *)

Begin(c, request, next) ==
  /\ pc[c] = "idle"
  /\ requests < RequestBound
  /\ requests' = requests + 1
  /\ pc' = [pc EXCEPT ![c] = next]
  /\ asks' = [asks EXCEPT ![c] = request]
  /\ held' = [held EXCEPT ![c] = runs]
  /\ disturbed' = (disturbed \/ \E d \in Connections : pc[d] # "idle")
  /\ UNCHANGED <<runs, tasks, vms, listed, faults>>

(* POST /api/ahv/controlled-provisioning/runs, past its checks: from an image, *)
(* or from the approved source VM.                                             *)
Create(c, operation) ==
  /\ EnsureNoActiveRun(runs)
  /\ Begin(c, [operation |-> operation, run |-> 0], "call")

(* POST .../runs/:id/power and .../destroy: requireVmUuid. *)
Change(c, operation, r) ==
  /\ runs[r] # NoRun
  /\ runs[r].vmUuid # Pending
  /\ Begin(c, [operation |-> operation, run |-> r], "call")

(* POST .../runs/:id/poll *)
Poll(c, r) ==
  /\ runs[r] # NoRun
  /\ Begin(c, [operation |-> "poll", run |-> r], "call")

(* Any other mutation (and GET .../evidence-report): load, then save. *)
Other(c) == Begin(c, NoRequest, "save")

Answer(c) ==
  /\ pc' = [pc EXCEPT ![c] = "idle"]
  /\ asks' = [asks EXCEPT ![c] = NoRequest]
  /\ held' = [held EXCEPT ![c] = [r \in TaskIds |-> NoRun]]

(* The handler got its reply and goes on to save. *)
Update(c, r, run) ==
  /\ held' = [held EXCEPT ![c] = [@ EXCEPT ![r] = run]]
  /\ pc' = [pc EXCEPT ![c] = "save"]
  /\ UNCHANGED asks

(* Prism accepts an operation on a VM that exists as a new task: a new VM, or  *)
(* what the run of the request names.                                         *)
NewTask == Cardinality(DOMAIN tasks) + 1

TaskFor(c) ==
  [kind |-> asks[c].operation, state |-> "RUNNING",
   vm |-> IF asks[c].operation \in Making THEN NewTask ELSE held[c][asks[c].run].vmUuid]

PrismAccepts(c) ==
  /\ asks[c].operation \in Making \cup {"power", "destroy"}
  /\ asks[c].operation \notin Making => TaskFor(c).vm \in vms
  /\ asks[c].operation = "clone" => SourceVm \in vms
  /\ tasks' = [t \in DOMAIN tasks \cup {NewTask} |-> IF t = NewTask THEN TaskFor(c) ELSE tasks[t]]
  /\ UNCHANGED <<vms, listed>>

(* The VMs a reply about a task may refer to. *)
Involved(task) == {task.vm} \cup {v \in {SourceVm} : task.kind = "clone"}

(* create(), power() and destroy() after the reply; a create's reply may refer *)
(* to VMs, of which extractVmUuid takes any, or leave `pending-${taskUuid}`.   *)
Submitted(c) ==
  /\ pc[c] = "call"
  /\ PrismAccepts(c)
  /\ \/ /\ asks[c].operation \in Making
        /\ \E vmUuid \in {Pending} \cup Involved(TaskFor(c)) :
             Update(c, NewTask, Created(NewTask, vmUuid))
     \/ /\ asks[c].operation = "power"
        /\ Update(c, asks[c].run, Powered(held[c][asks[c].run], NewTask))
     \/ /\ asks[c].operation = "destroy"
        /\ Update(c, asks[c].run, Destroying(held[c][asks[c].run], NewTask))
  /\ UNCHANGED <<runs, disturbed, requests, faults>>

(* The request fails before Prism accepts it, or a read fails: a 500, no save. *)
Rejected(c) ==
  /\ pc[c] \in {"call", "list"}
  /\ Answer(c)
  /\ UNCHANGED <<runs, prism, disturbed, requests, faults>>

(* Prism accepts the operation but the reply is lost: a 500, no save. *)
ReplyLost(c) ==
  /\ pc[c] = "call"
  /\ faults < FaultBound
  /\ faults' = faults + 1
  /\ PrismAccepts(c)
  /\ Answer(c)
  /\ disturbed' = TRUE
  /\ UNCHANGED <<runs, requests>>

(* A poll does not take the source VM for the run's, unless Prism Element has   *)
(* it for the task's entity_uuid.                                             *)
Named(task) == Involved(task) \ {v \in {SourceVm} : Provider = "prism-central"}

(* The task of the run the request loaded; a reply may name the VM.  A destroy *)
(* task that succeeded is followed by listVms.                                 *)
TaskRead(c) ==
  /\ pc[c] = "call"
  /\ asks[c].operation = "poll"
  /\ LET r == asks[c].run
         run == held[c][r]
         task == tasks[run.prismTaskUuid]
     IN  \E vmUuid \in {run.vmUuid} \cup Named(task) :
           \/ /\ NeedsReconciliation(run, task.state)
              /\ pc' = [pc EXCEPT ![c] = "list"]
              /\ held' = [held EXCEPT ![c] = [@ EXCEPT ![r] = [run EXCEPT !.vmUuid = vmUuid]]]
              /\ UNCHANGED asks
           \/ /\ ~NeedsReconciliation(run, task.state)
              /\ Update(c, r, Polled(run, task.state, vmUuid))
  /\ UNCHANGED <<runs, prism, disturbed, requests, faults>>

(* Prism Central's inventory is asked for one page, Prism Element's for all. *)
PageLength == 20
WholeInventory == Provider = "prism-element" \/ Cardinality(listed) + OtherVms <= PageLength

(* Mutant: only metadata.uuid is compared, which Prism Element does not send. *)
ShownByMetadata(vmUuid) ==
  {shown \in BOOLEAN : shown => Provider = "prism-central" /\ vmUuid \in listed}

(* What the read inventory says of a VM: one it lists may be on another page. *)
Shown(vmUuid) ==
  {shown \in BOOLEAN :
     /\ shown => vmUuid \in listed
     /\ vmUuid \in listed /\ WholeInventory => shown}

(* reconcileVmAbsence *)
InventoryRead(c) ==
  /\ pc[c] = "list"
  /\ LET run == held[c][asks[c].run]
     IN  \E vmPresent \in Shown(run.vmUuid) : Update(c, asks[c].run, Reconciled(run, vmPresent))
  /\ UNCHANGED <<runs, prism, disturbed, requests, faults>>

(* store.save(state) replaces every run with the request's copy. *)
Save(c) ==
  /\ pc[c] = "save"
  /\ runs' = held[c]
  /\ Answer(c)
  /\ UNCHANGED <<prism, disturbed, requests, faults>>

(* store.save rejects after Prism did what it was asked: a 500, nothing saved. *)
SaveFails(c) ==
  /\ pc[c] = "save"
  /\ faults < FaultBound
  /\ faults' = faults + 1
  /\ Answer(c)
  /\ disturbed' = TRUE
  /\ UNCHANGED <<runs, prism, requests>>

(* The process restarts over the stored state; requests in flight are gone. *)
Crash ==
  /\ faults < FaultBound
  /\ faults' = faults + 1
  /\ pc' = [c \in Connections |-> "idle"]
  /\ asks' = [c \in Connections |-> NoRequest]
  /\ held' = [c \in Connections |-> [r \in TaskIds |-> NoRun]]
  /\ disturbed' = (disturbed \/ \E c \in Connections : pc[c] # "idle")
  /\ UNCHANGED <<runs, prism, requests>>

-----------------------------------------------------------------------------
(* Prism (external) *)

Succeed(t) ==
  /\ tasks[t].state = "RUNNING"
  /\ tasks[t].kind \notin Making => tasks[t].vm \in vms
  /\ tasks' = [tasks EXCEPT ![t].state = "SUCCEEDED"]
  /\ vms' = CASE tasks[t].kind \in Making -> vms \cup {t}
              [] tasks[t].kind = "destroy" -> vms \ {tasks[t].vm}
              [] OTHER -> vms
  /\ listed' = listed \cup vms'
  /\ UNCHANGED <<runs, pc, asks, held, disturbed, requests, faults>>

FailTask(t) ==
  /\ tasks[t].state = "RUNNING"
  /\ tasks' = [tasks EXCEPT ![t].state = "FAILED"]
  /\ UNCHANGED <<runs, pc, asks, held, vms, listed, disturbed, requests, faults>>

InventoryCatchesUp ==
  /\ listed # vms
  /\ listed' = vms
  /\ UNCHANGED <<runs, pc, asks, held, tasks, vms, disturbed, requests, faults>>

Next ==
  \/ \E c \in Connections :
       \/ \E operation \in Making : Create(c, operation)
       \/ \E r \in TaskIds : Change(c, "power", r) \/ Change(c, "destroy", r) \/ Poll(c, r)
       \/ Other(c)
       \/ Submitted(c) \/ Rejected(c) \/ ReplyLost(c)
       \/ TaskRead(c) \/ InventoryRead(c) \/ Save(c) \/ SaveFails(c)
  \/ Crash
  \/ \E t \in DOMAIN tasks : Succeed(t) \/ FailTask(t)
  \/ InventoryCatchesUp

Spec == Init /\ [][Next]_vars

-----------------------------------------------------------------------------
Destroyed(r) == runs[r] # NoRun /\ runs[r].status = "Destroyed"

(* A run may work on the VM it made, or, if it cloned it, on the source VM. *)
OwnVm(r, v) == v = r \/ (v = SourceVm /\ tasks[r].kind = "clone")

(* The run is marked destroyed only after polling confirms task success:       *)
(* whatever overwrites whatever, a run that says Destroyed names a VM that is   *)
(* gone by a destroy task of this run that succeeded, and was reconciled.       *)
DestroyedIsGone ==
  \A r \in TaskIds : Destroyed(r) =>
    /\ OwnVm(r, runs[r].vmUuid)
    /\ runs[r].vmUuid \notin vms
    /\ runs[r].inventoryReconciliation = "Reconciled"
    /\ runs[r].destroyStatus = "Succeeded"
    /\ \E t \in runs[r].prismTaskUuids :
         /\ tasks[t].kind = "destroy" /\ tasks[t].vm = runs[r].vmUuid
         /\ tasks[t].state = "SUCCEEDED"

(* ahv-lab-lifecycle.md:108: "... and the VM no longer appears in read-only     *)
(* inventory": nor does it later, though Prism lists deleted VMs for a while.   *)
DestroyedIsUnlisted == \A r \in TaskIds : Destroyed(r) => runs[r].vmUuid \notin listed

(* The VMs there can be at all fit on the page that is read. *)
InventoryFits == Provider = "prism-element" \/ RequestBound + 1 + OtherVms <= PageLength

(* It holds where reconcileVmAbsence sees the whole inventory. *)
DestroyedIsUnlistedIfItFits == InventoryFits => DestroyedIsUnlisted

(* A recorded outcome is the outcome of a task of that kind of this run        *)
(* (lifecycleStatusUpdate), and the outcome of create and destroy is final.    *)
OutcomesAreTrue ==
  \A r \in TaskIds : runs[r] # NoRun =>
    /\ \A t \in runs[r].prismTaskUuids : OwnVm(r, tasks[t].vm)
    /\ runs[r].createStatus = "Succeeded" => tasks[r].state = "SUCCEEDED"
    /\ runs[r].createStatus = "Failed" => tasks[r].state = "FAILED"
    /\ runs[r].powerStatus \in {"Succeeded", "Failed"} =>
         \E t \in runs[r].prismTaskUuids :
           tasks[t].kind = "power" /\ OutcomeOf(tasks[t].state) = runs[r].powerStatus
    /\ runs[r].destroyStatus \in {"Succeeded", "Failed"} =>
         \E t \in runs[r].prismTaskUuids :
           tasks[t].kind = "destroy" /\ OutcomeOf(tasks[t].state) = runs[r].destroyStatus

RecordedTasks == UNION {runs[r].prismTaskUuids : r \in {q \in TaskIds : runs[q] # NoRun}}

Quiet == \A c \in Connections : pc[c] = "idle"

(* ahv-lab-lifecycle.md, "Each controlled AHV run records: ... Prism task       *)
(* UUIDs": no task of Prism is missing from the runs once requests are done.    *)
TasksAreRecorded == Quiet => RecordedTasks = DOMAIN tasks

(* It holds as long as requests neither overlap nor are cut short.              *)
UndisturbedTasksAreRecorded == ~disturbed => TasksAreRecorded

(* pe-pc-validation-rings.md:114: "Only one active VM is allowed per            *)
(* environment name", a guardrail of the create path: ensureNoActiveRun admits  *)
(* no create while the environment has a VM, whatever Prism would say to it.    *)
CreateAdmittedWithoutVm ==
  [][\A c \in Connections :
       (pc[c] = "idle" /\ asks'[c].operation \in Making) => vms \subseteq {SourceVm}]_vars

(* Undisturbed, a second VM is made only after an operation on the first one    *)
(* failed (its run is then Failed, which ensureNoActiveRun does not count), or   *)
(* was done to the VM it was cloned from instead.                              *)
SecondVmFollowsFailure ==
  (~disturbed /\ Quiet) =>
    \A r, q \in vms \ {SourceVm} :
      r # q => \E failed \in {runs[r], runs[q]} :
                 failed # NoRun /\ (failed.failureReason \/ failed.vmUuid = SourceVm)

(* Undisturbed, and where reconcileVmAbsence sees the whole inventory, Destroyed *)
(* is final: no poll, power or destroy brings the run back.                     *)
DestroyedStays ==
  \A r \in TaskIds : (InventoryFits /\ Destroyed(r) /\ ~disturbed) => Destroyed(r)'
DestroyedIsFinal == [][DestroyedStays]_vars
=============================================================================
