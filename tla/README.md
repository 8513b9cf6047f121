# Nutanix Developer Cloud Studio: TLA+ models

Specifications of the studio's server (`src/server/`), the TLC runs that check
them on small instances, and TLAPS proofs for every value of the constants.
Paths below are relative to the repository root, which these modules see as
`src/`.

## 1. The system

A Node HTTP server keeps one JSON document (`ApiState`, `server/types.ts:149`).
Each `/api/` request loads the whole document, changes its own copy, and, if it
is a mutation, saves the whole copy back (`server/apiServer.ts:1427` and the
`store.save(state)` of each route). There is no lock, queue, version number or
transaction anywhere, and no background worker: everything that happens is a
request. Most "infrastructure" is simulated; the AHV lab runtime is the one part
that may call a real Prism.

| Component | State | Operations | Interacts by | Hard behaviour | What makes it correct |
|---|---|---|---|---|---|
| Control plane (`controlPlane.ts`, `mockPlatform.ts`) | environments, approvals, controlPlaneJobs | request, destroy, approve/reject, advance, retry, fail | mutates the document a route gave it | any order of calls; retry from any state; repeated names; job ids made from names | paused jobs have an undecided approval; "Needs approval" has one open; attempts are counted once; only a retry passes an approval; teardowns keep their job |
| API server and repositories (`apiServer.ts`, `storage.ts`) | the document, the file, each request's copy | load, seed, handle, save, crash | awaits between load and save | overlapping requests, torn and failing writes, restarts, retention | what is stored is a portal the control plane could produce, with the audit trail that explains it; every request is answered |
| AHV lab lifecycle (`ahvLabRuntime.ts`) | ahvControlledProvisioningRuns; Prism's tasks, VMs and inventory outside | create, clone, power, destroy, poll, reconcile | HTTP calls to Prism between load and save | asynchronous tasks, lost replies, an inventory that lags and is read by the page, replies that name other VMs, lost updates | Destroyed means gone; outcomes are those of the run's own tasks; every accepted task is recorded; one VM per name |
| Gate chain (`vmSandboxDryRun.ts`, `authorizationEvidence.ts`, `rollbackDestroyProof.ts`, `controlledProvisioning.ts`, `adapterEnablement.ts`, `controlledCreateAuthorization.ts`, `ahvCreateAdapterContract.ts`, `ahvControlledProvisioning.ts`) | dry-runs, scopes, proofs, gates, envelopes, reviews, runs | record each, decide a gate, create | each looks its predecessors up in the document | statuses computed once and cached; replacement under a new id; `gates[0]`; switches changed by a restart; scopes that expire | a create is admitted only on a complete set of evidence of its own plan; a rejection stops it; a passed plan can always get there |
| Evidence chains (some 45 stage files from `executionBroker.ts` to `productionExecutionArchiveRecoveryDrillRecord.ts`) | one list of records per stage | record | parent by id, else by provider, else the newest | wrong parents, ids from `Date.now()`, idempotency keys, overlapping saves | a record that passed has its passed parents on file; one queued record per key; Blocked records shut no stage |
| Security (`security.ts`) | rate-limit buckets | check | before every route | all pages of a user share a bucket; refused requests count on | a page can start under the default limit |
| Inventory and registry workflows (`prismInventoryAdapter.ts`, routes of `apiServer.ts`) | prismInventory, template registry | import, preview, approve, reject; submit, approve, deprecate, restore | feed the AHV create's scope | import replaces everything | approvals survive what they should |
| Lab pilot and runbook (`readOnlyLabPilot.ts`, `readOnlyAdapterPilot.ts`, `productionReadOnlyPilotControls.ts`, `controlledMockToLabTransition.ts`) | one list of records per stage; runbook workflows that change | record each; approve, execute-dry-run, review-evidence, close a workflow | routes; each looks its predecessors up by id or newest | records of different pilots combined; steps out of order | links of links agree where the code compares them |
| Mock Prism harness (`mockPrism*.ts`, `prismSimulatorControls.ts`) | none of its own | simulated calls | used by routes | none | a test double |
| PostgreSQL repository (`postgresRepository.ts`) | none | `load`, `save` always throw | none | none | a scaffold |
| Operations summaries (`privateCloudOperations.ts`, ...) | none | reports | read the document | none | pure functions |
| Browser (`src/App.tsx`, `src/services/`) | React state, lists of its own when offline | clicks; start, refresh | calls the API, or makes the records itself | a copy of every stage in the page; falls back to local data; 157 lists at once through a rate limiter | the same click passes online and offline; a page served by a live API is in API mode |

`PROJECT.json` lists the same components with their sources and status, and under
"hazards" what can go wrong in this code that a test would hardly reach, each
at its line with the properties that watch it.

## 2. The modules

    ControlPlaneState ──────── ControlPlane ──────── MCControlPlane
       │      │                    ▲ │
       │      │        implements  │ └─ ControlPlaneProofs
       │      │                    │
       │      └──── ApiServer ─────┴──── MCApiServer
       │                └── ApiServerProofs
       └── ControlPlaneStateProofs (the lemmas both proof modules use)

    AhvLifecycle ──────── MCAhvLifecycle
       └── AhvLifecycleProofs

    CreateAuthorization ◄── implements ── ProvisioningGate ──── MCProvisioningGate
                                               └── ProvisioningGateProofs

    EvidenceRows ─┬─ EvidenceChain ──────────────────────────────┬─ MCEvidenceChain
                  │       └── EvidenceChainProofs                 │
                  ├─ LabStages, SwitchStages, ProductionStages, ──┤
                  │  PilotStages              (the server's rows) │
                  └─ BrowserLabStages, BrowserProductionStages, ──┘
                     BrowserPilotStages   (the browser's own rows)

    BrowserStart ──────── MCBrowserStart

**ControlPlaneState** has no variables. A *portal* is the part of the document the
control plane uses: `environments`, `approvals`, `jobs`, each a function of the
name or job id (the code's arrays hold one entry per name or id, because every
insertion filters the old one out first). Each handler is an operator from portal
to portal with the code's name: `CreateEnvironmentRequest`, `DecideApproval`,
`RequestEnvironmentDestroy`, `AdvanceControlPlaneJob`, `RetryControlPlaneJob`,
`FailControlPlaneJob`, over `EnqueueControlPlaneJob`, `ReleaseApprovalPausedJobs`
and `TransitionJob`. The look-ups whose failure is a 404 are separate predicates.
Of a job's transition history only the number of retries is kept. A template and
its targets are the one bit they decide, whether the request needs approval.
Owner, region, cost, times, messages, adapter jobs and mock evidence are dropped:
nothing here reads them back.

**ControlPlane** applies the handlers to one variable, one action per mutating
route. It is what the authors describe, requests served one at a time, and is the
abstract specification `ApiServer` is compared with.

**ApiServer** is the cycle of one request on each connection: `Arrive`,
`LoadDocument` / `LoadMissing` / `LoadTorn`, `Handle` or `Refuse`, `OpenFile`,
`WriteFile`, and `SaveFails` where one of the last two does not. `store` is the last document written in full, `file` whether the
data file holds it, is missing or does not parse, `held` each request's copy. A
document is a portal and its audit trail (one entry per mutation, standing for
the two or three events of a save). `Backend` chooses the repository:

- *json*: `load` seeds a missing file and rethrows every other error; `writeFile`
  truncates, then writes, and two writes at once may leave either document or
  something that does not parse. `OpenFile` marks the other writers raced. A write may
  also fail (`SaveFails`: no space, an I/O error): the request is answered with a 500 and, if
  the file was open by then, it may be left empty or cut short.
- *memory*: `load` and `save` do no I/O, so a handler that waits for no body runs
  from load to save in one turn of the event loop (`HoldsTheLoop`, `Turn`).

`stale` is a history variable: the connections whose copy was loaded before another
connection's document was written.

A read ends at its load. Requests that change other parts of the document are of
kind `other`: they change no portal, and save the copy they loaded.

**AhvLifecycle** is one environment name and one lab adapter. A run's fields keep the code's
names (`status`, `createStatus`, `prismTaskUuids`, ...). The request's steps are:
begin (load, and the check the route makes on that copy), the Prism call
(`Submitted`, `Rejected`, `ReplyLost`, `TaskRead`), the inventory read of a
reconciliation (`InventoryRead`), `Save` or `SaveFails`. Prism is external: `PrismAccepts`,
`Succeed`, `FailTask`, `InventoryCatchesUp`. A run's id, its create task and the
VM that task makes are one number, but the VM that a run works on is what its `vmUuid`
names: a create's reply may name no VM (`Pending`, `pending-${taskUuid}`), the new VM,
or, when it is a clone, the `SourceVm` it is made from, which `extractVmUuid(response)` does
not leave out; a poll leaves it out (`Named`), but for the `entity_uuid` of Prism Element.
`Shown` is what the inventory read tells of a VM: Prism Central is asked for one page
of `PageLength`, so where the listed VMs and the cluster's `OtherVms` do not fit it, a
listed VM may or may not be on it, at every read anew. `Other` is any mutation elsewhere in the server
that loads and saves the document. `disturbed` is a history variable: two requests
overlapped, or a lost reply, a failed save or a restart cut one short.

**ProvisioningGate** is the chain before a real create: `doc` is the part of the
document that the chain reads, `switches` the environment variables the process
was started with, `now` the time by which scopes expire. One action per route:
`CreateDryRun`, `RecordScope`, `PrepareAuditExport`, `ReviewEnablement`,
`RecordRollbackProof`, `RequestGate`, `DecideGate`, `RecordLifecycleProof`,
`AuthoriseCreate`, `ReviewContract`, `ImportInventory`, `DecideRecord`,
`RegistryAction`, `CreateRun` (`LabAhvPrismAdapter.create`), `PreflightRun` (the
disabled adapter) and `EndRun` (what `AhvLifecycle` says of a run in detail). Each
applies an operator from document to document (`Planned`, `WithProof`, `Requested`,
`Decided`, ...) named for its handler; `Restart` brings other switches. Lists
are kept by what is asked of them: a plan on file per name, a gate per plan with
the newest one marked (`controlledProvisioningGates[0]`), the plans with a ready
proof, the gates with a verified lifecycle or a ready newest envelope. A request
is one step here: overlapping saves lose records but every document on file is
one an earlier request saved with one handler applied, which is a step of
this module from a document it has reached; so what holds of every document
and every step here holds of what is stored.

**CreateAuthorization** is what that chain promises, in seven sets: a create is
admitted for a plan that is passed, approved, verified and authorized, with a
complete set of vetted Prism records, and each of these is given on top of the
ones before it for the same plan.

**EvidenceRows** has the shape that the create functions of the stage files share.
A *row* is one such function: its list, its links (which earlier record, found by
id, provider or newest, in which statuses, and what its absence means), its
checks, its statuses. `Create(row, doc, req, facts, now)` is the record a request
makes; `Filed` puts it in front of its list. Each check of the request alone
(a text present, a window in the future) is one *input* that is good or bad; what
a stage looks at outside the chains (audit exports, an active scope, the kill
switch) is a *fact*. **LabStages**, **SwitchStages**, **ProductionStages** and
**PilotStages** hold the rows of the server, one definition per stage file or
function, with the code's names; the **Browser...Stages** those of `App.tsx`, which
has its own copy of every stage for the time the API is not there.

**EvidenceChain** runs the rows: `Load`, then `Save`, `Refuse` or `AdvanceRunbook`
on the loaded copy (`held`), `Lapse` of a fact, `Tick` of the millisecond clock that ids
are made from; and the browser, whose lists are the server's (`Refresh`) until a
request fails (`RequestFails`), after which `OfflineClick` and `OfflineAdvance`
change its own lists. A click (`Clicked`) names the newest records, as `App.tsx` does, but the
window's, which is for the provider of the newest runbook and names the export of that
provider. A *desk* says what a behaviour works on: stages, numbers of requests and
clicks, providers.

**BrowserStart** is a page that starts (`CheckHealth`, `AnswerList`,
`AnswerProfiles`, `Refresh`, `Reload`) through `MemoryRateLimiter.check`, whose
bucket all pages of a user share.

The `MC*` modules give constants their values and hold what only TLC evaluates
(desks, courses, symmetry). Operators marked "Mutant" are mutated forms
of the definition after them; no specification uses them.

## 3. What the runs check

| Run | Instance | Properties |
|---|---|---|
| `control_plane` | names `dev` and `destroy-dev` (whose job ids meet), 1 retry per job; 939,475 states | `TypeOK`, `PausedJobsUndecidedInv`, `NeedsApprovalIsOpenInv`, `AttemptsAccountedForInv`, `GatedUntilDecidedInv`, `UnretriedTeardownsTearDownInv` |
| `api_json` | JsonFileStore, 2 connections, 3 requests, 2 faults (a crash or a save that fails), retention 3; 377,800 states | `PortalsAreSound`, `TeardownsAreTracked`, `AuditExplainsPortal`, `QuietFileIsReadable`, `TornFileNeedsAnOperator`, `OnlyStaleSavesLoseUpdates`, `EveryRequestIsAnswered` |
| `api_memory_serial` | MemoryStore, 1 connection, 5 requests, retention 3; 69,897 states | `ReadyIsEarned`, `ImplementsControlPlane` |
| `ahv_lifecycle` | Prism Element, a source VM, 2 interchangeable connections, 4 requests, 1 lost reply, failed save or restart; 1,108,847 states | `DestroyedIsGone`, `DestroyedIsUnlistedIfItFits`, `OutcomesAreTrue`, `UndisturbedTasksAreRecorded`, `SecondVmFollowsFailure`, `DestroyedIsFinal` |
| `evidence_chain` | every stage of the server with one request and, in the browser, with two clicks; clicks for two providers at runbook and window; any fact may lapse at any time; two overlapping requests at the first stages (two providers), the broker's queue, the pilot's runbooks, policies and envelopes; 10,223 states | `PassedStandsOnPassed`, `OneQueuedRecordPerKey`, `PilotLinksAgree`, `NoDeadEnd`, `OfflineAgreesWithServer` |
| `provisioning_gate` | two names, one allowed in the lab, two plans for each, a scope that expires, three settings of the switches, three free requests after each point of the usual course; 309,156 states | `RejectionStops`, `NoDeadEnd`, `ImplementsCreateAuthorization` |

Each of the passing runs but `api_memory_serial` also checks the `TypeOK` of its module.

What these say:

- **The control plane** keeps job, environment and approval consistent in every
  order of calls. The two parts most easily broken are that approving releases
  *every* paused job of the environment, and that re-requesting a name reopens a
  decided approval.
- **The server** loses updates, but never invents a portal: whatever is
  stored, or held by any request, satisfies every invariant of the control plane, because
  each save writes one whole document that a handler made from a sound one. For the
  same reason the audit trail always explains the portal next to it: a lost
  update loses its event too. Only one thing loses an update: the save of a request that
  loaded before another one's document was written (and a restart of the memory store, which
  empties it). No environment is shown as Ready that no job of its own was provisioned for.
  An unreadable file that nobody is writing comes from two overlapping saves, or from one
  that a crash or an error cut short; from then on every request is answered with a 500 until an
  operator acts. One request at a time over memory, the server implements
  `ControlPlane`.
- **The lab lifecycle** never marks a run Destroyed while the VM that it names exists, whatever
  overlaps or fails, and never records an outcome that is not one of its own
  task's. That VM need not be the run's own: a clone's reply may have named the VM it was
  made from. Where the inventory is read whole, the VM of a
  Destroyed run is not listed either, then or later, and without overlap or faults the run stays
  Destroyed; on a cluster with more VMs than a page it may be listed on another page,
  and turn up on the first one in a later poll. Without overlap or faults, no task is lost, and a second VM appears only
  after an operation on the first one failed or was done to its source instead.
- **The evidence chains**: whatever ids a request names, and whichever of two writers
  wins, a record that passed stands on passed records that are on file beside it,
  because a save replaces the document that its checks were made on. A document that
  loses a record loses all that was built on it. Two requests with one
  idempotency key leave one queued record. Blocked records in front of a
  list never shut a stage: where what the stage requires is on file (`Open`), the
  request that names it passes. What `Open` asks is more than that the parent passed,
  and says where the code does leave a dead end. Of two records of the same
  millisecond the id finds only the newer. And a stage may look further back than its
  parent did: `labEvidenceReview.ts:69` accepts a window that is Blocked and has no
  runbook, yet the envelope asks for the runbook of the
  window of that review, so a list whose only accepted review is of such a window
  shuts that stage until another review is made.
- **The browser's copy** of the stages agrees with the server's click for click, in
  whatever state of the facts about the server, but for three sets of stages.
  At those of `LenientOffline` the page checks less of the records than the server (a runbook's evidence, a
  mode's authorization, the links of links), at those of `StrictOffline` it asks for more. At the
  thirteen of `FactBlindOffline` (`readOnlyPrismLabGates` among them, which the page always
  makes Ready, `App.tsx:17480`) it does not look at some fact that the server checks,
  such as the active scope or the kill switch: there a click passes
  offline and would not on the server while such a fact does not hold. Where all that the page does not
  look at holds, these stages agree too.
- **The gate chain**: evidence of one plan never serves another; a rejected gate
  admits no create, whatever is requested again, and every gate that would admit
  one can still be rejected; and no rejection, replacement or lapse leaves a passed
  plan without a way to a create.

Six runs are expected to find a violation; each is a disagreement between the code and a
sentence of the documentation ("findings" in `PROJECT.json`):

| Run | What the documentation says | What the code does |
|---|---|---|
| `control_plane_shared_ids` | `docs/api.md:223`: destroy marks Destroying and queues a teardown job | requesting `destroy-dev` replaces the teardown job of `dev`, whose id is the same |
| `control_plane_retry` | `docs/build-plan.md:264`: approval-required jobs pause, and return to Queued after approval | a retry queues a paused job with its approval still open |
| `api_lost_decision` | `docs/api.md:267`: a decision updates the stored approval | a save of an older copy restores the undecided approval |
| `ahv_second_vm` | `docs/pe-pc-validation-rings.md:114`: one active VM per environment name | after a failed power or destroy a create is admitted while the VM exists |
| `browser_start` | `docs/api.md:34`: if the API responds, the app enters hosted/on-prem API mode | a page asks for 157 lists at once and the limiter lets 120 requests a minute through: the page goes to browser mock mode |
| `ahv_lost_task` | `docs/ahv-lab-lifecycle.md:98-101`: each run records its Prism task UUIDs | a save of an older copy removes the run and the record of its task |

Three more such disagreements are in the models, without a run of their own:

- `docs/ahv-lab-lifecycle.md:108` has a run destroyed only once the VM no longer appears in the
  inventory. Prism Central is asked for the first 20 VMs (`ahvLabRuntime.ts:224`). With
  `Provider = "prism-central"` and `OtherVms = 20` in `MCAhvLifecycle.cfg` (one connection and no
  fault will do), TLC finds `DestroyedIsUnlisted` violated: create, destroy, and a poll whose page does not
  have the VM that Prism still lists.
- `docs/ahv-lab-lifecycle.md:103` has each run record its VM after create or clone. `create()` takes any VM that
  the reply refers to (`ahvLabRuntime.ts:440`), where `poll()` leaves a clone's source out (`:491`). If
  Prism's reply to a clone refers to the source VM, a destroy that comes before a poll deletes the
  source VM, and the run is Destroyed while its own VM exists. The model has Prism do so.
- `docs/upgrade-path.md:180` asks for a manual approval for every real create. Nothing
  consumes an approval (`ahvLabRuntime.ts:972`): `CreateRun`, `EndRun` and
  `CreateRun` again is a behaviour of `ProvisioningGate` with one decision.

### Bounds and why they are enough

- Two names suffice for the control plane: no handler reads two environments, and
  the only way two meet is a shared job id, which the instance contains. One retry
  per job distinguishes retried from never retried; the proofs lift both.
- Two connections give every overlap of a pair of saves; a third only adds a third
  writer to the same race, and the proved invariants hold for any number. Three
  requests reach a lost update (victim, winner, observer), one fault reaches
  each point of a save, and two a failed save and a crash in either order. Retention 3 with
  three requests fills the trail exactly in `api_json`.
- Four requests in the lab lifecycle reach create, destroy, poll and one
  more (a second create, a power in between, or a poll that could bring a destroyed run
  back), as the reply of the create may name the VM. One
  fault is enough to disturb a behaviour at any step. `ahv_lifecycle` has Prism Element, whose
  polls as well as its replies may name the source VM and whose inventory is read whole; the proofs are for
  both providers.
- `evidence_chain` starts at every stage from the document that a walk through the
  stages before it makes, once with newer records that fell short in front of its
  parents, so one request per stage meets every way a link is found; a second
  request matters where a list's records are compared with each other or with a link of a
  link, and those stages have two. Stages that only look at one parent differ
  in nothing but the row. `RowsAssumption` is evaluated on all rows, so the
  proofs apply to them.
- `provisioning_gate`: two plans of a name give the replacement, two names evidence of
  another plan and the newest gate of another. `Follow` carries a behaviour along the usual
  course (`Course`, qa's requests and then dev's) to one of its `Pauses`; from there three
  requests of any kind, restarts and the one tick that expires the scope are free. The proofs lift all bounds.
- `browser_start`: one page, the numbers of the code (157 lists, limit 120, window 60
  seconds), and time until the window ends.
- `RetryBound`, `RequestBound`, `FaultBound`, `PlanBound`, `TimeBound`
  and the desks' `requests`, `clicks` and `until` are the only counters capped; the
  code bounds none of them (`maxAttempts` is stored and never compared). The runs of
  `ApiServer`, `AhvLifecycle` and `EvidenceChain` stop when their requests are used up, so
  deadlock is checked only in `ControlPlane` and `ProvisioningGate` (where a process can always be
  restarted).

### Fairness

Only `api_json` states liveness. `FairSpec` is weak fairness of a connection's own
progress: Node resumes a handler whose file read or write has completed, and every path
ends in `sendJson` or in the listener's catch (`apiServer.ts:580`). Nothing else is
fair: no code advances a job, decides an approval or polls Prism on its own, so
"a job eventually finishes" is not a property of this system and is not stated.

## 4. What is proved

`ControlPlaneStateProofs` proves that each handler, given a portal satisfying
`PortalInv`, returns one that does. `PortalInv` is the inductive invariant: the
five invariants the runs check, the type, and `JobsFiledUnderTheirEnvironment`, which is needed
because the handlers find an environment's job by id in one place and by name in
another; without it a release could requeue a job that belongs elsewhere. The
handlers that rewrite one job and one environment share the lemmas `Rewrite...`,
one per conjunct; an approval, which rewrites every paused job at once, has its own
(`DecidedPreserves`).

`ControlPlaneProofs` concludes, for any names, job ids, seed and `RetryBound`:
`TypeCorrect`, `PausedJobsStayUndecided`, `NeedsApprovalStaysOpen`,
`AttemptsStayAccountedFor`, `ApprovalGateHolds`, `TeardownsOnlyTearDown`; and
`TeardownsStayTracked` under `NoSharedJobId`, the assumption whose failure
`control_plane_shared_ids` shows.

`ApiServerProofs` reuses the handler lemmas over any number of connections, either
store, any retention and any number of faults. Its invariants, and what they are for:

- The stored document and every held copy satisfy `PortalInv` (and, if ids are not
  shared, the tracking of teardowns), so it does not matter which copy is saved last:
  `PortalsStaySound`, `TeardownsStayTracked`. With the types of phases, requests and
  trails this gives `TypeCorrect`.
- `FileInv`: until the file is damaged (two saves overlapped, or a crash or an error cut one
  short) at most one request writes, and a file that does not parse is the one it writes. `QuietFilesAreReadable` follows from it;
  `TornFilesStayTorn` needs no invariant but the phases, for a request that loads a
  torn file ends there and only one past its load can write.
- `TrailInv`: the store and every held copy are *explained*, that is, a trail
  shorter than the retention replays to the portal beside it. `AuditTrailsExplain` is
  induction over data in disguise: `Replay` is a recursive function over the trail,
  and that adding an entry at the front leaves the replay of the rest alone is shown
  by a least counterexample, the well-ordering of the naturals taking the place of the induction rule.
- `CurrentInv`: a request's copy that is not stale is the stored document until its handler
  has run, and from then on what that handler, or no handler, made of the stored portal
  (`UpToDate`). So the write of a copy that is not stale is a step of `ControlPlane` or
  changes no portal, and so is every other step but a restart of the memory store:
  `LostUpdatesComeFromStaleSaves`. Behaviours that save no stale copy therefore implement `ControlPlane`, for any
  number of connections (`FreshSavesImplementControlPlane`): if `save` refused a document
  loaded before the last write, no update would be lost. With one
  connection nothing is ever stale, which gives `SerialServerImplementsControlPlane` as a corollary. With two
  the theorem is false without its hypothesis, as `api_lost_decision` shows.
- `ReadyStaysEarned` (`ReadyIsEarned`) needs no more than that each handler keeps
  `ReadyWasProvisioned` of a sound portal: then it does not matter whose copy is saved. Where an
  environment becomes Ready its job has been in Provisioning, which is where attempts are counted;
  where its job is replaced or queued anew its status changes with it, or the job's attempts stay.

`AhvLifecycleProofs` proves `TypeCorrect`, `DestroyedStaysGone` (`DestroyedIsGone`),
`OutcomesStayTrue` (`OutcomesAreTrue`), `DestroyedStaysUnlisted` (`DestroyedIsUnlistedIfItFits`), and of undisturbed behaviours
`UndisturbedTasksStayRecorded`, `SecondVmsFollowFailures` and the action property
`DestroyedStaysFinal` (`DestroyedIsFinal`), for any number of connections, requests and
faults, either provider and any number of other VMs. The stored runs and every held copy satisfy one invariant, for whichever copy is
saved last is what is stored: a run's tasks are of its own VM or of the one it cloned, the task it is polled by is of its last
action on the VM it names, each outcome is that of one of its tasks, and a destroy's outcome is that of
the task it is polled by (without it a
run could be Destroyed with the outcome Failed). Prism's side says that an operation is only ever of a VM that existed,
its create having succeeded or being the source VM, and that what a destroy task deleted is
gone, so no task that still runs can bring a destroyed VM back; a copy therefore
stays true while Prism goes on (`RunKept`), however old it is when it is saved.
That tasks fit their numbers needs a count: every task took a request, and every open
call is a request without a task yet (`Counted`).

Two invariants more are about how runs end. `EndInv`: a stored or held run
that is Failed or Destroyed is over, that is, an operation on it failed, or its VM was
made and is gone, or what it changed was the VM it was cloned from; and where the inventory fits, the VM
of a Destroyed one is not listed. `InventoryFits` compares the VMs that there can be at all
with the page; that the inventory is then read whole follows from the count (`FitsIsWhole`).
`DestroyedStaysUnlisted` is that half of it, of every behaviour, and it is also why no
poll takes the VM for present.
`AloneInv`: undisturbed, at most one request is open; until Prism answered it, its copy is the
stored runs, and from then on one worth saving, which names every task of Prism, keeps what is
Destroyed (where the inventory fits), and has all runs but one over.

`EvidenceChainProofs` proves `TypeCorrect`, `Footing` (`PassedStandsOnPassed`),
`KeyedOnce` (`OneQueuedRecordPerKey`), `Agreement` (`PilotLinksAgree`),
`StagesHaveNoDeadEnd` (`NoDeadEnd`) and `OfflineAgreement` (`OfflineAgreesWithServer`) for any
rows that satisfy the assumptions below and any number of clients. The invariant says of the
stored document and of every held copy that it is `Sound`: shaped, each record
with its footing and its links agreeing, keys different. The copies are needed because any of
them may be saved next. `Create` only ever reads the copy it then files its record in
(`FoundIsThere`, `CreatedRecord`), so a new record is sound beside it
(`NewRecordSound`), and no record is ever removed from a copy or
changed but by a runbook's step, which keeps what its links say
(`LargerDocument`, `AdvancedSound`).
`StagesHaveNoDeadEnd` follows each link of a complete request to the record it finds. A
link that is named finds the record that stands (`DirectIsFound`, `NamedIsFound`). One
that leads through another must have passed because the stage before checked it, which
is the footing of the record it leads through, and its id finds it because nothing of its
list hides it (`GuaranteedIsFound`). `OpenPasses` puts the checks together. The key of the request is new because
no record on file or held is dated later than the clock (`DatedInv`).

`OfflineAgreement` (`OfflineAgreesWithServer`) compares a stage of the page with that of the server,
on whatever lists the page shows and whatever has lapsed. The two tables are constants, so what the theorem needs of them
is an assumption about each pair of rows, `ComparedAssumption`: but for the stages
named in `LenientOffline` and `StrictOffline`, each row `Covers` the other. A row covers
another if the links that the other's checks need are found by a click in the same way (`Alike`),
and whatever the other checks of the record found (that it is there, its status, what
is short in it, the key) the first has checked too, or knows without checking: a record whose status is only
given with nothing short (`Whole`) has nothing short. That last is
what the records on file owe to the stages that made them, so it needs an invariant,
`KnownInv`: the id of a record tells its list and its provider, and a record with such a status has
nothing short. It holds of the stored document, of every held copy and of the page's lists. From it,
the record that a click names by id is the one it was meant to name (`NewestIsNamed`,
`OfProviderIsNamed`: a newer record of the same millisecond would be of the same list and
provider, and is found as well), so both rows find the same one (`AlikeFound`), and a click that
passes by one passes by the other (`CoveredPasses`, `CoveredClickPasses`). TLC evaluates the
assumption on the real tables; the nine stages named are the ones whose rows fail it. What a row looks at
beside the chains is compared as well: `Unseen` are the facts that one row checks and the other does not.
The assumption says that no page row checks one that the server's does not, and that the server's checks
one more exactly at the thirteen stages of `FactBlindOffline`; at those the theorem has a click that passes offline
pass at the server only while these facts hold, and at all others it makes no
condition on the facts.

`ProvisioningGateProofs` proves `TypeCorrect`, `RejectionStopsAlways`,
`ChainHasNoDeadEnd` (`NoDeadEnd`) and
`Refinement`: for any names, switches, imports and bounds, `Spec` implements
`CreateAuthorization`. The inductive invariant adds to `TypeOK` that a rejected gate is Blocked and
that an approved gate of the plan on file is of a plan that passed. The first is what a
create relies on, for it looks at the stored status alone; the second is needed
because the create does not look at the dry-run again. Each action is one lemma that
maps it to a step of `CreateAuthorization` or to a stutter. `ChainHasNoDeadEnd`
follows the usual course record by record (`DocumentIsScoped`, `ProvedIsGrounded`,
`GroundedGateIsApproved`, `ApprovedGateIsAuthorised`, `AuthorisedIsAdmissible`). The scope that the
course records may last beyond `TimeBound`, so the documents along it are not of the type
the invariant speaks of; the lemmas use `ScopedDocument`, the same type but for
the scope's time, instead.

The assumptions are those the modules name: the job ids of different names differ
within each of the two templates, the seed uses the seeded statuses, the bounds
are naturals, the rows are `WellMade` and rows that share a list are told apart by
their statuses (`RowsAssumption`). `StagesHaveNoDeadEnd` also uses `LedAssumption` (where
a link leads through one that must have passed, and must have passed itself, every
stage of the list in between checked it) and `ListsAssumption` (no list is named like the
parts of a key). `OfflineAgreement` uses `ComparedAssumption`. TLC evaluates
them all; the assumptions about rows on every row of the server and of the page.
`FreshSavesImplementControlPlane` and its corollary assume `Durable`: the file store, or a memory store that
is not restarted.

Only model-checked: liveness (`EveryRequestIsAnswered`), which is out of the prover's reach. Every
invariant and every other property of a passing run is proved. The violations are of course TLC's.

## 5. Not modelled, and what is left

Within the modelled components: request parsing and role checks (a request may be
refused at any time), adapter configuration, quotas, idempotence identifiers and
payloads of Prism requests. Of the source VM that clones are made from there is one (the code allows one
UUID), and the cluster's other VMs are a number that does not change. Prism Element is taken to answer
with its whole inventory, as its list is asked for without a length. `Other`
requests do not touch the portal. In the evidence chains, texts and manifests are
inputs that are good or bad, and a request departs from the usual one in one respect
at a time. In the gate chain, the provider coverage of scopes and enablement reviews of
providers other than NCI are left out; so are drift and discovery in the inventory.
The doubling of the rate limiter's window at a boundary and the growth of its bucket map are
not watched. The browser's rendering and form state are left out, and so are its offline copies of
environments, approvals and the gate chain.

Not modelled at all, because they change no state or none that lasts: the simulator and mock
Prism harness (a test double whose tasks succeed at once, within what the Prism
of `AhvLifecycle` may do), the PostgreSQL scaffold (it always throws), and the
operations summaries and runtime readiness reports (functions of the document).

Order of the work, all of it done:

1. `ControlPlaneState`, `ControlPlane`, with proofs.
2. `ApiServer` over it, with proofs.
3. `AhvLifecycle`, with proofs.
4. `CreateAuthorization`, `ProvisioningGate`, with proofs.
5. The rows, `EvidenceChain` and the browser's copy, with proofs.
6. `BrowserStart`.
