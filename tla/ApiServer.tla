----------------------------- MODULE ApiServer -----------------------------
(***************************************************************************)
(* The request cycle of apiServer.ts over the repositories of storage.ts.   *)
(* Every /api/ request loads the whole ApiState, changes its own copy and,   *)
(* if it is a mutation, saves the whole copy back.  Nothing serialises the   *)
(* requests: between load() and the end of save() the server awaits a file   *)
(* read, the request body, mkdir and a file write, and other requests run.   *)
(*                                                                         *)
(* A document is the portal of ControlPlaneState plus the audit trail, an   *)
(* entry per mutation (the code may write two or three events for one, all   *)
(* in the same save).  Requests that change other parts of ApiState are      *)
(* "other": they too load, change and save the whole document.              *)
(***************************************************************************)
EXTENDS ControlPlaneState, Sequences

CONSTANTS
  Connections,          (* requests the server handles at a time            *)
  Backend,              (* MemoryStore or JsonFileStore                     *)
  auditRetentionEvents, (* NDC_AUDIT_RETENTION_EVENTS                       *)
  RequestBound,         (* requests in a behaviour                          *)
  FaultBound            (* restarts of the process and saves that fail, in a *)
                        (* behaviour                                        *)

ASSUME BackendAssumption == Backend \in {"memory", "json"}

ASSUME ServerBoundsAssumption ==
  /\ auditRetentionEvents \in Nat
  /\ RequestBound \in Nat
  /\ FaultBound \in Nat

VARIABLES
  store,      (* the document last written in full                          *)
  file,       (* what load() finds: that document, no file, or one that does *)
              (* not parse                                                   *)
  pc,         (* where each connection's request is                         *)
  asks,       (* the request it serves                                      *)
  held,       (* its copy of the document                                   *)
  raced,      (* another save wrote the file since it opened (truncated) it *)
  damaged,    (* history: two file writes overlapped, or a crash or an error *)
              (* cut one short                                               *)
  stale,      (* history: those that loaded before another one's save       *)
  requests, faults

vars == <<store, file, pc, asks, held, raced, damaged, stale, requests, faults>>

-----------------------------------------------------------------------------
CreateRequests == [kind : {"create"}, environment : Environments, approvalRequired : BOOLEAN]
DestroyRequests == [kind : {"destroy"}, environment : Environments]
DecisionRequests == [kind : {"decide"}, environment : Environments,
                     decision : {"Approved", "Rejected"}]
JobRequests == [kind : {"advance", "retry", "fail"}, job : JobIds]
OtherRequests == [kind : {"other", "read"}]

ApiRequests ==
  CreateRequests \cup DestroyRequests \cup DecisionRequests \cup JobRequests \cup OtherRequests

NoRequest == [kind |-> "read"]

AuditTrail == Seq(ApiRequests)
Document == [portal : Portal, audit : AuditTrail]
DefaultDocument == [portal |-> DefaultPortal, audit |-> <<>>]

(* The routes that call readJson between load() and save(). *)
AwaitsBody(request) == request.kind \in {"create", "advance", "retry", "fail", "other"}

(* The handler finds what it looks up; otherwise it answers 404. *)
Accepted(s, request) ==
  CASE request.kind = "destroy" -> EnvironmentExists(s, request.environment)
    [] request.kind = "decide" -> ApprovalExists(s, request.environment)
    [] request.kind \in {"advance", "fail"} -> JobExists(s, request.job)
    [] request.kind = "retry" ->
         JobExists(s, request.job) /\ s.jobs[request.job].retries < RetryBound
    [] OTHER -> TRUE

(* Mutant: a decision is saved without the jobs it released. *)
ServedWithoutRelease(s, request) ==
  CASE request.kind = "create" ->
         CreateEnvironmentRequest(s, request.environment, request.approvalRequired)
    [] request.kind = "destroy" -> RequestEnvironmentDestroy(s, request.environment)
    [] request.kind = "decide" ->
         [DecideApproval(s, request.environment, request.decision) EXCEPT !.jobs = s.jobs]
    [] request.kind = "advance" -> AdvanceControlPlaneJob(s, request.job)
    [] request.kind = "retry" -> RetryControlPlaneJob(s, request.job)
    [] request.kind = "fail" -> FailControlPlaneJob(s, request.job)
    [] OTHER -> s

Served(s, request) ==
  CASE request.kind = "create" ->
         CreateEnvironmentRequest(s, request.environment, request.approvalRequired)
    [] request.kind = "destroy" -> RequestEnvironmentDestroy(s, request.environment)
    [] request.kind = "decide" -> DecideApproval(s, request.environment, request.decision)
    [] request.kind = "advance" -> AdvanceControlPlaneJob(s, request.job)
    [] request.kind = "retry" -> RetryControlPlaneJob(s, request.job)
    [] request.kind = "fail" -> FailControlPlaneJob(s, request.job)
    [] OTHER -> s

(* addAuditEvent puts the newest first; save() keeps the newest ones. *)
Retained(audit) ==
  IF Len(audit) <= auditRetentionEvents THEN audit ELSE SubSeq(audit, 1, auditRetentionEvents)

ApplyRetention(document) == [document EXCEPT !.audit = Retained(@)]

(* Mutant: the newest event goes last. *)
HandledAppending(document, request) ==
  [portal |-> Served(document.portal, request),
   audit |-> document.audit \o <<request>>]

Handled(document, request) ==
  [portal |-> Served(document.portal, request),
   audit |-> <<request>> \o document.audit]

-----------------------------------------------------------------------------
Steps == {"idle", "load", "handle", "seedOpen", "seedWrite", "saveOpen", "saveWrite"}

(* What is stored, held and asked keeps its shape: the file in one of the three *)
(* conditions load() tells apart (storage.ts:314), the portal that of ApiState. *)
TypeOK ==
  /\ store \in Document
  /\ file \in {"readable", "missing", "torn"}
  /\ pc \in [Connections -> Steps]
  /\ asks \in [Connections -> ApiRequests]
  /\ held \in [Connections -> Document]
  /\ raced \in [Connections -> BOOLEAN]
  /\ damaged \in BOOLEAN
  /\ stale \in SUBSET Connections
  /\ requests \in 0..RequestBound
  /\ faults \in 0..FaultBound

Init ==
  /\ store = DefaultDocument
  /\ file = IF Backend = "memory" THEN "readable" ELSE "missing"
  /\ pc = [c \in Connections |-> "idle"]
  /\ asks = [c \in Connections |-> NoRequest]
  /\ held = [c \in Connections |-> DefaultDocument]
  /\ raced = [c \in Connections |-> FALSE]
  /\ damaged = FALSE
  /\ stale = {}
  /\ requests = 0
  /\ faults = 0

(* The response is sent: the handler's copy of the state is gone. *)
Answer(c) ==
  /\ pc' = [pc EXCEPT ![c] = "idle"]
  /\ asks' = [asks EXCEPT ![c] = NoRequest]
  /\ held' = [held EXCEPT ![c] = DefaultDocument]

(* MemoryStore's load and save do no I/O: a handler that does not wait for a *)
(* body runs from load() to save() within one turn of the event loop.        *)
HoldsTheLoop(c) == Backend = "memory" /\ pc[c] = "handle" /\ ~AwaitsBody(asks[c])

Turn(c) == \A d \in Connections \ {c} : ~HoldsTheLoop(d)

Arrive(c, request) ==
  /\ Turn(c)
  /\ pc[c] = "idle"
  /\ requests < RequestBound
  /\ requests' = requests + 1
  /\ pc' = [pc EXCEPT ![c] = "load"]
  /\ asks' = [asks EXCEPT ![c] = request]
  /\ UNCHANGED <<store, file, held, raced, damaged, stale, faults>>

(* A read answers from its copy; a mutation goes on with it. *)
LoadDocument(c) ==
  /\ pc[c] = "load"
  /\ Turn(c)
  /\ file = "readable"
  /\ IF asks[c].kind = "read"
     THEN Answer(c)
     ELSE /\ held' = [held EXCEPT ![c] = store]
          /\ pc' = [pc EXCEPT ![c] = "handle"]
          /\ UNCHANGED asks
  /\ UNCHANGED <<store, file, raced, damaged, stale, requests, faults>>

(* ENOENT: the default state is saved before it is used. *)
LoadMissing(c) ==
  /\ pc[c] = "load"
  /\ file = "missing"
  /\ held' = [held EXCEPT ![c] = DefaultDocument]
  /\ pc' = [pc EXCEPT ![c] = "seedOpen"]
  /\ UNCHANGED <<store, file, asks, raced, damaged, stale, requests, faults>>

(* Mutants: any read error re-seeds the file; the rejection is never answered. *)
LoadTornReseeding(c) ==
  /\ pc[c] = "load"
  /\ file = "torn"
  /\ held' = [held EXCEPT ![c] = DefaultDocument]
  /\ pc' = [pc EXCEPT ![c] = "seedOpen"]
  /\ UNCHANGED <<store, file, asks, raced, damaged, stale, requests, faults>>

LoadTornUnanswered(c) ==
  /\ pc[c] = "load"
  /\ file = "torn"
  /\ UNCHANGED vars

(* JSON.parse throws, load() rethrows and the client gets a 500. *)
LoadTorn(c) ==
  /\ pc[c] = "load"
  /\ file = "torn"
  /\ Answer(c)
  /\ UNCHANGED <<store, file, raced, damaged, stale, requests, faults>>

(* A failed role check, look-up or gate, or a body that does not parse: the    *)
(* handler throws before it saves.                                            *)
Refuse(c) ==
  /\ pc[c] = "handle"
  /\ Turn(c)
  /\ Answer(c)
  /\ stale' = stale \ {c}
  /\ UNCHANGED <<store, file, raced, damaged, requests, faults>>

(* A save lands: whoever else has loaded by then works on an older document. *)
Overtakes(c) == stale' = {d \in Connections \ {c} : pc[d] \notin {"idle", "load"}}

Handle(c) ==
  /\ pc[c] = "handle"
  /\ Turn(c)
  /\ Accepted(held[c].portal, asks[c])
  /\ LET saved == ApplyRetention(Handled(held[c], asks[c])) IN
     \/ Backend = "memory" /\ store' = saved /\ Answer(c) /\ Overtakes(c)
     \/ /\ Backend = "json"
        /\ held' = [held EXCEPT ![c] = saved]
        /\ pc' = [pc EXCEPT ![c] = "saveOpen"]
        /\ UNCHANGED <<store, asks, stale>>
  /\ UNCHANGED <<file, raced, damaged, requests, faults>>

Writing(c) == pc[c] \in {"seedWrite", "saveWrite"}

(* writeFile opens with O_TRUNC: until it has written, the file is empty. *)
OpenFile(c) ==
  /\ pc[c] \in {"seedOpen", "saveOpen"}
  /\ pc' = [pc EXCEPT ![c] = IF @ = "seedOpen" THEN "seedWrite" ELSE "saveWrite"]
  /\ file' = "torn"
  /\ raced' = [d \in Connections |-> FALSE]
  /\ damaged' = (damaged \/ \E d \in Connections \ {c} : Writing(d))
  /\ UNCHANGED <<store, asks, held, stale, requests, faults>>

(* A write that was lost overtakes nobody. *)
Drops(c) == stale' = IF pc'[c] = "idle" THEN stale \ {c} ELSE stale

(* Mutant: a write may stop half way without an error. *)
WriteFileShort(c) ==
  /\ Writing(c)
  /\ IF pc[c] = "saveWrite" \/ asks[c].kind = "read"
     THEN Answer(c)
     ELSE pc' = [pc EXCEPT ![c] = "handle"] /\ UNCHANGED <<asks, held>>
  /\ \/ file' = "readable" /\ store' = held[c] /\ Overtakes(c)
     \/ file' = "torn" /\ UNCHANGED store /\ Drops(c)
  /\ raced' = [d \in Connections |-> d # c /\ Writing(d)]
  /\ UNCHANGED <<damaged, requests, faults>>

(* After a save answers 200; after seeding the handler starts.  A document   *)
(* written over another one from offset 0 leaves the longer one's tail: the  *)
(* file holds either this document or something that does not parse.         *)
WriteFile(c) ==
  /\ Writing(c)
  /\ IF pc[c] = "saveWrite" \/ asks[c].kind = "read"
     THEN Answer(c)
     ELSE pc' = [pc EXCEPT ![c] = "handle"] /\ UNCHANGED <<asks, held>>
  /\ \/ file' = "readable" /\ store' = held[c] /\ Overtakes(c)
     \/ raced[c] /\ file' = "torn" /\ UNCHANGED store /\ Drops(c)
  /\ raced' = [d \in Connections |-> d # c /\ Writing(d)]
  /\ UNCHANGED <<damaged, requests, faults>>

(* mkdir, the opening or the writing rejects (no space, an I/O error): 500.  A *)
(* write that fails leaves the file it truncated empty or cut short, unless    *)
(* another save has written it since.                                         *)
SaveFails(c) ==
  /\ pc[c] \in {"seedOpen", "saveOpen", "seedWrite", "saveWrite"}
  /\ faults < FaultBound
  /\ faults' = faults + 1
  /\ Answer(c)
  /\ file' \in {file} \cup {f \in {"torn"} : Writing(c)}
  /\ raced' = [d \in Connections |-> IF Writing(c) THEN d # c /\ Writing(d) ELSE raced[d]]
  /\ damaged' = (damaged \/ Writing(c))
  /\ stale' = stale \ {c}
  /\ UNCHANGED <<store, requests>>

(* The process stops: requests in flight are lost, the memory store with them. *)
Crash ==
  /\ faults < FaultBound
  /\ faults' = faults + 1
  /\ pc' = [c \in Connections |-> "idle"]
  /\ asks' = [c \in Connections |-> NoRequest]
  /\ held' = [c \in Connections |-> DefaultDocument]
  /\ raced' = [c \in Connections |-> FALSE]
  /\ store' = IF Backend = "memory" THEN DefaultDocument ELSE store
  /\ damaged' = (damaged \/ \E c \in Connections : Writing(c))
  /\ stale' = {}
  /\ UNCHANGED <<file, requests>>

Progress(c) ==
  \/ LoadDocument(c) \/ LoadMissing(c) \/ LoadTorn(c)
  \/ Refuse(c) \/ Handle(c) \/ OpenFile(c) \/ WriteFile(c)

Next ==
  \/ \E c \in Connections, request \in ApiRequests : Arrive(c, request)
  \/ \E c \in Connections : Progress(c)
  \/ \E c \in Connections : SaveFails(c)
  \/ Crash

Spec == Init /\ [][Next]_vars

(* Node's event loop resumes every handler whose read, write or body is done. *)
FairSpec == Spec /\ \A c \in Connections : WF_vars(Progress(c))

-----------------------------------------------------------------------------
StoredPortals == {store.portal} \cup {held[c].portal : c \in Connections}

(* Lost updates never produce a portal no serial run of requests produces:    *)
(* what is stored, and what any request works on, has every invariant of the  *)
(* control plane (load(), the handlers and save() of storage.ts:295-336).     *)
PortalsAreSound ==
  \A s \in StoredPortals :
    /\ PausedJobsUndecided(s)
    /\ NeedsApprovalIsOpen(s)
    /\ AttemptsAccountedFor(s)
    /\ GatedUntilDecided(s)
    /\ UnretriedTeardownsTearDown(s)

(* An environment being torn down, or torn down, has its teardown job, in     *)
(* every document saved or worked on, if no two names share a job id.         *)
TeardownsAreTracked == NoSharedJobId => \A s \in StoredPortals : TeardownTracked(s)

(* An environment is shown as Ready only if it was seeded so and never acted   *)
(* on, or a job of its own entered Provisioning, in every document saved or    *)
(* worked on (advanceControlPlaneJob, controlPlane.ts:115), if no two names    *)
(* share a job id.                                                            *)
ReadyIsEarned == NoSharedJobId => \A s \in StoredPortals : ReadyWasProvisioned(s)

(* The portal a trail of requests leads to from the default state, the oldest *)
(* request first: it is the last of the trail.                               *)
Replay(audit) ==
  LET after[i \in 0..Len(audit)] ==
        IF i = 0 THEN DefaultPortal ELSE Served(after[i - 1], audit[Len(audit) + 1 - i])
  IN  after[Len(audit)]

(* While nothing has been rotated out, the audit trail explains the stored    *)
(* portal exactly: replaying it from the seed gives that portal.  A lost       *)
(* update loses its audit event with it (one save writes both).               *)
AuditExplainsPortal ==
  Len(store.audit) < auditRetentionEvents => store.portal = Replay(store.audit)

(* An unreadable file that nobody is writing comes from two overlapping saves, *)
(* or from one that a crash or an error cut short (storage.ts:334): serial use *)
(* in which every write succeeds never corrupts it.                           *)
QuietFileIsReadable ==
  (file = "torn" /\ \A c \in Connections : ~Writing(c)) => damaged

(* Once unreadable with no save under way, the file stays unreadable and no   *)
(* request gets further than reading it: every route loads first, and a parse *)
(* error is not the ENOENT that re-seeds it.  Only an operator repairs it.    *)
AllStuck == file = "torn" /\ \A c \in Connections : pc[c] \in {"idle", "load"}
TornFileNeedsAnOperator == [][AllStuck => AllStuck']_vars

(* One request at a time, the server implements the control plane: the memory *)
(* store while the process lives, the JSON file also over restarts.           *)
Serial == INSTANCE ControlPlane WITH portal <- store.portal
ImplementsControlPlane == Serial!Spec

(* A save by a request that loaded before another one's save. *)
StaleSave == \E c \in stale : Handle(c) \/ WriteFile(c)

(* The server's steps that are the control plane's, or none of it, or one of    *)
(* the two that set it apart.                                                 *)
Explicable ==
  \/ [Serial!Next]_(Serial!vars)
  \/ StaleSave
  \/ Backend = "memory" /\ Crash

(* However many requests are open, the stored portal makes the control plane's *)
(* steps, but where a stale copy is saved over a newer document or a restart   *)
(* empties the memory store: that load() and save() are not one step, and that *)
(* save() compares no version, is all that sets the server apart.              *)
OnlyStaleSavesLoseUpdates == [][Explicable]_vars

(* Every request is answered, whatever the others and the file do.            *)
EveryRequestIsAnswered == \A c \in Connections : pc[c] = "load" ~> pc[c] = "idle"

(* api.md:267: "Approval decisions update the stored approval request": only  *)
(* another decision, or a new request for the environment, changes it.        *)
StoredDecisionsStand ==
  [][\A n \in Environments :
       (/\ store.portal.approvals[n] \in {"Approved", "Rejected"}
        /\ store'.portal.approvals[n] # store.portal.approvals[n])
         => \E c \in Connections :
              /\ pc[c] # "idle" /\ pc'[c] = "idle"
              /\ asks[c].kind \in {"create", "decide"}]_vars
=============================================================================
