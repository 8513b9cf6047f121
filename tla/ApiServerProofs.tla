-------------------------- MODULE ApiServerProofs --------------------------
(***************************************************************************)
(* Whatever the interleaving of requests, the backend and the faults: what   *)
(* the server stores, and what any request holds, is a document whose portal *)
(* has the control plane's invariants.  A save may overwrite another one, but *)
(* every document was made by handlers from a document that had them.        *)
(***************************************************************************)
EXTENDS ApiServer, ControlPlaneStateProofs, SequenceTheorems, WellFoundedInduction

(* What a request of each kind carries. *)
LEMMA RequestFields ==
  ASSUME NEW request \in ApiRequests
  PROVE  /\ request.kind \in {"create", "destroy", "decide", "advance", "retry", "fail", "other", "read"}
         /\ request.kind \in {"create", "destroy", "decide"} => request.environment \in Environments
         /\ request.kind = "create" => request.approvalRequired \in BOOLEAN
         /\ request.kind = "decide" => request.decision \in {"Approved", "Rejected"}
         /\ request.kind \in {"advance", "retry", "fail"} => request.job \in JobIds
BY DEF ApiRequests, CreateRequests, DestroyRequests, DecisionRequests, JobRequests, OtherRequests

(* An accepted request preserves the control plane's invariant. *)
LEMMA ServedPreserves ==
  ASSUME NEW s, PortalInv(s), NEW request \in ApiRequests, Accepted(s, request)
  PROVE  Preserved(s, Served(s, request))
<1>1. CASE request.kind = "create"
  BY <1>1, RequestFields, CreatePreserves DEF Served
<1>2. CASE request.kind = "destroy"
  BY <1>2, RequestFields, DestroyPreserves DEF Served, Accepted
<1>3. CASE request.kind = "decide"
  BY <1>3, RequestFields, DecidePreserves DEF Served
<1>4. CASE request.kind = "advance"
  BY <1>4, RequestFields, AdvancePreserves DEF Served, Accepted
<1>5. CASE request.kind = "retry"
  BY <1>5, RequestFields, RetryPreserves DEF Served, Accepted
<1>6. CASE request.kind = "fail"
  BY <1>6, RequestFields, FailPreserves DEF Served, Accepted
<1>7. CASE request.kind \in {"other", "read"}
  BY <1>7 DEF Served, Preserved
<1>8. QED
  BY <1>1, <1>2, <1>3, <1>4, <1>5, <1>6, <1>7, RequestFields

(* A document the server may store: a sound portal and an audit trail. *)
SoundDocument(d) ==
  /\ d \in Document
  /\ PortalInv(d.portal)
  /\ NoSharedJobId => TeardownTracked(d.portal) /\ ReadyWasProvisioned(d.portal)

(* createDefaultState is one. *)
LEMMA DefaultDocumentSound == SoundDocument(DefaultDocument)
<1>1. DefaultDocument = [portal |-> DefaultPortal, audit |-> <<>>]
  BY DEF DefaultDocument
<1>2. DefaultPortal \in Portal
  BY DefaultPortalInv DEF PortalInv
<1>3. <<>> \in AuditTrail
  BY DEF AuditTrail
<1>4. QED
  BY <1>1, <1>2, <1>3, DefaultPortalInv DEF SoundDocument, Document

(* What a mutation saves is one: the handler's portal and the retained audit. *)
LEMMA SavedDocumentSound ==
  ASSUME NEW d, SoundDocument(d), NEW request \in ApiRequests, Accepted(d.portal, request)
  PROVE  SoundDocument(ApplyRetention(Handled(d, request)))
<1> DEFINE new == Served(d.portal, request)
           trail == <<request>> \o d.audit
           kept == Retained(trail)
<1>1. Preserved(d.portal, new)
  BY ServedPreserves DEF SoundDocument
<1>2. d.audit \in Seq(ApiRequests)
  BY DEF SoundDocument, Document, AuditTrail
<1>3. trail \in Seq(ApiRequests)
  BY <1>2, ConcatProperties
<1>4. kept \in Seq(ApiRequests)
  <2>1. CASE Len(trail) <= auditRetentionEvents
    BY <1>3, <2>1 DEF Retained
  <2>2. CASE ~(Len(trail) <= auditRetentionEvents)
    <3>1. \A i \in 1..auditRetentionEvents : trail[i] \in ApiRequests
      BY <1>3, <2>2, ServerBoundsAssumption, LenProperties
    <3>2. SubSeq(trail, 1, auditRetentionEvents) \in Seq(ApiRequests)
      <4>1. 1 \in Int /\ auditRetentionEvents \in Int
        BY ServerBoundsAssumption
      <4> HIDE DEF trail
      <4>2. QED
        BY <3>1, <4>1, SubSeqProperties, Zenon
    <3>3. QED
      BY <2>2, <3>2 DEF Retained
  <2>3. QED
    BY <2>1, <2>2
<1>5. ApplyRetention(Handled(d, request)) = [portal |-> new, audit |-> kept]
  BY DEF ApplyRetention, Handled
<1> HIDE DEF new, kept
<1>6. QED
  BY <1>1, <1>4, <1>5 DEF SoundDocument, Preserved, PortalInv, Document, AuditTrail

-----------------------------------------------------------------------------
(* The inductive invariant: sound documents in the store and in every handler. *)
IInv ==
  /\ asks \in [Connections -> ApiRequests]
  /\ held \in [Connections -> Document]
  /\ SoundDocument(store)
  /\ \A c \in Connections : SoundDocument(held[c])

LEMMA NoRequestType == NoRequest \in ApiRequests
BY DEF NoRequest, ApiRequests, OtherRequests

(* A handler given a sound document keeps the invariant. *)
LEMMA HoldPreserves ==
  ASSUME IInv, NEW c \in Connections, NEW d, SoundDocument(d),
         held' = [held EXCEPT ![c] = d], asks' = asks, store' = store
  PROVE  IInv'
<1>1. d \in Document
  BY DEF SoundDocument
<1>2. held' \in [Connections -> Document]
  BY <1>1 DEF IInv
<1>3. \A e \in Connections : held'[e] = IF e = c THEN d ELSE held[e]
  BY DEF IInv
<1>4. \A e \in Connections : SoundDocument(held'[e])
  BY <1>3 DEF IInv
<1>5. QED
  BY <1>2, <1>4 DEF IInv

(* Storing a sound document, or none, and answering keeps the invariant: the  *)
(* handler's own copy is gone.                                                *)
LEMMA AnswerPreserves ==
  ASSUME IInv, NEW c \in Connections, Answer(c), SoundDocument(store')
  PROVE  IInv'
<1>1. /\ asks' = [asks EXCEPT ![c] = NoRequest]
      /\ held' = [held EXCEPT ![c] = DefaultDocument]
  BY DEF Answer
<1>2. DefaultDocument \in Document
  BY DefaultDocumentSound DEF SoundDocument
<1>3. asks' \in [Connections -> ApiRequests] /\ held' \in [Connections -> Document]
  BY <1>1, <1>2, NoRequestType DEF IInv
<1>4. \A d \in Connections : held'[d] = IF d = c THEN DefaultDocument ELSE held[d]
  BY <1>1 DEF IInv
<1>5. \A d \in Connections : SoundDocument(held'[d])
  BY <1>4, DefaultDocumentSound DEF IInv
<1>6. QED
  BY <1>3, <1>5 DEF IInv

(* Every step keeps the documents sound. *)
LEMMA StepPreserves ==
  ASSUME IInv, Next
  PROVE  IInv'
<1>0. SoundDocument(store)
  BY DEF IInv
<1>1. ASSUME NEW c \in Connections, NEW request \in ApiRequests, Arrive(c, request)
      PROVE  IInv'
  BY <1>1 DEF Arrive, IInv
<1>2. ASSUME NEW c \in Connections, LoadDocument(c)
      PROVE  IInv'
  <2>1. CASE Answer(c)
    BY <1>0, <1>2, <2>1, AnswerPreserves DEF LoadDocument
  <2>2. CASE held' = [held EXCEPT ![c] = store] /\ UNCHANGED asks
    BY <1>0, <1>2, <2>2, HoldPreserves DEF LoadDocument
  <2>3. QED
    BY <1>2, <2>1, <2>2 DEF LoadDocument
<1>3. ASSUME NEW c \in Connections, LoadMissing(c)
      PROVE  IInv'
  BY <1>3, HoldPreserves, DefaultDocumentSound DEF LoadMissing
<1>4. ASSUME NEW c \in Connections, LoadTorn(c)
      PROVE  IInv'
  BY <1>0, <1>4, AnswerPreserves DEF LoadTorn
<1>5. ASSUME NEW c \in Connections, Refuse(c)
      PROVE  IInv'
  BY <1>0, <1>5, AnswerPreserves DEF Refuse
<1>6. ASSUME NEW c \in Connections, Handle(c)
      PROVE  IInv'
  <2> DEFINE saved == ApplyRetention(Handled(held[c], asks[c]))
  <2>1. SoundDocument(saved)
    BY <1>6, SavedDocumentSound DEF Handle, IInv
  <2>2. \/ store' = saved /\ Answer(c)
        \/ held' = [held EXCEPT ![c] = saved] /\ UNCHANGED <<store, asks>>
    BY <1>6 DEF Handle
  <2> HIDE DEF saved
  <2>3. QED
    BY <2>1, <2>2, AnswerPreserves, HoldPreserves
<1>7. ASSUME NEW c \in Connections, OpenFile(c)
      PROVE  IInv'
  BY <1>7 DEF OpenFile, IInv
<1>8. ASSUME NEW c \in Connections, WriteFile(c)
      PROVE  IInv'
  <2>1. store' = held[c] \/ store' = store
    BY <1>8 DEF WriteFile
  <2>2. SoundDocument(store')
    BY <2>1 DEF IInv
  <2>3. Answer(c) \/ UNCHANGED <<asks, held>>
    BY <1>8 DEF WriteFile
  <2>4. CASE UNCHANGED <<asks, held>>
    BY <2>2, <2>4 DEF IInv
  <2>5. QED
    BY <2>2, <2>3, <2>4, AnswerPreserves
<1>9. ASSUME Crash
      PROVE  IInv'
  <2>1. /\ asks' = [c \in Connections |-> NoRequest]
        /\ held' = [c \in Connections |-> DefaultDocument]
        /\ store' = DefaultDocument \/ store' = store
    BY <1>9 DEF Crash
  <2>2. DefaultDocument \in Document
    BY DefaultDocumentSound DEF SoundDocument
  <2>3. QED
    BY <2>1, <2>2, DefaultDocumentSound, NoRequestType DEF IInv
<1>10. ASSUME NEW c \in Connections, SaveFails(c)
       PROVE  IInv'
  BY <1>0, <1>10, AnswerPreserves DEF SaveFails
<1>11. QED
  BY <1>1, <1>2, <1>3, <1>4, <1>5, <1>6, <1>7, <1>8, <1>9, <1>10 DEF Next, Progress

(* The documents stay sound. *)
THEOREM InductiveInvariant == Spec => []IInv
<1>1. Init => IInv
  <2> SUFFICES ASSUME Init PROVE IInv
    OBVIOUS
  <2>1. /\ asks = [c \in Connections |-> NoRequest]
        /\ held = [c \in Connections |-> DefaultDocument]
        /\ store = DefaultDocument
    BY DEF Init
  <2>2. DefaultDocument \in Document
    BY DefaultDocumentSound DEF SoundDocument
  <2>3. QED
    BY <2>1, <2>2, DefaultDocumentSound, NoRequestType DEF IInv
<1>2. IInv /\ [Next]_vars => IInv'
  <2>1. IInv /\ UNCHANGED vars => IInv'
    BY DEF vars, IInv
  <2>2. QED
    BY <2>1, StepPreserves
<1>3. QED
  BY <1>1, <1>2, PTL DEF Spec

(* However requests interleave, crash and overwrite each other's saves, no     *)
(* portal stored or worked on lacks a control-plane invariant.                 *)
THEOREM PortalsStaySound == Spec => []PortalsAreSound
<1>1. IInv => PortalsAreSound
  BY DEF IInv, SoundDocument, PortalInv, PortalsAreSound, StoredPortals
<1>2. QED
  BY <1>1, InductiveInvariant, PTL

(* Nor does one lose track of a teardown, while no two names share a job id.   *)
THEOREM TeardownsStayTracked == Spec => []TeardownsAreTracked
<1>1. IInv => TeardownsAreTracked
  BY DEF IInv, SoundDocument, TeardownsAreTracked, StoredPortals
<1>2. QED
  BY <1>1, InductiveInvariant, PTL

(* Nor is one shown as Ready that no job of its own was provisioned for.       *)
THEOREM ReadyStaysEarned == Spec => []ReadyIsEarned
<1>1. IInv => ReadyIsEarned
  BY DEF IInv, SoundDocument, ReadyIsEarned, StoredPortals
<1>2. QED
  BY <1>1, InductiveInvariant, PTL

-----------------------------------------------------------------------------
(* Types *)

(* A request's phase: what an answer, or a step from one phase to another,    *)
(* leaves of the type of pc.                                                  *)
LEMMA StepsStay ==
  ASSUME pc \in [Connections -> Steps], NEW c \in Connections, NEW step \in Steps,
         pc' = [pc EXCEPT ![c] = step]
  PROVE  pc' \in [Connections -> Steps]
OBVIOUS

(* The part of TypeOK that IInv does not give. *)
PhasesOK ==
  /\ file \in {"readable", "missing", "torn"}
  /\ pc \in [Connections -> Steps]
  /\ raced \in [Connections -> BOOLEAN]
  /\ damaged \in BOOLEAN
  /\ stale \in SUBSET Connections
  /\ requests \in 0..RequestBound
  /\ faults \in 0..FaultBound

LEMMA PhasesStay ==
  ASSUME PhasesOK, [Next]_vars
  PROVE  PhasesOK'
<1>1. CASE UNCHANGED vars
  BY <1>1 DEF PhasesOK, vars
<1>2. ASSUME NEW c \in Connections, NEW request \in ApiRequests, Arrive(c, request)
      PROVE  PhasesOK'
  BY <1>2, ServerBoundsAssumption DEF Arrive, PhasesOK, Steps
<1>3. ASSUME NEW c \in Connections, LoadDocument(c) \/ LoadMissing(c) \/ LoadTorn(c)
      PROVE  PhasesOK'
  BY <1>3 DEF LoadDocument, LoadMissing, LoadTorn, Answer, PhasesOK, Steps
<1>4. ASSUME NEW c \in Connections, Refuse(c) \/ Handle(c)
      PROVE  PhasesOK'
  BY <1>4 DEF Refuse, Handle, Overtakes, Answer, PhasesOK, Steps
<1>5. ASSUME NEW c \in Connections, OpenFile(c)
      PROVE  PhasesOK'
  BY <1>5 DEF OpenFile, Writing, PhasesOK, Steps
<1>6. ASSUME NEW c \in Connections, WriteFile(c)
      PROVE  PhasesOK'
  BY <1>6 DEF WriteFile, Overtakes, Drops, Answer, Writing, PhasesOK, Steps
<1>7. CASE Crash
  BY <1>7, ServerBoundsAssumption DEF Crash, Writing, PhasesOK, Steps
<1>8. ASSUME NEW c \in Connections, SaveFails(c)
      PROVE  PhasesOK'
  <2>1. /\ pc' = [pc EXCEPT ![c] = "idle"] /\ "idle" \in Steps
        /\ file' \in {file, "torn"}
        /\ requests' = requests /\ faults < FaultBound /\ faults' = faults + 1
    BY <1>8 DEF SaveFails, Answer, Steps
  <2>2. damaged' \in BOOLEAN /\ stale' \in SUBSET Connections
    BY <1>8 DEF SaveFails, Writing, PhasesOK
  <2>3. raced' \in [Connections -> BOOLEAN]
    <3>1. \A d \in Connections : (IF Writing(c) THEN d # c /\ Writing(d) ELSE raced[d]) \in BOOLEAN
      BY DEF Writing, PhasesOK
    <3>2. QED
      BY <1>8, <3>1 DEF SaveFails
  <2>4. faults' \in 0..FaultBound
    BY <2>1, ServerBoundsAssumption DEF PhasesOK
  <2>5. QED
    BY <2>1, <2>2, <2>3, <2>4, StepsStay DEF PhasesOK
<1>9. QED
  BY <1>1, <1>2, <1>3, <1>4, <1>5, <1>6, <1>7, <1>8 DEF Next, Progress

LEMMA PhasesInvariant == Spec => []PhasesOK
<1>1. Init => PhasesOK
  <2> SUFFICES ASSUME Init PROVE PhasesOK
    OBVIOUS
  <2>1. file \in {"readable", "missing", "torn"}
    BY DEF Init
  <2>2. requests \in 0..RequestBound /\ faults \in 0..FaultBound
    BY ServerBoundsAssumption DEF Init
  <2>3. /\ pc \in [Connections -> Steps] /\ raced \in [Connections -> BOOLEAN]
        /\ damaged \in BOOLEAN /\ stale \in SUBSET Connections
    BY DEF Init, Steps
  <2>4. QED
    BY <2>1, <2>2, <2>3 DEF PhasesOK
<1>2. QED
  BY <1>1, PhasesStay, PTL DEF Spec

(* Every variable keeps the shape the code gives it: in particular what is     *)
(* stored and held is always a whole document, never part of one.              *)
THEOREM TypeCorrect == Spec => []TypeOK
<1>1. IInv /\ PhasesOK => TypeOK
  BY DEF IInv, PhasesOK, SoundDocument, TypeOK
<1>2. QED
  BY <1>1, InductiveInvariant, PhasesInvariant, PTL

-----------------------------------------------------------------------------
(* The file *)

(* Until two writes overlap, or a crash or an error cuts one short, at most one *)
(* handler writes, it has not been raced, and the file is unreadable only while *)
(* it writes.                                                                 *)
FileInv ==
  ~damaged =>
    /\ \A c, d \in Connections : Writing(c) /\ Writing(d) => c = d
    /\ \A c \in Connections : ~raced[c]
    /\ file = "torn" => \E c \in Connections : Writing(c)

(* A step of a handler that is not writing, and does not start to. *)
LEMMA FileUntouched ==
  ASSUME FileInv, UNCHANGED <<file, raced, damaged>>,
         \A d \in Connections : Writing(d)' <=> Writing(d)
  PROVE  FileInv'
BY DEF FileInv

LEMMA FileStays ==
  ASSUME PhasesOK, FileInv, [Next]_vars
  PROVE  FileInv'
<1> USE DEF PhasesOK
<1>1. CASE UNCHANGED vars
  BY <1>1, FileUntouched DEF vars, Writing
<1>2. ASSUME NEW c \in Connections, NEW request \in ApiRequests, Arrive(c, request)
      PROVE  FileInv'
  BY <1>2, FileUntouched DEF Arrive, Writing
<1>3. ASSUME NEW c \in Connections, LoadDocument(c) \/ LoadMissing(c) \/ LoadTorn(c)
      PROVE  FileInv'
  BY <1>3, FileUntouched DEF LoadDocument, LoadMissing, LoadTorn, Answer, Writing
<1>4. ASSUME NEW c \in Connections, Refuse(c) \/ Handle(c)
      PROVE  FileInv'
  BY <1>4, FileUntouched DEF Refuse, Handle, Answer, Writing
<1>5. ASSUME NEW c \in Connections, OpenFile(c)
      PROVE  FileInv'
  <2> SUFFICES ASSUME ~damaged'
               PROVE  /\ \A d, e \in Connections : Writing(d)' /\ Writing(e)' => d = e
                      /\ \A d \in Connections : ~raced'[d]
                      /\ file' = "torn" => \E d \in Connections : Writing(d)'
    BY DEF FileInv
  <2>1. \A d \in Connections \ {c} : ~Writing(d)
    BY <1>5 DEF OpenFile
  <2>2. Writing(c)' /\ \A d \in Connections \ {c} : ~Writing(d)'
    BY <1>5, <2>1 DEF OpenFile, Writing
  <2>3. \A d \in Connections : ~raced'[d]
    BY <1>5 DEF OpenFile
  <2>4. QED
    BY <2>2, <2>3
<1>6. ASSUME NEW c \in Connections, WriteFile(c)
      PROVE  FileInv'
  <2> SUFFICES ASSUME ~damaged'
               PROVE  /\ \A d, e \in Connections : Writing(d)' /\ Writing(e)' => d = e
                      /\ \A d \in Connections : ~raced'[d]
                      /\ file' = "torn" => \E d \in Connections : Writing(d)'
    BY DEF FileInv
  <2>1. ~damaged /\ Writing(c)
    BY <1>6 DEF WriteFile
  <2>2. \A d \in Connections \ {c} : ~Writing(d)
    BY <2>1 DEF FileInv
  <2>3. ~raced[c]
    BY <2>1 DEF FileInv
  <2>4. file' = "readable"
    BY <1>6, <2>3 DEF WriteFile
  <2>5. \A d \in Connections : ~raced'[d]
    BY <1>6, <2>2 DEF WriteFile
  <2>6. \A d \in Connections : ~Writing(d)'
    BY <1>6, <2>2 DEF WriteFile, Answer, Writing
  <2>7. QED
    BY <2>4, <2>5, <2>6
<1>7. CASE Crash
  BY <1>7 DEF Crash, FileInv, Writing
<1>8. ASSUME NEW c \in Connections, SaveFails(c)
      PROVE  FileInv'
  <2>1. CASE Writing(c)
    BY <1>8, <2>1 DEF SaveFails, FileInv
  <2>2. CASE ~Writing(c)
    <3>1. raced' = raced /\ file' = file /\ damaged' = damaged
      BY <1>8, <2>2 DEF SaveFails
    <3>2. \A d \in Connections : Writing(d)' <=> Writing(d)
      BY <1>8, <2>2 DEF SaveFails, Answer, Writing
    <3>3. QED
      BY <3>1, <3>2, FileUntouched
  <2>3. QED
    BY <2>1, <2>2
<1>9. QED
  BY <1>1, <1>2, <1>3, <1>4, <1>5, <1>6, <1>7, <1>8 DEF Next, Progress

(* Serial use in which every write succeeds never corrupts the file: an         *)
(* unreadable file that nobody is writing comes from two overlapping writes, or  *)
(* from one that a crash or an error cut short.                               *)
THEOREM QuietFilesAreReadable == Spec => []QuietFileIsReadable
<1>1. Init => FileInv
  BY DEF Init, FileInv, Writing
<1>2. FileInv => QuietFileIsReadable
  BY DEF FileInv, QuietFileIsReadable
<1>3. QED
  BY <1>1, <1>2, FileStays, PhasesInvariant, PTL DEF Spec

(* Once the file is unreadable and no save is under way, no request or restart  *)
(* repairs it: load() throws for every route before anything could write.       *)
THEOREM TornFilesStayTorn == Spec => TornFileNeedsAnOperator
<1>1. ASSUME PhasesOK, [Next]_vars, AllStuck
      PROVE  AllStuck'
  <2> USE DEF AllStuck, PhasesOK
  <2>1. CASE UNCHANGED vars
    BY <1>1, <2>1 DEF vars
  <2>2. ASSUME NEW c \in Connections, NEW request \in ApiRequests, Arrive(c, request)
        PROVE  AllStuck'
    BY <1>1, <2>2 DEF Arrive
  <2>3. ASSUME NEW c \in Connections, Progress(c)
        PROVE  AllStuck'
    <3>1. LoadTorn(c)
      BY <1>1, <2>3
      DEF Progress, LoadDocument, LoadMissing, Refuse, Handle, OpenFile, WriteFile, Writing
    <3>2. QED
      BY <1>1, <3>1 DEF LoadTorn, Answer
  <2>4. CASE Crash
    BY <1>1, <2>4 DEF Crash
  <2>5. ASSUME NEW c \in Connections
        PROVE  ~SaveFails(c)
    BY <1>1 DEF SaveFails
  <2>6. QED
    BY <1>1, <2>1, <2>2, <2>3, <2>4, <2>5 DEF Next
<1>2. QED
  BY <1>1, PhasesInvariant, PTL DEF Spec, TornFileNeedsAnOperator

-----------------------------------------------------------------------------
(* The audit trail *)

LEMMA LeastNumber ==
  ASSUME NEW S \in SUBSET Nat, S # {}
  PROVE  \E i \in S : \A j \in S : i <= j
<1>1. \E i \in S : \A j \in S : ~(<<j, i>> \in OpToRel(<, Nat))
  BY NatLessThanWellFounded, WFMin
<1>2. \A i, j \in Nat : j < i => <<j, i>> \in OpToRel(<, Nat)
  BY DEF OpToRel
<1>3. PICK i \in S : \A j \in S : ~(<<j, i>> \in OpToRel(<, Nat))
  BY <1>1
<1>4. \A j \in S : ~(j < i)
  BY <1>2, <1>3, Zenon
<1> QED
  BY <1>4

(* f gives the portal after each of the first k requests of a trail, counted   *)
(* from its end: Replay's function, for a part of the trail.                  *)
Follows(f, audit, k) ==
  f = [i \in 0..k |-> IF i = 0 THEN DefaultPortal
                               ELSE Served(f[i - 1], audit[Len(audit) + 1 - i])]

(* There is such a function ...  (One that is too short is one step from the   *)
(* next; a shortest missing one would have a predecessor.)                    *)
LEMMA FollowsExists ==
  ASSUME NEW audit \in AuditTrail, NEW k \in Nat
  PROVE  \E f : Follows(f, audit, k)
<1> DEFINE Missing == {n \in Nat : ~ \E f : Follows(f, audit, n)}
<1>1. SUFFICES ASSUME Missing # {} PROVE FALSE
  OBVIOUS
<1>2. PICK n \in Missing : \A m \in Missing : n <= m
  BY <1>1, LeastNumber
<1>3. n # 0
  <2>1. Follows([i \in 0..0 |-> DefaultPortal], audit, 0)
    BY DEF Follows
  <2>2. QED
    BY <1>2, <2>1
<1>4. PICK f : Follows(f, audit, n - 1)
  BY <1>2, <1>3
<1> DEFINE last == Served(f[n - 1], audit[Len(audit) + 1 - n])
           g == [i \in 0..n |-> IF i = n THEN last ELSE f[i]]
<1>5. \A i \in 0..(n - 1) :
        f[i] = IF i = 0 THEN DefaultPortal ELSE Served(f[i - 1], audit[Len(audit) + 1 - i])
  BY <1>4 DEF Follows
<1>6. \A i \in 0..n :
        g[i] = IF i = 0 THEN DefaultPortal ELSE Served(g[i - 1], audit[Len(audit) + 1 - i])
  <2>1. TAKE i \in 0..n
  <2>2. CASE i = n
    BY <1>2, <1>3, <2>2
  <2>3. CASE i # n
    <3>1. i \in 0..(n - 1) /\ (i # 0 => i - 1 \in 0..n /\ i - 1 # n)
      BY <1>2, <2>3
    <3>2. g[i] = f[i] /\ (i # 0 => g[i - 1] = f[i - 1])
      BY <2>3, <3>1
    <3> HIDE DEF g
    <3>3. QED
      BY <1>5, <3>1, <3>2
  <2>4. QED
    BY <2>2, <2>3
<1>7. Follows(g, audit, n)
  <2>1. g = [i \in 0..n |-> g[i]]
    OBVIOUS
  <2> HIDE DEF g
  <2>2. QED
    BY <1>6, <2>1 DEF Follows
<1> HIDE DEF g
<1>8. QED
  BY <1>2, <1>7

(* ... and only one; two trails that agree give the same.                     *)
LEMMA FollowsAgree ==
  ASSUME NEW audit, NEW longer, NEW k \in Nat, NEW l \in Nat, k <= l,
         NEW f, Follows(f, audit, k), NEW g, Follows(g, longer, l),
         \A i \in 1..k : audit[Len(audit) + 1 - i] = longer[Len(longer) + 1 - i]
  PROVE  \A i \in 0..k : f[i] = g[i]
<1> DEFINE Apart == {i \in 0..k : f[i] # g[i]}
<1>1. SUFFICES ASSUME Apart # {} PROVE FALSE
  OBVIOUS
<1>2. PICK i \in Apart : \A j \in Apart : i <= j
  <2>1. Apart \in SUBSET Nat
    OBVIOUS
  <2> HIDE DEF Apart
  <2>2. QED
    BY <1>1, <2>1, LeastNumber
<1>3. /\ f[i] = IF i = 0 THEN DefaultPortal ELSE Served(f[i - 1], audit[Len(audit) + 1 - i])
      /\ g[i] = IF i = 0 THEN DefaultPortal ELSE Served(g[i - 1], longer[Len(longer) + 1 - i])
  <2>1. i \in 0..k /\ i \in 0..l
    BY <1>2
  <2> HIDE DEF Apart
  <2>2. QED
    BY <2>1, Zenon DEF Follows
<1>4. i # 0
  BY <1>2, <1>3
<1>5. f[i - 1] = g[i - 1]
  BY <1>2, <1>4
<1>6. QED
  BY <1>2, <1>3, <1>4, <1>5

LEMMA ReplayFollows ==
  ASSUME NEW audit \in AuditTrail, NEW f, Follows(f, audit, Len(audit))
  PROVE  Replay(audit) = f[Len(audit)]
<1> DEFINE after == CHOOSE h : Follows(h, audit, Len(audit))
<1>1. Replay(audit) = after[Len(audit)]
  BY DEF Replay, Follows
<1>2. Follows(after, audit, Len(audit))
  OBVIOUS
<1>3. Len(audit) \in Nat
  BY DEF AuditTrail
<1> HIDE DEF after
<1>4. after[Len(audit)] = f[Len(audit)]
  BY <1>2, <1>3, FollowsAgree
<1>5. QED
  BY <1>1, <1>4

(* The empty trail leads nowhere; the newest request is served last.          *)
LEMMA ReplayEmpty == Replay(<<>>) = DefaultPortal
<1>1. <<>> \in AuditTrail /\ Len(<<>>) = 0
  BY DEF AuditTrail
<1>2. PICK f : Follows(f, <<>>, 0)
  BY <1>1, FollowsExists
<1>3. f[0] = DefaultPortal
  BY <1>2 DEF Follows
<1>4. QED
  BY <1>1, <1>2, <1>3, ReplayFollows

LEMMA ReplayNewest ==
  ASSUME NEW audit \in AuditTrail, NEW request \in ApiRequests
  PROVE  Replay(<<request>> \o audit) = Served(Replay(audit), request)
<1> DEFINE longer == <<request>> \o audit
           n == Len(audit)
<1>1. n \in Nat
  BY DEF AuditTrail
<1>2. /\ longer \in AuditTrail
      /\ Len(longer) = n + 1
      /\ longer[1] = request
      /\ \A i \in 1..n : audit[n + 1 - i] = longer[n + 2 - i]
  <2>1. audit \in Seq(ApiRequests) /\ <<request>> \in Seq(ApiRequests)
    BY DEF AuditTrail
  <2>2. QED
    BY <2>1, ConcatProperties DEF AuditTrail
<1> HIDE DEF longer
<1>3. PICK f : Follows(f, audit, n)
  BY <1>1, FollowsExists
<1>4. PICK g : Follows(g, longer, n + 1)
  BY <1>1, <1>2, FollowsExists
<1>5. f[n] = g[n]
  <2>1. \A i \in 1..n : audit[Len(audit) + 1 - i] = longer[Len(longer) + 1 - i]
    BY <1>1, <1>2
  <2> HIDE DEF n
  <2>2. \A i \in 0..n : f[i] = g[i]
    BY <1>1, <1>3, <1>4, <2>1, FollowsAgree
  <2>3. QED
    BY <1>1, <2>2
<1>6. g[n + 1] = Served(g[n], request)
  BY <1>1, <1>2, <1>4 DEF Follows
<1>7. QED
  BY <1>2, <1>3, <1>4, <1>5, <1>6, ReplayFollows DEF longer

(* A trail nothing was rotated out of explains its portal: also of the copies  *)
(* that requests hold, since a later save stores one of them.                 *)
Explained(d) == Len(d.audit) < auditRetentionEvents => d.portal = Replay(d.audit)

TrailInv == Explained(store) /\ \A c \in Connections : Explained(held[c])

LEMMA DefaultExplained == Explained(DefaultDocument)
BY ReplayEmpty DEF DefaultDocument, Explained

LEMMA SavedExplained ==
  ASSUME NEW d \in Document, Explained(d), NEW request \in ApiRequests
  PROVE  Explained(ApplyRetention(Handled(d, request)))
<1> DEFINE trail == <<request>> \o d.audit
<1>1. d.audit \in Seq(ApiRequests) /\ d.audit \in AuditTrail
  BY DEF Document, AuditTrail
<1>2. trail \in Seq(ApiRequests) /\ Len(trail) = Len(d.audit) + 1
  BY <1>1, ConcatProperties
<1>3. Replay(trail) = Served(Replay(d.audit), request)
  BY <1>1, ReplayNewest
<1> HIDE DEF trail
<1>4. ApplyRetention(Handled(d, request))
        = [portal |-> Served(d.portal, request), audit |-> Retained(trail)]
  BY DEF ApplyRetention, Handled, trail
<1>5. CASE Len(trail) <= auditRetentionEvents
  <2>1. Retained(trail) = trail
    BY <1>5 DEF Retained
  <2>2. Len(trail) < auditRetentionEvents => d.portal = Replay(d.audit)
    BY <1>1, <1>2, ServerBoundsAssumption DEF Explained
  <2>3. QED
    BY <1>3, <1>4, <2>1, <2>2 DEF Explained
<1>6. CASE ~(Len(trail) <= auditRetentionEvents)
  <2>1. Retained(trail) = SubSeq(trail, 1, auditRetentionEvents)
    BY <1>6 DEF Retained
  <2>2. Len(SubSeq(trail, 1, auditRetentionEvents)) = auditRetentionEvents
    BY <1>2, <1>6, ServerBoundsAssumption
  <2>3. QED
    BY <1>4, <2>1, <2>2, ServerBoundsAssumption DEF Explained
<1>7. QED
  BY <1>5, <1>6

(* The cases of a step: a handler keeps its copy or takes d, the store stays or *)
(* becomes one of the copies.                                                 *)
LEMMA TrailCopied ==
  ASSUME IInv, TrailInv, NEW c \in Connections, NEW d, Explained(d), Explained(store'),
         held' = [held EXCEPT ![c] = d]
  PROVE  TrailInv'
<1>1. \A e \in Connections : held'[e] = IF e = c THEN d ELSE held[e]
  BY DEF IInv
<1>2. QED
  BY <1>1 DEF TrailInv

LEMMA TrailStays ==
  ASSUME IInv, TrailInv, [Next]_vars
  PROVE  TrailInv'
<1>1. CASE UNCHANGED <<store, held>>
  BY <1>1 DEF TrailInv
<1>2. ASSUME NEW c \in Connections,
             LoadDocument(c) \/ LoadMissing(c) \/ LoadTorn(c) \/ Refuse(c) \/ SaveFails(c)
      PROVE  TrailInv'
  <2>1. store' = store
    BY <1>2 DEF LoadDocument, LoadMissing, LoadTorn, Refuse, SaveFails
  <2>2. \/ held' = [held EXCEPT ![c] = DefaultDocument]
        \/ held' = [held EXCEPT ![c] = store]
    BY <1>2 DEF LoadDocument, LoadMissing, LoadTorn, Refuse, SaveFails, Answer
  <2>3. Explained(store')
    BY <2>1 DEF TrailInv
  <2>4. QED
    BY <2>1, <2>2, <2>3, TrailCopied, DefaultExplained
<1>3. ASSUME NEW c \in Connections, Handle(c)
      PROVE  TrailInv'
  <2> DEFINE saved == ApplyRetention(Handled(held[c], asks[c]))
  <2>1. Explained(saved)
    BY SavedExplained DEF IInv, TrailInv
  <2>2. \/ store' = saved /\ held' = [held EXCEPT ![c] = DefaultDocument]
        \/ store' = store /\ held' = [held EXCEPT ![c] = saved]
    BY <1>3 DEF Handle, Answer
  <2> HIDE DEF saved
  <2>3. Explained(store')
    BY <2>1, <2>2 DEF TrailInv
  <2>4. QED
    BY <2>1, <2>2, <2>3, TrailCopied, DefaultExplained
<1>4. ASSUME NEW c \in Connections, WriteFile(c)
      PROVE  TrailInv'
  <2>1. store' = store \/ store' = held[c]
    BY <1>4 DEF WriteFile
  <2>2. Explained(store')
    BY <2>1 DEF TrailInv
  <2>3. held' = held \/ held' = [held EXCEPT ![c] = DefaultDocument]
    BY <1>4 DEF WriteFile, Answer
  <2>4. CASE held' = held
    BY <2>2, <2>4 DEF TrailInv
  <2>5. QED
    BY <2>2, <2>3, <2>4, TrailCopied, DefaultExplained
<1>5. CASE Crash
  <2>1. store' = store \/ store' = DefaultDocument
    BY <1>5 DEF Crash
  <2>2. \A c \in Connections : held'[c] = DefaultDocument
    BY <1>5 DEF Crash
  <2>3. QED
    BY <2>1, <2>2, DefaultExplained DEF TrailInv
<1>6. QED
  BY <1>1, <1>2, <1>3, <1>4, <1>5 DEF Next, Progress, Arrive, OpenFile, vars

(* Whatever was overwritten or lost, the stored trail explains the stored       *)
(* portal until retention rotates its oldest event out: an update and its       *)
(* audit event are saved, and lost, together.                                 *)
THEOREM AuditTrailsExplain == Spec => []AuditExplainsPortal
<1>1. Init => TrailInv
  BY DefaultExplained DEF Init, TrailInv
<1>2. TrailInv => AuditExplainsPortal
  BY DEF TrailInv, Explained, AuditExplainsPortal
<1>3. QED
  BY <1>1, <1>2, TrailStays, InductiveInvariant, PTL DEF Spec

-----------------------------------------------------------------------------
(* What sets the server apart from the control plane *)

(* What a request holds that loaded after the last save: the stored document   *)
(* until its handler has run, and what the handler made of it from there to    *)
(* the save.                                                                  *)
UpToDate(c) ==
  /\ pc[c] = "handle" => held[c] = store
  /\ pc[c] \in {"seedOpen", "seedWrite"} => held[c] = DefaultDocument /\ store = DefaultDocument
  /\ pc[c] \in {"saveOpen", "saveWrite"} =>
       \E request \in ApiRequests :
         /\ Accepted(store.portal, request)
         /\ held[c].portal = Served(store.portal, request)

CurrentInv ==
  /\ file = "missing" => Backend = "json" /\ store = DefaultDocument
  /\ \A c \in Connections \ stale : UpToDate(c)

(* The functions the control plane's actions apply are those the handlers      *)
(* apply: the instance reads the same constants.                              *)
LEMMA SameJobFunctions ==
  /\ \A n, operation, jobState : Serial!NewJob(n, operation, jobState) = NewJob(n, operation, jobState)
  /\ \A jobState : Serial!NextControlPlaneState(jobState) = NextControlPlaneState(jobState)
  /\ \A job, jobState, count : Serial!TransitionJob(job, jobState, count) = TransitionJob(job, jobState, count)
  /\ \A job : Serial!Retried(job) = Retried(job)
  /\ \A x, n, status : Serial!WithStatus(x, n, status) = WithStatus(x, n, status)
  /\ \A jobState : Serial!StatusOfJobState(jobState) = StatusOfJobState(jobState)
BY Zenon
DEF Serial!NewJob, NewJob, Serial!NextControlPlaneState, NextControlPlaneState,
    Serial!TransitionJob, TransitionJob, Serial!Retried, Retried,
    Serial!WithStatus, WithStatus, Serial!StatusOfJobState, StatusOfJobState

LEMMA SameQueueFunctions ==
  /\ \A jobs, n, gated : Serial!EnqueueControlPlaneJob(jobs, n, gated) = EnqueueControlPlaneJob(jobs, n, gated)
  /\ \A jobs, n : Serial!EnqueueDestroyControlPlaneJob(jobs, n) = EnqueueDestroyControlPlaneJob(jobs, n)
  /\ \A jobs, n : Serial!ReleaseApprovalPausedJobs(jobs, n) = ReleaseApprovalPausedJobs(jobs, n)
  /\ \A x, job : Serial!FollowJob(x, job) = FollowJob(x, job)
BY SameJobFunctions, Zenon
DEF Serial!EnqueueControlPlaneJob, EnqueueControlPlaneJob,
    Serial!EnqueueDestroyControlPlaneJob, EnqueueDestroyControlPlaneJob,
    Serial!ReleaseApprovalPausedJobs, ReleaseApprovalPausedJobs, Serial!FollowJob, FollowJob

LEMMA SameHandlers ==
  /\ \A s, n, gated : Serial!CreateEnvironmentRequest(s, n, gated) = CreateEnvironmentRequest(s, n, gated)
  /\ \A s, n : Serial!RequestEnvironmentDestroy(s, n) = RequestEnvironmentDestroy(s, n)
  /\ \A s, n, decision : Serial!DecideApproval(s, n, decision) = DecideApproval(s, n, decision)
  /\ \A s, j : Serial!AdvanceControlPlaneJob(s, j) = AdvanceControlPlaneJob(s, j)
  /\ \A s, j : Serial!RetryControlPlaneJob(s, j) = RetryControlPlaneJob(s, j)
  /\ \A s, j : Serial!FailControlPlaneJob(s, j) = FailControlPlaneJob(s, j)
BY SameJobFunctions, SameQueueFunctions, Zenon
DEF Serial!CreateEnvironmentRequest, CreateEnvironmentRequest,
    Serial!RequestEnvironmentDestroy, RequestEnvironmentDestroy,
    Serial!DecideApproval, DecideApproval,
    Serial!AdvanceControlPlaneJob, AdvanceControlPlaneJob,
    Serial!RetryControlPlaneJob, RetryControlPlaneJob,
    Serial!FailControlPlaneJob, FailControlPlaneJob

LEMMA SameLookUps ==
  /\ \A s, n : Serial!EnvironmentExists(s, n) <=> EnvironmentExists(s, n)
  /\ \A s, n : Serial!ApprovalExists(s, n) <=> ApprovalExists(s, n)
  /\ \A s, j : Serial!JobExists(s, j) <=> JobExists(s, j)
  /\ Serial!DefaultPortal = DefaultPortal
BY DEF Serial!EnvironmentExists, EnvironmentExists, Serial!ApprovalExists, ApprovalExists,
       Serial!JobExists, JobExists, Serial!DefaultPortal, DefaultPortal

(* A handler that served a request took a step of the control plane, or none.  *)
LEMMA ServedImplements ==
  ASSUME NEW request \in ApiRequests, Accepted(store.portal, request),
         store'.portal = Served(store.portal, request)
  PROVE  [Serial!Next]_(Serial!vars)
<1>1. CASE request.kind = "create"
  <2>1. Serial!Create(request.environment, request.approvalRequired)
    BY <1>1, SameHandlers DEF Served, Serial!Create
  <2>2. QED
    BY <1>1, <2>1, RequestFields DEF Serial!Next
<1>2. CASE request.kind = "destroy"
  <2>1. Serial!Destroy(request.environment)
    BY <1>2, SameHandlers, SameLookUps DEF Served, Accepted, Serial!Destroy
  <2>2. QED
    BY <1>2, <2>1, RequestFields DEF Serial!Next
<1>3. CASE request.kind = "decide"
  <2>1. Serial!Decide(request.environment, request.decision)
    BY <1>3, SameHandlers, SameLookUps DEF Served, Accepted, Serial!Decide
  <2>2. QED
    BY <1>3, <2>1, RequestFields DEF Serial!Next
<1>4. CASE request.kind = "advance"
  <2>1. Serial!Advance(request.job)
    BY <1>4, SameHandlers, SameLookUps DEF Served, Accepted, Serial!Advance
  <2>2. QED
    BY <1>4, <2>1, RequestFields DEF Serial!Next
<1>5. CASE request.kind = "retry"
  <2>1. Serial!Retry(request.job)
    BY <1>5, SameHandlers, SameLookUps DEF Served, Accepted, Serial!Retry
  <2>2. QED
    BY <1>5, <2>1, RequestFields DEF Serial!Next
<1>6. CASE request.kind = "fail"
  <2>1. Serial!Fail(request.job)
    BY <1>6, SameHandlers, SameLookUps DEF Served, Accepted, Serial!Fail
  <2>2. QED
    BY <1>6, <2>1, RequestFields DEF Serial!Next
<1>7. CASE request.kind \in {"other", "read"}
  BY <1>7 DEF Served, Serial!vars
<1>8. QED
  BY <1>1, <1>2, <1>3, <1>4, <1>5, <1>6, <1>7, RequestFields

(* A step of c that stores nothing leaves the other requests as they were.     *)
LEMMA NothingSaved ==
  ASSUME CurrentInv, NEW c \in Connections, store' = store, file' = "missing" => file = "missing",
         \A d \in Connections \ {c} : pc'[d] = pc[d] /\ held'[d] = held[d],
         stale' \in {stale, stale \ {c}},
         c \notin stale' => UpToDate(c)'
  PROVE  CurrentInv'
<1>1. \A d \in Connections \ {c} : d \notin stale' => UpToDate(d)'
  BY DEF CurrentInv, UpToDate
<1>2. QED
  BY <1>1 DEF CurrentInv

(* A save overtakes every request that has loaded.                            *)
LEMMA SaveOvertakes ==
  ASSUME NEW c \in Connections, Overtakes(c), file' # "missing",
         \A d \in Connections \ {c} : pc'[d] = pc[d], UpToDate(c)'
  PROVE  CurrentInv'
BY DEF CurrentInv, UpToDate, Overtakes

(* An answer ends what the request held. *)
LEMMA AnswerEnds ==
  ASSUME PhasesOK, IInv, NEW c \in Connections, Answer(c)
  PROVE  /\ UpToDate(c)' /\ pc'[c] = "idle"
         /\ \A d \in Connections \ {c} : pc'[d] = pc[d] /\ held'[d] = held[d]
<1>1. /\ pc'[c] = "idle"
      /\ \A d \in Connections \ {c} : pc'[d] = pc[d] /\ held'[d] = held[d]
  BY DEF Answer, PhasesOK, IInv
<1>2. QED
  BY <1>1 DEF UpToDate

LEMMA CurrentStays ==
  ASSUME PhasesOK, IInv, CurrentInv, [Next]_vars
  PROVE  CurrentInv' /\ Explicable
<1> USE DEF PhasesOK
<1>0. store' = store => Explicable
  BY DEF Serial!vars, Explicable
<1>1. CASE UNCHANGED vars
  BY <1>0, <1>1 DEF vars, CurrentInv, UpToDate
<1>2. ASSUME NEW c \in Connections, NEW request \in ApiRequests, Arrive(c, request)
      PROVE  CurrentInv' /\ store' = store
  <2>1. /\ pc'[c] = "load" /\ store' = store /\ file' = file /\ stale' = stale
        /\ \A d \in Connections \ {c} : pc'[d] = pc[d] /\ held'[d] = held[d]
    BY <1>2 DEF Arrive
  <2>2. UpToDate(c)'
    BY <2>1 DEF UpToDate
  <2>3. QED
    BY <2>1, <2>2, NothingSaved
<1>3. ASSUME NEW c \in Connections, LoadDocument(c)
      PROVE  CurrentInv' /\ store' = store
  <2>1. store' = store /\ file' = file /\ stale' = stale
    BY <1>3 DEF LoadDocument
  <2>2. CASE Answer(c)
    BY <2>1, <2>2, AnswerEnds, NothingSaved
  <2>3. CASE held' = [held EXCEPT ![c] = store] /\ pc' = [pc EXCEPT ![c] = "handle"]
    <3>1. /\ held'[c] = store /\ pc'[c] = "handle"
          /\ \A d \in Connections \ {c} : pc'[d] = pc[d] /\ held'[d] = held[d]
      BY <2>3 DEF IInv
    <3>2. UpToDate(c)'
      BY <2>1, <3>1 DEF UpToDate
    <3>3. QED
      BY <2>1, <3>1, <3>2, NothingSaved
  <2>4. QED
    BY <1>3, <2>2, <2>3 DEF LoadDocument
<1>4. ASSUME NEW c \in Connections, LoadMissing(c)
      PROVE  CurrentInv' /\ store' = store
  <2>1. /\ held'[c] = DefaultDocument /\ pc'[c] = "seedOpen"
        /\ \A d \in Connections \ {c} : pc'[d] = pc[d] /\ held'[d] = held[d]
        /\ file' = file /\ store' = store /\ store = DefaultDocument /\ stale' = stale
    BY <1>4 DEF LoadMissing, IInv, CurrentInv
  <2>2. UpToDate(c)'
    BY <2>1 DEF UpToDate
  <2>3. QED
    BY <2>1, <2>2, NothingSaved
<1>5. ASSUME NEW c \in Connections, LoadTorn(c) \/ Refuse(c) \/ SaveFails(c)
      PROVE  CurrentInv' /\ store' = store
  <2>1. /\ file' = "missing" => file = "missing"
        /\ store' = store /\ Answer(c) /\ stale' \in {stale, stale \ {c}}
    BY <1>5 DEF LoadTorn, Refuse, SaveFails
  <2>2. QED
    BY <2>1, AnswerEnds, NothingSaved
<1>6. ASSUME NEW c \in Connections, Handle(c)
      PROVE  CurrentInv' /\ Explicable
  <2> DEFINE saved == ApplyRetention(Handled(held[c], asks[c]))
  <2>1. asks[c] \in ApiRequests /\ Accepted(held[c].portal, asks[c]) /\ pc[c] = "handle"
    BY <1>6 DEF Handle, IInv
  <2>2. saved.portal = Served(held[c].portal, asks[c])
    BY DEF ApplyRetention, Handled
  <2>3. c \notin stale => held[c] = store
    BY <2>1 DEF CurrentInv, UpToDate
  <2> HIDE DEF saved
  <2>4. CASE Backend = "memory" /\ store' = saved /\ Answer(c) /\ Overtakes(c)
    <3>1. c \in stale => Explicable
      BY <1>6 DEF StaleSave, Explicable
    <3>2. c \notin stale => Explicable
      BY <2>1, <2>2, <2>3, <2>4, ServedImplements DEF Explicable
    <3>3. file' # "missing"
      BY <1>6, <2>4 DEF Handle, CurrentInv
    <3>4. CurrentInv'
      BY <2>4, <3>3, AnswerEnds, SaveOvertakes
    <3>5. QED
      BY <3>1, <3>2, <3>4
  <2>5. CASE /\ held' = [held EXCEPT ![c] = saved]
             /\ pc' = [pc EXCEPT ![c] = "saveOpen"]
             /\ UNCHANGED <<store, asks, stale>>
    <3>1. /\ held'[c] = saved /\ pc'[c] = "saveOpen" /\ store' = store /\ stale' = stale
          /\ \A d \in Connections \ {c} : pc'[d] = pc[d] /\ held'[d] = held[d]
          /\ file' = file
      BY <1>6, <2>5 DEF IInv, Handle
    <3>2. c \notin stale' => UpToDate(c)'
      BY <2>1, <2>2, <2>3, <3>1 DEF UpToDate
    <3>3. QED
      BY <1>0, <3>1, <3>2, NothingSaved
  <2>6. QED
    BY <1>6, <2>4, <2>5 DEF Handle, saved
<1>7. ASSUME NEW c \in Connections, OpenFile(c)
      PROVE  CurrentInv' /\ store' = store
  <2>1. /\ file' = "torn" /\ store' = store /\ held' = held /\ stale' = stale
        /\ pc[c] = "seedOpen" => pc'[c] = "seedWrite"
        /\ pc[c] = "saveOpen" => pc'[c] = "saveWrite"
        /\ pc[c] \in {"seedOpen", "saveOpen"}
        /\ \A d \in Connections \ {c} : pc'[d] = pc[d]
    BY <1>7 DEF OpenFile
  <2>2. c \notin stale' => UpToDate(c)'
    BY <2>1 DEF CurrentInv, UpToDate
  <2>3. QED
    BY <2>1, <2>2, NothingSaved
<1>8. ASSUME NEW c \in Connections, WriteFile(c)
      PROVE  CurrentInv' /\ Explicable
  <2>1. /\ pc[c] \in {"seedWrite", "saveWrite"} /\ file' # "missing"
        /\ \/ store' = held[c] /\ Overtakes(c)
           \/ store' = store /\ Drops(c)
    BY <1>8 DEF WriteFile, Writing
  <2>2. /\ \A d \in Connections \ {c} : pc'[d] = pc[d] /\ held'[d] = held[d]
        /\ pc[c] = "saveWrite" => UpToDate(c)'
        /\ pc[c] = "seedWrite" => pc'[c] = "idle" \/ (pc'[c] = "handle" /\ held' = held)
    <3>1. CASE Answer(c)
      BY <3>1, AnswerEnds
    <3>2. CASE pc[c] # "saveWrite" /\ pc' = [pc EXCEPT ![c] = "handle"] /\ UNCHANGED <<asks, held>>
      BY <3>2
    <3>3. QED
      BY <1>8, <3>1, <3>2 DEF WriteFile
  <2>3. c \notin stale /\ pc[c] = "seedWrite" => store = DefaultDocument /\ held[c] = DefaultDocument
    BY DEF CurrentInv, UpToDate
  <2>4. Explicable
    <3>1. CASE c \in stale
      BY <1>8, <3>1 DEF StaleSave, Explicable
    <3>2. CASE store' = store
      BY <1>0, <3>2
    <3>3. CASE c \notin stale /\ store' = held[c] /\ pc[c] = "saveWrite"
      <4>1. PICK request \in ApiRequests :
              /\ Accepted(store.portal, request)
              /\ held[c].portal = Served(store.portal, request)
        BY <3>3 DEF CurrentInv, UpToDate
      <4>2. [Serial!Next]_(Serial!vars)
        BY <3>3, <4>1, ServedImplements
      <4>3. QED
        BY <4>2 DEF Explicable
    <3>4. QED
      BY <2>1, <2>3, <3>1, <3>2, <3>3
  <2>5. CASE store' = held[c] /\ Overtakes(c)
    <3>1. UpToDate(c)'
      BY <2>1, <2>2, <2>5 DEF UpToDate
    <3>2. CurrentInv'
      BY <2>1, <2>2, <2>5, <3>1, SaveOvertakes
    <3>3. QED
      BY <2>4, <3>2
  <2>6. CASE store' = store /\ Drops(c)
    <3>1. c \notin stale' => UpToDate(c)'
      BY <2>1, <2>2, <2>3, <2>6 DEF UpToDate, Drops
    <3>2. stale' \in {stale, stale \ {c}}
      BY <2>6 DEF Drops
    <3>3. QED
      BY <2>1, <2>2, <2>4, <2>6, <3>1, <3>2, NothingSaved
  <2>7. QED
    BY <2>1, <2>5, <2>6
<1>9. CASE Crash
  <2>1. \A c \in Connections : pc'[c] = "idle"
    BY <1>9 DEF Crash
  <2>2. file' = "missing" => Backend = "json" /\ store' = DefaultDocument
    BY <1>9 DEF Crash, CurrentInv
  <2>3. CurrentInv'
    BY <2>1, <2>2 DEF CurrentInv, UpToDate
  <2>4. Backend = "memory" \/ store' = store
    BY <1>9 DEF Crash
  <2>5. QED
    BY <1>0, <1>9, <2>3, <2>4 DEF Explicable
<1>10. QED
  BY <1>0, <1>1, <1>2, <1>3, <1>4, <1>5, <1>6, <1>7, <1>8, <1>9 DEF Next, Progress

LEMMA CurrentFirst == Init => Serial!Init /\ CurrentInv
<1> SUFFICES ASSUME Init PROVE Serial!Init /\ CurrentInv
  OBVIOUS
<1>1. store = DefaultDocument /\ \A c \in Connections : pc[c] = "idle"
  BY DEF Init
<1>2. Serial!Init
  BY <1>1, SameLookUps DEF Serial!Init, DefaultDocument
<1>3. file = "missing" => Backend = "json"
  BY BackendAssumption DEF Init
<1>4. CurrentInv
  BY <1>1, <1>3 DEF CurrentInv, UpToDate
<1>5. QED
  BY <1>2, <1>4

(* Whatever the interleaving, the torn writes and the faults: a step that        *)
(* changes the stored portal other than as one request of the control plane     *)
(* does is a save by a request that loaded before another one's save, or a       *)
(* restart of the memory store.                                               *)
THEOREM LostUpdatesComeFromStaleSaves == Spec => OnlyStaleSavesLoseUpdates
<1>1. PhasesOK /\ IInv /\ CurrentInv /\ [Next]_vars => CurrentInv' /\ Explicable
  BY CurrentStays
<1>2. QED
  BY <1>1, CurrentFirst, PhasesInvariant, InductiveInvariant, PTL
  DEF Spec, OnlyStaleSavesLoseUpdates

(* A store that restarts do not empty. *)
Durable == Backend = "json" \/ FaultBound = 0

(* Were save() to refuse a document loaded before another save, the server       *)
(* would implement the control plane for any number of requests at a time: each *)
(* would take effect at once, when its handler (memory) or its file write (json) *)
(* ends, or not at all.                                                        *)
THEOREM FreshSavesImplementControlPlane ==
  ASSUME Durable
  PROVE  Spec /\ [][~StaleSave]_vars => ImplementsControlPlane
<1>1. PhasesOK /\ Crash => Backend # "memory"
  BY ServerBoundsAssumption, BackendAssumption DEF Crash, Durable, PhasesOK
<1>2. PhasesOK /\ IInv /\ CurrentInv /\ [Next]_vars /\ [~StaleSave]_vars
        => CurrentInv' /\ [Serial!Next]_(Serial!vars)
  <2> SUFFICES ASSUME PhasesOK, IInv, CurrentInv, [Next]_vars, [~StaleSave]_vars
               PROVE  CurrentInv' /\ [Serial!Next]_(Serial!vars)
    OBVIOUS
  <2>1. CurrentInv' /\ Explicable
    BY CurrentStays
  <2>2. UNCHANGED vars => [Serial!Next]_(Serial!vars)
    BY DEF vars, Serial!vars
  <2>3. QED
    BY <1>1, <2>1, <2>2 DEF Explicable
<1>3. QED
  BY <1>2, CurrentFirst, PhasesInvariant, InductiveInvariant, PTL
  DEF Spec, ImplementsControlPlane, Serial!Spec

(* With one request at a time no save is stale. *)
LEMMA SerialSavesAreFresh ==
  ASSUME \A c, d \in Connections : c = d
  PROVE  Spec => [][~StaleSave]_vars
<1> DEFINE NoneStale == stale = {}
<1>1. Init => NoneStale
  BY DEF Init
<1>2. NoneStale /\ [Next]_vars => NoneStale'
  <2> SUFFICES ASSUME stale = {}, [Next]_vars PROVE stale' = {}
    OBVIOUS
  <2>1. ASSUME NEW c \in Connections, Refuse(c) \/ Handle(c) \/ OpenFile(c) \/ WriteFile(c)
        PROVE  stale' = {}
    BY <2>1 DEF Refuse, Handle, OpenFile, WriteFile, Overtakes, Drops
  <2>2. ASSUME NEW c \in Connections, LoadDocument(c) \/ LoadMissing(c) \/ LoadTorn(c)
        PROVE  stale' = {}
    BY <2>2 DEF LoadDocument, LoadMissing, LoadTorn
  <2>3. ASSUME ~ \E c \in Connections : Progress(c)
        PROVE  stale' = {}
    BY <2>3 DEF Next, Arrive, SaveFails, Crash, vars
  <2>4. QED
    BY <2>1, <2>2, <2>3 DEF Progress
<1>3. NoneStale => [~StaleSave]_vars
  BY DEF StaleSave
<1> HIDE DEF NoneStale
<1>4. QED
  BY <1>1, <1>2, <1>3, PTL DEF Spec

(* With one request at a time, and no restart of the memory store, the server's *)
(* stored portal behaves as the control plane.                                 *)
THEOREM SerialServerImplementsControlPlane ==
  ASSUME Durable, \A c, d \in Connections : c = d
  PROVE  Spec => ImplementsControlPlane
BY SerialSavesAreFresh, FreshSavesImplementControlPlane, PTL
=============================================================================
