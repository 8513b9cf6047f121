-------------------------- MODULE MCEvidenceChain --------------------------
EXTENDS EvidenceChain, LabStages, SwitchStages, ProductionStages,
        BrowserLabStages, BrowserProductionStages, BrowserPilotStages

CONSTANTS c1, c2, idle

ServerChain == LabChain \o SwitchChain \o ProductionChain

MCClients == {c1, c2}
MCRows == StageTable(ServerChain \o PilotChain)
MCOfflineRows ==
  StageTable(BrowserLabChain \o BrowserProductionChain \o BrowserPilotChain)
MCFacts == UNION {MCRows[s].facts : s \in DOMAIN MCRows}
MCAdvancing == "labPilotRunbookWorkflows"

-----------------------------------------------------------------------------
(* The documents a behaviour starts from: a walk through the first stages of a   *)
(* chain, each record made by the request that names its standing parents.       *)

StandingRequest(doc, row, p) == Plain(StandingIds(doc, row), p)

(* The documents along a walk, each evaluated before the next is built on it. *)
Along(start, rows, Step(_, _)) ==
  LET walk[i \in 0 .. Len(rows)] ==
        IF i = 0 THEN start
        ELSE CHOOSE next \in {Step(doc, rows[i]) : doc \in {walk[i - 1]}} : next = next IN
  walk[Len(rows)]

Rewalk(start, rows, time, p) ==
  LET Step(doc, row) ==
        LET made == Filed(doc, Create(row, doc, StandingRequest(doc, row, p), MCFacts, time)) IN
        [made EXCEPT ![MCAdvancing] =
           IF row.list = MCAdvancing THEN [@ EXCEPT ![1] = WithStatus(@, "Closed")] ELSE @] IN
  Along(start, rows, Step)

Walk(rows, time) == Rewalk(EmptyDocument, rows, time, "NCI")

Parents(row) == {row.links[n].list : n \in DOMAIN row.links}

(* The same with a newer record in some lists: complete, short of something no later *)
(* stage asks of it, or short of everything.                                         *)
Shadowed(doc, rows, lists, Bad(_)) ==
  LET Step(d, r) ==
        IF r.list \notin lists THEN d
        ELSE Filed(d, Create(r, d, [StandingRequest(d, r, "NCI") EXCEPT !.bad = Bad(r)],
                             MCFacts, 1)) IN
  Along(doc, rows, Step)

Complete(r) == {}
ShortOfOne(r) == {"short"}
ShortOfAll(r) == r.inputs \cup r.asked \cup {"short"}

-----------------------------------------------------------------------------
(* The desks, and the document each starts from. *)
Desk(rows, i, n) ==
  [stages |-> {rows[j].stage : j \in (i .. i + n - 1) \cap DOMAIN rows},
   requests |-> 0, clicks |-> 0, providers |-> {"NCI"}, until |-> 2, advances |-> FALSE,
   lapses |-> FALSE]

(* One request at one stage. *)
Alone(rows, i) == [Desk(rows, i, 1) EXCEPT !.requests = 1, !.lapses = TRUE]

(* Two offline clicks at a stage and the next. *)
OfflinePair(rows, i) ==
  [Desk(rows, i, 2) EXCEPT !.clicks = 2, !.advances = (rows[i].list = MCAdvancing),
                           !.lapses = TRUE]

(* One offline click. *)
OfflineClickAt(rows, i) == [Desk(rows, i, 1) EXCEPT !.clicks = 1, !.lapses = TRUE]

(* Two requests, open together or one after the other, at some stages; the records *)
(* of two requests may have one id, for the clock need not tick between them.      *)
Together(rows, i, n) ==
  [Desk(rows, i, n) EXCEPT !.requests = 2, !.until = 3,
                           !.advances = (rows[i].list = MCAdvancing)]

(* The first stages for two providers; the broker's queue; the pilot's runbook and *)
(* mode; its policies and sessions, its envelopes and reviews.                     *)
Position(rows, s) == CHOOSE i \in DOMAIN rows : rows[i].stage = s
FirstStages == [Together(LabChain, 2, 3) EXCEPT !.providers = {"NCI", "NKP"}]
Queue == Together(LabChain, Position(LabChain, "executionBrokerQueueRecords"), 1)
PilotPair(s) == Together(PilotChain, Position(PilotChain, s), 2)
PilotPairs ==
  {"labPilotRunbookWorkflows", "readOnlyRuntimeEnablementPolicies",
   "liveReadOnlyCallEnvelopes"}

(* Clicks on a runbook and a window, each for one provider or the other. *)
WindowClicks == [Desk(LabChain, 3, 2) EXCEPT !.clicks = 2, !.providers = {"NCI", "NKP"}]

(* One request and one click. *)
Beside == [Queue EXCEPT !.requests = 1, !.clicks = 1]

Chains == {ServerChain, PilotChain}

MCDesks ==
  UNION {UNION {{Alone(rows, i), OfflinePair(rows, i), OfflineClickAt(rows, i)} :
                  i \in DOMAIN rows} : rows \in Chains}
    \cup {FirstStages, WindowClicks, Queue, Beside} \cup {PilotPair(s) : s \in PilotPairs}

(* The stages before s, and the parents of s a second time. *)
Twice(rows, s) ==
  LET i == Position(rows, s)
      before == SubSeq(rows, 1, i - 1) IN
  Rewalk(Walk(before, 0), SubSeq(rows, i - 1, i - 1), 1, "NCI")

(* A gate, without or with its export, and a runbook; then a gate and an export of *)
(* another provider.                                                                *)
OfTwoProviders(n) ==
  LET doc == Walk(SubSeq(LabChain, 1, n), 0) IN
  Rewalk(Rewalk(doc, SubSeq(LabChain, 3, 3), 0, "NCI"), SubSeq(LabChain, 1, 2), 1, "NKP")

StartsWith(d, doc) ==
  \E lists \in {doc} :
    /\ desk = d
    /\ stored = lists
    /\ browser = [mode |-> "api", lists |-> lists, clicks |-> 0]

MCInit ==
  /\ \/ \E rows \in Chains : \E i \in DOMAIN rows :
          LET before == SubSeq(rows, 1, i - 1) IN
          \E doc \in {Walk(before, 0)} :
            \/ StartsWith(Alone(rows, i), doc)
            \/ StartsWith(Alone(rows, i), Shadowed(doc, before, Parents(rows[i]), ShortOfAll))
            \/ \E l \in Parents(rows[i]) :
                 \/ StartsWith(OfflineClickAt(rows, i), Shadowed(doc, before, {l}, Complete))
                 \/ StartsWith(OfflineClickAt(rows, i), Shadowed(doc, before, {l}, ShortOfOne))
                 \/ StartsWith(OfflineClickAt(rows, i), Shadowed(doc, before, {l}, ShortOfAll))
            \/ StartsWith(OfflinePair(rows, i), doc)
     \/ StartsWith(FirstStages, Walk(SubSeq(LabChain, 1, 1), 0))
     \/ \E n \in 1 .. 2 : StartsWith(WindowClicks, OfTwoProviders(n))
     \/ \E d \in {Queue, Beside} :
          StartsWith(d, Twice(LabChain, "executionBrokerQueueRecords"))
     \/ \E s \in PilotPairs : StartsWith(PilotPair(s), Twice(PilotChain, s))
     \/ LET i == Position(PilotChain, MCAdvancing)
            before == SubSeq(PilotChain, 1, i - 1) IN
        StartsWith(PilotPair(MCAdvancing),
                   Shadowed(Walk(before, 0), before, Parents(PilotChain[i]), ShortOfAll))
  /\ held = [c \in Clients |-> Idle]
  /\ facts = Facts
  /\ clock = 2
  /\ requests = 0

MCSpec == MCInit /\ [][Next]_vars
=============================================================================
