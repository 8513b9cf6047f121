--------------------------- MODULE EvidenceChain ---------------------------
(***************************************************************************)
(* The evidence chains at work.  A request loads the whole document, makes   *)
(* one record and saves the whole document again, so that two requests can   *)
(* overwrite each other; ids are the milliseconds of their records; and the  *)
(* facts a stage looks at can lapse between its load and its save.  Beside   *)
(* it the browser, which clicks through the same stages on the lists it      *)
(* shows, and goes on with stages of its own once a request has failed.      *)
(***************************************************************************)
EXTENDS EvidenceRows

CONSTANTS
  Clients,       \* requests the server can have open at once
  Rows,          \* the server's stages, by name
  OfflineRows,   \* the browser's, a stage of the server's under the same name
  Advancing,     \* the one list whose records change: the pilot runbooks
  Advanced(_, _), OfflineAdvanced(_, _),   \* a runbook's status after a step
  Steps,         \* the steps of a runbook
  Facts,         \* what can be true outside the chains
  Desks,         \* the bounds of a behaviour: the stages worked at, how many
                 \* requests and clicks, their providers, the last millisecond,
                 \* whether runbooks advance and facts lapse
  Idle           \* the copy of a client with no request open

VARIABLES
  stored,    \* the document on file
  held,      \* the document each open request has loaded
  browser,   \* the browser's mode and the lists it shows
  facts,     \* those that are true
  clock,     \* milliseconds
  requests,  \* made so far
  desk

vars == <<stored, held, browser, facts, clock, requests, desk>>

Lists == {Rows[s].list : s \in DOMAIN Rows}
EmptyDocument == [l \in Lists |-> <<>>]

(* What the rows of the chains have in common.  A check of a link is never        *)
(* optional; a status tells whether a record passed, also among the records of    *)
(* another row that shares the list; what a record copies of a link is not a      *)
(* runbook, which changes.                                                        *)
WellMade(row) ==
  /\ row.passes \notin {row.otherwise, "Rejected"}
  /\ \A n \in DOMAIN row.links :
       /\ row.links[n].list \in Lists
       /\ row.links[n].needs # {} => row.links[n].absent # "accepted"
  /\ \A a \in row.agrees :
       /\ {a[1], a[3]} \subseteq DOMAIN row.links
       /\ row.links[a[1]].absent # "accepted"
       /\ row.links[a[1]].list # Advancing
  /\ row.seals # "none" =>
       /\ row.seals \in DOMAIN row.links
       /\ row.links[row.seals].absent = "refused"
       /\ row.links[row.seals].list # Advancing
  /\ row.keyed => ~row.always
  /\ row.list = Advancing =>
       /\ row.otherwise = "Blocked"
       /\ row.rejects = "never" /\ ~row.always /\ ~row.keyed /\ row.seals = "none"
       /\ \A status \in {row.passes, "Closed"}, step \in Steps :
            Advanced(status, step) \in {row.passes, "Closed"}

ToldApart(row, other) ==
  /\ row.list # Advancing /\ row.seals = "none" /\ ~row.keyed
  /\ other.passes \notin {row.passes, row.otherwise, "Rejected"}

(* The links a request need not name, for they lead through another. *)
Led(row) == {n \in DOMAIN row.links : row.links[n].via # "none"}

Guaranteed(row) == {n \in Led(row) : row.links[n].needs # {}}

(* Where a link leads through one that must have passed, and must have passed itself, *)
(* the stage of the one checked the other; and it is such a link that is compared.     *)
WellLed(row) ==
  /\ row.facts \subseteq Facts
  /\ row.keyed => row.owner \in DOMAIN row.links
  /\ \A h \in row.heeds : h[1] \in DOMAIN row.links /\ h[1] \notin Guaranteed(row)
  /\ \A a \in row.agrees :
       /\ a[3] \in Guaranteed(row)
       /\ row.links[a[3]].via = a[1] /\ row.links[a[3]].as = a[2]
  /\ \A n \in Guaranteed(row) :
       LET link == row.links[n] IN
       /\ link.via \in DOMAIN row.links \ Led(row) /\ row.links[link.via].needs # {}
       /\ \A s \in DOMAIN Rows : Rows[s].list = row.links[link.via].list =>
            /\ Rows[s].seals = "none" /\ ~Rows[s].always
            /\ row.links[link.via].needs \subseteq {Rows[s].passes}
            /\ link.as \in DOMAIN Rows[s].links
            /\ Rows[s].links[link.as].list = link.list /\ link.list # Advancing
            /\ Rows[s].links[link.as].needs # {}
            /\ Rows[s].links[link.as].needs \subseteq link.needs

ASSUME RowsAssumption ==
  /\ Advancing \in Lists
  /\ \A s \in DOMAIN Rows : WellMade(Rows[s])
  /\ \A s, t \in DOMAIN Rows :
       s # t /\ Rows[s].list = Rows[t].list => ToldApart(Rows[s], Rows[t])

ASSUME LedAssumption == \A s \in DOMAIN Rows : WellLed(Rows[s])

ASSUME ListsAssumption == {"none", "key"} \cap Lists = {}

ASSUME OfflineRowsAssumption ==
  \A s \in DOMAIN OfflineRows :
    /\ OfflineRows[s].list \in Lists
    /\ \A n \in DOMAIN OfflineRows[s].links : OfflineRows[s].links[n].list \in Lists

ASSUME DesksAssumption ==
  \A d \in Desks : d.stages \subseteq DOMAIN Rows /\ d.requests \in Nat

-----------------------------------------------------------------------------
(* Requests.  `newest` is what a click sends; the others depart from it in    *)
(* one respect: no ids, old ones, unknown ones, one input that falls short.   *)

Plain(ids, p) ==
  [ids |-> ids, provider |-> p, bad |-> {}, good |-> {}, reject |-> FALSE, key |-> NoId]

NewestIds(doc, row) == [n \in NamedLinks(row) |-> Newest(doc[row.links[n].list]).id]

Oldest(seq) == IF seq = <<>> THEN NoRecord ELSE seq[Len(seq)]
OldestIds(doc, row) == [n \in NamedLinks(row) |-> Oldest(doc[row.links[n].list]).id]

(* For every link the newest record that will do, with nothing short in it that the *)
(* stage checks again, of those that their ids find: of two records made in the same *)
(* millisecond the newer hides the older.                                             *)
Serves(row, n, r) ==
  /\ Stands(row.links[n], r)
  /\ \A h \in row.heeds : h[1] = n => h[2] \notin r.fails

Serving(doc, row, n) ==
  LET seq == doc[row.links[n].list] IN
  {i \in DOMAIN seq : Serves(row, n, seq[i]) /\ WithId(seq, seq[i].id) = seq[i]}

StandingIds(doc, row) ==
  [n \in NamedLinks(row) |->
     First(doc[row.links[n].list], Serving(doc, row, n)).id]

UnknownIds(doc, row) == [n \in NamedLinks(row) |-> UnknownId]

IdChoices(doc, row) ==
  LET newest == NewestIds(doc, row) IN
  {<<>>, newest, OldestIds(doc, row), StandingIds(doc, row), UnknownIds(doc, row)}
    \cup {[newest EXCEPT ![n] = id] : n \in NamedLinks(row), id \in {NoId, UnknownId}}

Requests(doc, row) ==
  {Plain(ids, p) : ids \in IdChoices(doc, row), p \in desk.providers}
    \cup
  LET plain == {Plain(StandingIds(doc, row), p) : p \in desk.providers} IN
  UNION {
    {[q EXCEPT !.bad = {i}] : q \in plain, i \in row.inputs \cup row.asked},
    {[q EXCEPT !.bad = row.asked] : q \in plain},
    {[q EXCEPT !.good = DOMAIN row.lends] : q \in plain},
    {[q EXCEPT !.reject = TRUE] : q \in plain},
    {[q EXCEPT !.key = <<"key", "none", clock>>] : q \in plain}}

(* A click names the newest records, and gives nothing of what a stage asks but the *)
(* production decision's approvers.  Two of them send good values for what the       *)
(* stage would else take from its parent.  The window's click is for the provider of *)
(* the newest runbook, if there is one, and names the export of that provider.       *)
ClickedProvider(doc, row, p) ==
  IF row.stage = "controlledLabDryRunWindows" /\ doc["controlledLabReleaseRunbooks"] # <<>>
  THEN Newest(doc["controlledLabReleaseRunbooks"]).provider ELSE p

(* Mutant: the window's click names the newest export, whosever it is. *)
ClickedNewest(doc, row, provider) == NewestIds(doc, row)

ClickedIds(doc, row, provider) ==
  [n \in NamedLinks(row) |->
     LET seq == doc[row.links[n].list] IN
     (IF n = "releaseExport" THEN OfProvider(seq, provider) ELSE Newest(seq)).id]

FillingIn == {"realReadOnlyAdapterConfigBoundaries", "emergencyStopRollbackDrillRecords"}

GivenOnClick(row) == IF row.stage \in FillingIn THEN DOMAIN row.lends ELSE {}

Ungiven(row) == row.asked \ {"approvers"}

Clicked(doc, row, p) ==
  LET provider == ClickedProvider(doc, row, p) IN
  [Plain(ClickedIds(doc, row, provider), provider) EXCEPT
     !.bad = Ungiven(row), !.good = GivenOnClick(row)]

-----------------------------------------------------------------------------
Init ==
  /\ stored = EmptyDocument
  /\ held = [c \in Clients |-> Idle]
  /\ browser = [mode |-> "api", lists |-> EmptyDocument, clicks |-> 0]
  /\ facts = Facts
  /\ clock = 0
  /\ requests = 0
  /\ desk \in Desks

Load(c) ==
  /\ held[c] = Idle
  /\ requests < desk.requests
  /\ held' = [held EXCEPT ![c] = stored]
  /\ requests' = requests + 1
  /\ UNCHANGED <<stored, browser, facts, clock, desk>>

(* Mutant: a list without records is left out of the file. *)
AnswerWithoutEmptyLists(c, doc) ==
  /\ held' = [held EXCEPT ![c] = Idle]
  /\ stored' = [l \in {l \in DOMAIN doc : doc[l] # <<>>} |-> doc[l]]
  /\ UNCHANGED <<browser, facts, clock, requests, desk>>

(* The handler runs on the copy; a refused request saves nothing. *)
Answer(c, doc) ==
  /\ held' = [held EXCEPT ![c] = Idle]
  /\ stored' = doc
  /\ UNCHANGED <<browser, facts, clock, requests, desk>>

Save(c, s) ==
  /\ held[c] # Idle
  /\ \E req \in Requests(held[c], Rows[s]) :
       LET r == Create(Rows[s], held[c], req, facts, clock) IN
       r # NoRecord /\ Answer(c, Filed(held[c], r))

Refuse(c, s) ==
  /\ held[c] # Idle
  /\ \E req \in Requests(held[c], Rows[s]) :
       Create(Rows[s], held[c], req, facts, clock) = NoRecord
  /\ Answer(c, stored)

WithStatus(r, status) == [r EXCEPT !.status = status, !.standing = status]

(* The first runbook of an id is advanced, and replaces all that have the id; only *)
(* a Blocked one is refused.                                                       *)
AdvanceRunbook(c, step) ==
  /\ desk.advances
  /\ held[c] # Idle
  /\ \E id \in {r.id : r \in OnFile(held[c], Advancing)} :
       LET w == WithId(held[c][Advancing], id)
           to == WithStatus(w, Advanced(w.status, step)) IN
       \/ w.status = "Blocked" /\ Answer(c, stored)
       \/ /\ w.status # "Blocked"
          /\ Answer(c, [held[c] EXCEPT ![Advancing] =
                            [i \in DOMAIN @ |-> IF @[i].id = id THEN to ELSE @[i]]])

(* An audit export, a scope or a provider's proof is no longer there. *)
Lapse(f) ==
  /\ desk.lapses
  /\ facts = Facts
  /\ f \in UNION {Rows[s].facts : s \in desk.stages}
  /\ facts' = facts \ {f}
  /\ UNCHANGED <<stored, held, browser, clock, requests, desk>>

Tick ==
  /\ clock < desk.until
  /\ clock' = clock + 1
  /\ UNCHANGED <<stored, held, browser, facts, requests, desk>>

-----------------------------------------------------------------------------
(* The browser: the lists it shows are the server's until its request for an  *)
(* environment fails; the lists stay on the screen, and from then on its      *)
(* clicks make records of its own.                                            *)

Refresh ==
  /\ desk.clicks > 0
  /\ browser.mode = "api"
  /\ browser' = [browser EXCEPT !.lists = stored]
  /\ UNCHANGED <<stored, held, facts, clock, requests, desk>>

RequestFails ==
  /\ desk.clicks > 0
  /\ browser.mode = "api"
  /\ browser' = [browser EXCEPT !.mode = "mock"]
  /\ UNCHANGED <<stored, held, facts, clock, requests, desk>>

Shows(doc) ==
  /\ browser.mode = "mock"
  /\ browser.clicks < desk.clicks
  /\ browser' = [browser EXCEPT !.lists = doc, !.clicks = @ + 1]
  /\ UNCHANGED <<stored, held, facts, clock, requests, desk>>

OfflineClick(s) ==
  \E p \in desk.providers :
    LET row == OfflineRows[s] IN
    Shows(Filed(browser.lists,
                Create(row, browser.lists, Clicked(browser.lists, row, p), facts, clock)))

(* Here every runbook of an id is advanced. *)
OfflineAdvance(step) ==
  /\ desk.advances
  /\ \E id \in {r.id : r \in OnFile(browser.lists, Advancing)} :
       Shows([browser.lists EXCEPT ![Advancing] =
                  [i \in DOMAIN @ |->
                     IF @[i].id # id THEN @[i]
                     ELSE WithStatus(@[i], OfflineAdvanced(@[i].status, step))]])

Next ==
  \/ \E c \in Clients :
       \/ Load(c)
       \/ \E s \in desk.stages : Save(c, s) \/ Refuse(c, s)
       \/ \E step \in Steps : AdvanceRunbook(c, step)
  \/ \E f \in Facts : Lapse(f)
  \/ Tick
  \/ Refresh
  \/ RequestFails
  \/ \E s \in desk.stages \cap DOMAIN OfflineRows : OfflineClick(s)
  \/ \E step \in Steps : OfflineAdvance(step)

Spec == Init /\ [][Next]_vars

-----------------------------------------------------------------------------
(* Every variable has its type: the bounds of the desk hold, a copy has every *)
(* list, and a list holds records of that list only.                          *)
FiledRight(doc) ==
  /\ DOMAIN doc = Lists
  /\ \A l \in Lists : \A r \in OnFile(doc, l) : r.list = l

TypeOK ==
  /\ desk \in Desks
  /\ requests \in 0 .. desk.requests
  /\ clock \in Nat
  /\ facts \in SUBSET Facts
  /\ browser.mode \in {"api", "mock"}
  /\ FiledRight(stored) /\ FiledRight(browser.lists)
  /\ \A c \in Clients : held[c] = Idle \/ FiledRight(held[c])

(* A record that passed its checks.  A pilot runbook that was advanced passed   *)
(* when it was made, for a Blocked one cannot be advanced.                      *)
Passed(row, r) ==
  /\ ~row.always
  /\ \/ r.status = row.passes
     \/ row.list = Advancing /\ r.status = "Closed"

(* The links whose record cannot change after the link was made. *)
LastingLinks(row) ==
  {n \in DOMAIN row.links : row.links[n].needs # {} /\ row.links[n].list # Advancing}

Linked(doc, row, r, n) ==
  {p \in OnFile(doc, row.links[n].list) : p.id = r.links[n]}

(* A stage never passes on the word of a request: whatever ids it names, whatever *)
(* was saved between its load and its save, and whichever of two writers wins,    *)
(* each record that passed has its passed parents on file beside it; a document   *)
(* that loses a record loses all that was built on it.  And an export says of     *)
(* what it exports the status that has.                                           *)
HasFooting(doc, row, r) ==
  /\ Passed(row, r) =>
       \A n \in LastingLinks(row) :
         \E p \in Linked(doc, row, r, n) : p.standing \in row.links[n].needs
  /\ row.seals # "none" =>
       \E p \in Linked(doc, row, r, row.seals) : p.status = r.standing

PassedStandsOnPassed ==
  \A s \in DOMAIN Rows : \A r \in OnFile(stored, Rows[s].list) :
    HasFooting(stored, Rows[s], r)

(* The execution broker queues one record for an idempotency key, also when a     *)
(* retry comes in the same millisecond or beside the first request.               *)
KeysDiffer(doc, row) ==
  LET seq == doc[row.list] IN
  \A i, j \in DOMAIN seq :
    seq[i].status = row.passes /\ seq[j].status = row.passes /\ seq[i].key = seq[j].key
      => i = j

OneQueuedRecordPerKey == \A s \in DOMAIN Rows : Rows[s].keyed => KeysDiffer(stored, Rows[s])

(* A stage that checks a link of one of its links (a session its policy's gate, a *)
(* review its envelope's session) has passed only with that link and its own one  *)
(* and the same.                                                                  *)
LinksAgree(doc, row, r) ==
  Passed(row, r) =>
    \A a \in row.agrees : \E p \in Linked(doc, row, r, a[1]) : p.links[a[2]] = r.links[a[3]]

PilotLinksAgree ==
  \A s \in DOMAIN Rows : \A r \in OnFile(stored, Rows[s].list) :
    LinksAgree(stored, Rows[s], r)

(* A request that names all it can of what stands, with every input good and a new *)
(* key.                                                                             *)
CompleteRequest(doc, row, p) ==
  [Plain([n \in NamedLinks(row) \ Led(row) |-> StandingIds(doc, row)[n]], p) EXCEPT
     !.good = DOMAIN row.lends, !.key = <<"key", "none", clock + 1>>]

NoTwins(seq) == \A i, j \in DOMAIN seq : seq[i].id = seq[j].id => seq[i] = seq[j]

Required(row) ==
  {n \in DOMAIN row.links :
     row.links[n].absent # "accepted" \/ \E h \in row.heeds : h[1] = n}

(* What a stage requires is on file: a record for each link that can be named, and  *)
(* for the others, the newest or that of another record, one that will do.  A link   *)
(* that must have passed needs no more than that its list hides no record: that its  *)
(* record passed is for the stage before to see to.                                  *)
Open(doc, row, p) ==
  LET found == Found(row, doc, CompleteRequest(doc, row, p)) IN
  \A n \in Required(row) :
    \/ n \in NamedLinks(row) \ Led(row) /\ Serving(doc, row, n) # {}
    \/ n \in Guaranteed(row) /\ NoTwins(doc[row.links[n].list])
    \/ Serves(row, n, found[n])

(* Blocked records never shut a stage: while the facts are true and what the      *)
(* stage requires is on file, under however many newer records that fell short,   *)
(* a complete request passes.                                                      *)
NoDeadEnd ==
  facts = Facts =>
    \A s \in desk.stages, p \in desk.providers : Open(stored, Rows[s], p) =>
      Create(Rows[s], stored, CompleteRequest(stored, Rows[s], p), facts, clock).status
        = Rows[s].passes

(* The stages where the browser is known to ask less than the server, and more.   *)
LenientOffline ==
  {"labPilotRunbookWorkflows", "authorizedMode", "credentialProviderContractRecords",
   "readOnlyPilotSessions", "pilotEvidenceReviewRecords",
   "labConnectionDryRunConsoleRecords", "evidenceExportPackV2Records"}
StrictOffline == {"authorizedLabConnectionDryRunRecords", "labConnectivityPreflightRecords"}

(* The stages whose page passes a click without looking at something, beside the    *)
(* chain, that the server checks: the runtime flag, the audit destination, a scope,  *)
(* reachability.                                                                    *)
FactBlindOffline ==
  {"readOnlyPrismLabGates", "controlledLabDryRunWindows", "providerReleaseGateRecords",
   "labExecutionProposalEnvelopes", "hardenedLabConnectionProfileReviews",
   "credentialResolverAdapterStubRecords", "emergencyStopRollbackDrillRecords",
   "disabledPrismReadOnlyHttpClientRecords", "readOnlyRuntimeEnablementPolicies",
   "readOnlyPilotSessions", "liveReadOnlyCallEnvelopes", "labReadinessWorkspaces",
   "realLabAuthorizationPacketRecords"}

(* What `other` looks at, and `row` does not. *)
Unseen(row, other) ==
  IF other.always THEN {} ELSE other.facts \ {f \in row.facts : ~row.always}

(* What a click finds under a link, however the row looks it up. *)
ClickFinds(n, link) ==
  CASE link.by = "through" -> "record of a record"
    [] link.by = "standing" /\ link.via = "none" -> "standing"
    [] n = "releaseExport" /\ link.by \in {"id else provider", "provider"}
         /\ link.via = "none" -> "newest of provider"
    [] n # "releaseExport" /\ link.by = "id else through" -> "newest"
    [] n # "releaseExport" /\ link.via = "none"
         /\ link.by \in {"id or provider", "id else provider", "id else newest", "newest"} ->
         "newest"
    [] OTHER -> "unknown"

(* The links under which a click finds the same record by either row. *)
Alike(row, other) ==
  {n \in DOMAIN row.links \cap DOMAIN other.links :
     LET link == row.links[n]
         finds == ClickFinds(n, link) IN
     /\ link.list = other.links[n].list
     /\ finds = ClickFinds(n, other.links[n]) /\ finds # "unknown"
     /\ finds = "standing" => link.needs = other.links[n].needs
     /\ finds = "record of a record" =>
          link.via = other.links[n].via /\ link.as = other.links[n].as}

(* A status that a record of a list, which tells its own, has only with nothing short. *)
MakesWhole(row, list, status) ==
  row.list = list =>
    ~row.always /\ row.seals = "none" /\ status \notin {row.otherwise, "Rejected"}

Whole(list, status) ==
  /\ list # Advancing
  /\ \A s \in DOMAIN Rows : MakesWhole(Rows[s], list, status)
  /\ \A s \in DOMAIN OfflineRows : MakesWhole(OfflineRows[s], list, status)

(* What is known of a link's record once a row let a click pass: that there is one,  *)
(* that it has a status the other will do with, that nothing is short in it.          *)
Requires(row, n) ==
  row.links[n].absent = "refused" \/ (~row.always /\ row.links[n].absent # "accepted")

RequiresStanding(row, n, needs) ==
  ~row.always /\ row.links[n].needs # {} /\ row.links[n].needs \subseteq needs

RequiresWhole(row, n) ==
  /\ Requires(row, n) /\ RequiresStanding(row, n, row.links[n].needs)
  /\ \A status \in row.links[n].needs : Whole(row.links[n].list, status)

LentOnClick(row) == {row.lends[i] : i \in DOMAIN row.lends \ GivenOnClick(row)}

(* What `other` checks beyond the links and what is unseen, when `row` let the click *)
(* pass.                                                                            *)
CoversChecks(row, other, same) ==
  /\ Ungiven(other) = {} /\ other.agrees = {}
  /\ \A n \in DOMAIN other.links :
       other.links[n].needs # {} \/ other.links[n].absent # "accepted" =>
         /\ n \in same /\ Requires(row, n)
         /\ other.links[n].needs = {} \/ RequiresStanding(row, n, other.links[n].needs)
  /\ \A l \in LentOnClick(other) :
       /\ l[1] \in same
       /\ ((~row.always /\ l \in LentOnClick(row)) \/ RequiresWhole(row, l[1]))
  /\ \A h \in other.heeds :
       /\ h[1] \in same
       /\ ((~row.always /\ h \in row.heeds) \/ RequiresWhole(row, h[1]))
  /\ other.keyed =>
       row.keyed /\ ~row.always /\ row.owner = other.owner /\ row.owner \in same

(* A click that passes by `row` passes by `other`, as long as what `row` does not see *)
(* is true, or none passes by `row`.                                                *)
Covers(row, other) ==
  LET same == Alike(row, other) IN
  /\ row.stage = other.stage /\ row.list = other.list
  /\ row.passes \notin {row.otherwise, "none"}
  /\ \A n \in same : ClickFinds(n, row.links[n]) = "record of a record" =>
       row.links[n].via \in same
  /\ \/ ~row.always /\ Ungiven(row) # {}
     \/ /\ \A n \in DOMAIN other.links :
             other.links[n].absent = "refused" => n \in same /\ Requires(row, n)
        /\ other.always \/ CoversChecks(row, other, same)

ASSUME ComparedAssumption ==
  \A s \in DOMAIN OfflineRows :
    /\ s \in DOMAIN Rows
    /\ s \in LenientOffline \/ Covers(OfflineRows[s], Rows[s])
    /\ s \in StrictOffline \/ Covers(Rows[s], OfflineRows[s])
    /\ Unseen(Rows[s], OfflineRows[s]) = {}
    /\ Unseen(OfflineRows[s], Rows[s]) # {} <=> s \in FactBlindOffline

(* The same click on the same lists passes offline if and only if it passes at    *)
(* the server, whatever has lapsed, but for the stages named above: at a lenient or *)
(* a strict one, one of the two holds; and at a fact-blind one a click that passes   *)
(* offline passes at the server only while what the page does not look at is true.  *)
OfflineAgreesWithServer ==
  \A s \in desk.stages \cap DOMAIN OfflineRows, p \in desk.providers :
    LET Passes(row) ==
          Create(row, browser.lists, Clicked(browser.lists, row, p), facts, clock).status
            = row.passes IN
    /\ Passes(OfflineRows[s]) =>
         \/ s \in LenientOffline
         \/ s \in FactBlindOffline /\ ~(Unseen(OfflineRows[s], Rows[s]) \subseteq facts)
         \/ Passes(Rows[s])
    /\ Passes(Rows[s]) => s \in StrictOffline \/ Passes(OfflineRows[s])
=============================================================================
