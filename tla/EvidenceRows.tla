---------------------------- MODULE EvidenceRows ----------------------------
(***************************************************************************)
(* What every create function of the evidence chains does.  A stage of a     *)
(* chain is a row: the list it keeps its records in, the earlier records it  *)
(* looks up, the checks it makes of them and of the request, the status a    *)
(* record gets when all of them hold.  A document is a function from list    *)
(* names to sequences of records, newest first, as ApiState holds them.      *)
(* The rows are in LabStages, SwitchStages, ProductionStages, PilotStages    *)
(* and, for the browser's offline mode, the three Browser modules.           *)
(*                                                                         *)
(* A record keeps what a later stage can ask of it: its provider, the ids it *)
(* links or copies, its status, and which of its inputs fell short.  Texts,  *)
(* manifests, owners and references are inputs that are either good or bad.  *)
(***************************************************************************)
EXTENDS Naturals, Sequences, FiniteSets, TLC

NoId == <<"none", "none", 0>>
UnknownId == <<"unknown", "none", 0>>

NoRecord ==
  [id |-> NoId, list |-> "none", provider |-> "none", links |-> <<>>,
   status |-> "none", standing |-> "none", fails |-> {}, key |-> NoId]

-----------------------------------------------------------------------------
(* A link: where an earlier record is looked up, by what, the statuses of it   *)
(* that will do ({}: any), and what its absence means.                         *)

Link(list, by, needs, absent) ==
  [list |-> list, by |-> by, via |-> "none", as |-> "none",
   needs |-> needs, absent |-> absent]

(* `(id ? find : undefined) ?? (provider ? find : [0])`, or a 400. *)
Parent(list, needs) == Link(list, "id or provider", needs, "refused")

(* `id ? find(id) : [0]`, or a 400. *)
Given(list, needs) == Link(list, "id else newest", needs, "refused")

(* The record whose id the record under `link` keeps as `as`. *)
Through(list, link, as, needs) ==
  [Link(list, "through", needs, "blocked") EXCEPT !.via = link, !.as = as]

(* An id taken over from the record under `link` without a look-up. *)
Copied(list, link, as) ==
  [Through(list, link, as, {}) EXCEPT !.absent = "accepted"]

(* A record the stage reports when there is one. *)
Optional(list) == Link(list, "id else newest", {}, "accepted")

-----------------------------------------------------------------------------
(* A row with no check but its links. *)
Row(list, passes, links) ==
  [stage |-> list, list |-> list, passes |-> passes, otherwise |-> "Blocked",
   links |-> links,
   owner |-> "none",     (* the link the provider is taken from        *)
   always |-> FALSE,     (* the status does not depend on the checks   *)
   seals |-> "none",     (* the link whose status the record freezes   *)
   inputs |-> {},        (* good unless the request says otherwise     *)
   asked |-> {},         (* bad unless the request gives them          *)
   lends |-> <<>>,       (* inputs taken from a link unless given      *)
   heeds |-> {},         (* inputs of a link that are checked again    *)
   agrees |-> {},        (* ids of a link that must name another link  *)
   facts |-> {},         (* what must be true outside the chain        *)
   rejects |-> "never",  (* when a rejecting request gives "Rejected"  *)
   keyed |-> FALSE]      (* refuses an idempotency key it has seen     *)

(* The usual stage: one parent of one status, one check per input. *)
Review(list, link, parents, needs, passes, inputs) ==
  [Row(list, passes, link :> Parent(parents, {needs})) EXCEPT
     !.owner = link, !.inputs = inputs]

(* An export: "Prepared" whatever it exports, whose status it freezes. *)
Export(list, link, parents) ==
  [Row(list, "Prepared", link :> Parent(parents, {})) EXCEPT
     !.owner = link, !.always = TRUE, !.seals = link]

(* The usual stage of the offline browser: the newest parent on the screen, every *)
(* input filled in; without a parent the click does nothing.                      *)
Click(list, link, parents, needs, passes) ==
  [Row(list, passes, link :> Link(parents, "newest", {needs}, "refused")) EXCEPT
     !.owner = link]

-----------------------------------------------------------------------------
(* Looking records up. *)

OnFile(doc, list) == {doc[list][i] : i \in DOMAIN doc[list]}

First(seq, S) ==
  IF S = {} THEN NoRecord ELSE seq[CHOOSE i \in S : \A j \in S : i <= j]

Newest(seq) == First(seq, DOMAIN seq)
WithId(seq, id) == First(seq, {i \in DOMAIN seq : seq[i].id = id})
OfProvider(seq, p) == First(seq, {i \in DOMAIN seq : seq[i].provider = p})

NamedLinks(row) ==
  {n \in DOMAIN row.links : row.links[n].by \in
     {"id or provider", "id else provider", "id else newest", "id else through"}}

Named(req, n) == IF n \in DOMAIN req.ids THEN req.ids[n] ELSE NoId

ByIdOrProvider(seq, id, p) ==
  IF WithId(seq, id) # NoRecord THEN WithId(seq, id)
  ELSE IF p = "none" THEN Newest(seq) ELSE OfProvider(seq, p)

(* Mutant: the newest record, whichever id is named. *)
LookupNewest(link, seq, id, p) == Newest(seq)

Lookup(link, seq, id, p) ==
  CASE link.by = "id or provider" -> ByIdOrProvider(seq, id, p)
    [] link.by = "id else provider" ->
         IF id # NoId THEN WithId(seq, id) ELSE OfProvider(seq, p)
    [] link.by = "id else newest" ->
         IF id # NoId THEN WithId(seq, id) ELSE Newest(seq)
    [] link.by = "id else through" -> WithId(seq, id)
    [] link.by = "provider" -> OfProvider(seq, p)
    [] link.by = "newest" -> Newest(seq)
    [] link.by = "standing" ->
         First(seq, {i \in DOMAIN seq : seq[i].standing \in link.needs})
    [] OTHER -> NoRecord

Direct(row, doc, req) ==
  [n \in DOMAIN row.links |->
     Lookup(row.links[n], doc[row.links[n].list], Named(req, n), req.provider)]

(* The links that go through a record found already. *)
Follow(row, doc, req, found) ==
  [n \in DOMAIN row.links |->
     LET link == row.links[n]
         parent == found[link.via] IN
     IF link.via = "none" \/ Named(req, n) # NoId \/ found[link.via] = NoRecord
     THEN found[n] ELSE WithId(doc[link.list], parent.links[link.as])]

(* No chain of look-ups is longer: packet, envelope, window, runbook. *)
Found(row, doc, req) ==
  Follow(row, doc, req, Follow(row, doc, req, Follow(row, doc, req, Direct(row, doc, req))))

-----------------------------------------------------------------------------
(* The checks, and the record. *)

(* Mutant: a record on file will do. *)
StandsOnFile(link, r) == r # NoRecord

Stands(link, r) == r # NoRecord /\ (link.needs = {} \/ r.standing \in link.needs)

LinksStand(row, found) ==
  \A n \in DOMAIN row.links :
    \/ Stands(row.links[n], found[n])
    \/ row.links[n].absent = "accepted" /\ found[n] = NoRecord

Failing(row, req, found) ==
  req.bad \cup
  {i \in DOMAIN row.lends \ req.good :
     row.lends[i][2] \in found[row.lends[i][1]].fails}

KeyOf(row, req, found) ==
  IF req.key # NoId \/ ~row.keyed THEN req.key ELSE found[row.owner].id

(* Mutant: a seen key is not refused. *)
AnyKey(row, doc, key) == TRUE

FreshKey(row, doc, key) == row.keyed => \A r \in OnFile(doc, row.list) : r.key # key

(* Mutant: the links of a link are not compared. *)
ChecksPassApart(row, doc, req, found, facts) ==
  /\ LinksStand(row, found)
  /\ Failing(row, req, found) = {}
  /\ row.facts \subseteq facts
  /\ FreshKey(row, doc, KeyOf(row, req, found))

ChecksPass(row, doc, req, found, facts) ==
  /\ LinksStand(row, found)
  /\ Failing(row, req, found) = {}
  /\ \A h \in row.heeds : h[2] \notin found[h[1]].fails
  /\ \A a \in row.agrees : found[a[1]].links[a[2]] = found[a[3]].id
  /\ row.facts \subseteq facts
  /\ FreshKey(row, doc, KeyOf(row, req, found))

StatusOf(row, doc, req, found, facts) ==
  IF req.reject /\ row.rejects = "at once" THEN "Rejected"
  ELSE IF ~row.always /\ ~ChecksPass(row, doc, req, found, facts) THEN row.otherwise
  ELSE IF req.reject /\ row.rejects = "when complete" THEN "Rejected"
  ELSE row.passes

Refused(row, found) ==
  \E n \in DOMAIN row.links : row.links[n].absent = "refused" /\ found[n] = NoRecord

ProviderOf(row, req, found) ==
  IF row.owner = "none" THEN req.provider ELSE found[row.owner].provider

(* The record a request makes at time `now`; NoRecord when it is refused. *)
Create(row, doc, req, facts, now) ==
  LET found == Found(row, doc, req)
      status == StatusOf(row, doc, req, found, facts)
      provider == ProviderOf(row, req, found) IN
  IF Refused(row, found) THEN NoRecord
  ELSE [id |-> <<row.list, provider, now>>, list |-> row.list, provider |-> provider,
        links |-> [n \in DOMAIN row.links |-> found[n].id],
        status |-> status,
        standing |-> IF row.seals = "none" THEN status ELSE found[row.seals].status,
        fails |-> Failing(row, req, found),
        key |-> KeyOf(row, req, found)]

(* `[record, ...state.<list>]`, and nothing for a refused request. *)
Filed(doc, r) ==
  IF r = NoRecord THEN doc ELSE [doc EXCEPT ![r.list] = <<r>> \o @]

(* The rows of a sequence by the name of their stage. *)
StageTable(rows) ==
  [s \in {rows[i].stage : i \in DOMAIN rows} |->
     rows[CHOOSE i \in DOMAIN rows : rows[i].stage = s]]
=============================================================================
