------------------------ MODULE EvidenceChainProofs ------------------------
(***************************************************************************)
(* What holds of the evidence chains for any rows that RowsAssumption allows, *)
(* any number of requests open together, any clock.                          *)
(***************************************************************************)
EXTENDS EvidenceChain, WellFoundedInduction, TLAPS

-----------------------------------------------------------------------------
(* Looking up finds nothing, or a record that is there. *)

LEMMA LeastNumber ==
  ASSUME NEW S \in SUBSET Nat, S # {}
  PROVE  \E i \in S : \A j \in S : i <= j
<1>1. \E i \in S : \A j \in S : ~(<<j, i>> \in OpToRel(<, Nat))
  BY NatLessThanWellFounded, WFMin
<1>2. \A i, j \in Nat : j < i => <<j, i>> \in OpToRel(<, Nat)
  BY DEF OpToRel
<1>3. PICK i \in S : \A j \in S : ~(<<j, i>> \in OpToRel(<, Nat))
  BY <1>1
<1>4. \A j \in S : ~(j < i)
  BY <1>2, <1>3, Zenon
<1> QED
  BY <1>4

LEMMA FirstIsThere ==
  ASSUME NEW seq, NEW S \in SUBSET DOMAIN seq, S \subseteq Nat
  PROVE  First(seq, S) \in {NoRecord} \cup {seq[i] : i \in DOMAIN seq}
<1>1. CASE S = {}
  BY <1>1 DEF First
<1>2. CASE S # {}
  <2>1. \E i \in S : \A j \in S : i <= j
    BY <1>2, LeastNumber
  <2>2. (CHOOSE i \in S : \A j \in S : i <= j) \in S
    BY <2>1
  <2> QED
    BY <1>2, <2>2 DEF First
<1> QED
  BY <1>1, <1>2

LEMMA FirstIsIn ==
  ASSUME NEW seq, NEW S \in SUBSET Nat, S # {}
  PROVE  \E i \in S : First(seq, S) = seq[i]
<1>1. \E i \in S : \A j \in S : i <= j
  BY LeastNumber
<1>2. (CHOOSE i \in S : \A j \in S : i <= j) \in S
  BY <1>1
<1> QED
  BY <1>2 DEF First

LEMMA LookupIsThere ==
  ASSUME NEW link, NEW seq, NEW id, NEW p, DOMAIN seq \subseteq Nat
  PROVE  Lookup(link, seq, id, p) \in {NoRecord} \cup {seq[i] : i \in DOMAIN seq}
<1>1. \A S \in SUBSET DOMAIN seq :
        First(seq, S) \in {NoRecord} \cup {seq[i] : i \in DOMAIN seq}
  BY FirstIsThere
<1>2. WithId(seq, id) \in {NoRecord} \cup {seq[i] : i \in DOMAIN seq}
  BY <1>1 DEF WithId
<1>3. OfProvider(seq, p) \in {NoRecord} \cup {seq[i] : i \in DOMAIN seq}
  BY <1>1 DEF OfProvider
<1>4. Newest(seq) \in {NoRecord} \cup {seq[i] : i \in DOMAIN seq}
  BY <1>1 DEF Newest
<1>5. First(seq, {i \in DOMAIN seq : seq[i].standing \in link.needs})
        \in {NoRecord} \cup {seq[i] : i \in DOMAIN seq}
  BY <1>1
<1>6. ByIdOrProvider(seq, id, p) \in {NoRecord} \cup {seq[i] : i \in DOMAIN seq}
  BY <1>2, <1>3, <1>4 DEF ByIdOrProvider
<1> HIDE DEF First
<1> QED
  BY <1>2, <1>3, <1>4, <1>5, <1>6 DEF Lookup
IsThere(row, doc, found) ==
  \A n \in DOMAIN row.links : found[n] \in {NoRecord} \cup OnFile(doc, row.links[n].list)

Numbered(doc) == \A l \in Lists : DOMAIN doc[l] \subseteq Nat

LinksToLists(row) == \A n \in DOMAIN row.links : row.links[n].list \in Lists

LEMMA FollowIsThere ==
  ASSUME NEW row, NEW doc, NEW req, NEW found,
         LinksToLists(row), Numbered(doc), IsThere(row, doc, found)
  PROVE  IsThere(row, doc, Follow(row, doc, req, found))
<1> SUFFICES ASSUME NEW n \in DOMAIN row.links
             PROVE  Follow(row, doc, req, found)[n]
                      \in {NoRecord} \cup OnFile(doc, row.links[n].list)
  BY DEF IsThere
<1> DEFINE seq == doc[row.links[n].list]
<1>1. found[n] \in {NoRecord} \cup OnFile(doc, row.links[n].list)
  BY DEF IsThere
<1>2. DOMAIN seq \subseteq Nat
  BY DEF LinksToLists, Numbered
<1>3. \A id : WithId(seq, id) \in {NoRecord} \cup {seq[i] : i \in DOMAIN seq}
  BY <1>2, FirstIsThere, Zenon DEF WithId
<1>4. Follow(row, doc, req, found)[n] = found[n] \/
      \E id : Follow(row, doc, req, found)[n] = WithId(seq, id)
  BY DEF Follow
<1> QED
  BY <1>1, <1>3, <1>4 DEF OnFile

LEMMA FoundIsThere ==
  ASSUME NEW row, NEW doc, NEW req, LinksToLists(row), Numbered(doc)
  PROVE  IsThere(row, doc, Found(row, doc, req))
<1>1. IsThere(row, doc, Direct(row, doc, req))
  <2> SUFFICES ASSUME NEW n \in DOMAIN row.links
               PROVE  Direct(row, doc, req)[n]
                        \in {NoRecord} \cup OnFile(doc, row.links[n].list)
    BY DEF IsThere
  <2>1. DOMAIN doc[row.links[n].list] \subseteq Nat
    BY DEF LinksToLists, Numbered
  <2>2. Direct(row, doc, req)[n] =
          Lookup(row.links[n], doc[row.links[n].list], Named(req, n), req.provider)
    BY DEF Direct
  <2> QED
    BY <2>1, <2>2, LookupIsThere DEF OnFile
<1> QED
  BY <1>1, FollowIsThere DEF Found

-----------------------------------------------------------------------------
(* The record a request makes. *)

Fields == {"id", "list", "provider", "links", "status", "standing", "fails", "key"}

MadeBy(row, doc, req, true, r) ==
  LET found == Found(row, doc, req) IN
  /\ ~Refused(row, found)
  /\ DOMAIN r = Fields
  /\ r.list = row.list
  /\ r.links = [n \in DOMAIN row.links |-> found[n].id]
  /\ r.status = StatusOf(row, doc, req, found, true)
  /\ r.standing = IF row.seals = "none" THEN r.status ELSE found[row.seals].status
  /\ r.key = KeyOf(row, req, found)

LEMMA CreatedRecord ==
  ASSUME NEW row, NEW doc, NEW req, NEW true, NEW now,
         Create(row, doc, req, true, now) # NoRecord
  PROVE  MadeBy(row, doc, req, true, Create(row, doc, req, true, now))
<1>1. ~Refused(row, Found(row, doc, req))
  BY DEF Create
<1> QED
  BY <1>1 DEF Create, Fields, MadeBy

LEMMA StatusTells ==
  ASSUME NEW row, NEW doc, NEW req, NEW found, NEW true, WellMade(row)
  PROVE  LET status == StatusOf(row, doc, req, found, true) IN
         /\ status \in {row.passes, row.otherwise, "Rejected"}
         /\ status = row.passes /\ ~row.always => ChecksPass(row, doc, req, found, true)
         /\ row.rejects = "never" => status \in {row.passes, row.otherwise}
BY DEF StatusOf, WellMade

-----------------------------------------------------------------------------
(* The inductive invariant.  It holds of the document on file and of every copy  *)
(* a request has open: whichever of them is saved last, what it says of its      *)
(* records is true of it.                                                        *)

RecordSound(doc, row, r) ==
  /\ HasFooting(doc, row, r)
  /\ LinksAgree(doc, row, r)
  /\ row.list = Advancing => r.status \in {row.passes, "Closed", "Blocked"}

Shaped(doc) ==
  /\ DOMAIN doc = Lists
  /\ \A l \in Lists : doc[l] \in Seq(OnFile(doc, l))
  /\ \A l \in Lists : \A r \in OnFile(doc, l) : r.list = l /\ DOMAIN r = Fields

Sound(doc) ==
  /\ Shaped(doc)
  /\ \A s \in DOMAIN Rows : \A r \in OnFile(doc, Rows[s].list) : RecordSound(doc, Rows[s], r)
  /\ \A s \in DOMAIN Rows : Rows[s].keyed => KeysDiffer(doc, Rows[s])

LEMMA ShapedIsNumbered ==
  ASSUME NEW doc, Shaped(doc)
  PROVE  Numbered(doc)
BY DEF Shaped, Numbered

(* An id on file finds a record on file, which has it. *)
LEMMA WithIdIsThere ==
  ASSUME NEW doc, Shaped(doc), NEW l \in Lists, NEW q \in OnFile(doc, l)
  PROVE  /\ WithId(doc[l], q.id) \in OnFile(doc, l)
         /\ WithId(doc[l], q.id).id = q.id
<1> DEFINE S == {i \in DOMAIN doc[l] : doc[l][i].id = q.id}
<1>1. S # {}
  BY DEF OnFile
<1>2. S \in SUBSET Nat
  BY DEF Shaped
<1>3. PICK i \in S : First(doc[l], S) = doc[l][i]
  <2> HIDE DEF S
  <2> QED
    BY <1>1, <1>2, FirstIsIn
<1> QED
  BY <1>3 DEF WithId, OnFile

LEMMA RowLists ==
  ASSUME NEW s \in DOMAIN Rows
  PROVE  /\ Rows[s].list \in Lists
         /\ WellMade(Rows[s])
         /\ LinksToLists(Rows[s])
<1>1. WellMade(Rows[s])
  BY RowsAssumption
<1> QED
  BY <1>1 DEF Lists, WellMade, LinksToLists

(* What is said of a record stays true in a document that keeps what it links; the *)
(* runbooks may change.                                                            *)
LEMMA LargerDocument ==
  ASSUME NEW doc, NEW larger, NEW s \in DOMAIN Rows, NEW r,
         \A l \in Lists \ {Advancing} : OnFile(doc, l) \subseteq OnFile(larger, l),
         RecordSound(doc, Rows[s], r)
  PROVE  RecordSound(larger, Rows[s], r)
<1> DEFINE row == Rows[s]
<1>1. \A n \in DOMAIN row.links : row.links[n].list # Advancing =>
        Linked(doc, row, r, n) \subseteq Linked(larger, row, r, n)
  BY RowLists DEF Linked, LinksToLists
<1>2. HasFooting(larger, row, r)
  BY <1>1, RowLists DEF RecordSound, HasFooting, LastingLinks, WellMade
<1>3. LinksAgree(larger, row, r)
  BY <1>1, RowLists DEF RecordSound, LinksAgree, WellMade
<1> QED
  BY <1>2, <1>3 DEF RecordSound

(* A new record, of every row of its list. *)
LEMMA LinkFound ==
  ASSUME NEW doc, Shaped(doc), NEW s \in DOMAIN Rows, NEW req, NEW true, NEW now,
         Create(Rows[s], doc, req, true, now) # NoRecord,
         NEW n \in DOMAIN Rows[s].links,
         Found(Rows[s], doc, req)[n] # NoRecord
  PROVE  Found(Rows[s], doc, req)[n]
           \in Linked(doc, Rows[s], Create(Rows[s], doc, req, true, now), n)
<1> DEFINE found == Found(Rows[s], doc, req)
<1>1. found[n] \in OnFile(doc, Rows[s].links[n].list)
  BY FoundIsThere, ShapedIsNumbered, RowLists DEF IsThere
<1>2. Create(Rows[s], doc, req, true, now).links = [m \in DOMAIN Rows[s].links |-> found[m].id]
  BY CreatedRecord DEF MadeBy
<1>3. Create(Rows[s], doc, req, true, now).links[n] = found[n].id
  BY <1>2
<1> QED
  BY <1>1, <1>3 DEF Linked

LEMMA NewRecordSound ==
  ASSUME NEW doc, Shaped(doc), NEW s \in DOMAIN Rows, NEW req, NEW true, NEW now,
         Create(Rows[s], doc, req, true, now) # NoRecord
  PROVE  RecordSound(doc, Rows[s], Create(Rows[s], doc, req, true, now))
<1> DEFINE row == Rows[s]
           found == Found(row, doc, req)
           r == Create(row, doc, req, true, now)
<1>1. /\ ~Refused(row, found)
      /\ r.links = [n \in DOMAIN row.links |-> found[n].id]
      /\ r.status = StatusOf(row, doc, req, found, true)
      /\ r.standing = IF row.seals = "none" THEN r.status ELSE found[row.seals].status
  BY CreatedRecord DEF MadeBy
<1>2. WellMade(row)
  BY RowLists
<1>3. /\ r.status \in {row.passes, row.otherwise, "Rejected"}
      /\ r.status = row.passes /\ ~row.always => ChecksPass(row, doc, req, found, true)
      /\ row.rejects = "never" => r.status \in {row.passes, row.otherwise}
  BY <1>1, <1>2, StatusTells
<1>4. \A n \in DOMAIN row.links : found[n] # NoRecord => found[n] \in Linked(doc, row, r, n)
  BY LinkFound
<1> HIDE DEF r, found
<1>5. row.list = Advancing => r.status \in {row.passes, "Blocked"}
  BY <1>2, <1>3 DEF WellMade
<1>6. Passed(row, r) => ChecksPass(row, doc, req, found, true)
  BY <1>3, <1>5 DEF Passed
<1>7. Passed(row, r) =>
        \A n \in DOMAIN row.links :
          \/ Stands(row.links[n], found[n])
          \/ row.links[n].absent = "accepted" /\ found[n] = NoRecord
  <2>1. Passed(row, r) => LinksStand(row, found)
    BY <1>6 DEF ChecksPass
  <2> QED
    BY <2>1 DEF LinksStand
<1>8. HasFooting(doc, row, r)
  <2>1. ASSUME Passed(row, r), NEW n \in LastingLinks(row)
        PROVE  \E p \in Linked(doc, row, r, n) : p.standing \in row.links[n].needs
    BY <1>2, <1>4, <1>7, <2>1 DEF LastingLinks, WellMade, Stands
  <2>2. ASSUME row.seals # "none"
        PROVE  \E p \in Linked(doc, row, r, row.seals) : p.status = r.standing
    <3>1. row.seals \in DOMAIN row.links /\ row.links[row.seals].absent = "refused"
      BY <1>2, <2>2 DEF WellMade
    <3>2. found[row.seals] # NoRecord
      BY <1>1, <3>1 DEF Refused
    <3> QED
      BY <1>1, <1>4, <2>2, <3>1, <3>2
  <2> QED
    BY <2>1, <2>2 DEF HasFooting
<1>9. LinksAgree(doc, row, r)
  <2> SUFFICES ASSUME Passed(row, r), NEW a \in row.agrees
               PROVE  \E p \in Linked(doc, row, r, a[1]) : p.links[a[2]] = r.links[a[3]]
    BY DEF LinksAgree
  <2>1. /\ a[1] \in DOMAIN row.links /\ a[3] \in DOMAIN row.links
        /\ row.links[a[1]].absent # "accepted"
    BY <1>2 DEF WellMade
  <2>2. found[a[1]] \in Linked(doc, row, r, a[1])
    BY <1>4, <1>7, <2>1 DEF Stands
  <2>3. found[a[1]].links[a[2]] = found[a[3]].id
    BY <1>6 DEF ChecksPass
  <2>4. r.links[a[3]] = found[a[3]].id
    BY <1>1, <2>1
  <2> QED
    BY <2>2, <2>3, <2>4
<1> QED
  BY <1>5, <1>8, <1>9 DEF RecordSound, r

-----------------------------------------------------------------------------
(* Filing a record keeps a document sound. *)

IsPrepended(new, r, seq, T) ==
  /\ new \in Seq(T \cup {r})
  /\ DOMAIN seq = 1 .. Len(seq) /\ Len(seq) \in Nat
  /\ DOMAIN new = 1 .. Len(seq) + 1
  /\ new[1] = r
  /\ \A i \in 2 .. Len(seq) + 1 : new[i] = seq[i - 1]
  /\ \A x : (\E i \in DOMAIN new : x = new[i])
            <=> x = r \/ \E i \in DOMAIN seq : x = seq[i]

LEMMA Prepended ==
  ASSUME NEW T, NEW seq \in Seq(T), NEW r
  PROVE  IsPrepended(<<r>> \o seq, r, seq, T)
<1> DEFINE new == <<r>> \o seq
<1>1. seq \in Seq(T \cup {r}) /\ <<r>> \in Seq(T \cup {r})
  OBVIOUS
<1>2. /\ new \in Seq(T \cup {r})
      /\ Len(new) = Len(seq) + 1
      /\ new[1] = r
      /\ \A i \in 2 .. Len(seq) + 1 : new[i] = seq[i - 1]
  BY <1>1
<1>3. /\ DOMAIN seq = 1 .. Len(seq) /\ Len(seq) \in Nat
      /\ DOMAIN new = 1 .. Len(seq) + 1
  BY <1>2
<1> HIDE DEF new
<1>4. \A i \in DOMAIN seq : i + 1 \in 2 .. Len(seq) + 1 /\ new[i + 1] = seq[i]
  BY <1>2, <1>3
<1>5. ASSUME NEW i \in DOMAIN new
      PROVE  new[i] = r \/ \E j \in DOMAIN seq : new[i] = seq[j]
  <2>1. CASE i = 1
    BY <1>2, <2>1
  <2>2. CASE i # 1
    <3>1. i - 1 \in DOMAIN seq /\ i \in 2 .. Len(seq) + 1
      BY <1>3, <2>2
    <3> QED
      BY <1>2, <3>1
  <2> QED
    BY <2>1, <2>2
<1>6. ASSUME NEW j \in DOMAIN seq
      PROVE  \E i \in DOMAIN new : seq[j] = new[i]
  BY <1>3, <1>4
<1>7. \E i \in DOMAIN new : r = new[i]
  BY <1>2, <1>3
<1>8. \A x : (\E i \in DOMAIN new : x = new[i])
              <=> x = r \/ \E i \in DOMAIN seq : x = seq[i]
  BY <1>5, <1>6, <1>7
<1> QED
  BY <1>2, <1>3, <1>8 DEF new, IsPrepended

FiledIn(new, doc, r) ==
  /\ Shaped(new)
  /\ new[r.list] = <<r>> \o doc[r.list]
  /\ \A l \in Lists \ {r.list} : new[l] = doc[l]
  /\ OnFile(new, r.list) = OnFile(doc, r.list) \cup {r}
  /\ \A l \in Lists \ {r.list} : OnFile(new, l) = OnFile(doc, l)

LEMMA FiledShape ==
  ASSUME NEW doc, Shaped(doc), NEW r, r # NoRecord, r.list \in Lists, DOMAIN r = Fields
  PROVE  FiledIn(Filed(doc, r), doc, r)
<1> DEFINE new == Filed(doc, r)
<1>1. DOMAIN new = Lists /\ new[r.list] = <<r>> \o doc[r.list]
  BY DEF Filed, Shaped
<1>2. \A l \in Lists \ {r.list} : new[l] = doc[l]
  BY DEF Filed, Shaped
<1> HIDE DEF new
<1>3. doc[r.list] \in Seq(OnFile(doc, r.list))
  BY DEF Shaped
<1>4. /\ new[r.list] \in Seq(OnFile(doc, r.list) \cup {r})
      /\ OnFile(new, r.list) = OnFile(doc, r.list) \cup {r}
  <2> DEFINE cat == <<r>> \o doc[r.list]
  <2>0. IsPrepended(cat, r, doc[r.list], OnFile(doc, r.list))
    BY <1>3, Prepended
  <2>1. cat \in Seq(OnFile(doc, r.list) \cup {r})
    BY <2>0 DEF IsPrepended
  <2>3. \A x : (\E i \in DOMAIN cat : x = cat[i])
                <=> x = r \/ \E i \in DOMAIN doc[r.list] : x = doc[r.list][i]
    BY <2>0 DEF IsPrepended
  <2>2. new[r.list] = cat
    BY <1>1
  <2> HIDE DEF cat
  <2> QED
    BY <2>1, <2>2, <2>3 DEF OnFile
<1>5. \A l \in Lists \ {r.list} : OnFile(new, l) = OnFile(doc, l)
  BY <1>2 DEF OnFile
<1>6. Shaped(new)
  BY <1>1, <1>2, <1>4, <1>5 DEF Shaped
<1> QED
  BY <1>1, <1>2, <1>4, <1>5, <1>6 DEF new, FiledIn

(* The key of a record a keyed row queues is not that of another. *)
LEMMA FiledKeysDiffer ==
  ASSUME NEW doc, Shaped(doc), NEW row, row.list \in Lists, KeysDiffer(doc, row),
         NEW r, r # NoRecord, r.list = row.list, DOMAIN r = Fields,
         r.status = row.passes => \A q \in OnFile(doc, row.list) : q.key # r.key
  PROVE  KeysDiffer(Filed(doc, r), row)
<1> DEFINE old == doc[row.list]
           new == Filed(doc, r)[row.list]
<1>1. new = <<r>> \o old
  <2>1. FiledIn(Filed(doc, r), doc, r)
    BY FiledShape, Zenon
  <2> QED
    BY <2>1 DEF FiledIn
<1>2. /\ DOMAIN old = 1 .. Len(old) /\ Len(old) \in Nat
      /\ DOMAIN new = 1 .. Len(old) + 1
      /\ new[1] = r
      /\ \A i \in 2 .. Len(old) + 1 : new[i] = old[i - 1]
  BY <1>1, Prepended DEF Shaped, IsPrepended
<1>3. \A i, j \in DOMAIN old :
        old[i].status = row.passes /\ old[j].status = row.passes /\ old[i].key = old[j].key
          => i = j
  BY DEF KeysDiffer
<1>4. r.status = row.passes => \A i \in DOMAIN old : old[i].key # r.key
  BY DEF OnFile
<1> HIDE DEF old, new
<1> SUFFICES ASSUME NEW i \in DOMAIN new, NEW j \in DOMAIN new,
                    new[i].status = row.passes, new[j].status = row.passes,
                    new[i].key = new[j].key, i # j
             PROVE  FALSE
  BY DEF KeysDiffer, new
<1>5. CASE i = 1
  <2>1. j - 1 \in DOMAIN old /\ new[j] = old[j - 1]
    BY <1>2, <1>5
  <2> QED
    BY <1>2, <1>4, <1>5, <2>1
<1>6. CASE j = 1
  <2>1. i - 1 \in DOMAIN old /\ new[i] = old[i - 1]
    BY <1>2, <1>6
  <2> QED
    BY <1>2, <1>4, <1>6, <2>1
<1>7. CASE i # 1 /\ j # 1
  <2>1. /\ i - 1 \in DOMAIN old /\ new[i] = old[i - 1]
        /\ j - 1 \in DOMAIN old /\ new[j] = old[j - 1]
    BY <1>2, <1>7
  <2>2. i - 1 = j - 1
    BY <1>3, <2>1
  <2> QED
    BY <1>2, <2>2
<1> QED
  BY <1>5, <1>6, <1>7

LEMMA FiledSound ==
  ASSUME NEW doc, Sound(doc), NEW s \in DOMAIN Rows, NEW req, NEW true, NEW now,
         Create(Rows[s], doc, req, true, now) # NoRecord
  PROVE  Sound(Filed(doc, Create(Rows[s], doc, req, true, now)))
<1> DEFINE row == Rows[s]
           found == Found(row, doc, req)
           r == Create(row, doc, req, true, now)
           new == Filed(doc, r)
<1>0. r # NoRecord /\ Shaped(doc)
  BY DEF Sound
<1>made. MadeBy(row, doc, req, true, r)
  BY CreatedRecord
<1>3. RecordSound(doc, row, r)
  BY <1>0, NewRecordSound
<1> HIDE DEF r, found
<1>1. /\ DOMAIN r = Fields /\ r.list = row.list
      /\ r.status = StatusOf(row, doc, req, found, true)
      /\ r.key = KeyOf(row, req, found)
  BY <1>made DEF MadeBy, found
<1>2. WellMade(row) /\ row.list \in Lists
  BY RowLists
<1>4. /\ r.status \in {row.passes, row.otherwise, "Rejected"}
      /\ r.status = row.passes /\ ~row.always => ChecksPass(row, doc, req, found, true)
  BY <1>1, <1>2, StatusTells
<1>5. /\ Shaped(new)
      /\ OnFile(new, row.list) = OnFile(doc, row.list) \cup {r}
      /\ \A l \in Lists \ {row.list} : new[l] = doc[l] /\ OnFile(new, l) = OnFile(doc, l)
  <2>1. FiledIn(new, doc, r)
    BY <1>0, <1>1, <1>2, FiledShape
  <2> QED
    BY <1>1, <2>1 DEF FiledIn
<1>6. \A l \in Lists : OnFile(doc, l) \subseteq OnFile(new, l)
  BY <1>5
(* A row that shares the list does not take the new record for one of its own. *)
<1>7. ASSUME NEW t \in DOMAIN Rows, t # s, Rows[t].list = row.list
      PROVE  RecordSound(doc, Rows[t], r)
  <2>1. /\ row.list # Advancing
        /\ Rows[t].seals = "none"
        /\ Rows[t].passes \notin {row.passes, row.otherwise, "Rejected"}
    BY <1>7, RowsAssumption DEF ToldApart
  <2>2. ~Passed(Rows[t], r)
    BY <1>4, <1>7, <2>1 DEF Passed
  <2> QED
    BY <1>7, <2>1, <2>2 DEF RecordSound, HasFooting, LinksAgree
<1> HIDE DEF new
<1>8. ASSUME NEW t \in DOMAIN Rows, NEW q \in OnFile(new, Rows[t].list)
      PROVE  RecordSound(new, Rows[t], q)
  <2>1. RecordSound(doc, Rows[t], q)
    <3>1. CASE Rows[t].list = row.list /\ q = r
      BY <1>3, <1>7, <3>1
    <3>2. CASE q \in OnFile(doc, Rows[t].list)
      BY <3>2 DEF Sound
    <3>3. Rows[t].list \in Lists
      BY RowLists
    <3> QED
      BY <1>5, <1>8, <3>1, <3>2, <3>3
  <2> QED
    BY <1>6, <2>1, LargerDocument
<1>9. ASSUME NEW t \in DOMAIN Rows, Rows[t].keyed
      PROVE  KeysDiffer(new, Rows[t])
  <2>1. KeysDiffer(doc, Rows[t]) /\ Rows[t].list \in Lists
    BY <1>9, RowLists DEF Sound
  <2>2. CASE Rows[t].list # row.list
    <3>1. new[Rows[t].list] = doc[Rows[t].list]
      BY <1>5, <2>1, <2>2
    <3> QED
      BY <2>1, <3>1 DEF KeysDiffer
  <2>3. CASE Rows[t].list = row.list
    <3>1. t = s
      BY <1>9, <2>3, RowsAssumption DEF ToldApart
    <3>2. r.status = row.passes => \A q \in OnFile(doc, row.list) : q.key # r.key
      <4>1. r.status = row.passes => FreshKey(row, doc, KeyOf(row, req, found))
        BY <1>4, <3>1, <1>9, <1>2 DEF ChecksPass, WellMade
      <4> QED
        BY <1>1, <1>9, <3>1, <4>1 DEF FreshKey
    <3> QED
      BY <1>0, <1>1, <1>2, <2>1, <3>1, <3>2, FiledKeysDiffer DEF new
  <2> QED
    BY <2>2, <2>3
<1> QED
  BY <1>5, <1>8, <1>9 DEF Sound, new, r

-----------------------------------------------------------------------------
(* So does a step of a runbook, whichever of them take it. *)

Stepped(doc, f) == [doc EXCEPT ![Advancing] = f]

(* f has a record for each runbook on file, and it is one of them or restates one. *)
Restates(doc, f) ==
  /\ f = [j \in DOMAIN doc[Advancing] |-> f[j]]
  /\ \A j \in DOMAIN f : \E old \in OnFile(doc, Advancing) :
       f[j] = old \/ \E status : f[j] = WithStatus(old, status)

(* The same where only a runbook that is not Blocked takes the step. *)
Advances(doc, f, step) ==
  /\ f = [j \in DOMAIN doc[Advancing] |-> f[j]]
  /\ \A j \in DOMAIN f : \E old \in OnFile(doc, Advancing) :
       \/ f[j] = old
       \/ old.status # "Blocked" /\ f[j] = WithStatus(old, Advanced(old.status, step))

LEMMA SteppedShape ==
  ASSUME NEW doc, Shaped(doc), NEW f, Restates(doc, f)
  PROVE  LET new == Stepped(doc, f) IN
         /\ Shaped(new)
         /\ \A l \in Lists \ {Advancing} : new[l] = doc[l] /\ OnFile(new, l) = OnFile(doc, l)
         /\ \A q \in OnFile(new, Advancing) : \E j \in DOMAIN f : q = f[j]
<1> DEFINE old == doc[Advancing]
           new == Stepped(doc, f)
<1>1. Advancing \in Lists
  BY RowsAssumption
<1>2. /\ DOMAIN new = Lists
      /\ new[Advancing] = f
      /\ \A l \in Lists \ {Advancing} : new[l] = doc[l]
  BY <1>1 DEF Stepped, Shaped
<1>3. \A q \in OnFile(doc, Advancing) : q.list = Advancing /\ DOMAIN q = Fields
  BY <1>1 DEF Shaped
<1>4. \A q : q.list = Advancing /\ DOMAIN q = Fields =>
        \A status : WithStatus(q, status).list = Advancing /\ DOMAIN WithStatus(q, status) = Fields
  BY DEF WithStatus, Fields
<1>5. old \in Seq(OnFile(doc, Advancing))
  BY <1>1 DEF Shaped
<1>6. \A j \in DOMAIN f : f[j].list = Advancing /\ DOMAIN f[j] = Fields
  BY <1>3, <1>4 DEF Restates
<1>7. f = [j \in DOMAIN old |-> f[j]]
  BY DEF Restates
<1> HIDE DEF new, old
<1>8. f \in Seq(OnFile(new, Advancing))
  <2>1. PICK n \in Nat : DOMAIN old = 1 .. n
    BY <1>5
  <2>2. f = [j \in 1 .. n |-> f[j]]
    BY <1>7, <2>1
  <2>3. \A j \in 1 .. n : f[j] \in OnFile(new, Advancing)
    BY <1>2, <2>2 DEF OnFile
  <2>4. f \in [1 .. n -> OnFile(new, Advancing)]
    BY <2>2, <2>3
  <2> QED
    BY <2>4
<1>9. \A l \in Lists \ {Advancing} : OnFile(new, l) = OnFile(doc, l)
  BY <1>2 DEF OnFile
<1>10. \A q \in OnFile(new, Advancing) : \E j \in DOMAIN f : q = f[j]
  BY <1>2 DEF OnFile
<1>11. Shaped(new)
  <2>1. \A l \in Lists : new[l] \in Seq(OnFile(new, l))
    <3>1. \A l \in Lists \ {Advancing} : new[l] \in Seq(OnFile(new, l))
      BY <1>2, <1>9 DEF Shaped
    <3> QED
      BY <1>2, <1>8, <3>1
  <2>2. \A q \in OnFile(new, Advancing) : q.list = Advancing /\ DOMAIN q = Fields
    BY <1>6, <1>10
  <2>3. \A l \in Lists : \A q \in OnFile(new, l) : q.list = l /\ DOMAIN q = Fields
    BY <1>9, <2>2 DEF Shaped
  <2> QED
    BY <1>2, <2>1, <2>3 DEF Shaped
<1> QED
  BY <1>2, <1>9, <1>10, <1>11 DEF new

LEMMA AdvancesRestates ==
  ASSUME NEW doc, NEW f, NEW step, Advances(doc, f, step)
  PROVE  Restates(doc, f)
BY DEF Advances, Restates

(* A runbook that is not Blocked stays one that passed, and its links stay. *)
LEMMA AdvancedSound ==
  ASSUME NEW doc, Sound(doc), NEW step \in Steps, NEW old \in OnFile(doc, Advancing),
         old.status # "Blocked", NEW t \in DOMAIN Rows, Rows[t].list = Advancing
  PROVE  RecordSound(doc, Rows[t], WithStatus(old, Advanced(old.status, step)))
<1> DEFINE status == Advanced(old.status, step)
           r == WithStatus(old, status)
<1>1. Advancing \in Lists /\ DOMAIN old = Fields
  BY RowsAssumption DEF Sound, Shaped
<1>2. r.links = old.links /\ r.status = status
  BY <1>1 DEF WithStatus, Fields
<1> HIDE DEF r
<1>3. WellMade(Rows[t]) /\ RecordSound(doc, Rows[t], old)
  BY RowLists DEF Sound
<1>4. old.status \in {Rows[t].passes, "Closed"} /\ status \in {Rows[t].passes, "Closed"}
  BY <1>3 DEF RecordSound, WellMade
<1>5. Passed(Rows[t], old) /\ Rows[t].seals = "none"
  BY <1>3, <1>4 DEF Passed, WellMade
<1>6. \A n : Linked(doc, Rows[t], r, n) = Linked(doc, Rows[t], old, n)
  BY <1>2 DEF Linked
<1>7. HasFooting(doc, Rows[t], r) /\ LinksAgree(doc, Rows[t], r)
  BY <1>2, <1>3, <1>5, <1>6 DEF RecordSound, HasFooting, LinksAgree
<1> QED
  BY <1>2, <1>4, <1>7 DEF RecordSound, r

LEMMA SteppedSound ==
  ASSUME NEW doc, Sound(doc), NEW step \in Steps, NEW f, Advances(doc, f, step)
  PROVE  Sound(Stepped(doc, f))
<1> DEFINE new == Stepped(doc, f)
<1>1. Shaped(doc) /\ Restates(doc, f)
  BY AdvancesRestates DEF Sound
<1>2. /\ Shaped(new)
      /\ \A l \in Lists \ {Advancing} : new[l] = doc[l] /\ OnFile(new, l) = OnFile(doc, l)
      /\ \A q \in OnFile(new, Advancing) : \E j \in DOMAIN f : q = f[j]
  BY <1>1, SteppedShape
<1> HIDE DEF new
<1>3. ASSUME NEW t \in DOMAIN Rows, Rows[t].list = Advancing, NEW q \in OnFile(new, Advancing)
      PROVE  RecordSound(doc, Rows[t], q)
  <2>1. PICK old \in OnFile(doc, Advancing) :
          \/ q = old
          \/ old.status # "Blocked" /\ q = WithStatus(old, Advanced(old.status, step))
    BY <1>2, <1>3 DEF Advances
  <2>2. CASE q = old
    BY <1>3, <2>2 DEF Sound
  <2>3. CASE old.status # "Blocked" /\ q = WithStatus(old, Advanced(old.status, step))
    BY <1>3, <2>3, AdvancedSound
  <2> QED
    BY <2>1, <2>2, <2>3
<1>4. ASSUME NEW t \in DOMAIN Rows, NEW q \in OnFile(new, Rows[t].list)
      PROVE  RecordSound(new, Rows[t], q)
  <2>1. RecordSound(doc, Rows[t], q)
    <3>1. CASE Rows[t].list = Advancing
      BY <1>3, <1>4, <3>1
    <3>2. CASE Rows[t].list # Advancing
      <4>1. q \in OnFile(doc, Rows[t].list)
        BY <1>2, <1>4, <3>2, RowLists
      <4> QED
        BY <4>1 DEF Sound
    <3> QED
      BY <3>1, <3>2
  <2>2. \A l \in Lists \ {Advancing} : OnFile(doc, l) \subseteq OnFile(new, l)
    BY <1>2
  <2> QED
    BY <2>1, <2>2, LargerDocument
<1>5. ASSUME NEW t \in DOMAIN Rows, Rows[t].keyed
      PROVE  KeysDiffer(new, Rows[t])
  <2>1. Rows[t].list \in Lists \ {Advancing}
    BY <1>5, RowLists DEF WellMade
  <2>2. new[Rows[t].list] = doc[Rows[t].list]
    BY <1>2, <2>1
  <2> QED
    BY <1>5, <2>2 DEF Sound, KeysDiffer
<1> QED
  BY <1>2, <1>4, <1>5 DEF Sound, new

-----------------------------------------------------------------------------
(* The behaviours. *)

IInv ==
  /\ desk \in Desks
  /\ requests \in 0 .. desk.requests
  /\ clock \in Nat
  /\ facts \in SUBSET Facts
  /\ DOMAIN browser = {"mode", "lists", "clicks"}
  /\ browser.mode \in {"api", "mock"} /\ Shaped(browser.lists)
  /\ DOMAIN held = Clients
  /\ Sound(stored)
  /\ \A c \in Clients : held[c] = Idle \/ Sound(held[c])

LEMMA EmptyIsSound == Sound(EmptyDocument)
<1>1. \A l \in Lists : EmptyDocument[l] = <<>> /\ OnFile(EmptyDocument, l) = {}
  BY DEF EmptyDocument, OnFile
<1>2. Shaped(EmptyDocument)
  <2>1. DOMAIN EmptyDocument = Lists
    BY DEF EmptyDocument
  <2>2. \A S : <<>> \in Seq(S)
    OBVIOUS
  <2>3. \A l \in Lists : EmptyDocument[l] \in Seq(OnFile(EmptyDocument, l))
    <3> TAKE l \in Lists
    <3>1. EmptyDocument[l] = <<>>
      BY <1>1
    <3> HIDE DEF EmptyDocument
    <3> QED
      BY <2>2, <3>1
  <2> QED
    BY <1>1, <2>1, <2>3 DEF Shaped
<1>3. \A s \in DOMAIN Rows : KeysDiffer(EmptyDocument, Rows[s])
  BY <1>1, RowLists DEF KeysDiffer
<1> QED
  BY <1>1, <1>2, <1>3, RowLists DEF Sound

LEMMA InitIInv == Init => IInv
<1> SUFFICES ASSUME Init PROVE IInv
  OBVIOUS
<1>1. Sound(EmptyDocument) /\ Shaped(EmptyDocument)
  BY EmptyIsSound DEF Sound
<1>2. desk.requests \in Nat
  BY DesksAssumption DEF Init
<1> QED
  BY <1>1, <1>2 DEF Init, IInv

LEMMA AnswerKeepsIInv ==
  ASSUME IInv, NEW c \in Clients, NEW doc, Sound(doc), Answer(c, doc)
  PROVE  IInv'
BY DEF IInv, Answer

LEMMA NextKeepsIInv == IInv /\ [Next]_vars => IInv'
<1> SUFFICES ASSUME IInv, [Next]_vars PROVE IInv'
  OBVIOUS
<1>1. desk.requests \in Nat /\ desk.stages \subseteq DOMAIN Rows
  BY DesksAssumption DEF IInv
<1>2. ASSUME NEW c \in Clients, Load(c) PROVE IInv'
  BY <1>1, <1>2 DEF IInv, Load
<1>3. ASSUME NEW c \in Clients, NEW s \in desk.stages, Save(c, s) PROVE IInv'
  <2>1. PICK req \in Requests(held[c], Rows[s]) :
          /\ Create(Rows[s], held[c], req, facts, clock) # NoRecord
          /\ Answer(c, Filed(held[c], Create(Rows[s], held[c], req, facts, clock)))
    BY <1>3 DEF Save
  <2>2. Sound(held[c])
    BY <1>3 DEF Save, IInv
  <2>3. Sound(Filed(held[c], Create(Rows[s], held[c], req, facts, clock)))
    BY <1>1, <2>1, <2>2, FiledSound
  <2> QED
    BY <2>1, <2>3, AnswerKeepsIInv
<1>4. ASSUME NEW c \in Clients, NEW s \in desk.stages, Refuse(c, s) PROVE IInv'
  <2>1. Answer(c, stored) /\ Sound(stored)
    BY <1>4 DEF Refuse, IInv
  <2> QED
    BY <2>1, AnswerKeepsIInv
<1>5. ASSUME NEW c \in Clients, NEW step \in Steps, AdvanceRunbook(c, step) PROVE IInv'
  <2> DEFINE seq == held[c][Advancing]
             to(id) == WithStatus(WithId(seq, id), Advanced(WithId(seq, id).status, step))
             f(id) == [i \in DOMAIN seq |-> IF seq[i].id = id THEN to(id) ELSE seq[i]]
  <2>1. Sound(held[c])
    BY <1>5 DEF AdvanceRunbook, IInv
  <2>2. PICK q \in OnFile(held[c], Advancing) :
          \/ Answer(c, stored)
          \/ /\ WithId(seq, q.id).status # "Blocked"
             /\ Answer(c, Stepped(held[c], f(q.id)))
    <3>1. PICK id \in {r.id : r \in OnFile(held[c], Advancing)} :
            \/ WithId(seq, id).status = "Blocked" /\ Answer(c, stored)
            \/ /\ WithId(seq, id).status # "Blocked"
               /\ Answer(c, [held[c] EXCEPT ![Advancing] = f(id)])
      BY <1>5 DEF AdvanceRunbook
    <3>2. PICK q \in OnFile(held[c], Advancing) : q.id = id
      OBVIOUS
    <3> QED
      BY <3>1, <3>2 DEF Stepped
  <2>3. CASE Answer(c, stored)
    BY <2>3, AnswerKeepsIInv DEF IInv
  <2>4. CASE WithId(seq, q.id).status # "Blocked" /\ Answer(c, Stepped(held[c], f(q.id)))
    <3>1. WithId(seq, q.id) \in OnFile(held[c], Advancing)
      BY <2>1, WithIdIsThere, RowsAssumption DEF Sound
    <3>2. Advances(held[c], f(q.id), step)
      BY <2>4, <3>1 DEF Advances, OnFile
    <3>3. Sound(Stepped(held[c], f(q.id)))
      BY <2>1, <3>2, SteppedSound
    <3> QED
      BY <2>4, <3>3, AnswerKeepsIInv
  <2> QED
    BY <2>2, <2>3, <2>4
<1>6. ASSUME NEW f \in Facts, Lapse(f) PROVE IInv'
  BY <1>6 DEF IInv, Lapse
<1>7. CASE Tick
  BY <1>7 DEF IInv, Tick
<1>8. CASE Refresh
  BY <1>8 DEF IInv, Refresh, Sound
<1>9. CASE RequestFails
  BY <1>9 DEF IInv, RequestFails
<1>10. ASSUME NEW doc, Shaped(doc), Shows(doc) PROVE IInv'
  BY <1>10 DEF IInv, Shows
<1>11. ASSUME NEW s \in desk.stages \cap DOMAIN OfflineRows, OfflineClick(s) PROVE IInv'
  <2> DEFINE row == OfflineRows[s]
             made(p) == Create(row, browser.lists, Clicked(browser.lists, row, p), facts, clock)
  <2>1. PICK p \in desk.providers : Shows(Filed(browser.lists, made(p)))
    BY <1>11 DEF OfflineClick
  <2>2. Shaped(browser.lists) /\ row.list \in Lists
    BY OfflineRowsAssumption DEF IInv
  <2>3. Shaped(Filed(browser.lists, made(p)))
    <3>1. CASE made(p) = NoRecord
      BY <2>2, <3>1 DEF Filed
    <3>2. CASE made(p) # NoRecord
      <4>1. MadeBy(row, browser.lists, Clicked(browser.lists, row, p), facts, made(p))
        BY <3>2, CreatedRecord
      <4>2. made(p).list \in Lists /\ DOMAIN made(p) = Fields
        BY <2>2, <4>1 DEF MadeBy
      <4> HIDE DEF made
      <4>3. FiledIn(Filed(browser.lists, made(p)), browser.lists, made(p))
        BY <2>2, <3>2, <4>2, FiledShape
      <4> QED
        BY <4>3 DEF FiledIn
    <3> QED
      BY <3>1, <3>2
  <2> HIDE DEF made
  <2> QED
    BY <1>10, <2>1, <2>3
<1>12. ASSUME NEW step \in Steps, OfflineAdvance(step) PROVE IInv'
  <2> DEFINE seq == browser.lists[Advancing]
             f(id) == [i \in DOMAIN seq |->
                         IF seq[i].id # id THEN seq[i]
                         ELSE WithStatus(seq[i], OfflineAdvanced(seq[i].status, step))]
  <2>1. Shaped(browser.lists)
    BY DEF IInv
  <2>2. PICK id : Shows(Stepped(browser.lists, f(id)))
    BY <1>12, <2>1, RowsAssumption DEF OfflineAdvance, Stepped, Shaped
  <2>3. Restates(browser.lists, f(id))
    BY DEF Restates, OnFile
  <2>4. Shaped(Stepped(browser.lists, f(id)))
    BY <2>1, <2>3, SteppedShape
  <2> QED
    BY <1>10, <2>2, <2>4
<1>13. CASE UNCHANGED vars
  BY <1>13 DEF IInv, vars
<1> QED
  BY <1>2, <1>3, <1>4, <1>5, <1>6, <1>7, <1>8, <1>9, <1>11, <1>12, <1>13 DEF Next

LEMMA Invariant == Spec => []IInv
BY InitIInv, NextKeepsIInv, PTL DEF Spec

LEMMA SoundIsFiledRight ==
  ASSUME NEW doc, Shaped(doc)
  PROVE  FiledRight(doc)
BY DEF Shaped, FiledRight

(* Every variable keeps its type: no interleaving of loads, saves and clicks puts a *)
(* record in a list that is not its own or loses a list of the document.            *)
THEOREM TypeCorrect == Spec => []TypeOK
<1>1. IInv => TypeOK
  BY SoundIsFiledRight DEF IInv, TypeOK, Sound
<1> QED
  BY <1>1, Invariant, PTL

(* Whatever the requests name and however their loads and saves interleave, each  *)
(* record that passed has its passed parents on file, and an export the status of *)
(* what it exports.                                                               *)
THEOREM Footing == Spec => []PassedStandsOnPassed
<1>1. IInv => PassedStandsOnPassed
  BY DEF IInv, Sound, RecordSound, PassedStandsOnPassed
<1> QED
  BY <1>1, Invariant, PTL

(* The broker's queue holds one queued record for an idempotency key. *)
THEOREM KeyedOnce == Spec => []OneQueuedRecordPerKey
<1>1. IInv => OneQueuedRecordPerKey
  BY DEF IInv, Sound, OneQueuedRecordPerKey
<1> QED
  BY <1>1, Invariant, PTL

(* A record whose stage compares two ways to an earlier one passed only where they *)
(* meet.                                                                           *)
THEOREM Agreement == Spec => []PilotLinksAgree
<1>1. IInv => PilotLinksAgree
  BY DEF IInv, Sound, RecordSound, PilotLinksAgree
<1> QED
  BY <1>1, Invariant, PTL
-----------------------------------------------------------------------------
(* What is dated.  The id of a record names its list, no key is of a moment to come, *)
(* and a record that freezes no other's status stands as it is.                      *)
RecordDated(r, l, t) ==
  /\ r.id[1] = l
  /\ r.key[1] = "key" => r.key[3] \in 0 .. t
  /\ \A s \in DOMAIN Rows :
       Rows[s].list = l /\ Rows[s].seals = "none" => r.standing = r.status

Dated(doc, t) == \A l \in Lists : \A r \in OnFile(doc, l) : RecordDated(r, l, t)

DatedInv ==
  /\ Dated(stored, clock)
  /\ \A c \in Clients : held[c] = Idle \/ Dated(held[c], clock)

LEMMA CreatedId ==
  ASSUME NEW row, NEW doc, NEW req, NEW true, NEW now,
         Create(row, doc, req, true, now) # NoRecord
  PROVE  \E p : Create(row, doc, req, true, now).id = <<row.list, p, now>>
<1>1. ~Refused(row, Found(row, doc, req))
  BY DEF Create
<1> QED
  BY <1>1 DEF Create

LEMMA NewRecordDated ==
  ASSUME NEW doc, Shaped(doc), NEW t \in Nat, Dated(doc, t), NEW s \in DOMAIN Rows,
         NEW req, req.key \in {NoId, <<"key", "none", t>>}, NEW true, NEW now,
         Create(Rows[s], doc, req, true, now) # NoRecord
  PROVE  RecordDated(Create(Rows[s], doc, req, true, now), Rows[s].list, t)
<1> DEFINE row == Rows[s]
           found == Found(row, doc, req)
           r == Create(row, doc, req, true, now)
<1>0. MadeBy(row, doc, req, true, r)
  BY CreatedRecord
<1>2. r.id[1] = row.list
  BY CreatedId
<1>3. IsThere(row, doc, found)
  BY FoundIsThere, ShapedIsNumbered, RowLists
<1> HIDE DEF r
<1>1. /\ r.status = StatusOf(row, doc, req, found, true)
      /\ r.standing = IF row.seals = "none" THEN r.status ELSE found[row.seals].status
      /\ r.key = KeyOf(row, req, found)
  BY <1>0 DEF MadeBy
<1> HIDE DEF found
<1>4. r.key[1] = "key" => r.key[3] \in 0 .. t
  <2>1. CASE r.key = req.key
    BY <2>1 DEF NoId
  <2>2. CASE row.keyed /\ r.key = found[row.owner].id
    <3>1. row.owner \in DOMAIN row.links
      BY <2>2, LedAssumption DEF WellLed
    <3>2. found[row.owner] \in {NoRecord} \cup OnFile(doc, row.links[row.owner].list)
      BY <1>3, <3>1 DEF IsThere
    <3>3. row.links[row.owner].list \in Lists
      BY <3>1, RowLists DEF LinksToLists
    <3>4. found[row.owner].id[1] # "key"
      BY <3>2, <3>3, ListsAssumption DEF Dated, RecordDated, NoRecord, NoId
    <3> QED
      BY <2>2, <3>4
  <2> QED
    BY <1>1, <2>1, <2>2 DEF KeyOf
<1>5. ASSUME NEW q \in DOMAIN Rows, Rows[q].list = row.list, Rows[q].seals = "none"
      PROVE  r.standing = r.status
  <2>1. row.seals = "none"
    BY <1>5, RowsAssumption DEF ToldApart
  <2> QED
    BY <1>1, <2>1
<1> QED
  BY <1>2, <1>4, <1>5 DEF RecordDated, r

LEMMA FiledDated ==
  ASSUME NEW doc, Shaped(doc), NEW t \in Nat, Dated(doc, t), NEW s \in DOMAIN Rows,
         NEW req, req.key \in {NoId, <<"key", "none", t>>}, NEW true, NEW now,
         Create(Rows[s], doc, req, true, now) # NoRecord
  PROVE  Dated(Filed(doc, Create(Rows[s], doc, req, true, now)), t)
<1> DEFINE r == Create(Rows[s], doc, req, true, now)
<1>1. RecordDated(r, Rows[s].list, t)
  BY NewRecordDated
<1>0. r # NoRecord /\ MadeBy(Rows[s], doc, req, true, r)
  BY CreatedRecord
<1> HIDE DEF r
<1>2. r # NoRecord /\ r.list = Rows[s].list /\ r.list \in Lists /\ DOMAIN r = Fields
  BY <1>0, RowLists DEF MadeBy
<1>3. FiledIn(Filed(doc, r), doc, r)
  BY <1>2, FiledShape
<1>4. Dated(Filed(doc, r), t)
  <2> SUFFICES ASSUME NEW l \in Lists, NEW q \in OnFile(Filed(doc, r), l)
               PROVE  RecordDated(q, l, t)
    BY DEF Dated
  <2>1. q \in OnFile(doc, l) \/ (q = r /\ l = r.list)
    BY <1>3 DEF FiledIn
  <2> QED
    BY <1>1, <1>2, <2>1 DEF Dated
<1> QED
  BY <1>4 DEF r

LEMMA SteppedDated ==
  ASSUME NEW doc, Shaped(doc), NEW t \in Nat, Dated(doc, t), NEW f, Restates(doc, f)
  PROVE  Dated(Stepped(doc, f), t)
<1> DEFINE new == Stepped(doc, f)
<1>1. /\ \A l \in Lists \ {Advancing} : OnFile(new, l) = OnFile(doc, l)
      /\ \A q \in OnFile(new, Advancing) : \E j \in DOMAIN f : q = f[j]
  BY SteppedShape
<1> HIDE DEF new
<1>2. Advancing \in Lists
  BY RowsAssumption
<1>3. ASSUME NEW q \in OnFile(new, Advancing)
      PROVE  RecordDated(q, Advancing, t)
  <2>1. PICK old \in OnFile(doc, Advancing) :
          q = old \/ \E status : q = WithStatus(old, status)
    BY <1>1 DEF Restates
  <2>2. RecordDated(old, Advancing, t) /\ DOMAIN old = Fields
    BY <1>2 DEF Dated, Shaped
  <2>3. CASE q = old
    BY <2>2, <2>3
  <2>4. ASSUME NEW status, q = WithStatus(old, status)
        PROVE  RecordDated(q, Advancing, t)
    <3>1. q.id = old.id /\ q.key = old.key /\ q.standing = q.status
      BY <2>2, <2>4 DEF WithStatus, Fields
    <3> QED
      BY <2>2, <3>1 DEF RecordDated
  <2> QED
    BY <2>1, <2>3, <2>4
<1>4. Dated(new, t)
  BY <1>1, <1>3 DEF Dated
<1> QED
  BY <1>4 DEF new

(* The keys a request can come with. *)
LEMMA RequestKeys ==
  ASSUME NEW doc, NEW row, NEW req \in Requests(doc, row)
  PROVE  req.key \in {NoId, <<"key", "none", clock>>}
<1> DEFINE Plains == {Plain(ids, p) : ids \in IdChoices(doc, row), p \in desk.providers}
           plain == {Plain(StandingIds(doc, row), p) : p \in desk.providers}
<1>1. \A ids, p : /\ DOMAIN Plain(ids, p) = {"ids", "provider", "bad", "good", "reject", "key"}
                  /\ Plain(ids, p).key = NoId
  BY DEF Plain
<1>2. \/ req \in Plains
      \/ \E q \in plain :
           \/ \E bad : req = [q EXCEPT !.bad = bad]
           \/ \E good : req = [q EXCEPT !.good = good]
           \/ req = [q EXCEPT !.reject = TRUE]
           \/ req = [q EXCEPT !.key = <<"key", "none", clock>>]
  <2> HIDE DEF plain
  <2>1. \/ req \in Plains
        \/ req \in {[q EXCEPT !.bad = {i}] : q \in plain, i \in row.inputs \cup row.asked}
        \/ req \in {[q EXCEPT !.bad = row.asked] : q \in plain}
        \/ req \in {[q EXCEPT !.good = DOMAIN row.lends] : q \in plain}
        \/ req \in {[q EXCEPT !.reject = TRUE] : q \in plain}
        \/ req \in {[q EXCEPT !.key = <<"key", "none", clock>>] : q \in plain}
    BY DEF Requests, plain, Plains
  <2> QED
    BY <2>1
<1>3. CASE req \in Plains
  BY <1>1, <1>3
<1>4. ASSUME NEW q \in plain,
             \/ \E bad : req = [q EXCEPT !.bad = bad]
             \/ \E good : req = [q EXCEPT !.good = good]
             \/ req = [q EXCEPT !.reject = TRUE]
             \/ req = [q EXCEPT !.key = <<"key", "none", clock>>]
      PROVE  req.key \in {NoId, <<"key", "none", clock>>}
  <2>1. q.key = NoId /\ DOMAIN q = {"ids", "provider", "bad", "good", "reject", "key"}
    BY <1>1, <1>4
  <2> QED
    BY <1>4, <2>1
<1> QED
  BY <1>2, <1>3, <1>4

LEMMA InitDated == Init => DatedInv
<1>1. Dated(EmptyDocument, 0)
  BY DEF Dated, OnFile, EmptyDocument
<1> QED
  BY <1>1 DEF Init, DatedInv

LEMMA AnswerDated ==
  ASSUME IInv, DatedInv, NEW c \in Clients, NEW doc, Dated(doc, clock), Answer(c, doc)
  PROVE  DatedInv'
BY DEF IInv, DatedInv, Answer, Dated, RecordDated

LEMMA NextKeepsDated == IInv /\ DatedInv /\ [Next]_vars => DatedInv'
<1> SUFFICES ASSUME IInv, DatedInv, [Next]_vars PROVE DatedInv'
  OBVIOUS
<1>1. desk.stages \subseteq DOMAIN Rows /\ clock \in Nat
  BY DesksAssumption DEF IInv
<1>2. ASSUME NEW c \in Clients, Load(c) PROVE DatedInv'
  BY <1>2 DEF IInv, DatedInv, Load
<1>3. ASSUME NEW c \in Clients, NEW s \in desk.stages, Save(c, s) PROVE DatedInv'
  <2>1. PICK req \in Requests(held[c], Rows[s]) :
          /\ Create(Rows[s], held[c], req, facts, clock) # NoRecord
          /\ Answer(c, Filed(held[c], Create(Rows[s], held[c], req, facts, clock)))
    BY <1>3 DEF Save
  <2>2. Shaped(held[c]) /\ Dated(held[c], clock)
    BY <1>3 DEF Save, IInv, DatedInv, Sound
  <2>3. req.key \in {NoId, <<"key", "none", clock>>}
    BY RequestKeys
  <2>4. Dated(Filed(held[c], Create(Rows[s], held[c], req, facts, clock)), clock)
    BY <1>1, <2>1, <2>2, <2>3, FiledDated
  <2> QED
    BY <2>1, <2>4, AnswerDated
<1>4. ASSUME NEW c \in Clients, NEW s \in desk.stages, Refuse(c, s) PROVE DatedInv'
  BY <1>4, AnswerDated DEF Refuse, DatedInv
<1>5. ASSUME NEW c \in Clients, NEW step \in Steps, AdvanceRunbook(c, step) PROVE DatedInv'
  <2> DEFINE seq == held[c][Advancing]
             to(id) == WithStatus(WithId(seq, id), Advanced(WithId(seq, id).status, step))
             f(id) == [i \in DOMAIN seq |-> IF seq[i].id = id THEN to(id) ELSE seq[i]]
  <2>1. Shaped(held[c]) /\ Dated(held[c], clock)
    BY <1>5 DEF AdvanceRunbook, IInv, DatedInv, Sound
  <2>2. PICK q \in OnFile(held[c], Advancing) :
          Answer(c, stored) \/ Answer(c, Stepped(held[c], f(q.id)))
    <3>1. PICK id \in {r.id : r \in OnFile(held[c], Advancing)} :
            Answer(c, stored) \/ Answer(c, [held[c] EXCEPT ![Advancing] = f(id)])
      BY <1>5 DEF AdvanceRunbook
    <3>2. PICK q \in OnFile(held[c], Advancing) : q.id = id
      OBVIOUS
    <3> QED
      BY <3>1, <3>2 DEF Stepped
  <2>3. CASE Answer(c, stored)
    BY <2>3, AnswerDated DEF DatedInv
  <2>4. CASE Answer(c, Stepped(held[c], f(q.id)))
    <3>1. WithId(seq, q.id) \in OnFile(held[c], Advancing)
      BY <2>1, WithIdIsThere, RowsAssumption
    <3>2. Restates(held[c], f(q.id))
      BY <3>1 DEF Restates, OnFile
    <3>3. Dated(Stepped(held[c], f(q.id)), clock)
      BY <1>1, <2>1, <3>2, SteppedDated
    <3> QED
      BY <2>4, <3>3, AnswerDated
  <2> QED
    BY <2>2, <2>3, <2>4
<1>6. ASSUME NEW f \in Facts, Lapse(f) PROVE DatedInv'
  BY <1>6 DEF DatedInv, Lapse
<1>7. CASE Tick
  <2>1. clock' = clock + 1 /\ stored' = stored /\ held' = held
    BY <1>7 DEF Tick
  <2>2. \A doc : Dated(doc, clock) => Dated(doc, clock + 1)
    BY <1>1 DEF Dated, RecordDated
  <2> QED
    BY <2>1, <2>2 DEF DatedInv
<1>8. CASE UNCHANGED <<stored, held, clock>>
  BY <1>8 DEF DatedInv
<1>9. ASSUME NEW s \in desk.stages \cap DOMAIN OfflineRows, OfflineClick(s)
      PROVE  UNCHANGED <<stored, held, clock>>
  BY <1>9 DEF OfflineClick, Shows
<1>10. ASSUME NEW step \in Steps, OfflineAdvance(step) PROVE UNCHANGED <<stored, held, clock>>
  BY <1>10 DEF OfflineAdvance, Shows
<1>11. Refresh \/ RequestFails \/ UNCHANGED vars => UNCHANGED <<stored, held, clock>>
  BY DEF Refresh, RequestFails, vars
<1> QED
  BY <1>2, <1>3, <1>4, <1>5, <1>6, <1>7, <1>8, <1>9, <1>10, <1>11 DEF Next

LEMMA DatedInvariant == Spec => []DatedInv
BY InitIInv, NextKeepsIInv, InitDated, NextKeepsDated, PTL DEF Spec

-----------------------------------------------------------------------------
(* The stages are open.  What a complete request finds, and why it will do.      *)

Asks(req, doc, row, p) ==
  /\ req.ids = [n \in NamedLinks(row) \ Led(row) |-> StandingIds(doc, row)[n]]
  /\ req.provider = p /\ req.bad = {} /\ req.good = DOMAIN row.lends
  /\ req.reject = FALSE /\ req.key = <<"key", "none", clock + 1>>

LEMMA CompleteAsks ==
  ASSUME NEW doc, NEW row, NEW p
  PROVE  Asks(CompleteRequest(doc, row, p), doc, row, p)
BY DEF CompleteRequest, Plain, Asks

(* A link that does not lead through another finds what it was looked up as. *)
LEMMA DirectIsFound ==
  ASSUME NEW row, NEW doc, NEW req, NEW n \in DOMAIN row.links, n \notin Led(row)
  PROVE  Found(row, doc, req)[n]
           = Lookup(row.links[n], doc[row.links[n].list], Named(req, n), req.provider)
<1>1. \A found : Follow(row, doc, req, found)[n] = found[n]
  BY DEF Follow, Led
<1>2. Found(row, doc, req)[n] = Direct(row, doc, req)[n]
  BY <1>1 DEF Found
<1> QED
  BY <1>2 DEF Direct

(* One that leads through a record that was found has the record it names. *)
LEMMA LedIsFound ==
  ASSUME NEW row, NEW doc, NEW req, NEW n \in Led(row), Named(req, n) = NoId,
         row.links[n].via \in DOMAIN row.links \ Led(row),
         Found(row, doc, req)[row.links[n].via] # NoRecord
  PROVE  Found(row, doc, req)[n]
           = WithId(doc[row.links[n].list],
                    Found(row, doc, req)[row.links[n].via].links[row.links[n].as])
<1> DEFINE via == row.links[n].via
           before == Follow(row, doc, req, Follow(row, doc, req, Direct(row, doc, req)))
<1>1. \A found : Follow(row, doc, req, found)[via] = found[via]
  BY DEF Follow, Led
<1>2. Found(row, doc, req) = Follow(row, doc, req, before)
  BY DEF Found
<1> HIDE DEF before
<1>3. Found(row, doc, req)[via] = before[via]
  BY <1>1, <1>2
<1>4. n \in DOMAIN row.links /\ row.links[n].via # "none" /\ before[via] # NoRecord
  BY <1>3 DEF Led
<1>5. Follow(row, doc, req, before)[n] = WithId(doc[row.links[n].list], before[via].links[row.links[n].as])
  BY <1>4 DEF Follow
<1> QED
  BY <1>2, <1>3, <1>5, Zenon

LEMMA NamedIsFound ==
  ASSUME NEW doc, Shaped(doc), Dated(doc, clock), NEW s \in DOMAIN Rows,
         NEW n \in NamedLinks(Rows[s]) \ Led(Rows[s]), Serving(doc, Rows[s], n) # {},
         NEW req, NEW p, Asks(req, doc, Rows[s], p)
  PROVE  Serves(Rows[s], n, Found(Rows[s], doc, req)[n])
<1> DEFINE row == Rows[s]
           link == row.links[n]
           seq == doc[link.list]
           S == Serving(doc, row, n)
<1>1. n \in DOMAIN row.links /\ link.list \in Lists
  BY RowLists DEF NamedLinks, LinksToLists
<1>2. S \subseteq DOMAIN seq /\ DOMAIN seq \subseteq Nat
  <2>1. S \subseteq DOMAIN seq
    BY DEF Serving
  <2>2. DOMAIN seq \subseteq Nat
    <3> HIDE DEF link
    <3> QED
      BY <1>1 DEF Shaped
  <2> QED
    BY <2>1, <2>2
<1>3. PICK i \in S : First(seq, S) = seq[i]
  <2> HIDE DEF S, seq
  <2> QED
    BY <1>2, FirstIsIn, Zenon DEF S
<1>4. Serves(row, n, seq[i]) /\ WithId(seq, seq[i].id) = seq[i] /\ i \in DOMAIN seq
  BY <1>3 DEF Serving
<1>5. seq[i].id # NoId /\ seq[i] # NoRecord
  <2>1. seq[i] \in OnFile(doc, link.list)
    BY <1>4 DEF OnFile
  <2>2. seq[i].id[1] \in Lists
    BY <1>1, <2>1 DEF Dated, RecordDated
  <2> QED
    BY <2>2, ListsAssumption DEF NoId, NoRecord
<1>6. Named(req, n) = seq[i].id
  BY <1>3 DEF Asks, Named, StandingIds
<1>7. link.by \in {"id or provider", "id else provider", "id else newest", "id else through"}
  BY DEF NamedLinks
<1> HIDE DEF seq, link
<1>8. Lookup(link, seq, Named(req, n), req.provider) = seq[i]
  BY <1>4, <1>5, <1>6, <1>7 DEF Lookup, ByIdOrProvider
<1>9. Found(row, doc, req)[n] = seq[i]
  BY <1>1, <1>8, DirectIsFound DEF seq, link
<1> QED
  BY <1>4, <1>9

(* A link whose parent passed finds, where no record hides another, one that passed. *)
LEMMA GuaranteedIsFound ==
  ASSUME NEW doc, Sound(doc), Dated(doc, clock), NEW s \in DOMAIN Rows,
         NEW n \in Guaranteed(Rows[s]), NEW q \in OnFile(doc, Rows[s].links[Rows[s].links[n].via].list),
         q.standing \in Rows[s].links[Rows[s].links[n].via].needs
  PROVE  \E g \in OnFile(doc, Rows[s].links[n].list) :
           g.id = q.links[Rows[s].links[n].as] /\ g.standing \in Rows[s].links[n].needs
<1> DEFINE link == Rows[s].links[n]
           parent == Rows[s].links[link.via]
<1>1. /\ link.via \in DOMAIN Rows[s].links
      /\ \A t \in DOMAIN Rows : Rows[t].list = parent.list =>
            /\ Rows[t].seals = "none" /\ ~Rows[t].always
            /\ parent.needs \subseteq {Rows[t].passes}
            /\ link.as \in DOMAIN Rows[t].links
            /\ Rows[t].links[link.as].list = link.list /\ link.list # Advancing
            /\ Rows[t].links[link.as].needs # {}
            /\ Rows[t].links[link.as].needs \subseteq link.needs
  BY LedAssumption, Zenon DEF WellLed
<1>2. parent.list \in Lists
  BY <1>1, RowLists DEF LinksToLists
<1>3. PICK t \in DOMAIN Rows : Rows[t].list = parent.list
  BY <1>2, Zenon DEF Lists
<1> HIDE DEF link, parent
<1>4. q.status = q.standing /\ q.standing \in parent.needs /\ q \in OnFile(doc, Rows[t].list)
  BY <1>1, <1>2, <1>3 DEF Dated, RecordDated, link, parent
<1>5. Passed(Rows[t], q)
  BY <1>1, <1>3, <1>4 DEF Passed
<1>6. HasFooting(doc, Rows[t], q)
  BY <1>4 DEF Sound, RecordSound
<1>7. link.as \in LastingLinks(Rows[t])
  BY <1>1, <1>3 DEF LastingLinks
<1>8. PICK g \in Linked(doc, Rows[t], q, link.as) : g.standing \in Rows[t].links[link.as].needs
  BY <1>5, <1>6, <1>7 DEF HasFooting
<1>9. g \in OnFile(doc, link.list) /\ g.id = q.links[link.as] /\ g.standing \in link.needs
  BY <1>1, <1>3, <1>8 DEF Linked
<1> QED
  BY <1>9, Zenon DEF link

LEMMA OpenPasses ==
  ASSUME NEW doc, Sound(doc), Dated(doc, clock), clock \in Nat, NEW s \in DOMAIN Rows, NEW p,
         Open(doc, Rows[s], p)
  PROVE  Create(Rows[s], doc, CompleteRequest(doc, Rows[s], p), Facts, clock).status
           = Rows[s].passes
<1> DEFINE row == Rows[s]
           req == CompleteRequest(doc, row, p)
           found == Found(row, doc, req)
<1>1. Shaped(doc) /\ Asks(req, doc, row, p) /\ WellMade(row) /\ WellLed(row)
  BY CompleteAsks, RowLists, LedAssumption DEF Sound
<1>2. IsThere(row, doc, found) /\ LinksToLists(row)
  BY <1>1, FoundIsThere, ShapedIsNumbered, RowLists
<1>3. ASSUME NEW n \in Required(row)
      PROVE  \/ n \in NamedLinks(row) \ Led(row) /\ Serving(doc, row, n) # {}
             \/ n \in Guaranteed(row) /\ NoTwins(doc[row.links[n].list])
             \/ Serves(row, n, found[n])
  BY <1>3 DEF Open
<1>4. \A n \in NamedLinks(row) \ Led(row) : Serving(doc, row, n) # {} => Serves(row, n, found[n])
  BY <1>1, NamedIsFound
<1>5. \A n \in Led(row) :
        /\ Named(req, n) = NoId
        /\ row.links[n].via \in DOMAIN row.links \ Led(row)
           /\ found[row.links[n].via] # NoRecord =>
             found[n] = WithId(doc[row.links[n].list], found[row.links[n].via].links[row.links[n].as])
  <2>1. \A n \in Led(row) : Named(req, n) = NoId
    BY <1>1 DEF Asks, Named
  <2> HIDE DEF req
  <2> QED
    BY <2>1, LedIsFound
<1> HIDE DEF req, found
<1>6. \A n \in Required(row) \ Guaranteed(row) : Serves(row, n, found[n])
  BY <1>3, <1>4
(* A link that must have passed has its record by way of one that did. *)
<1>7. ASSUME NEW n \in Guaranteed(row)
      PROVE  /\ Stands(row.links[n], found[n])
             /\ found[n].id = found[row.links[n].via].links[row.links[n].as]
  <2> DEFINE link == row.links[n]
             via == link.via
             q == found[via]
             seq == doc[link.list]
  <2>1. /\ via \in DOMAIN row.links /\ via \notin Led(row) /\ row.links[via].needs # {}
        /\ n \in DOMAIN row.links /\ n \in Led(row) /\ link.needs # {}
    BY <1>1, <1>7 DEF WellLed, Guaranteed, Led
  <2>2. n \in Required(row) /\ via \in Required(row) /\ via \notin Guaranteed(row)
    BY <1>1, <2>1 DEF WellMade, Required, Guaranteed
  <2>3. q # NoRecord /\ q.standing \in row.links[via].needs
    BY <1>6, <2>1, <2>2 DEF Serves, Stands
  <2>4. q \in OnFile(doc, row.links[via].list)
    BY <1>2, <2>1, <2>3, Zenon DEF IsThere
  <2>5. PICK g \in OnFile(doc, link.list) : g.id = q.links[link.as] /\ g.standing \in link.needs
    BY <1>7, <2>3, <2>4, GuaranteedIsFound
  <2>6. found[n] = WithId(seq, q.links[link.as])
    BY <1>5, <2>1, <2>3
  <2>7. link.list \in Lists
    BY <1>2, <2>1, Zenon DEF LinksToLists
  <2>8. found[n] \in OnFile(doc, link.list) /\ found[n].id = g.id
    BY <1>1, <2>5, <2>6, <2>7, WithIdIsThere
  <2>9. found[n] # NoRecord
    BY <2>7, <2>8, ListsAssumption DEF Dated, RecordDated, NoRecord, NoId
  <2>10. CASE NoTwins(seq)
    <3>1. found[n] = g
      BY <2>5, <2>8, <2>10, ZenonT(60) DEF NoTwins, OnFile
    <3> QED
      BY <2>5, <2>8, <2>9, <3>1, Zenon DEF Stands
  <2>11. CASE Serves(row, n, found[n])
    BY <2>5, <2>8, <2>11 DEF Serves
  <2> QED
    BY <1>3, <2>1, <2>2, <2>10, <2>11
<1>8. LinksStand(row, found)
  <2> SUFFICES ASSUME NEW n \in DOMAIN row.links
               PROVE  \/ Stands(row.links[n], found[n])
                      \/ row.links[n].absent = "accepted" /\ found[n] = NoRecord
    BY DEF LinksStand
  <2>1. CASE n \in Guaranteed(row)
    BY <1>7, <2>1
  <2>2. CASE n \in Required(row) \ Guaranteed(row)
    BY <1>6, <2>2 DEF Serves
  <2>3. CASE n \notin Required(row)
    BY <1>1, <2>3 DEF Required, WellMade, Stands
  <2> QED
    BY <2>1, <2>2, <2>3
<1>9. \A h \in row.heeds : h[2] \notin found[h[1]].fails
  BY <1>1, <1>6 DEF WellLed, Required, Serves
<1>10. \A a \in row.agrees : found[a[1]].links[a[2]] = found[a[3]].id
  BY <1>1, <1>7 DEF WellLed
<1>11. Failing(row, req, found) = {}
  BY <1>1 DEF Asks, Failing
<1>12. FreshKey(row, doc, KeyOf(row, req, found))
  <2>1. KeyOf(row, req, found) = <<"key", "none", clock + 1>>
    BY <1>1 DEF Asks, KeyOf, NoId
  <2>2. ASSUME NEW r \in OnFile(doc, row.list) PROVE r.key # <<"key", "none", clock + 1>>
    <3>1. r.key[1] = "key" => r.key[3] \in 0 .. clock
      BY RowLists DEF Dated, RecordDated
    <3> QED
      BY <3>1
  <2> QED
    BY <2>1, <2>2 DEF FreshKey
<1>13. ChecksPass(row, doc, req, found, Facts)
  BY <1>1, <1>8, <1>9, <1>10, <1>11, <1>12 DEF ChecksPass, WellLed
<1>14. StatusOf(row, doc, req, found, Facts) = row.passes
  BY <1>1, <1>13 DEF StatusOf, Asks
<1>15. ~Refused(row, found)
  BY <1>8 DEF LinksStand, Refused, Stands
<1>16. Create(row, doc, req, Facts, clock).status = StatusOf(row, doc, req, found, Facts)
  BY <1>15 DEF Create, found
<1> QED
  BY <1>14, <1>16 DEF req

(* Blocked records never shut a stage: where what it requires is on file, a complete *)
(* request passes, whatever fell short before and however it lies on top.            *)
THEOREM StagesHaveNoDeadEnd == Spec => []NoDeadEnd
<1>1. IInv /\ DatedInv => NoDeadEnd
  <2> SUFFICES ASSUME IInv, DatedInv, facts = Facts, NEW s \in desk.stages,
                      NEW p \in desk.providers, Open(stored, Rows[s], p)
               PROVE  Create(Rows[s], stored, CompleteRequest(stored, Rows[s], p), facts,
                             clock).status = Rows[s].passes
    BY DEF NoDeadEnd
  <2>1. s \in DOMAIN Rows /\ Sound(stored) /\ Dated(stored, clock) /\ clock \in Nat
    BY DesksAssumption DEF IInv, DatedInv
  <2> QED
    BY <2>1, OpenPasses
<1> QED
  BY <1>1, Invariant, DatedInvariant, PTL

-----------------------------------------------------------------------------
(* What is known of a record, the server's or the browser's.  Its id tells its list *)
(* and its provider; and nothing is short in it, where its status says so.           *)
RecordKnown(r, l) ==
  /\ r.id[1] = l
  /\ r.id[2] = r.provider
  /\ Whole(l, r.standing) => r.fails = {}

Known(doc) == \A l \in Lists : \A r \in OnFile(doc, l) : RecordKnown(r, l)

KnownInv ==
  /\ Known(stored) /\ Known(browser.lists)
  /\ \A c \in Clients : held[c] = Idle \/ Known(held[c])

LEMMA CreatedFields ==
  ASSUME NEW row, NEW doc, NEW req, NEW true, NEW now,
         Create(row, doc, req, true, now) # NoRecord
  PROVE  LET r == Create(row, doc, req, true, now)
             found == Found(row, doc, req) IN
         /\ r.id = <<row.list, r.provider, now>>
         /\ r.status = StatusOf(row, doc, req, found, true)
         /\ r.standing = IF row.seals = "none" THEN r.status ELSE found[row.seals].status
         /\ r.fails = Failing(row, req, found)
<1>1. ~Refused(row, Found(row, doc, req))
  BY DEF Create
<1> QED
  BY <1>1 DEF Create

LEMMA NewRecordKnown ==
  ASSUME NEW row, \A status : Whole(row.list, status) => MakesWhole(row, row.list, status),
         NEW doc, NEW req, NEW true, NEW now,
         Create(row, doc, req, true, now) # NoRecord
  PROVE  RecordKnown(Create(row, doc, req, true, now), row.list)
<1> DEFINE found == Found(row, doc, req)
           r == Create(row, doc, req, true, now)
<1>1. /\ r.id = <<row.list, r.provider, now>>
      /\ r.status = StatusOf(row, doc, req, found, true)
      /\ r.standing = IF row.seals = "none" THEN r.status ELSE found[row.seals].status
      /\ r.fails = Failing(row, req, found)
  BY CreatedFields
<1> HIDE DEF r, found
<1>2. ASSUME Whole(row.list, r.standing)
      PROVE  r.fails = {}
  <2>1. ~row.always /\ row.seals = "none" /\ r.standing \notin {row.otherwise, "Rejected"}
    BY <1>2 DEF MakesWhole
  <2>2. StatusOf(row, doc, req, found, true) \notin {row.otherwise, "Rejected"}
    BY <1>1, <2>1
  <2>3. ChecksPass(row, doc, req, found, true)
    BY <2>1, <2>2 DEF StatusOf
  <2> QED
    BY <1>1, <2>3 DEF ChecksPass
<1> QED
  BY <1>1, <1>2 DEF RecordKnown, r

LEMMA FiledKnown ==
  ASSUME NEW row, \A status : Whole(row.list, status) => MakesWhole(row, row.list, status),
         row.list \in Lists, NEW doc, Shaped(doc), Known(doc),
         NEW req, NEW true, NEW now
  PROVE  Known(Filed(doc, Create(row, doc, req, true, now)))
<1> DEFINE r == Create(row, doc, req, true, now)
<1>1. CASE r = NoRecord
  BY <1>1 DEF Filed
<1>2. CASE r # NoRecord
  <2>1. RecordKnown(r, row.list) /\ MadeBy(row, doc, req, true, r)
    BY <1>2, NewRecordKnown, CreatedRecord
  <2> HIDE DEF r
  <2>2. r.list = row.list /\ DOMAIN r = Fields
    BY <2>1 DEF MadeBy
  <2>3. FiledIn(Filed(doc, r), doc, r)
    BY <1>2, <2>2, FiledShape
  <2>4. ASSUME NEW l \in Lists, NEW q \in OnFile(Filed(doc, r), l)
        PROVE  RecordKnown(q, l)
    <3>1. q \in OnFile(doc, l) \/ (q = r /\ l = r.list)
      BY <2>3 DEF FiledIn
    <3> QED
      BY <2>1, <2>2, <3>1 DEF Known
  <2> QED
    BY <2>4 DEF Known, r
<1> QED
  BY <1>1, <1>2

LEMMA SteppedKnown ==
  ASSUME NEW doc, Shaped(doc), Known(doc), NEW f, Restates(doc, f)
  PROVE  Known(Stepped(doc, f))
<1> DEFINE new == Stepped(doc, f)
<1>1. /\ \A l \in Lists \ {Advancing} : OnFile(new, l) = OnFile(doc, l)
      /\ \A q \in OnFile(new, Advancing) : \E j \in DOMAIN f : q = f[j]
  BY SteppedShape
<1> HIDE DEF new
<1>2. Advancing \in Lists
  BY RowsAssumption
<1>3. ASSUME NEW q \in OnFile(new, Advancing)
      PROVE  RecordKnown(q, Advancing)
  <2>1. PICK old \in OnFile(doc, Advancing) :
          q = old \/ \E status : q = WithStatus(old, status)
    BY <1>1 DEF Restates
  <2>2. RecordKnown(old, Advancing) /\ DOMAIN old = Fields
    BY <1>2 DEF Known, Shaped
  <2>3. q.id = old.id /\ q.provider = old.provider
    BY <2>1, <2>2 DEF WithStatus, Fields
  <2> QED
    BY <2>2, <2>3 DEF RecordKnown, Whole
<1>4. Known(new)
  BY <1>1, <1>3 DEF Known
<1> QED
  BY <1>4 DEF new

LEMMA RowsMakeWhole ==
  /\ \A s \in DOMAIN Rows : \A status :
       Whole(Rows[s].list, status) => MakesWhole(Rows[s], Rows[s].list, status)
  /\ \A s \in DOMAIN OfflineRows : \A status :
       Whole(OfflineRows[s].list, status) =>
         MakesWhole(OfflineRows[s], OfflineRows[s].list, status)
BY DEF Whole

LEMMA InitKnown == Init => KnownInv
<1>1. Known(EmptyDocument)
  BY DEF Known, OnFile, EmptyDocument
<1> QED
  BY <1>1 DEF Init, KnownInv

LEMMA AnswerKnown ==
  ASSUME IInv, KnownInv, NEW c \in Clients, NEW doc, Known(doc), Answer(c, doc)
  PROVE  KnownInv'
<1>1. /\ held' = [held EXCEPT ![c] = Idle] /\ stored' = doc /\ browser' = browser
  BY DEF Answer
<1>2. \A d \in Clients : held'[d] = Idle \/ held'[d] = held[d]
  BY <1>1 DEF IInv
<1> QED
  BY <1>1, <1>2 DEF KnownInv, Known

LEMMA NextKeepsKnown == IInv /\ KnownInv /\ [Next]_vars => KnownInv'
<1> SUFFICES ASSUME IInv, KnownInv, [Next]_vars PROVE KnownInv'
  OBVIOUS
<1>1. desk.stages \subseteq DOMAIN Rows
  BY DesksAssumption DEF IInv
<1>2. ASSUME NEW c \in Clients, Load(c) PROVE KnownInv'
  BY <1>2 DEF IInv, KnownInv, Load
<1>3. ASSUME NEW c \in Clients, NEW s \in desk.stages, Save(c, s) PROVE KnownInv'
  <2>1. PICK req :
          Answer(c, Filed(held[c], Create(Rows[s], held[c], req, facts, clock)))
    BY <1>3 DEF Save
  <2>2. Shaped(held[c]) /\ Known(held[c])
    BY <1>3 DEF Save, IInv, KnownInv, Sound
  <2>3. Known(Filed(held[c], Create(Rows[s], held[c], req, facts, clock)))
    BY <1>1, <2>2, FiledKnown, RowLists, RowsMakeWhole
  <2> QED
    BY <2>1, <2>3, AnswerKnown
<1>4. ASSUME NEW c \in Clients, NEW s \in desk.stages, Refuse(c, s) PROVE KnownInv'
  BY <1>4, AnswerKnown DEF Refuse, KnownInv
<1>5. ASSUME NEW c \in Clients, NEW step \in Steps, AdvanceRunbook(c, step) PROVE KnownInv'
  <2> DEFINE seq == held[c][Advancing]
             to(id) == WithStatus(WithId(seq, id), Advanced(WithId(seq, id).status, step))
             f(id) == [i \in DOMAIN seq |-> IF seq[i].id = id THEN to(id) ELSE seq[i]]
  <2>1. Shaped(held[c]) /\ Known(held[c])
    BY <1>5 DEF AdvanceRunbook, IInv, KnownInv, Sound
  <2>2. PICK q \in OnFile(held[c], Advancing) :
          Answer(c, stored) \/ Answer(c, Stepped(held[c], f(q.id)))
    <3>1. PICK id \in {r.id : r \in OnFile(held[c], Advancing)} :
            Answer(c, stored) \/ Answer(c, [held[c] EXCEPT ![Advancing] = f(id)])
      BY <1>5 DEF AdvanceRunbook
    <3>2. PICK q \in OnFile(held[c], Advancing) : q.id = id
      OBVIOUS
    <3> QED
      BY <3>1, <3>2 DEF Stepped
  <2>3. CASE Answer(c, stored)
    BY <2>3, AnswerKnown DEF KnownInv
  <2>4. CASE Answer(c, Stepped(held[c], f(q.id)))
    <3>1. WithId(seq, q.id) \in OnFile(held[c], Advancing)
      BY <2>1, WithIdIsThere, RowsAssumption
    <3>2. Restates(held[c], f(q.id))
      BY <3>1 DEF Restates, OnFile
    <3>3. Known(Stepped(held[c], f(q.id)))
      BY <2>1, <3>2, SteppedKnown
    <3> QED
      BY <2>4, <3>3, AnswerKnown
  <2> QED
    BY <2>2, <2>3, <2>4
<1>6. CASE UNCHANGED <<stored, held>> /\ browser'.lists \in {browser.lists, stored}
  BY <1>6 DEF KnownInv
<1>7. ASSUME \/ \E f \in Facts : Lapse(f)
             \/ Tick \/ Refresh \/ RequestFails \/ UNCHANGED vars
      PROVE  UNCHANGED <<stored, held>> /\ browser'.lists \in {browser.lists, stored}
  BY <1>7 DEF IInv, Lapse, Tick, Refresh, RequestFails, vars
<1>8. ASSUME NEW doc, Known(doc), Shows(doc) PROVE KnownInv'
  BY <1>8 DEF IInv, KnownInv, Shows
<1>9. ASSUME NEW s \in desk.stages \cap DOMAIN OfflineRows, OfflineClick(s) PROVE KnownInv'
  <2> DEFINE row == OfflineRows[s]
             new(p) == Filed(browser.lists,
                             Create(row, browser.lists, Clicked(browser.lists, row, p),
                                    facts, clock))
  <2>1. PICK p \in desk.providers : Shows(new(p))
    BY <1>9 DEF OfflineClick
  <2>2. Known(new(p))
    BY FiledKnown, RowsMakeWhole, OfflineRowsAssumption DEF IInv, KnownInv
  <2> HIDE DEF new
  <2> QED
    BY <1>8, <2>1, <2>2
<1>10. ASSUME NEW step \in Steps, OfflineAdvance(step) PROVE KnownInv'
  <2> DEFINE seq == browser.lists[Advancing]
             f(id) == [i \in DOMAIN seq |->
                         IF seq[i].id # id THEN seq[i]
                         ELSE WithStatus(seq[i], OfflineAdvanced(seq[i].status, step))]
  <2>1. Shaped(browser.lists) /\ Known(browser.lists)
    BY DEF IInv, KnownInv
  <2>2. PICK id : Shows(Stepped(browser.lists, f(id)))
    BY <1>10, <2>1, RowsAssumption DEF OfflineAdvance, Stepped, Shaped
  <2>3. Restates(browser.lists, f(id))
    BY DEF Restates, OnFile
  <2>4. Known(Stepped(browser.lists, f(id)))
    BY <2>1, <2>3, SteppedKnown
  <2> QED
    BY <1>8, <2>2, <2>4
<1> QED
  BY <1>2, <1>3, <1>4, <1>5, <1>6, <1>7, <1>9, <1>10 DEF Next

LEMMA KnownInvariant == Spec => []KnownInv
BY InitIInv, NextKeepsIInv, InitKnown, NextKeepsKnown, PTL DEF Spec

-----------------------------------------------------------------------------
(* A click.  It names by its id the first of some records, and that id finds it. *)

LEMMA NamedFirst ==
  ASSUME NEW doc, Shaped(doc), Known(doc), NEW l \in Lists, NEW S \in SUBSET DOMAIN doc[l],
         \A i \in S, j \in DOMAIN doc[l] : doc[l][j].id = doc[l][i].id => j \in S
  PROVE  /\ WithId(doc[l], First(doc[l], S).id) = First(doc[l], S)
         /\ First(doc[l], S).id = NoId <=> S = {}
<1> DEFINE seq == doc[l]
           T == {j \in DOMAIN seq : seq[j].id = First(seq, S).id}
<1>1. \A j \in DOMAIN seq : seq[j].id[1] \in Lists /\ seq[j].id # NoId
  BY ListsAssumption DEF Known, RecordKnown, OnFile, NoId
<1>2. S \in SUBSET Nat /\ DOMAIN seq \subseteq Nat
  BY DEF Shaped
<1>3. CASE S = {}
  <2>1. First(seq, S) = NoRecord /\ First(seq, S).id = NoId
    BY <1>3 DEF First, NoRecord
  <2>2. T = {}
    BY <1>1, <2>1
  <2>3. WithId(seq, First(seq, S).id) = NoRecord
    BY <2>2 DEF WithId, First
  <2> QED
    BY <1>3, <2>1, <2>3
<1>4. CASE S # {}
  <2> DEFINE k == CHOOSE i \in S : \A j \in S : i <= j
             m == CHOOSE i \in T : \A j \in T : i <= j
  <2>1. k \in S /\ (\A j \in S : k <= j) /\ First(seq, S) = seq[k]
    BY <1>2, <1>4, LeastNumber DEF First
  <2>2. T \subseteq S /\ k \in T
    BY <2>1
  <2>3. m \in T /\ (\A j \in T : m <= j) /\ First(seq, T) = seq[m]
    <3>1. T \in SUBSET Nat /\ T # {}
      BY <1>2, <2>2
    <3> HIDE DEF T
    <3> QED
      BY <3>1, LeastNumber DEF First
  <2> HIDE DEF k, m
  <2>4. k <= m /\ m <= k /\ k \in Nat /\ m \in Nat
    BY <1>2, <2>1, <2>2, <2>3
  <2>5. WithId(seq, First(seq, S).id) = First(seq, S)
    BY <2>1, <2>3, <2>4 DEF WithId
  <2> QED
    BY <1>1, <1>4, <2>1, <2>5
<1> QED
  BY <1>3, <1>4

LEMMA NewestIsNamed ==
  ASSUME NEW doc, Shaped(doc), Known(doc), NEW l \in Lists
  PROVE  /\ WithId(doc[l], Newest(doc[l]).id) = Newest(doc[l])
         /\ Newest(doc[l]).id = NoId => DOMAIN doc[l] = {}
BY NamedFirst DEF Newest

LEMMA OfProviderIsNamed ==
  ASSUME NEW doc, Shaped(doc), Known(doc), NEW l \in Lists, NEW p
  PROVE  /\ WithId(doc[l], OfProvider(doc[l], p).id) = OfProvider(doc[l], p)
         /\ OfProvider(doc[l], p).id = NoId => OfProvider(doc[l], p) = NoRecord
<1> DEFINE S == {i \in DOMAIN doc[l] : doc[l][i].provider = p}
<1>1. \A i \in S, j \in DOMAIN doc[l] : doc[l][j].id = doc[l][i].id => j \in S
  BY DEF Known, RecordKnown, OnFile
<1>2. /\ WithId(doc[l], First(doc[l], S).id) = First(doc[l], S)
      /\ First(doc[l], S).id = NoId <=> S = {}
  <2> HIDE DEF S
  <2>1. S \in SUBSET DOMAIN doc[l]
    BY DEF S
  <2> QED
    BY <1>1, <2>1, NamedFirst
<1>3. OfProvider(doc[l], p) = First(doc[l], S)
  BY DEF OfProvider
<1> HIDE DEF S
<1> QED
  BY <1>2, <1>3 DEF First

LEMMA NothingWithId ==
  ASSUME NEW seq, DOMAIN seq = {}, NEW id
  PROVE  WithId(seq, id) = NoRecord /\ Newest(seq) = NoRecord
BY DEF WithId, Newest, First

(* What a click asks of a row, and the provider it is for. *)
Clicks(req, doc, row, p) ==
  /\ req.ids = ClickedIds(doc, row, p)
  /\ req.provider = p
  /\ req.bad = Ungiven(row) /\ req.good = GivenOnClick(row)
  /\ req.reject = FALSE /\ req.key = NoId

LEMMA ClickedClicks ==
  ASSUME NEW doc, NEW row, NEW p
  PROVE  Clicks(Clicked(doc, row, p), doc, row, ClickedProvider(doc, row, p))
BY DEF Clicked, Plain, Clicks

LEMMA ClickNames ==
  ASSUME NEW doc, NEW row, NEW req, NEW p, Clicks(req, doc, row, p), NEW n \in DOMAIN row.links
  PROVE  Named(req, n) =
           IF n \notin NamedLinks(row) THEN NoId
           ELSE IF n = "releaseExport" THEN OfProvider(doc[row.links[n].list], p).id
           ELSE Newest(doc[row.links[n].list]).id
BY DEF Clicks, ClickedIds, Named

(* The record under a link that does not lead through another. *)
RootFinds == {"newest", "newest of provider", "standing"}

RootRecord(doc, n, link, p) ==
  LET seq == doc[link.list]
      finds == ClickFinds(n, link) IN
  IF finds = "newest" THEN Newest(seq)
  ELSE IF finds = "newest of provider" THEN OfProvider(seq, p)
  ELSE First(seq, {i \in DOMAIN seq : seq[i].standing \in link.needs})

LEMMA RootIsDirect ==
  ASSUME NEW doc, Shaped(doc), Known(doc), NEW row, LinksToLists(row),
         NEW req, NEW p, Clicks(req, doc, row, p),
         NEW n \in DOMAIN row.links, ClickFinds(n, row.links[n]) \in RootFinds
  PROVE  Direct(row, doc, req)[n] = RootRecord(doc, n, row.links[n], p)
<1> DEFINE link == row.links[n]
           seq == doc[link.list]
           id == Named(req, n)
<1>1. Direct(row, doc, req)[n] = Lookup(link, seq, id, p)
  BY DEF Direct, Clicks
<1>2. link.list \in Lists
  BY DEF LinksToLists
<1>3. id = IF n \notin NamedLinks(row) THEN NoId
           ELSE IF n = "releaseExport" THEN OfProvider(seq, p).id ELSE Newest(seq).id
  BY ClickNames
<1>4. /\ WithId(seq, Newest(seq).id) = Newest(seq)
      /\ Newest(seq).id = NoId => DOMAIN seq = {}
      /\ WithId(seq, OfProvider(seq, p).id) = OfProvider(seq, p)
      /\ OfProvider(seq, p).id = NoId => OfProvider(seq, p) = NoRecord
  BY <1>2, NewestIsNamed, OfProviderIsNamed
<1>5. DOMAIN seq = {} => /\ Newest(seq) = NoRecord /\ OfProvider(seq, p) = NoRecord
  BY DEF Newest, OfProvider, First
<1> HIDE DEF seq, id, link
<1>6. CASE ClickFinds(n, link) = "newest"
  <2>1. /\ n # "releaseExport"
        /\ link.by \in {"id or provider", "id else provider", "id else newest",
                        "id else through", "newest"}
    BY <1>6 DEF ClickFinds
  <2>2. link.by # "newest" => id = Newest(seq).id
    BY <1>3, <2>1 DEF NamedLinks, link
  <2>3. Newest(seq) = NoRecord => OfProvider(seq, p) = NoRecord
    BY <1>4, <1>5 DEF NoRecord
  <2>4. Lookup(link, seq, id, p) = Newest(seq)
    <3>1. CASE link.by = "newest"
      BY <3>1 DEF Lookup
    <3>2. CASE link.by = "id or provider"
      <4>1. ByIdOrProvider(seq, id, p) = Newest(seq)
        BY <1>4, <2>2, <2>3, <3>2 DEF ByIdOrProvider
      <4> QED
        BY <3>2, <4>1 DEF Lookup
    <3>3. CASE link.by = "id else provider"
      BY <1>4, <1>5, <2>2, <3>3 DEF Lookup
    <3>4. CASE link.by \in {"id else newest", "id else through"}
      BY <1>4, <2>2, <3>4 DEF Lookup
    <3> QED
      BY <2>1, <3>1, <3>2, <3>3, <3>4
  <2> QED
    BY <1>1, <1>6, <2>4 DEF RootRecord, seq, link
<1>7. CASE ClickFinds(n, link) = "newest of provider"
  <2>1. n = "releaseExport" /\ link.by \in {"id else provider", "provider"}
    BY <1>7 DEF ClickFinds
  <2>2. link.by = "id else provider" => id = OfProvider(seq, p).id
    BY <1>3, <2>1 DEF NamedLinks, link
  <2>3. Lookup(link, seq, id, p) = OfProvider(seq, p)
    BY <1>4, <2>1, <2>2 DEF Lookup
  <2> QED
    BY <1>1, <1>7, <2>3 DEF RootRecord, seq, link
<1>8. CASE ClickFinds(n, link) = "standing"
  <2>1. link.by = "standing"
    BY <1>8 DEF ClickFinds
  <2>2. Lookup(link, seq, id, p) =
          First(seq, {i \in DOMAIN seq : seq[i].standing \in link.needs})
    BY <2>1 DEF Lookup
  <2> QED
    BY <1>1, <1>8, <2>2 DEF RootRecord, seq, link
<1> QED
  BY <1>6, <1>7, <1>8 DEF RootFinds, link

(* It stays when the links through others are followed. *)
LEMMA RootStays ==
  ASSUME NEW doc, Shaped(doc), Known(doc), NEW row, LinksToLists(row),
         NEW req, NEW p, Clicks(req, doc, row, p),
         NEW n \in DOMAIN row.links, ClickFinds(n, row.links[n]) \in RootFinds,
         NEW found, found[n] = RootRecord(doc, n, row.links[n], p)
  PROVE  Follow(row, doc, req, found)[n] = RootRecord(doc, n, row.links[n], p)
<1> DEFINE link == row.links[n]
           seq == doc[link.list]
<1>1. CASE link.via = "none"
  BY <1>1 DEF Follow
<1>2. CASE link.via # "none"
  <2>1. n # "releaseExport" /\ link.by = "id else through" /\ ClickFinds(n, link) = "newest"
    BY <1>2 DEF ClickFinds, RootFinds
  <2>2. Named(req, n) = Newest(seq).id
    <3>1. n \in NamedLinks(row)
      BY <2>1 DEF NamedLinks
    <3>2. Named(req, n) = IF n \notin NamedLinks(row) THEN NoId
                          ELSE IF n = "releaseExport" THEN OfProvider(seq, p).id
                          ELSE Newest(seq).id
      BY ClickNames
    <3> QED
      BY <2>1, <3>1, <3>2
  <2>3. found[n] = Newest(seq)
    BY <2>1 DEF RootRecord
  <2>4. CASE Named(req, n) # NoId
    BY <2>4 DEF Follow
  <2>5. CASE Named(req, n) = NoId
    <3>1. DOMAIN seq = {}
      BY <2>2, <2>5, NewestIsNamed DEF LinksToLists
    <3>2. \A id : WithId(seq, id) = found[n]
      BY <2>3, <3>1, NothingWithId
    <3>3. Follow(row, doc, req, found)[n] = found[n] \/
          \E id : Follow(row, doc, req, found)[n] = WithId(seq, id)
      BY DEF Follow
    <3> QED
      BY <3>2, <3>3
  <2> QED
    BY <2>4, <2>5
<1> QED
  BY <1>1, <1>2

(* Two rows find the same under the links that are alike, before and after each round *)
(* of following.                                                                       *)
FoundAlike(doc, row, other, p, found, otherFound) ==
  \A n \in Alike(row, other) :
    /\ found[n] = otherFound[n]
    /\ ClickFinds(n, row.links[n]) \in RootFinds =>
         found[n] = RootRecord(doc, n, row.links[n], p)

TwoRows(doc, row, other, p, req, otherReq) ==
  /\ Shaped(doc) /\ Known(doc)
  /\ LinksToLists(row) /\ LinksToLists(other)
  /\ Clicks(req, doc, row, p) /\ Clicks(otherReq, doc, other, p)
  /\ \A n \in Alike(row, other) :
       ClickFinds(n, row.links[n]) = "record of a record" => row.links[n].via \in Alike(row, other)

LinksAlike(row, other, n) ==
  /\ n \in DOMAIN row.links /\ n \in DOMAIN other.links
  /\ row.links[n].list = other.links[n].list
  /\ ClickFinds(n, row.links[n]) = ClickFinds(n, other.links[n])
  /\ ClickFinds(n, row.links[n]) = "standing" =>
       row.links[n].needs = other.links[n].needs
  /\ ClickFinds(n, row.links[n]) \notin RootFinds =>
       /\ ClickFinds(n, row.links[n]) = "record of a record"
       /\ row.links[n].by = "through" /\ other.links[n].by = "through"
       /\ row.links[n].via = other.links[n].via
       /\ row.links[n].as = other.links[n].as

LEMMA AlikeLinks ==
  ASSUME NEW row, NEW other, NEW n \in Alike(row, other)
  PROVE  LinksAlike(row, other, n)
<1>1. \A l : /\ ClickFinds(n, l) \in {"record of a record", "unknown"} \cup RootFinds
             /\ ClickFinds(n, l) = "record of a record" => l.by = "through"
  BY DEF ClickFinds, RootFinds
<1>2. /\ n \in DOMAIN row.links /\ n \in DOMAIN other.links
      /\ row.links[n].list = other.links[n].list
      /\ ClickFinds(n, row.links[n]) = ClickFinds(n, other.links[n])
      /\ ClickFinds(n, row.links[n]) # "unknown"
      /\ ClickFinds(n, row.links[n]) = "standing" => row.links[n].needs = other.links[n].needs
      /\ ClickFinds(n, row.links[n]) = "record of a record" =>
           /\ row.links[n].via = other.links[n].via
           /\ row.links[n].as = other.links[n].as
  BY DEF Alike
<1> QED
  BY <1>1, <1>2 DEF LinksAlike

LEMMA AlikeRoots ==
  ASSUME NEW row, NEW other, NEW n \in Alike(row, other), NEW doc, NEW p
  PROVE  RootRecord(doc, n, row.links[n], p) = RootRecord(doc, n, other.links[n], p)
           \/ ClickFinds(n, row.links[n]) \notin RootFinds
<1> DEFINE link == row.links[n]
           like == other.links[n]
<1>1. /\ link.list = like.list /\ ClickFinds(n, link) = ClickFinds(n, like)
      /\ ClickFinds(n, link) = "standing" => link.needs = like.needs
  <2>1. LinksAlike(row, other, n)
    BY AlikeLinks
  <2> QED
    BY <2>1 DEF LinksAlike
<1> HIDE DEF link, like
<1>2. ClickFinds(n, link) \in RootFinds => RootRecord(doc, n, link, p) = RootRecord(doc, n, like, p)
  BY <1>1 DEF RootRecord, RootFinds
<1> QED
  BY <1>2 DEF link, like

LEMMA DirectAlike ==
  ASSUME NEW doc, NEW row, NEW other, NEW p, NEW req, NEW otherReq,
         TwoRows(doc, row, other, p, req, otherReq)
  PROVE  FoundAlike(doc, row, other, p, Direct(row, doc, req), Direct(other, doc, otherReq))
<1> SUFFICES ASSUME NEW n \in Alike(row, other)
             PROVE  /\ Direct(row, doc, req)[n] = Direct(other, doc, otherReq)[n]
                    /\ ClickFinds(n, row.links[n]) \in RootFinds =>
                         Direct(row, doc, req)[n] = RootRecord(doc, n, row.links[n], p)
  BY DEF FoundAlike
<1>0. /\ Shaped(doc) /\ Known(doc) /\ LinksToLists(row) /\ LinksToLists(other)
      /\ Clicks(req, doc, row, p) /\ Clicks(otherReq, doc, other, p)
  BY DEF TwoRows
<1>alike. LinksAlike(row, other, n)
  BY AlikeLinks
<1>1. n \in DOMAIN row.links /\ n \in DOMAIN other.links
      /\ ClickFinds(n, row.links[n]) = ClickFinds(n, other.links[n])
  BY <1>alike DEF LinksAlike
<1>2. CASE ClickFinds(n, row.links[n]) \in RootFinds
  <2>1. RootRecord(doc, n, row.links[n], p) = RootRecord(doc, n, other.links[n], p)
    BY <1>2, AlikeRoots
  <2>2. Direct(row, doc, req)[n] = RootRecord(doc, n, row.links[n], p)
    BY <1>0, <1>1, <1>2, RootIsDirect
  <2>3. Direct(other, doc, otherReq)[n] = RootRecord(doc, n, other.links[n], p)
    BY <1>0, <1>1, <1>2, RootIsDirect
  <2> QED
    BY <2>1, <2>2, <2>3
<1>3. CASE ClickFinds(n, row.links[n]) \notin RootFinds
  <2>1. row.links[n].by = "through" /\ other.links[n].by = "through"
    BY <1>alike, <1>3 DEF LinksAlike
  <2>2. \A link, seq, id, q : link.by = "through" => Lookup(link, seq, id, q) = NoRecord
    BY DEF Lookup
  <2>3. Direct(row, doc, req)[n] = NoRecord /\ Direct(other, doc, otherReq)[n] = NoRecord
    BY <1>1, <2>1, <2>2 DEF Direct
  <2> QED
    BY <1>3, <2>3
<1> QED
  BY <1>2, <1>3

LEMMA FollowAlike ==
  ASSUME NEW doc, NEW row, NEW other, NEW p, NEW req, NEW otherReq,
         TwoRows(doc, row, other, p, req, otherReq),
         NEW found, NEW otherFound, FoundAlike(doc, row, other, p, found, otherFound)
  PROVE  FoundAlike(doc, row, other, p,
                    Follow(row, doc, req, found), Follow(other, doc, otherReq, otherFound))
<1> SUFFICES ASSUME NEW n \in Alike(row, other)
             PROVE  /\ Follow(row, doc, req, found)[n]
                         = Follow(other, doc, otherReq, otherFound)[n]
                    /\ ClickFinds(n, row.links[n]) \in RootFinds =>
                         Follow(row, doc, req, found)[n] = RootRecord(doc, n, row.links[n], p)
  BY DEF FoundAlike
<1>0. /\ Shaped(doc) /\ Known(doc) /\ LinksToLists(row) /\ LinksToLists(other)
      /\ Clicks(req, doc, row, p) /\ Clicks(otherReq, doc, other, p)
  BY DEF TwoRows
<1>alike. LinksAlike(row, other, n)
  BY AlikeLinks
<1>1. n \in DOMAIN row.links /\ n \in DOMAIN other.links
      /\ ClickFinds(n, row.links[n]) = ClickFinds(n, other.links[n])
  BY <1>alike DEF LinksAlike
<1>2. CASE ClickFinds(n, row.links[n]) \in RootFinds
  <2>1. RootRecord(doc, n, row.links[n], p) = RootRecord(doc, n, other.links[n], p)
    BY <1>2, AlikeRoots
  <2>2. found[n] = RootRecord(doc, n, row.links[n], p) /\ otherFound[n] = found[n]
    BY <1>2 DEF FoundAlike
  <2>3. Follow(row, doc, req, found)[n] = RootRecord(doc, n, row.links[n], p)
    BY <1>0, <1>1, <1>2, <2>2, RootStays
  <2>4. Follow(other, doc, otherReq, otherFound)[n] = RootRecord(doc, n, other.links[n], p)
    BY <1>0, <1>1, <1>2, <2>1, <2>2, RootStays
  <2> QED
    BY <2>1, <2>3, <2>4
<1>3. CASE ClickFinds(n, row.links[n]) \notin RootFinds
  <2> DEFINE link == row.links[n]
             like == other.links[n]
  <2>1. /\ link.by = "through" /\ like.by = "through"
        /\ link.list = like.list /\ link.via = like.via /\ link.as = like.as
        /\ ClickFinds(n, link) = "record of a record"
    BY <1>alike, <1>3 DEF LinksAlike
  <2>2. n \notin NamedLinks(row) /\ n \notin NamedLinks(other)
    BY <2>1 DEF NamedLinks
  <2>3. Named(req, n) = NoId /\ Named(otherReq, n) = NoId
    BY <1>1, <2>2, ClickNames DEF TwoRows
  <2>4. found[n] = otherFound[n] /\ found[link.via] = otherFound[link.via]
    BY <2>1 DEF TwoRows, FoundAlike
  <2>5. Follow(row, doc, req, found)[n] =
          IF link.via = "none" \/ found[link.via] = NoRecord THEN found[n]
          ELSE WithId(doc[link.list], found[link.via].links[link.as])
    BY <1>1, <2>3 DEF Follow
  <2>6. Follow(other, doc, otherReq, otherFound)[n] =
          IF like.via = "none" \/ otherFound[like.via] = NoRecord THEN otherFound[n]
          ELSE WithId(doc[like.list], otherFound[like.via].links[like.as])
    BY <1>1, <2>3 DEF Follow
  <2> HIDE DEF link, like
  <2>7. Follow(row, doc, req, found)[n] = Follow(other, doc, otherReq, otherFound)[n]
    BY <2>1, <2>4, <2>5, <2>6
  <2> QED
    BY <1>3, <2>7
<1> QED
  BY <1>2, <1>3

LEMMA AlikeFound ==
  ASSUME NEW doc, NEW row, NEW other, NEW p, NEW req, NEW otherReq,
         TwoRows(doc, row, other, p, req, otherReq)
  PROVE  \A n \in Alike(row, other) :
           Found(row, doc, req)[n] = Found(other, doc, otherReq)[n]
<1> DEFINE found == Direct(row, doc, req)
           otherFound == Direct(other, doc, otherReq)
           F(f) == Follow(row, doc, req, f)
           G(g) == Follow(other, doc, otherReq, g)
<1>1. FoundAlike(doc, row, other, p, found, otherFound)
  BY DirectAlike
<1>2. \A f, g : FoundAlike(doc, row, other, p, f, g) => FoundAlike(doc, row, other, p, F(f), G(g))
  BY FollowAlike
<1> HIDE DEF found, otherFound, F, G
<1>3. FoundAlike(doc, row, other, p, F(F(F(found))), G(G(G(otherFound))))
  BY <1>1, <1>2
<1>4. /\ Found(row, doc, req) = F(F(F(found)))
      /\ Found(other, doc, otherReq) = G(G(G(otherFound)))
  BY DEF Found, F, G, found, otherFound
<1> QED
  BY <1>3, <1>4 DEF FoundAlike

-----------------------------------------------------------------------------
(* A click that passes by one row passes by a row it covers. *)

PassesBy(row, req, doc, found) ==
  /\ ~Refused(row, found)
  /\ row.always \/ ChecksPass(row, doc, req, found, facts)

LEMMA ClickPasses ==
  ASSUME NEW doc, NEW row, NEW req, NEW p, Clicks(req, doc, row, p), NEW now
  PROVE  /\ row.passes \notin {row.otherwise, "none"} =>
              (Create(row, doc, req, facts, now).status = row.passes =>
                 PassesBy(row, req, doc, Found(row, doc, req)))
         /\ PassesBy(row, req, doc, Found(row, doc, req)) =>
              Create(row, doc, req, facts, now).status = row.passes
<1> DEFINE found == Found(row, doc, req)
           r == Create(row, doc, req, facts, now)
<1>1. Refused(row, found) => r.status = "none"
  BY DEF Create, NoRecord
<1>2. ~Refused(row, found) => r.status = StatusOf(row, doc, req, found, facts)
  BY DEF Create
<1>3. StatusOf(row, doc, req, found, facts) =
        IF ~row.always /\ ~ChecksPass(row, doc, req, found, facts) THEN row.otherwise
        ELSE row.passes
  BY DEF StatusOf, Clicks
<1> HIDE DEF r, found
<1> QED
  BY <1>1, <1>2, <1>3 DEF PassesBy, r, found

(* What it tells of the records it found. *)
LEMMA RequiredIsFound ==
  ASSUME NEW row, NEW doc, NEW req, NEW found, PassesBy(row, req, doc, found),
         NEW n \in DOMAIN row.links
  PROVE  /\ Requires(row, n) => found[n] # NoRecord
         /\ \A needs : Requires(row, n) /\ RequiresStanding(row, n, needs) =>
              found[n].standing \in needs
<1>1. row.links[n].absent = "refused" => found[n] # NoRecord
  BY DEF PassesBy, Refused
<1>2. ~row.always =>
        \/ Stands(row.links[n], found[n])
        \/ row.links[n].absent = "accepted" /\ found[n] = NoRecord
  BY DEF PassesBy, ChecksPass, LinksStand
<1>3. Requires(row, n) => found[n] # NoRecord
  BY <1>1, <1>2 DEF Requires, Stands
<1>4. ASSUME NEW needs, Requires(row, n), RequiresStanding(row, n, needs)
      PROVE  found[n].standing \in needs
  BY <1>2, <1>3, <1>4 DEF RequiresStanding, Stands
<1> QED
  BY <1>3, <1>4

LEMMA WholeIsFound ==
  ASSUME NEW doc, Shaped(doc), Known(doc), NEW row, LinksToLists(row), NEW req,
         PassesBy(row, req, doc, Found(row, doc, req)),
         NEW n \in DOMAIN row.links, RequiresWhole(row, n)
  PROVE  Found(row, doc, req)[n].fails = {}
<1> DEFINE found == Found(row, doc, req)
<1>1. /\ Requires(row, n) /\ RequiresStanding(row, n, row.links[n].needs)
      /\ \A status \in row.links[n].needs : Whole(row.links[n].list, status)
  BY DEF RequiresWhole
<1>2. found[n] # NoRecord /\ found[n].standing \in row.links[n].needs
  BY <1>1, RequiredIsFound
<1>3. found[n] \in {NoRecord} \cup OnFile(doc, row.links[n].list)
  BY FoundIsThere, ShapedIsNumbered DEF IsThere
<1> HIDE DEF found
<1>4. RecordKnown(found[n], row.links[n].list)
  BY <1>2, <1>3 DEF Known, LinksToLists
<1> QED
  BY <1>1, <1>2, <1>4 DEF RecordKnown, found

LEMMA CoveredPasses ==
  ASSUME NEW doc, NEW row, NEW other, NEW p, NEW req, NEW otherReq,
         TwoRows(doc, row, other, p, req, otherReq), Covers(row, other),
         Unseen(row, other) \subseteq facts,
         PassesBy(row, req, doc, Found(row, doc, req))
  PROVE  PassesBy(other, otherReq, doc, Found(other, doc, otherReq))
<1> DEFINE found == Found(row, doc, req)
           otherFound == Found(other, doc, otherReq)
           same == Alike(row, other)
<1>0. /\ Shaped(doc) /\ Known(doc) /\ LinksToLists(row) /\ LinksToLists(other)
      /\ Clicks(req, doc, row, p) /\ Clicks(otherReq, doc, other, p)
  BY DEF TwoRows
<1>1. /\ row.list = other.list
      /\ \/ ~row.always /\ Ungiven(row) # {}
         \/ /\ \A n \in DOMAIN other.links :
                 other.links[n].absent = "refused" => n \in same /\ Requires(row, n)
            /\ other.always \/ CoversChecks(row, other, same)
  BY DEF Covers
<1>2. \A n \in same : found[n] = otherFound[n]
  BY AlikeFound
<1>3. \A n \in same : n \in DOMAIN row.links
  BY DEF Alike
<1>4. \A n \in DOMAIN row.links :
        /\ Requires(row, n) => found[n] # NoRecord
        /\ \A needs : Requires(row, n) /\ RequiresStanding(row, n, needs) =>
             found[n].standing \in needs
  BY RequiredIsFound
<1>5. \A n \in DOMAIN row.links : RequiresWhole(row, n) => found[n].fails = {}
  BY <1>0, WholeIsFound
<1>6. ~row.always => ChecksPass(row, doc, req, found, facts)
  BY DEF PassesBy
<1>7. req.bad = Ungiven(row) /\ req.good = GivenOnClick(row) /\ req.key = NoId
  BY <1>0 DEF Clicks
<1>8. otherReq.bad = Ungiven(other) /\ otherReq.good = GivenOnClick(other)
      /\ otherReq.key = NoId
  BY <1>0 DEF Clicks
<1>passes. PassesBy(row, req, doc, found)
  OBVIOUS
<1> HIDE DEF found, otherFound, same
<1>9. ~row.always => Ungiven(row) = {}
  BY <1>6, <1>7 DEF ChecksPass, Failing
<1>10. /\ \A n \in DOMAIN other.links :
            other.links[n].absent = "refused" => n \in same /\ Requires(row, n)
       /\ other.always \/ CoversChecks(row, other, same)
  BY <1>1, <1>9
<1>11. ~Refused(other, otherFound)
  BY <1>2, <1>3, <1>4, <1>10 DEF Refused
<1>12. ASSUME CoversChecks(row, other, same), ~other.always
       PROVE  ChecksPass(other, doc, otherReq, otherFound, facts)
  <2>1. LinksStand(other, otherFound)
    <3> SUFFICES ASSUME NEW n \in DOMAIN other.links
                 PROVE  \/ Stands(other.links[n], otherFound[n])
                        \/ other.links[n].absent = "accepted" /\ otherFound[n] = NoRecord
      BY DEF LinksStand
    <3>1. CASE other.links[n].needs # {} \/ other.links[n].absent # "accepted"
      <4>1. /\ n \in same /\ Requires(row, n)
            /\ other.links[n].needs = {} \/ RequiresStanding(row, n, other.links[n].needs)
        BY <1>12, <3>1 DEF CoversChecks
      <4>2. /\ otherFound[n] # NoRecord
            /\ other.links[n].needs = {} \/ otherFound[n].standing \in other.links[n].needs
        BY <1>2, <1>3, <1>4, <4>1
      <4> QED
        BY <4>2 DEF Stands
    <3>2. CASE other.links[n].needs = {} /\ other.links[n].absent = "accepted"
      BY <3>2 DEF Stands
    <3> QED
      BY <3>1, <3>2
  <2>2. Failing(other, otherReq, otherFound) = {}
    <3>1. Ungiven(other) = {}
      BY <1>12 DEF CoversChecks
    <3>2. ASSUME NEW i \in DOMAIN other.lends \ GivenOnClick(other)
          PROVE  other.lends[i][2] \notin otherFound[other.lends[i][1]].fails
      <4> DEFINE l == other.lends[i]
      <4>1. /\ l[1] \in same
            /\ \/ ~row.always /\ l \in LentOnClick(row)
               \/ RequiresWhole(row, l[1])
        BY <1>12, <3>2 DEF CoversChecks, LentOnClick
      <4>2. otherFound[l[1]] = found[l[1]] /\ l[1] \in DOMAIN row.links
        BY <1>2, <1>3, <4>1
      <4>3. CASE RequiresWhole(row, l[1])
        BY <1>5, <4>2, <4>3
      <4>4. CASE ~row.always /\ l \in LentOnClick(row)
        <5>1. Failing(row, req, found) = {}
          BY <1>6, <4>4 DEF ChecksPass
        <5>2. PICK j \in DOMAIN row.lends \ GivenOnClick(row) : row.lends[j] = l
          BY <4>4 DEF LentOnClick
        <5>3. row.lends[j][2] \notin found[row.lends[j][1]].fails
          BY <1>7, <5>1, <5>2 DEF Failing
        <5> QED
          BY <4>2, <5>2, <5>3
      <4> QED
        BY <4>1, <4>3, <4>4
    <3> QED
      BY <1>8, <3>1, <3>2 DEF Failing
  <2>3. ASSUME NEW h \in other.heeds PROVE h[2] \notin otherFound[h[1]].fails
    <3>1. /\ h[1] \in same
          /\ \/ ~row.always /\ h \in row.heeds
             \/ RequiresWhole(row, h[1])
      BY <1>12 DEF CoversChecks
    <3>2. otherFound[h[1]] = found[h[1]] /\ h[1] \in DOMAIN row.links
      BY <1>2, <1>3, <3>1
    <3>3. CASE RequiresWhole(row, h[1])
      BY <1>5, <3>2, <3>3
    <3>4. CASE ~row.always /\ h \in row.heeds
      BY <1>6, <3>2, <3>4 DEF ChecksPass
    <3> QED
      BY <3>1, <3>3, <3>4
  <2>4. other.agrees = {} /\ other.facts \subseteq facts
    <3>1. other.agrees = {}
      BY <1>12 DEF CoversChecks
    <3>2. ~row.always => row.facts \subseteq facts
      BY <1>6 DEF ChecksPass
    <3> QED
      BY <1>12, <3>1, <3>2 DEF Unseen
  <2>5. FreshKey(other, doc, KeyOf(other, otherReq, otherFound))
    <3> SUFFICES ASSUME other.keyed
                 PROVE  FreshKey(other, doc, KeyOf(other, otherReq, otherFound))
      BY DEF FreshKey
    <3>1. row.keyed /\ ~row.always /\ row.owner = other.owner /\ row.owner \in same
      BY <1>12 DEF CoversChecks
    <3>2. KeyOf(row, req, found) = KeyOf(other, otherReq, otherFound)
      BY <1>2, <1>7, <1>8, <3>1 DEF KeyOf
    <3>3. FreshKey(row, doc, KeyOf(row, req, found))
      BY <1>6, <3>1 DEF ChecksPass
    <3> QED
      BY <1>1, <3>1, <3>2, <3>3 DEF FreshKey
  <2> QED
    BY <2>1, <2>2, <2>3, <2>4, <2>5 DEF ChecksPass
<1>13. PassesBy(other, otherReq, doc, otherFound)
  BY <1>10, <1>11, <1>12 DEF PassesBy
<1> QED
  BY <1>13 DEF otherFound

LEMMA CoveredClickPasses ==
  ASSUME NEW doc, Shaped(doc), Known(doc), NEW row, NEW other,
         LinksToLists(row), LinksToLists(other), Covers(row, other),
         Unseen(row, other) \subseteq facts, NEW p, NEW now,
         Create(row, doc, Clicked(doc, row, p), facts, now).status = row.passes
  PROVE  Create(other, doc, Clicked(doc, other, p), facts, now).status = other.passes
<1> DEFINE provider == ClickedProvider(doc, row, p)
           req == Clicked(doc, row, p)
           otherReq == Clicked(doc, other, p)
<1>1. /\ row.stage = other.stage
      /\ row.passes \notin {row.otherwise, "none"}
      /\ \A n \in Alike(row, other) :
           ClickFinds(n, row.links[n]) = "record of a record" =>
             row.links[n].via \in Alike(row, other)
  BY DEF Covers
<1>2. ClickedProvider(doc, other, p) = provider
  BY <1>1 DEF ClickedProvider
<1>3. Clicks(req, doc, row, provider) /\ Clicks(otherReq, doc, other, provider)
  BY <1>2, ClickedClicks
<1> HIDE DEF provider, req, otherReq
<1>4. TwoRows(doc, row, other, provider, req, otherReq)
  BY <1>1, <1>3 DEF TwoRows
<1>5. PassesBy(row, req, doc, Found(row, doc, req))
  BY <1>1, <1>3, ClickPasses DEF req
<1>6. PassesBy(other, otherReq, doc, Found(other, doc, otherReq))
  BY <1>4, <1>5, CoveredPasses
<1>7. Create(other, doc, otherReq, facts, now).status = other.passes
  BY <1>3, <1>6, ClickPasses
<1> QED
  BY <1>7 DEF otherReq

(* On the lists a browser shows, whatever it clicked offline, whatever the server    *)
(* sent it and whatever has lapsed, a click that passes by its own row passes by the *)
(* server's and the other way round: but for the lenient stages, the strict ones, and *)
(* the fact-blind ones when something is false that the page does not look at.        *)
THEOREM OfflineAgreement == Spec => []OfflineAgreesWithServer
<1>1. IInv /\ KnownInv => OfflineAgreesWithServer
  <2> SUFFICES ASSUME IInv, KnownInv,
                      NEW s \in desk.stages \cap DOMAIN OfflineRows, NEW p \in desk.providers
               PROVE  LET Passes(row) ==
                            Create(row, browser.lists, Clicked(browser.lists, row, p), facts,
                                   clock).status = row.passes IN
                      /\ Passes(OfflineRows[s]) =>
                           \/ s \in LenientOffline
                           \/ /\ s \in FactBlindOffline
                              /\ ~(Unseen(OfflineRows[s], Rows[s]) \subseteq facts)
                           \/ Passes(Rows[s])
                      /\ Passes(Rows[s]) => s \in StrictOffline \/ Passes(OfflineRows[s])
    BY DEF OfflineAgreesWithServer
  <2>1. Shaped(browser.lists) /\ Known(browser.lists)
    BY DEF IInv, KnownInv
  <2>2. /\ s \in DOMAIN Rows
        /\ s \in LenientOffline \/ Covers(OfflineRows[s], Rows[s])
        /\ s \in StrictOffline \/ Covers(Rows[s], OfflineRows[s])
        /\ Unseen(Rows[s], OfflineRows[s]) = {}
        /\ Unseen(OfflineRows[s], Rows[s]) # {} <=> s \in FactBlindOffline
    BY ComparedAssumption
  <2>3. LinksToLists(Rows[s]) /\ LinksToLists(OfflineRows[s])
    BY <2>2, RowLists, OfflineRowsAssumption DEF LinksToLists
  <2> DEFINE Passes(row) ==
               Create(row, browser.lists, Clicked(browser.lists, row, p), facts,
                      clock).status = row.passes
  <2>4. \A row, other :
          /\ LinksToLists(row) /\ LinksToLists(other) /\ Covers(row, other)
          /\ Unseen(row, other) \subseteq facts /\ Passes(row)
          => Passes(other)
    BY <2>1, CoveredClickPasses
  <2> HIDE DEF Passes
  <2>5. Passes(OfflineRows[s]) =>
          \/ s \in LenientOffline
          \/ s \in FactBlindOffline /\ ~(Unseen(OfflineRows[s], Rows[s]) \subseteq facts)
          \/ Passes(Rows[s])
    BY <2>2, <2>3, <2>4
  <2>6. Passes(Rows[s]) => s \in StrictOffline \/ Passes(OfflineRows[s])
    BY <2>2, <2>3, <2>4
  <2> QED
    BY <2>5, <2>6 DEF Passes
<1> QED
  BY <1>1, Invariant, KnownInvariant, PTL
=============================================================================
