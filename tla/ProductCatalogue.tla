-------------------------- MODULE ProductCatalogue --------------------------
(***************************************************************************)
(* What the transaction of a page does to the catalogue: the products and  *)
(* their sources, versions, changes and outbox events. A page is read (one *)
(* snapshot of the identities it mentions), folded by DecideBatch and      *)
(* written by ApplyBatch. Several workers do so at once, for different     *)
(* runs of the same source.                                                *)
(*                                                                         *)
(* The transactions run under READ COMMITTED. Every row that ApplyBatch    *)
(* writes, or finds in its way, stays locked until the commit, and every   *)
(* guard is evaluated on the latest committed row, so the writes of a      *)
(* transaction are one step; the snapshot it decided on is older.          *)
(***************************************************************************)
EXTENDS Naturals, FiniteSets, FiniteSetsExt

CONSTANTS
  Identities,        \* (source, external product id) pairs
  Contents,          \* normalized products, up to their fingerprint
  SourceTimes,       \* source_updated_at of records, 0 for none
  ReceiveTimes,      \* received_at of records
  Workers,
  None,
  NumRecords,        \* raw records of the finished runs
  BatchSize,         \* ProcessRunOptions.BatchSize
  MaxPages           \* bound of the model: pages processed in one behaviour

ASSUME TimeAssumption == SourceTimes \subseteq Nat /\ ReceiveTimes \subseteq Nat \ {0}
ASSUME SizeAssumption == /\ NumRecords \in Nat /\ BatchSize \in Nat \ {0} /\ MaxPages \in Nat
                         /\ IsFiniteSet(Identities)

Ids == 1 .. NumRecords
RawRecords == [identity : Identities, content : Contents,
               updated : SourceTimes, received : ReceiveTimes]

\* Primary keys, named after the transaction that inserts the row.
ProductIds == Identities \X (0 .. MaxPages)
VersionIds == ProductIds \X (0 .. MaxPages) \X (Nat \ {0})

\* What a snapshot shows of an identity, and the rows of product_versions.
Rows == [product : ProductIds, current : VersionIds, number : Nat \ {0}, content : Contents,
         fp : [alg : {"v0", "v1"}, of : Contents],
         updated : SourceTimes \cup {0}, received : ReceiveTimes \cup {0}]
VersionRows == [id : VersionIds, product : ProductIds, number : Nat \ {0}, content : Contents,
                from : VersionIds \cup {None}]

ASSUME NoneAssumption == None \notin Rows \cup VersionIds

VARIABLES
  recs,              \* the raw records, fixed throughout
  \* PostgreSQL
  row,               \* each identity's product_sources row, joined with its product and
                     \* the product's current version; None if there is none
  versions,          \* product_versions, each with its product_changes row (from) and
                     \* its ProductChanged event in outbox_events
  counted,           \* records_new, _changed and _unchanged, summed over committed pages
  \* the workers
  pc,
  page,              \* record ids at hand
  serial,            \* names the rows that the page's transaction inserts
  snap,              \* snapshots
  tries,             \* conflicts met by processPageWithRetry
  pages,             \* pages started
  \* history
  done,              \* records of committed pages
  outrun             \* identities written by a page that had read an older row

catalogueVars == <<row, versions, counted, done, outrun>>
workerVars == <<pc, page, serial, snap, tries>>
vars == <<recs, catalogueVars, workerVars, pages>>

Touched(S) == {recs[i].identity : i \in S}

-----------------------------------------------------------------------------
(* DecideTransition and DecideBatch                                        *)

\* A fingerprint names the algorithm it was computed with.
V1(c) == [alg |-> "v1", of |-> c]

\* The later of two optional times.
Greatest(a, b) == IF a > b THEN a ELSE b

\* Bug: the source's time is not looked at.
StaleByReceipt(cur, in) == in.received < cur.received

\* Out-of-order protection.
Stale(cur, in) ==
  IF in.updated # 0 /\ cur.updated # 0
  THEN \/ in.updated < cur.updated
       \/ in.updated = cur.updated /\ in.received < cur.received
  ELSE in.received < cur.received

\* Bug: fingerprints are compared whatever algorithm they stem from.
CompareFingerprints(cur, in) ==
  IF cur = None THEN "NEW"
  ELSE IF Stale(cur, in) THEN "STALE"
  ELSE IF cur.fp = V1(in.content) THEN "UNCHANGED" ELSE "CHANGED"

DecideTransition(cur, in) ==
  IF cur = None THEN "NEW"
  ELSE IF Stale(cur, in) THEN "STALE"
  ELSE IF cur.fp.alg # "v1" /\ cur.content = in.content THEN "VERSION_MISMATCH"
  ELSE IF cur.fp = V1(in.content) THEN "UNCHANGED" ELSE "CHANGED"

\* A fold in progress: the running snapshot, the versions it created, whether a
\* record was not stale, and the counters.
Begin(start) == [cur |-> start, added |-> {}, touched |-> FALSE,
                 new |-> 0, changed |-> 0, unchanged |-> 0]

Watermarked(cur, in) ==
  [cur EXCEPT !.updated = Greatest(@, in.updated), !.received = Greatest(@, in.received)]

\* The next version of identity in.identity, inserted by transaction no.
AddVersion(f, in, no) ==
  LET first == f.cur = None
      number == IF first THEN 1 ELSE f.cur.number + 1
      product == IF first THEN <<in.identity, no>> ELSE f.cur.product
      moved == [product |-> product, current |-> <<product, no, number>>, number |-> number,
                content |-> in.content, fp |-> V1(in.content),
                updated |-> IF first THEN 0 ELSE f.cur.updated,
                received |-> IF first THEN in.received ELSE f.cur.received]
  IN [f EXCEPT !.cur = Watermarked(moved, in),
               !.added = @ \cup {[id |-> moved.current, product |-> product, number |-> number,
                                  content |-> in.content,
                                  from |-> IF first THEN None ELSE f.cur.current]},
               !.touched = TRUE,
               !.new = IF first THEN @ + 1 ELSE @,
               !.changed = IF first THEN @ ELSE @ + 1]

\* identityFold.apply
Apply(f, in, no) ==
  LET type == DecideTransition(f.cur, in)
      same == [f EXCEPT !.unchanged = @ + 1]
  IN CASE type = "STALE" -> same
       [] type \in {"NEW", "CHANGED"} -> AddVersion(f, in, no)
       [] type = "UNCHANGED" -> [same EXCEPT !.cur = Watermarked(@, in), !.touched = TRUE]
       [] type = "VERSION_MISMATCH" ->
            [same EXCEPT !.cur = [Watermarked(@, in) EXCEPT !.fp = V1(in.content)],
                         !.touched = TRUE]

\* compareProcessingOrder
Before(i, j) ==
  LET p == recs[i]
      q == recs[j]
  IN \/ p.updated < q.updated
     \/ p.updated = q.updated /\ p.received < q.received
     \/ p.updated = q.updated /\ p.received = q.received /\ i < j

\* The record that comes last in this order.
Latest(s) == CHOOSE i \in s : \A j \in s \ {i} : Before(j, i)

\* The records of S about identity x, folded oldest first.
Fold(x, S, start, no) ==
  MapThenFoldSet(LAMBDA i, f : Apply(f, recs[i], no), Begin(start), LAMBDA i : i, Latest,
                 {i \in S : recs[i].identity = x})

Plan(w) == [x \in Touched(page[w]) |-> Fold(x, page[w], snap[w][x], serial[w])]

-----------------------------------------------------------------------------
(* ApplyBatch                                                              *)

\* Bug: the insert of an identity that exists by now is not refused.
InsertRegardless(start, f, now) ==
  /\ start # None
  /\ f.added # {} \/ (f.touched /\ f.cur.fp # start.fp)
  /\ now.current # start.current

\* Somebody committed since start was read: the identity exists now
\* (ErrIdentityConflict), or the product row to be written has left the version it
\* had (ErrVersionConflict). A watermark alone is written without a guard.
Conflict(start, f, now) ==
  \/ start = None /\ now # None
  \/ /\ start # None
     /\ f.added # {} \/ (f.touched /\ f.cur.fp # start.fp)
     /\ now.current # start.current

\* Bug: watermarks are overwritten, not raised.
OverwriteWatermark(to, now) == to

\* GREATEST of both columns.
RaiseWatermark(to, now) == Watermarked(to, now)

\* identityFold.emit and the writes it plans, on the row as it is now.
Written(start, f, now) ==
  IF start = None THEN f.cur
  ELSE IF f.added # {} THEN RaiseWatermark(f.cur, now)
  ELSE IF f.touched
       THEN [RaiseWatermark([now EXCEPT !.updated = f.cur.updated,
                                        !.received = f.cur.received], now)
             EXCEPT !.fp = IF f.cur.fp # start.fp THEN f.cur.fp ELSE @]
       ELSE now

-----------------------------------------------------------------------------

\* An identity may predate the v1 fingerprints and the watermarks.
Legacy(x, c) == [product |-> <<x, 0>>, current |-> <<<<x, 0>>, 0, 1>>, number |-> 1, content |-> c,
                 fp |-> [alg |-> "v0", of |-> c], updated |-> 0, received |-> 0]

FirstVersion(r) == [id |-> r.current, product |-> r.product, number |-> 1,
                    content |-> r.content, from |-> None]

TypeOK ==
  /\ recs \in [Ids -> RawRecords]
  /\ row \in [Identities -> Rows \cup {None}]
  /\ versions \subseteq VersionRows
  /\ counted \in [{"new", "changed", "unchanged"} -> Nat]
  /\ pc \in [Workers -> {"idle", "read", "write"}]
  /\ page \in [Workers -> SUBSET Ids]
  /\ serial \in [Workers -> 0 .. MaxPages]
  /\ DOMAIN snap = Workers
  /\ \A w \in Workers : pc[w] = "write" => snap[w] \in [Touched(page[w]) -> Rows \cup {None}]
  /\ tries \in [Workers -> 0 .. 1]
  /\ pages \in 0 .. MaxPages
  /\ done \in SUBSET Ids /\ outrun \in SUBSET Identities

Init ==
  /\ recs \in [Ids -> RawRecords]
  /\ \E old \in SUBSET Identities, c \in Contents :
       /\ row = [x \in Identities |-> IF x \in old THEN Legacy(x, c) ELSE None]
       /\ versions = {FirstVersion(Legacy(x, c)) : x \in old}
       /\ counted = [new |-> Cardinality(old), changed |-> 0, unchanged |-> 0]
  /\ pc = [w \in Workers |-> "idle"]
  /\ page = [w \in Workers |-> {}]
  /\ serial = [w \in Workers |-> 0]
  /\ snap = [w \in Workers |-> <<>>]
  /\ tries = [w \in Workers |-> 0]
  /\ pages = 0
  /\ done = {} /\ outrun = {}

\* A worker lists the next page of its run. Pages under way belong to different runs;
\* a run may be processed again (ingest process --from-start).
StartPage(w, S) ==
  /\ pc[w] = "idle" /\ pages < MaxPages
  /\ S # {} /\ Cardinality(S) <= BatchSize
  /\ \A v \in Workers : S \cap page[v] = {}
  /\ pages' = pages + 1
  /\ page' = [page EXCEPT ![w] = S]
  /\ serial' = [serial EXCEPT ![w] = pages + 1]
  /\ pc' = [pc EXCEPT ![w] = "read"]
  /\ UNCHANGED <<recs, catalogueVars, snap, tries>>

\* FindSnapshotsByIdentities: one statement, one snapshot.
ReadSnapshots(w) ==
  /\ pc[w] = "read"
  /\ snap' = [snap EXCEPT ![w] = [x \in Touched(page[w]) |-> row[x]]]
  /\ pc' = [pc EXCEPT ![w] = "write"]
  /\ UNCHANGED <<recs, catalogueVars, page, serial, tries, pages>>

LeavePage(w) ==
  /\ pc' = [pc EXCEPT ![w] = "idle"]
  /\ page' = [page EXCEPT ![w] = {}]
  /\ serial' = [serial EXCEPT ![w] = 0]
  /\ snap' = [snap EXCEPT ![w] = <<>>]
  /\ tries' = [tries EXCEPT ![w] = 0]

Conflicts(w) == \E x \in Touched(page[w]) : Conflict(snap[w][x], Plan(w)[x], row[x])

\* Two transactions that write the same rows may also deadlock.
Contended(w) ==
  \E v \in Workers \ {w} : pc[v] = "write" /\ Touched(page[v]) \cap Touched(page[w]) # {}

\* Bug: one conflict too many is tolerated.
PageConflictTwice(w) ==
  /\ pc[w] = "write"
  /\ Conflicts(w) \/ Contended(w)
  /\ IF tries[w] <= 1
     THEN /\ tries' = [tries EXCEPT ![w] = @ + 1]
          /\ pc' = [pc EXCEPT ![w] = "read"]
          /\ snap' = [snap EXCEPT ![w] = <<>>]
          /\ UNCHANGED <<page, serial>>
     ELSE LeavePage(w)
  /\ UNCHANGED <<recs, catalogueVars, pages>>

\* Rolled back, and tried once more from a new snapshot.
PageConflict(w) ==
  /\ pc[w] = "write"
  /\ Conflicts(w) \/ Contended(w)
  /\ IF tries[w] = 0
     THEN /\ tries' = [tries EXCEPT ![w] = 1]
          /\ pc' = [pc EXCEPT ![w] = "read"]
          /\ snap' = [snap EXCEPT ![w] = <<>>]
          /\ UNCHANGED <<page, serial>>
     ELSE LeavePage(w)
  /\ UNCHANGED <<recs, catalogueVars, pages>>

\* Any other error, a lost lease or a crash: rolled back for good.
PageAborted(w) ==
  /\ pc[w] \in {"read", "write"}
  /\ LeavePage(w)
  /\ UNCHANGED <<recs, catalogueVars, pages>>

Count(plan, field) == MapThenSumSet(LAMBDA x : plan[x][field], DOMAIN plan)

CommitPage(w) ==
  LET plan == Plan(w) IN
  /\ pc[w] = "write"
  /\ ~Conflicts(w)
  /\ row' = [x \in Identities |->
               IF x \in DOMAIN plan THEN Written(snap[w][x], plan[x], row[x]) ELSE row[x]]
  /\ versions' = versions \cup UNION {plan[x].added : x \in DOMAIN plan}
  /\ counted' = [field \in DOMAIN counted |-> counted[field] + Count(plan, field)]
  /\ done' = done \cup page[w]
  /\ outrun' = outrun \cup {x \in DOMAIN plan : snap[w][x] # row[x]}
  /\ LeavePage(w)
  /\ UNCHANGED <<recs, pages>>

Next ==
  \/ \E w \in Workers, S \in SUBSET Ids : StartPage(w, S)
  \/ \E w \in Workers : ReadSnapshots(w) \/ PageConflict(w) \/ PageAborted(w) \/ CommitPage(w)

Spec == Init /\ [][Next]_vars

-----------------------------------------------------------------------------
(* Properties                                                              *)

\* Whoever commits in between, a product's versions are a chain: numbered from 1
\* without gaps or doubles, each one's change leading from the version before it to
\* new content, the product at the last one, its fingerprint that of the last one's
\* content. No version, change or event belongs to a product that no source knows.
VersionsFormChain ==
  /\ \A v \in versions : \E x \in Identities : row[x] # None /\ row[x].product = v.product
  /\ \A x \in Identities : row[x] # None =>
       LET chain == {v \in versions : v.product = row[x].product}
           last == {v \in chain : v.number = row[x].number}
       IN /\ {v.number : v \in chain} = 1 .. row[x].number
          /\ Cardinality(chain) = row[x].number
          /\ \A v \in last : /\ v.id = row[x].current
                             /\ v.content = row[x].content
                             /\ v.content = row[x].fp.of
          /\ \A u, v \in chain : v.number = u.number + 1 =>
               v.from = u.id /\ v.content # u.content

\* The counters of the committed pages tell the truth in spite of rollbacks and
\* retries: one NEW per product, one NEW or CHANGED per version.
CountersMatchRows ==
  /\ counted.new = Cardinality({x \in Identities : row[x] # None})
  /\ counted.new + counted.changed = Cardinality(versions)

\* No commit lowers a watermark, not even one that was decided on an old snapshot.
WatermarksRise ==
  [][\A x \in Identities : row[x] # None =>
       row'[x].updated >= row[x].updated /\ row'[x].received >= row[x].received]_vars

\* x shows the content of a record that no committed record is newer than.
ShowsNewest(x) ==
  LET mine == {i \in done : recs[i].identity = x}
  IN mine # {} /\ (\A i \in mine : recs[i].updated # 0) =>
       \E i \in mine : /\ recs[i].content = row[x].content
                       /\ \A j \in mine : recs[j].updated <= recs[i].updated

\* Records come in any order, within a page and across pages, are processed again, and
\* meet conflicts and retries: where every record has a source time, a product shows
\* the newest content, as long as no page was committed on a row it had not read.
NewestWinsUnlessOutrun == \A x \in Identities \ outrun : ShowsNewest(x)

\* "a concurrent writer makes the update miss and the page retry" (batch.go): the same
\* without the condition.
NewestWins == \A x \in Identities : ShowsNewest(x)

=============================================================================
