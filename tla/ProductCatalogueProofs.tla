----------------------- MODULE ProductCatalogueProofs -----------------------
(***************************************************************************)
(* For any identities, records, workers, batch size and number of pages:   *)
(* ProductCatalogue is type correct, the versions of every product form a  *)
(* chain, the counters tell the truth, watermarks never fall, and a        *)
(* product that no page outran shows its newest record.                    *)
(*                                                                         *)
(* The argument: what a fold makes of a row (Folded, FoldedNewest) is an   *)
(* invariant of identityFold.apply, so it holds of the whole batch         *)
(* (FoldHas), whatever the batch. A row whose current version is the one   *)
(* that was read is at the version that was read (SnapOutlives), so a      *)
(* commit without conflict continues the chain where it ends (WrittenRow,  *)
(* ChainExtends); a commit that adds no version raises watermarks at most. *)
(***************************************************************************)
EXTENDS ProductCatalogue, FiniteSetTheorems, NaturalsInduction, WellFoundedInduction, TLAPS

\* A product is named after its identity; its fingerprint is of its content.
RowInv ==
  \A x \in Identities : row[x] # None => row[x].product[1] = x /\ row[x].fp.of = row[x].content

\* The versions V of one product lead to its row r; a version is told by its number.
ChainOf(V, r) ==
  /\ \A v \in V : /\ v.id[1] = v.product /\ v.id[3] = v.number
                  /\ v.product = r.product /\ v.number <= r.number
                  /\ v.number = r.number => v.id = r.current /\ v.content = r.content
  /\ \A u, v \in V : u.number = v.number => u = v
  /\ \A u, v \in V : v.number = u.number + 1 => v.from = u.id /\ v.content # u.content
  /\ \A n \in 1 .. r.number : \E v \in V : v.number = n

\* VersionsFormChain without cardinalities.
ChainInv ==
  /\ \A v \in versions : \E x \in Identities : row[x] # None /\ row[x].product = v.product
  /\ \A x \in Identities : row[x] # None =>
       ChainOf({v \in versions : v.product = row[x].product}, row[x])

\* What a worker has read was true once: the version it saw is still there, of the
\* product that the identity still belongs to.
SnapInv ==
  \A w \in Workers : pc[w] = "write" =>
    \A x \in Touched(page[w]) : snap[w][x] # None =>
      /\ row[x] # None /\ row[x].product = snap[w][x].product
      /\ snap[w][x].fp.of = snap[w][x].content
      /\ \E v \in versions : /\ v.id = snap[w][x].current /\ v.product = snap[w][x].product
                             /\ v.number = snap[w][x].number
                             /\ v.content = snap[w][x].content

CountInv == IsFiniteSet(versions) /\ CountersMatchRows

\* The committed records of an identity.
Mine(x) == {i \in done : recs[i].identity = x}

\* An identity that no committed record is about has no watermark. One that is not outrun,
\* and whose records all have a source time, shows a record of the latest such time, and
\* its watermark is that time.
NewestInv ==
  \A x \in Identities :
    /\ Mine(x) = {} /\ row[x] # None => row[x].updated = 0 /\ row[x].received = 0
    /\ Mine(x) # {} => row[x] # None
    /\ x \notin outrun /\ Mine(x) # {} /\ (\A i \in Mine(x) : recs[i].updated # 0) =>
         \E i \in Mine(x) : /\ recs[i].content = row[x].content
                            /\ recs[i].updated = row[x].updated
                            /\ \A j \in Mine(x) : recs[j].updated <= recs[i].updated

IInv == TypeOK /\ RowInv /\ ChainInv /\ SnapInv /\ CountInv /\ NewestInv

-----------------------------------------------------------------------------
(* Induction and folds over a finite set. The library states them for an   *)
(* operator; here they are stated for a set of those for which it holds.   *)

LEMMA NaturalsHave ==
  ASSUME NEW P, 0 \in P, \A n \in Nat : n \in P => n + 1 \in P
  PROVE  \A n \in Nat : n \in P
<1> DEFINE Q == {n \in Nat : n \notin P}
           R == OpToRel(<, Nat)
<1> SUFFICES ASSUME Q # {} PROVE FALSE
  OBVIOUS
<1>1. Q \in SUBSET Nat
  OBVIOUS
<1>2. \E x \in Q : \A y \in Q : ~(<<y, x>> \in R)
  <2> HIDE DEF Q
  <2> QED
    BY <1>1, NatLessThanWellFounded, WFMin
<1>3. \A x, y \in Nat : <<y, x>> \in R <=> y < x
  BY DEF OpToRel
<1> HIDE DEF R
<1>4. PICK x \in Q : \A y \in Q : ~(<<y, x>> \in R)
  BY <1>2
<1>5. x \in Nat /\ x # 0 /\ x - 1 \in Nat /\ (x - 1) + 1 = x /\ x - 1 < x
  OBVIOUS
<1>6. x - 1 \in P
  BY <1>3, <1>4, <1>5
<1> QED
  BY <1>5, <1>6

\* What holds of {}, and of a set when it holds without some element, holds of all.
LEMMA SubsetsHave ==
  ASSUME NEW T, IsFiniteSet(T), NEW P, {} \in P,
         \A s \in SUBSET T : s # {} => \E i \in s : s \ {i} \in P => s \in P
  PROVE  T \in P
<1> DEFINE N == {n \in Nat : \A s \in SUBSET T : Cardinality(s) = n => s \in P}
<1>1. \A s \in SUBSET T : IsFiniteSet(s) /\ Cardinality(s) \in Nat
  BY FS_Subset, FS_CardinalityType
<1>2. 0 \in N
  BY <1>1, FS_EmptySet
<1>3. ASSUME NEW n \in Nat, n \in N PROVE n + 1 \in N
  <2> SUFFICES ASSUME NEW s \in SUBSET T, Cardinality(s) = n + 1 PROVE s \in P
    OBVIOUS
  <2>1. s # {}
    BY FS_EmptySet
  <2>2. PICK i \in s : s \ {i} \in P => s \in P
    BY <2>1
  <2>3. Cardinality(s \ {i}) = Cardinality(s) - 1
    BY <1>1, FS_RemoveElement
  <2>4. s \ {i} \in P
    BY <1>3, <2>3
  <2> QED
    BY <2>2, <2>4
<1>4. \A n \in Nat : n \in N
  <2> HIDE DEF N
  <2> QED
    BY <1>2, <1>3, NaturalsHave
<1> QED
  BY <1>1, <1>4

\* g[s] is the result of step over the elements of s, last[s] taken last.
IsFoldOf(g, T, base, last, step) ==
  g = [s \in SUBSET T |-> IF s = {} THEN base ELSE step[<<g[s \ {last[s]}], last[s]>>]]

\* A fold over the subsets of a finite set exists.
LEMMA FoldExists ==
  ASSUME NEW T, IsFiniteSet(T), NEW V, NEW base \in V,
         NEW last, \A s \in SUBSET T : s # {} => last[s] \in s,
         NEW step \in [V \X T -> V]
  PROVE  \E g \in [SUBSET T -> V] : IsFoldOf(g, T, base, last, step)
<1> DEFINE Small(n) == {s \in SUBSET T : Cardinality(s) <= n}
           Rule(g, s) == g[s] = IF s = {} THEN base ELSE step[<<g[s \ {last[s]}], last[s]>>]
           N == {n \in Nat : \E g \in [Small(n) -> V] : \A s \in Small(n) : Rule(g, s)}
<1>1. \A s \in SUBSET T : IsFiniteSet(s) /\ Cardinality(s) \in Nat
  BY FS_Subset, FS_CardinalityType
<1>2. 0 \in N
  <2>1. \A s \in Small(0) : s = {}
    BY <1>1, FS_EmptySet
  <2>2. [s \in Small(0) |-> base] \in [Small(0) -> V]
    OBVIOUS
  <2>3. \A s \in Small(0) : Rule([u \in Small(0) |-> base], s)
    BY <2>1
  <2> QED
    BY <2>2, <2>3
<1>3. ASSUME NEW n \in Nat, n \in N PROVE n + 1 \in N
  <2>1. PICK g \in [Small(n) -> V] : \A s \in Small(n) : Rule(g, s)
    BY <1>3
  <2> DEFINE h == [s \in Small(n + 1) |->
                     IF s \in Small(n) THEN g[s] ELSE step[<<g[s \ {last[s]}], last[s]>>]]
  <2>2. ASSUME NEW s \in Small(n + 1), s # {}
        PROVE  last[s] \in T /\ s \ {last[s]} \in Small(n)
    <3>1. last[s] \in s
      BY <2>2
    <3>2. Cardinality(s \ {last[s]}) = Cardinality(s) - 1
      BY <1>1, <3>1, FS_RemoveElement
    <3> QED
      BY <1>1, <3>1, <3>2
  <2>3. {} \in Small(n)
    BY FS_EmptySet
  <2>4. \A s \in Small(n) : s \in Small(n + 1)
    BY <1>1
  <2>5. h \in [Small(n + 1) -> V]
    <3> SUFFICES ASSUME NEW s \in Small(n + 1), s \notin Small(n)
                 PROVE  step[<<g[s \ {last[s]}], last[s]>>] \in V
      OBVIOUS
    <3>1. last[s] \in T /\ s \ {last[s]} \in Small(n)
      BY <2>2, <2>3
    <3>2. g[s \ {last[s]}] \in V
      BY <3>1
    <3> HIDE DEF Small
    <3> QED
      BY <3>1, <3>2
  <2>6. \A s \in Small(n) : h[s] = g[s]
    BY <2>4
  <2>7. ASSUME NEW s \in Small(n + 1) PROVE Rule(h, s)
    <3>1. CASE s = {}
      BY <2>1, <2>3, <2>6, <3>1
    <3>2. CASE s # {} /\ s \in Small(n)
      <4>1. h[s \ {last[s]}] = g[s \ {last[s]}]
        BY <2>2, <2>6, <3>2
      <4> QED
        BY <2>1, <2>6, <3>2, <4>1
    <3>3. CASE s # {} /\ s \notin Small(n)
      <4>1. h[s \ {last[s]}] = g[s \ {last[s]}]
        BY <2>2, <2>6, <3>3
      <4> QED
        BY <3>3, <4>1
    <3> QED
      BY <3>1, <3>2, <3>3
  <2> HIDE DEF h, Rule, Small
  <2> QED
    BY <2>5, <2>7
<1>4. \A n \in Nat : n \in N
  <2> HIDE DEF N
  <2> QED
    BY <1>2, <1>3, NaturalsHave
<1>5. PICK n \in Nat : n = Cardinality(T)
  BY <1>1
<1>6. \A s \in SUBSET T : Cardinality(s) <= n
  BY <1>5, FS_Subset
<1>7. Small(n) = SUBSET T
  BY <1>6
<1>8. \E g \in [Small(n) -> V] : \A s \in Small(n) : Rule(g, s)
  BY <1>4
<1>9. PICK g \in [SUBSET T -> V] : \A s \in SUBSET T : Rule(g, s)
  <2> HIDE DEF Small, Rule
  <2> QED
    BY <1>7, <1>8
<1>10. g = [s \in SUBSET T |-> g[s]]
  OBVIOUS
<1>11. g = [s \in SUBSET T |->
              IF s = {} THEN base ELSE step[<<g[s \ {last[s]}], last[s]>>]]
  BY <1>9, <1>10, Zenon
<1> QED
  BY <1>11 DEF IsFoldOf

-----------------------------------------------------------------------------
(* DecideBatch                                                             *)

\* A fold in progress.
Folds == [cur : Rows \cup {None}, added : SUBSET VersionRows, touched : BOOLEAN,
          new : Nat, changed : Nat, unchanged : Nat]

LEMMA TimeType ==
  /\ \A t \in SourceTimes : t \in Nat
  /\ \A t \in ReceiveTimes : t \in Nat /\ t # 0
BY TimeAssumption

LEMMA RecordType ==
  ASSUME recs \in [Ids -> RawRecords], NEW i \in Ids
  PROVE  /\ recs[i] \in RawRecords
         /\ recs[i].identity \in Identities /\ recs[i].content \in Contents
         /\ recs[i].updated \in SourceTimes /\ recs[i].received \in ReceiveTimes
         /\ recs[i].updated \in Nat /\ recs[i].received \in Nat /\ i \in Nat
<1>1. recs[i] \in RawRecords /\ i \in Nat
  BY SizeAssumption DEF Ids
<1>2. /\ recs[i].identity \in Identities /\ recs[i].content \in Contents
      /\ recs[i].updated \in SourceTimes /\ recs[i].received \in ReceiveTimes
  BY <1>1 DEF RawRecords
<1> QED
  BY <1>1, <1>2, TimeType

LEMMA IdsFinite == \A s \in SUBSET Ids : IsFiniteSet(s)
<1>1. 1 \in Int /\ NumRecords \in Int
  BY SizeAssumption
<1>2. IsFiniteSet(1 .. NumRecords)
  BY <1>1, FS_Interval
<1> QED
  BY <1>2, FS_Subset DEF Ids

LEMMA LatestIn ==
  ASSUME recs \in [Ids -> RawRecords], NEW s \in SUBSET Ids, s # {}
  PROVE  Latest(s) \in s
<1> DEFINE P == {u \in SUBSET s : u # {} => \E i \in u : \A j \in u \ {i} : Before(j, i)}
<1>1. \A i, j \in Ids : i # j => Before(i, j) \/ Before(j, i)
  BY RecordType DEF Before
<1>2. \A i, j, k \in Ids : Before(i, j) /\ Before(j, k) => Before(i, k)
  <2> SUFFICES ASSUME NEW i \in Ids, NEW j \in Ids, NEW k \in Ids, Before(i, j), Before(j, k)
               PROVE  Before(i, k)
    OBVIOUS
  <2>1. /\ i \in Nat /\ recs[i].updated \in Nat /\ recs[i].received \in Nat
        /\ j \in Nat /\ recs[j].updated \in Nat /\ recs[j].received \in Nat
        /\ k \in Nat /\ recs[k].updated \in Nat /\ recs[k].received \in Nat
    BY RecordType
  <2> QED
    BY <2>1 DEF Before
<1>3. IsFiniteSet(s)
  BY IdsFinite
<1>4. {} \in P
  OBVIOUS
<1>5. ASSUME NEW u \in SUBSET s, u # {} PROVE \E i \in u : u \ {i} \in P => u \in P
  <2>1. PICK i \in u : TRUE
    BY <1>5
  <2>2. CASE u \ {i} = {}
    BY <2>1, <2>2
  <2>3. ASSUME u \ {i} # {}, u \ {i} \in P PROVE u \in P
    <3>1. PICK m \in u \ {i} : \A j \in (u \ {i}) \ {m} : Before(j, m)
      BY <2>3
    <3>2. CASE Before(m, i)
      <4>1. \A j \in u \ {i} : Before(j, i)
        BY <1>2, <3>1, <3>2
      <4> QED
        BY <4>1
    <3>3. CASE Before(i, m)
      <4>1. \A j \in u \ {m} : Before(j, m)
        BY <3>1, <3>3
      <4> QED
        BY <3>1, <4>1
    <3> QED
      BY <1>1, <3>1, <3>2, <3>3
  <2> QED
    BY <2>1, <2>2, <2>3
<1>6. s \in P
  <2> HIDE DEF P
  <2> QED
    BY <1>3, <1>4, <1>5, SubsetsHave
<1>7. \E i \in s : \A j \in s \ {i} : Before(j, i)
  BY <1>6
<1> QED
  BY <1>7 DEF Latest

LEMMA GreatestType ==
  ASSUME NEW a \in Nat, NEW b \in Nat
  PROVE  /\ Greatest(a, b) \in {a, b} /\ Greatest(a, b) \in Nat
         /\ Greatest(a, b) >= a /\ Greatest(a, b) >= b
BY DEF Greatest

\* The columns of a row.
LEMMA RowType ==
  ASSUME NEW r \in Rows
  PROVE  /\ r # None
         /\ r.product \in ProductIds /\ r.current \in VersionIds
         /\ r.number \in Nat \ {0} /\ r.content \in Contents
         /\ r.fp \in [alg : {"v0", "v1"}, of : Contents]
         /\ r.updated \in SourceTimes \cup {0} /\ r.received \in ReceiveTimes \cup {0}
         /\ r.updated \in Nat /\ r.received \in Nat
<1>1. r # None
  BY NoneAssumption
<1>2. /\ r.product \in ProductIds /\ r.current \in VersionIds
      /\ r.number \in Nat \ {0} /\ r.content \in Contents
      /\ r.fp \in [alg : {"v0", "v1"}, of : Contents]
      /\ r.updated \in SourceTimes \cup {0} /\ r.received \in ReceiveTimes \cup {0}
  BY DEF Rows
<1> QED
  BY <1>1, <1>2, TimeType

\* Watermarked raises two columns and leaves the others.
LEMMA WatermarkedRow ==
  ASSUME NEW r \in Rows, NEW in, in.updated \in SourceTimes \cup {0},
         in.received \in ReceiveTimes \cup {0}
  PROVE  LET m == Watermarked(r, in)
         IN /\ m \in Rows
            /\ m.product = r.product /\ m.current = r.current /\ m.number = r.number
            /\ m.content = r.content /\ m.fp = r.fp
            /\ m.updated = Greatest(r.updated, in.updated)
            /\ m.received = Greatest(r.received, in.received)
<1>1. in.updated \in Nat /\ in.received \in Nat
  BY TimeType
<1>2. /\ Greatest(r.updated, in.updated) \in {r.updated, in.updated}
      /\ Greatest(r.received, in.received) \in {r.received, in.received}
  BY <1>1, RowType, GreatestType
<1>3. /\ Greatest(r.updated, in.updated) \in SourceTimes \cup {0}
      /\ Greatest(r.received, in.received) \in ReceiveTimes \cup {0}
  BY <1>2, RowType
<1> QED
  BY <1>3 DEF Watermarked, Rows

\* NEW and CHANGED add a version to a product, which gets it as its current one.
AddsVersion(f, in, no, g, v, r) ==
  /\ g = [cur |-> r, added |-> f.added \cup {v}, touched |-> TRUE,
          new |-> IF f.cur = None THEN f.new + 1 ELSE f.new,
          changed |-> IF f.cur = None THEN f.changed ELSE f.changed + 1,
          unchanged |-> f.unchanged]
  /\ v.product = IF f.cur = None THEN <<in.identity, no>> ELSE f.cur.product
  /\ v.number = IF f.cur = None THEN 1 ELSE f.cur.number + 1
  /\ v.id = <<v.product, no, v.number>> /\ v.content = in.content
  /\ v.from = IF f.cur = None THEN None ELSE f.cur.current
  /\ r.product = v.product /\ r.current = v.id /\ r.number = v.number
  /\ r.content = in.content /\ r.fp = V1(in.content)
  /\ r.updated = IF f.cur = None THEN in.updated ELSE Greatest(f.cur.updated, in.updated)

LEMMA AddVersionResult ==
  ASSUME recs \in [Ids -> RawRecords], NEW i \in Ids, NEW f \in Folds, NEW no \in 0 .. MaxPages
  PROVE  \E v \in VersionRows, r \in Rows :
           AddsVersion(f, recs[i], no, AddVersion(f, recs[i], no), v, r)
<1> DEFINE in == recs[i]
           first == f.cur = None
           number == IF first THEN 1 ELSE f.cur.number + 1
           product == IF first THEN <<in.identity, no>> ELSE f.cur.product
           moved == [product |-> product, current |-> <<product, no, number>>, number |-> number,
                     content |-> in.content, fp |-> V1(in.content),
                     updated |-> IF first THEN 0 ELSE f.cur.updated,
                     received |-> IF first THEN in.received ELSE f.cur.received]
           version == [id |-> moved.current, product |-> product, number |-> number,
                       content |-> in.content,
                       from |-> IF first THEN None ELSE f.cur.current]
<1>1. f.cur = None \/ f.cur \in Rows
  BY DEF Folds
<1>2. number \in Nat \ {0} /\ product \in ProductIds
  BY <1>1, RecordType, RowType DEF ProductIds
<1>3. <<product, no, number>> \in VersionIds
  BY <1>2 DEF VersionIds
<1>4. V1(in.content) \in [alg : {"v0", "v1"}, of : Contents] /\ in.content \in Contents
  BY RecordType DEF V1
<1>5. /\ (IF first THEN 0 ELSE f.cur.updated) \in SourceTimes \cup {0}
      /\ (IF first THEN in.received ELSE f.cur.received) \in ReceiveTimes \cup {0}
      /\ (IF first THEN None ELSE f.cur.current) \in VersionIds \cup {None}
  BY <1>1, RecordType, RowType
<1>6. in.updated \in SourceTimes \cup {0} /\ in.received \in ReceiveTimes \cup {0}
  BY RecordType
<1>7. Greatest(0, in.updated) = in.updated
  BY RecordType DEF Greatest
<1>8. AddVersion(f, in, no) =
        [f EXCEPT !.cur = Watermarked(moved, in), !.added = @ \cup {version}, !.touched = TRUE,
                  !.new = IF first THEN @ + 1 ELSE @, !.changed = IF first THEN @ ELSE @ + 1]
  BY DEF AddVersion
<1> HIDE DEF number, product, first, in
<1>9. moved \in Rows
  BY <1>2, <1>3, <1>4, <1>5 DEF Rows
<1>10. version \in VersionRows
  BY <1>2, <1>3, <1>4, <1>5 DEF VersionRows
<1>11. PICK r \in Rows :
         /\ r = Watermarked(moved, in)
         /\ r.product = moved.product /\ r.current = moved.current /\ r.number = moved.number
         /\ r.content = moved.content /\ r.fp = moved.fp
         /\ r.updated = Greatest(moved.updated, in.updated)
  <2> HIDE DEF moved
  <2> QED
    BY <1>6, <1>9, WatermarkedRow
<1>12. /\ r.product = product /\ r.current = <<product, no, number>> /\ r.number = number
       /\ r.content = in.content /\ r.fp = V1(in.content)
       /\ r.updated = IF first THEN in.updated ELSE Greatest(f.cur.updated, in.updated)
  BY <1>7, <1>11
<1>13. PICK v \in VersionRows :
         /\ v = version
         /\ v.id = <<product, no, number>> /\ v.product = product /\ v.number = number
         /\ v.content = in.content /\ v.from = IF first THEN None ELSE f.cur.current
  BY <1>10
<1>14. AddVersion(f, in, no) =
         [f EXCEPT !.cur = r, !.added = @ \cup {v}, !.touched = TRUE,
                   !.new = IF first THEN @ + 1 ELSE @, !.changed = IF first THEN @ ELSE @ + 1]
  <2> HIDE DEF moved, version
  <2> QED
    BY <1>8, <1>11, <1>13
<1> HIDE DEF moved, version
<1>15. AddVersion(f, in, no) =
         [cur |-> r, added |-> f.added \cup {v}, touched |-> TRUE,
          new |-> IF first THEN f.new + 1 ELSE f.new,
          changed |-> IF first THEN f.changed ELSE f.changed + 1, unchanged |-> f.unchanged]
  BY <1>14 DEF Folds
<1>16. AddsVersion(f, in, no, AddVersion(f, in, no), v, r)
  BY <1>12, <1>13, <1>15 DEF AddsVersion, first, number, product
<1> QED
  BY <1>16 DEF in

\* A stale record is only counted; one with the content that is there confirms it and
\* brings the fingerprint up to date; any other adds a version.
Skips(f, in, g) ==
  /\ f.cur # None /\ Stale(f.cur, in)
  /\ g = [cur |-> f.cur, added |-> f.added, touched |-> f.touched,
          new |-> f.new, changed |-> f.changed, unchanged |-> f.unchanged + 1]
Confirms(f, in, g) ==
  /\ f.cur # None /\ ~Stale(f.cur, in)
  /\ f.cur.fp.of = f.cur.content => in.content = f.cur.content
  /\ \E r \in Rows :
       /\ r.product = f.cur.product /\ r.current = f.cur.current /\ r.number = f.cur.number
       /\ r.content = f.cur.content /\ r.fp = V1(in.content)
       /\ r.updated = Greatest(f.cur.updated, in.updated)
       /\ g = [cur |-> r, added |-> f.added, touched |-> TRUE,
               new |-> f.new, changed |-> f.changed, unchanged |-> f.unchanged + 1]
Adds(f, in, no, g) ==
  /\ f.cur # None => /\ ~Stale(f.cur, in)
                     /\ f.cur.fp.of = f.cur.content => in.content # f.cur.content
  /\ g = AddVersion(f, in, no)

LEMMA ApplyResult ==
  ASSUME recs \in [Ids -> RawRecords], NEW i \in Ids, NEW f \in Folds, NEW no \in 0 .. MaxPages
  PROVE  LET g == Apply(f, recs[i], no)
         IN Skips(f, recs[i], g) \/ Confirms(f, recs[i], g) \/ Adds(f, recs[i], no, g)
<1> DEFINE g == Apply(f, recs[i], no)
           type == DecideTransition(f.cur, recs[i])
           same == [f EXCEPT !.unchanged = @ + 1]
<1> SUFFICES Skips(f, recs[i], g) \/ Confirms(f, recs[i], g) \/ Adds(f, recs[i], no, g)
  OBVIOUS
<1>1. f = [cur |-> f.cur, added |-> f.added, touched |-> f.touched,
           new |-> f.new, changed |-> f.changed, unchanged |-> f.unchanged]
  BY DEF Folds
<1>2. f.cur # None => f.cur \in Rows
  BY DEF Folds
<1>3. same = [cur |-> f.cur, added |-> f.added, touched |-> f.touched,
              new |-> f.new, changed |-> f.changed, unchanged |-> f.unchanged + 1]
  BY <1>1
<1>4. recs[i].updated \in SourceTimes \cup {0} /\ recs[i].received \in ReceiveTimes \cup {0}
  BY RecordType
<1>5. CASE type = "STALE"
  <2>1. f.cur # None /\ Stale(f.cur, recs[i])
    BY <1>5 DEF DecideTransition
  <2>2. g = same
    BY <1>5 DEF Apply
  <2> QED
    BY <1>3, <2>1, <2>2 DEF Skips
<1>6. CASE type \in {"NEW", "CHANGED"}
  <2>1. ASSUME f.cur # None
        PROVE  /\ ~Stale(f.cur, recs[i])
               /\ f.cur.fp.of = f.cur.content => recs[i].content # f.cur.content
    <3>1. /\ ~Stale(f.cur, recs[i]) /\ f.cur.fp # V1(recs[i].content)
          /\ f.cur.fp.alg # "v1" => f.cur.content # recs[i].content
      BY <1>6, <2>1 DEF DecideTransition
    <3>2. f.cur.fp.alg = "v1" => f.cur.fp.of # recs[i].content
      BY <1>2, <2>1, <3>1, RowType DEF V1
    <3> QED
      BY <3>1, <3>2
  <2>2. g = AddVersion(f, recs[i], no)
    BY <1>6 DEF Apply
  <2> QED
    BY <2>1, <2>2 DEF Adds
<1>7. CASE type \in {"UNCHANGED", "VERSION_MISMATCH"}
  <2>1. f.cur # None /\ ~Stale(f.cur, recs[i])
    BY <1>7 DEF DecideTransition
  <2>2. PICK m \in Rows :
          /\ m = Watermarked(f.cur, recs[i])
          /\ m.product = f.cur.product /\ m.current = f.cur.current /\ m.number = f.cur.number
          /\ m.content = f.cur.content /\ m.fp = f.cur.fp
          /\ m.updated = Greatest(f.cur.updated, recs[i].updated)
    BY <1>2, <1>4, <2>1, WatermarkedRow
  <2>3. CASE type = "UNCHANGED"
    <3>1. f.cur.fp = V1(recs[i].content)
      BY <2>1, <2>3 DEF DecideTransition
    <3>2. f.cur.fp.of = recs[i].content
      BY <3>1 DEF V1
    <3>3. g = [same EXCEPT !.cur = m, !.touched = TRUE]
      BY <1>3, <2>2, <2>3 DEF Apply
    <3>4. g = [cur |-> m, added |-> f.added, touched |-> TRUE,
               new |-> f.new, changed |-> f.changed, unchanged |-> f.unchanged + 1]
      BY <1>3, <3>3
    <3> HIDE DEF g
    <3> QED
      BY <2>1, <2>2, <3>1, <3>2, <3>4 DEF Confirms
  <2>4. CASE type = "VERSION_MISMATCH"
    <3>1. f.cur.content = recs[i].content
      BY <2>1, <2>4 DEF DecideTransition
    <3>2. PICK r : r = [m EXCEPT !.fp = V1(recs[i].content)]
      OBVIOUS
    <3>3. V1(recs[i].content) \in [alg : {"v0", "v1"}, of : Contents]
      BY RecordType DEF V1
    <3>4. /\ r \in Rows /\ r.fp = V1(recs[i].content)
          /\ r.product = f.cur.product /\ r.current = f.cur.current /\ r.number = f.cur.number
          /\ r.content = f.cur.content
          /\ r.updated = Greatest(f.cur.updated, recs[i].updated)
      BY <2>2, <3>2, <3>3 DEF Rows
    <3>5. g = [same EXCEPT !.cur = r, !.touched = TRUE]
      BY <1>3, <2>2, <2>4, <3>2 DEF Apply
    <3>6. g = [cur |-> r, added |-> f.added, touched |-> TRUE,
               new |-> f.new, changed |-> f.changed, unchanged |-> f.unchanged + 1]
      BY <1>3, <3>5
    <3> HIDE DEF g
    <3> QED
      BY <2>1, <3>1, <3>4, <3>6 DEF Confirms
  <2> QED
    BY <1>7, <2>3, <2>4
<1>8. type \in {"STALE", "NEW", "CHANGED", "UNCHANGED", "VERSION_MISMATCH"}
  BY DEF DecideTransition
<1> HIDE DEF type
<1> QED
  BY <1>5, <1>6, <1>7, <1>8

LEMMA ApplyType ==
  ASSUME recs \in [Ids -> RawRecords], NEW i \in Ids, NEW f \in Folds, NEW no \in 0 .. MaxPages
  PROVE  Apply(f, recs[i], no) \in Folds
<1> DEFINE g == Apply(f, recs[i], no)
<1>1. /\ f.cur \in Rows \cup {None} /\ f.added \in SUBSET VersionRows /\ f.touched \in BOOLEAN
      /\ f.new \in Nat /\ f.changed \in Nat /\ f.unchanged \in Nat
  BY DEF Folds
<1>2. CASE Skips(f, recs[i], g)
  BY <1>1, <1>2 DEF Skips, Folds
<1>3. CASE Confirms(f, recs[i], g)
  BY <1>1, <1>3 DEF Confirms, Folds
<1>4. CASE Adds(f, recs[i], no, g)
  <2>1. PICK v \in VersionRows, r \in Rows :
          AddsVersion(f, recs[i], no, AddVersion(f, recs[i], no), v, r)
    BY AddVersionResult
  <2>2. f.added \cup {v} \in SUBSET VersionRows
    BY <1>1
  <2>3. AddVersion(f, recs[i], no) \in Folds
    BY <1>1, <2>1, <2>2 DEF Folds, AddsVersion
  <2> QED
    BY <1>4, <2>3 DEF Adds
<1> QED
  BY <1>2, <1>3, <1>4, ApplyResult

\* P is a set of pairs: the records applied so far and the fold in progress.
KeptByApply(P, T, no) ==
  \A s \in SUBSET T, f \in Folds : \A i \in T \ s :
    <<s, f>> \in P => <<s \cup {i}, Apply(f, recs[i], no)>> \in P

\* What holds at the start and stays true with every record applied, holds of the fold.
LEMMA FoldHas ==
  ASSUME recs \in [Ids -> RawRecords], NEW x, NEW S \in SUBSET Ids,
         NEW start \in Rows \cup {None}, NEW no \in 0 .. MaxPages, NEW P,
         NEW T, T = {i \in S : recs[i].identity = x},
         <<{}, Begin(start)>> \in P,
         KeptByApply(P, T, no)
  PROVE  Fold(x, S, start, no) \in Folds /\ <<T, Fold(x, S, start, no)>> \in P
<1>1. IsFiniteSet(T) /\ T \in SUBSET Ids
  BY IdsFinite
<1> DEFINE last == [s \in SUBSET T |-> Latest(s)]
           step == [p \in Folds \X T |-> Apply(p[1], recs[p[2]], no)]
           IsFold(g) == g = [s \in SUBSET T |-> IF s = {} THEN Begin(start)
                                 ELSE Apply(g[s \ {Latest(s)}], recs[Latest(s)], no)]
           c == CHOOSE g : IsFold(g)
<1>2. \A s \in SUBSET T : s # {} => last[s] = Latest(s) /\ Latest(s) \in s
  BY <1>1, LatestIn
<1>3. Begin(start) \in Folds
  BY DEF Begin, Folds
<1>4. \A f \in Folds, i \in T : step[<<f, i>>] = Apply(f, recs[i], no)
  OBVIOUS
<1>5. step \in [Folds \X T -> Folds]
  <2> SUFFICES ASSUME NEW p \in Folds \X T PROVE Apply(p[1], recs[p[2]], no) \in Folds
    OBVIOUS
  <2> QED
    BY <1>1, ApplyType
<1>6. PICK g \in [SUBSET T -> Folds] : IsFoldOf(g, T, Begin(start), last, step)
  <2>1. \A s \in SUBSET T : s # {} => last[s] \in s
    BY <1>2
  <2> HIDE DEF last, step
  <2> QED
    BY <1>1, <1>3, <1>5, <2>1, FoldExists
<1>7. IsFold(g)
  <2>1. ASSUME NEW s \in SUBSET T, s # {}
        PROVE  g[s] = Apply(g[s \ {Latest(s)}], recs[Latest(s)], no)
    <3>1. g[s] = step[<<g[s \ {last[s]}], last[s]>>]
      BY <1>6, <2>1 DEF IsFoldOf
    <3>2. s \ {Latest(s)} \in SUBSET T /\ Latest(s) \in T
      BY <1>2, <2>1
    <3> HIDE DEF last, step
    <3> QED
      BY <1>2, <1>4, <2>1, <3>1, <3>2
  <2>2. g[{}] = Begin(start)
    BY <1>6 DEF IsFoldOf
  <2>3. g = [s \in SUBSET T |-> g[s]]
    OBVIOUS
  <2> QED
    BY <2>1, <2>2, <2>3, Zenon
<1>8. IsFold(c)
  <2> HIDE DEF IsFold
  <2> QED
    BY <1>7, Zenon
<1>9. Fold(x, S, start, no) = c[T]
  BY DEF Fold, MapThenFoldSet
<1> DEFINE Q == {s \in SUBSET T : c[s] \in Folds /\ <<s, c[s]>> \in P}
<1>10. {} \in Q
  <2>1. c[{}] = Begin(start)
    <3> HIDE DEF c
    <3> QED
      BY <1>8
  <2> HIDE DEF c
  <2> QED
    BY <1>3, <2>1
<1>11. ASSUME NEW s \in SUBSET T, s # {}, s \ {Latest(s)} \in Q PROVE s \in Q
  <2> HIDE DEF c
  <2>1. c[s] = Apply(c[s \ {Latest(s)}], recs[Latest(s)], no)
    BY <1>8, <1>11
  <2>2. PICK i \in T : i = Latest(s) /\ i \in s
    BY <1>2, <1>11
  <2>3. PICK f \in Folds : f = c[s \ {i}] /\ <<s \ {i}, f>> \in P
    BY <1>11, <2>2
  <2>4. i \in Ids
    BY <1>1
  <2>5. <<(s \ {i}) \cup {i}, Apply(f, recs[i], no)>> \in P
    BY <2>2, <2>3 DEF KeptByApply
  <2>6. (s \ {i}) \cup {i} = s
    BY <2>2
  <2>7. Apply(f, recs[i], no) \in Folds
    BY <2>4, ApplyType
  <2> QED
    BY <2>1, <2>2, <2>3, <2>5, <2>6, <2>7
<1>12. T \in Q
  <2> HIDE DEF Q
  <2>1. \A s \in SUBSET T : s # {} => \E i \in s : s \ {i} \in Q => s \in Q
    BY <1>2, <1>11
  <2> QED
    BY <1>1, <1>10, <2>1, SubsetsHave
<1> HIDE DEF c
<1> QED
  BY <1>9, <1>12

-----------------------------------------------------------------------------
(* What a fold of the records about x has made of the row it started from  *)

Base(start) == IF start = None THEN 0 ELSE start.number

FoldedRow(x, no, start, s, f) ==
  /\ f.cur = None <=> start = None /\ s = {}
  /\ f.cur # None => /\ f.cur.fp.of = f.cur.content
                     /\ f.cur.product = IF start = None THEN <<x, no>> ELSE start.product
  /\ ~f.touched => f.cur = start

\* The versions it added continue the chain that ended with the row.
FoldedChain(start, no, f) ==
  /\ f.cur = None => f.added = {}
  /\ f.cur # None => Base(start) <= f.cur.number
  /\ f.added # {} => f.touched
  /\ \A v \in f.added : /\ v.product = f.cur.product /\ v.id = <<v.product, no, v.number>>
                        /\ Base(start) < v.number /\ v.number <= f.cur.number
                        /\ v.number = f.cur.number =>
                             v.id = f.cur.current /\ v.content = f.cur.content
                        /\ start # None /\ v.number = start.number + 1 =>
                             v.from = start.current /\ v.content # start.content
  /\ \A u, v \in f.added : u.number = v.number => u = v
  /\ \A u, v \in f.added : v.number = u.number + 1 => v.from = u.id /\ v.content # u.content
  /\ f.cur # None => \A n \in Base(start) + 1 .. f.cur.number : \E v \in f.added : v.number = n
  /\ f.cur # None /\ f.cur.number = Base(start) =>
       start # None /\ f.cur.current = start.current /\ f.cur.content = start.content

FoldedCount(start, s, f) ==
  /\ f.new = IF start = None /\ s # {} THEN 1 ELSE 0
  /\ IsFiniteSet(f.added) /\ Cardinality(f.added) = f.new + f.changed

Folded(x, no, start, s, f) ==
  FoldedRow(x, no, start, s, f) /\ FoldedChain(start, no, f) /\ FoldedCount(start, s, f)

LEMMA FoldedBegin ==
  ASSUME NEW x, NEW no, NEW start \in Rows \cup {None},
         start # None => start.fp.of = start.content
  PROVE  Folded(x, no, start, {}, Begin(start))
<1>1. start # None => start.number \in Nat \ {0}
  BY RowType
<1>2. IsFiniteSet({}) /\ Cardinality({}) = 0
  BY FS_EmptySet
<1>3. FoldedRow(x, no, start, {}, Begin(start))
  BY DEF FoldedRow, Begin
<1>4. FoldedChain(start, no, Begin(start))
  BY <1>1 DEF FoldedChain, Begin, Base
<1>5. FoldedCount(start, {}, Begin(start))
  BY <1>2 DEF FoldedCount, Begin
<1> QED
  BY <1>3, <1>4, <1>5 DEF Folded

LEMMA FoldedStep ==
  ASSUME recs \in [Ids -> RawRecords], NEW i \in Ids, NEW f \in Folds, NEW no \in 0 .. MaxPages,
         NEW start \in Rows \cup {None}, NEW s, Folded(recs[i].identity, no, start, s, f)
  PROVE  Folded(recs[i].identity, no, start, s \cup {i}, Apply(f, recs[i], no))
<1>1. PICK x, in, g : x = recs[i].identity /\ in = recs[i] /\ g = Apply(f, recs[i], no)
  OBVIOUS
<1> SUFFICES Folded(x, no, start, s \cup {i}, g)
  BY <1>1
<1>2. /\ FoldedRow(x, no, start, s, f) /\ FoldedChain(start, no, f) /\ FoldedCount(start, s, f)
  BY <1>1 DEF Folded
<1>3. /\ f.cur = None \/ f.cur \in Rows
      /\ f.new \in Nat /\ f.changed \in Nat /\ f.unchanged \in Nat
      /\ f.added \in SUBSET VersionRows
  BY DEF Folds
<1>4. /\ f.cur # None => f.cur.number \in Nat /\ f.cur.number # 0
      /\ Base(start) \in Nat
      /\ start # None => start.number \in Nat /\ start.number # 0
  BY <1>3, RowType DEF Base
<1>5. \A v \in f.added : v.number \in Nat
  BY <1>3 DEF VersionRows
<1>6. s \cup {i} # {}
  OBVIOUS
<1>7. CASE Skips(f, in, g)
  <2>1. /\ f.cur # None /\ g.cur = f.cur /\ g.added = f.added /\ g.touched = f.touched
        /\ g.new = f.new /\ g.changed = f.changed
    BY <1>7 DEF Skips
  <2>2. FoldedRow(x, no, start, s \cup {i}, g)
    BY <1>2, <2>1 DEF FoldedRow
  <2>3. FoldedChain(start, no, g)
    BY <1>2, <2>1 DEF FoldedChain
  <2>4. FoldedCount(start, s \cup {i}, g)
    BY <1>2, <2>1 DEF FoldedCount, FoldedRow
  <2> QED
    BY <2>2, <2>3, <2>4 DEF Folded
<1>8. CASE Confirms(f, in, g)
  <2>1. PICK r \in Rows :
          /\ r.product = f.cur.product /\ r.current = f.cur.current /\ r.number = f.cur.number
          /\ r.content = f.cur.content /\ r.fp = V1(in.content)
          /\ g = [cur |-> r, added |-> f.added, touched |-> TRUE,
                  new |-> f.new, changed |-> f.changed, unchanged |-> f.unchanged + 1]
    BY <1>8 DEF Confirms
  <2>2. /\ g.cur = r /\ g.added = f.added /\ g.touched = TRUE
        /\ g.new = f.new /\ g.changed = f.changed /\ f.cur # None /\ r # None
    BY <1>8, <2>1, RowType DEF Confirms
  <2>3. in.content = f.cur.content /\ r.fp.of = in.content
    BY <1>2, <1>8, <2>1, <2>2 DEF Confirms, FoldedRow, V1
  <2>4. FoldedRow(x, no, start, s \cup {i}, g)
    BY <1>2, <2>1, <2>2, <2>3 DEF FoldedRow
  <2>5. FoldedChain(start, no, g)
    BY <1>2, <2>1, <2>2 DEF FoldedChain
  <2>6. FoldedCount(start, s \cup {i}, g)
    BY <1>2, <2>2 DEF FoldedCount, FoldedRow
  <2> QED
    BY <2>4, <2>5, <2>6 DEF Folded
<1>9. CASE Adds(f, in, no, g)
  <2>10. PICK v \in VersionRows, r \in Rows : AddsVersion(f, in, no, g, v, r)
    <3>1. g = AddVersion(f, recs[i], no)
      BY <1>1, <1>9 DEF Adds
    <3> QED
      BY <1>1, <3>1, AddVersionResult
  <2>1. /\ g = [cur |-> r, added |-> f.added \cup {v}, touched |-> TRUE,
                new |-> IF f.cur = None THEN f.new + 1 ELSE f.new,
                changed |-> IF f.cur = None THEN f.changed ELSE f.changed + 1,
                unchanged |-> f.unchanged]
        /\ v.product = IF f.cur = None THEN <<x, no>> ELSE f.cur.product
        /\ v.number = IF f.cur = None THEN 1 ELSE f.cur.number + 1
        /\ v.id = <<v.product, no, v.number>> /\ v.content = in.content
        /\ v.from = IF f.cur = None THEN None ELSE f.cur.current
        /\ r.product = v.product /\ r.current = v.id /\ r.number = v.number
        /\ r.content = in.content /\ r.fp = V1(in.content)
    BY <1>1, <2>10 DEF AddsVersion
  <2>2. /\ g.cur = r /\ g.added = f.added \cup {v} /\ g.touched = TRUE /\ r # None
        /\ g.new = IF f.cur = None THEN f.new + 1 ELSE f.new
        /\ g.changed = IF f.cur = None THEN f.changed ELSE f.changed + 1
        /\ r.number \in Nat /\ v.number \in Nat /\ r.fp.of = in.content
    BY <2>1, RowType DEF V1
  <2>3. f.cur # None => in.content # f.cur.content
    BY <1>2, <1>9 DEF Adds, FoldedRow
  <2>4. FoldedRow(x, no, start, s \cup {i}, g)
    BY <1>2, <2>1, <2>2 DEF FoldedRow
  <2>5. CASE f.cur = None
    <3>1. start = None /\ s = {} /\ f.added = {} /\ Base(start) = 0
      BY <1>2, <2>5 DEF FoldedRow, FoldedChain, Base
    <3>2. g.added = {v} /\ v.number = 1 /\ r.number = 1
      BY <2>1, <2>2, <2>5, <3>1
    <3>3. FoldedChain(start, no, g)
      BY <2>1, <2>2, <3>1, <3>2 DEF FoldedChain
    <3>4. IsFiniteSet({v}) /\ Cardinality({v}) = 1
      BY FS_Singleton
    <3>5. f.new = 0 /\ f.changed = 0
      BY <1>2, <1>3, <3>1, FS_EmptySet DEF FoldedCount
    <3>6. FoldedCount(start, s \cup {i}, g)
      BY <2>2, <2>5, <3>1, <3>2, <3>4, <3>5 DEF FoldedCount
    <3> QED
      BY <2>4, <3>3, <3>6 DEF Folded
  <2>6. CASE f.cur # None
    <3>1. /\ v.number = f.cur.number + 1 /\ v.product = f.cur.product /\ v.from = f.cur.current
          /\ v.content # f.cur.content
      BY <2>1, <2>3, <2>6
    <3>2. \A u \in f.added : u.number < v.number /\ u.product = v.product
      BY <1>2, <1>4, <1>5, <2>6, <3>1 DEF FoldedChain
    <3>3. v \notin f.added
      BY <2>2, <3>2
    <3>4. FoldedChain(start, no, g)
      <4>1. Base(start) <= f.cur.number /\ Base(start) < r.number
        BY <1>2, <1>4, <2>1, <2>6, <3>1 DEF FoldedChain
      <4>2. ASSUME NEW u \in g.added
            PROVE  /\ u.product = r.product /\ u.id = <<u.product, no, u.number>>
                   /\ Base(start) < u.number /\ u.number <= r.number
                   /\ u.number = r.number => u.id = r.current /\ u.content = r.content
                   /\ start # None /\ u.number = start.number + 1 =>
                        u.from = start.current /\ u.content # start.content
        <5>1. CASE u \in f.added
          <6>1. u.number \in Nat /\ u.number < r.number
            BY <1>5, <2>1, <3>2, <5>1
          <6> QED
            BY <1>2, <2>1, <2>2, <3>1, <5>1, <6>1 DEF FoldedChain
        <5>2. CASE u = v
          <6>1. ASSUME start # None, v.number = start.number + 1
                PROVE  v.from = start.current /\ v.content # start.content
            <7>1. f.cur.number = Base(start)
              BY <1>4, <2>6, <3>1, <6>1 DEF Base
            <7> QED
              BY <1>2, <2>6, <3>1, <7>1 DEF FoldedChain
          <6> QED
            BY <2>1, <2>2, <4>1, <5>2, <6>1
        <5> QED
          BY <2>2, <5>1, <5>2
      <4>3. \A a, b \in g.added : a.number = b.number => a = b
        BY <1>2, <1>5, <2>2, <3>2 DEF FoldedChain
      <4>4. ASSUME NEW a \in g.added, NEW b \in g.added, b.number = a.number + 1
            PROVE  b.from = a.id /\ b.content # a.content
        <5>1. CASE a = v
          BY <1>5, <2>2, <3>2, <4>4, <5>1
        <5>2. CASE a \in f.added /\ b \in f.added
          BY <1>2, <4>4, <5>2 DEF FoldedChain
        <5>3. CASE a \in f.added /\ b = v
          <6>1. a.number = f.cur.number
            BY <1>4, <1>5, <2>6, <3>1, <4>4, <5>3
          <6> QED
            BY <1>2, <3>1, <5>3, <6>1 DEF FoldedChain
        <5> QED
          BY <2>2, <5>1, <5>2, <5>3
      <4>5. ASSUME NEW n \in Base(start) + 1 .. r.number PROVE \E u \in g.added : u.number = n
        <5>1. CASE n = r.number
          BY <2>1, <2>2, <5>1
        <5>2. CASE n # r.number
          <6>1. n \in Base(start) + 1 .. f.cur.number
            BY <1>4, <2>1, <2>6, <3>1, <5>2
          <6> QED
            BY <1>2, <2>2, <2>6, <6>1 DEF FoldedChain
        <5> QED
          BY <5>1, <5>2
      <4>6. r.number # Base(start) /\ Base(start) <= r.number
        BY <1>4, <2>2, <4>1
      <4> QED
        BY <2>2, <4>2, <4>3, <4>4, <4>5, <4>6 DEF FoldedChain
    <3>5. IsFiniteSet(f.added) /\ Cardinality(f.added) = f.new + f.changed
      BY <1>2 DEF FoldedCount
    <3>6. IsFiniteSet(g.added) /\ Cardinality(g.added) = Cardinality(f.added) + 1
      <4>1. /\ IsFiniteSet(f.added \cup {v})
            /\ Cardinality(f.added \cup {v}) = Cardinality(f.added) + 1
        BY <3>3, <3>5, FS_AddElement
      <4> QED
        BY <2>2, <4>1
    <3>7. s # {} \/ start # None
      BY <1>2, <2>6 DEF FoldedRow
    <3>8. FoldedCount(start, s \cup {i}, g)
      BY <1>2, <1>3, <2>2, <2>6, <3>5, <3>6, <3>7 DEF FoldedCount
    <3> QED
      BY <2>4, <3>4, <3>8 DEF Folded
  <2> QED
    BY <2>5, <2>6
<1> QED
  BY <1>1, <1>7, <1>8, <1>9, ApplyResult

\* r shows a record of M of the latest source time, which is its watermark.
ShowsLatest(M, r) ==
  \E i \in M : /\ recs[i].content = r.content /\ recs[i].updated = r.updated
               /\ \A j \in M : recs[j].updated <= recs[i].updated

\* M: the records committed before.
FoldedNewest(M, start, s, f) ==
  /\ start # None => f.cur # None /\ f.cur.updated >= start.updated
  /\ M \cup s # {} => f.cur # None /\ ShowsLatest(M \cup s, f.cur)
  /\ M \cup s = {} /\ f.cur # None => f.cur.updated = 0 /\ f.cur.received = 0

LEMMA FoldedNewestStep ==
  ASSUME recs \in [Ids -> RawRecords], NEW i \in Ids, NEW f \in Folds, NEW no \in 0 .. MaxPages,
         NEW start \in Rows \cup {None}, NEW M \in SUBSET Ids, NEW s \in SUBSET Ids,
         \A j \in M \cup (s \cup {i}) : recs[j].updated # 0,
         f.cur # None => f.cur.fp.of = f.cur.content,
         FoldedNewest(M, start, s, f)
  PROVE  FoldedNewest(M, start, s \cup {i}, Apply(f, recs[i], no))
<1>1. PICK in, g : in = recs[i] /\ g = Apply(f, recs[i], no)
  OBVIOUS
<1> SUFFICES FoldedNewest(M, start, s \cup {i}, g)
  BY <1>1
<1>2. f.cur = None \/ f.cur \in Rows
  BY DEF Folds
<1>3. /\ in.updated \in Nat /\ in.received \in Nat /\ in.updated # 0
      /\ f.cur # None => f.cur.updated \in Nat /\ f.cur.received \in Nat
      /\ start # None => start.updated \in Nat
      /\ \A j \in M \cup s : recs[j].updated \in Nat
  BY <1>1, <1>2, RecordType, RowType
<1>4. ASSUME f.cur # None, M \cup s # {} PROVE f.cur.updated # 0
  BY <1>4 DEF FoldedNewest, ShowsLatest
<1>5. PICK U \in SUBSET Ids : U = M \cup s
  OBVIOUS
<1>6. M \cup (s \cup {i}) = U \cup {i}
  BY <1>5
<1>7. \A j \in U : f.cur # None /\ recs[j].updated <= f.cur.updated
  BY <1>3, <1>5 DEF FoldedNewest, ShowsLatest
<1>8. CASE Skips(f, in, g)
  <2>1. f.cur # None /\ g.cur = f.cur /\ Stale(f.cur, in)
    BY <1>8 DEF Skips
  <2>2. M \cup s # {}
    BY <1>3, <2>1 DEF Stale, FoldedNewest
  <2>3. in.updated <= f.cur.updated
    BY <1>3, <1>4, <2>1, <2>2 DEF Stale
  <2>4. PICK k \in U : /\ recs[k].content = f.cur.content /\ recs[k].updated = f.cur.updated
                       /\ \A j \in U : recs[j].updated <= recs[k].updated
    BY <1>5, <2>2 DEF FoldedNewest, ShowsLatest
  <2>5. \A j \in U \cup {i} : recs[j].updated <= recs[k].updated
    BY <1>1, <2>3, <2>4
  <2>6. ShowsLatest(U \cup {i}, f.cur)
    BY <2>4, <2>5 DEF ShowsLatest
  <2> QED
    BY <1>6, <2>1, <2>6 DEF FoldedNewest
<1>9. ASSUME NEW r \in Rows, g.cur = r, f.cur # None => ~Stale(f.cur, in),
             r.content = in.content,
             r.updated = IF f.cur = None THEN in.updated
                         ELSE Greatest(f.cur.updated, in.updated)
      PROVE  FoldedNewest(M, start, s \cup {i}, g)
  <2>1. f.cur # None => f.cur.updated <= in.updated
    BY <1>3, <1>4, <1>9 DEF Stale, FoldedNewest
  <2>2. r.updated = in.updated
    BY <1>3, <1>9, <2>1 DEF Greatest
  <2>3. \A j \in U \cup {i} : recs[j].updated <= in.updated
    BY <1>1, <1>3, <1>5, <1>7, <2>1
  <2>4. ShowsLatest(U \cup {i}, r)
    BY <1>1, <1>9, <2>2, <2>3 DEF ShowsLatest
  <2>5. start # None => r.updated >= start.updated
    BY <1>3, <2>1, <2>2 DEF FoldedNewest
  <2>6. r # None
    BY RowType
  <2> QED
    BY <1>6, <1>9, <2>4, <2>5, <2>6 DEF FoldedNewest
<1>10. CASE Confirms(f, in, g)
  <2>1. PICK r \in Rows : /\ r.content = f.cur.content /\ g.cur = r
                          /\ r.updated = Greatest(f.cur.updated, in.updated)
    BY <1>10 DEF Confirms
  <2>2. f.cur # None /\ ~Stale(f.cur, in) /\ in.content = f.cur.content
    BY <1>10 DEF Confirms
  <2> QED
    BY <1>9, <2>1, <2>2
<1>11. CASE Adds(f, in, no, g)
  <2>1. g = AddVersion(f, recs[i], no)
    BY <1>1, <1>11 DEF Adds
  <2>2. PICK v \in VersionRows, r \in Rows : AddsVersion(f, in, no, g, v, r)
    BY <1>1, <2>1, AddVersionResult
  <2>3. /\ g.cur = r /\ r.content = in.content
        /\ r.updated = IF f.cur = None THEN in.updated ELSE Greatest(f.cur.updated, in.updated)
    BY <2>2 DEF AddsVersion
  <2>4. f.cur # None => ~Stale(f.cur, in)
    BY <1>11 DEF Adds
  <2> QED
    BY <1>9, <2>3, <2>4
<1> QED
  BY <1>1, <1>8, <1>10, <1>11, ApplyResult

\* DecideBatch, of the records of S about x.
LEMMA FoldResult ==
  ASSUME recs \in [Ids -> RawRecords], NEW x, NEW S \in SUBSET Ids,
         NEW start \in Rows \cup {None}, NEW no \in 0 .. MaxPages,
         start # None => start.fp.of = start.content,
         NEW T, T = {i \in S : recs[i].identity = x}
  PROVE  /\ Fold(x, S, start, no) \in Folds
         /\ Folded(x, no, start, T, Fold(x, S, start, no))
<1> DEFINE P == {p \in (SUBSET T) \X Folds : Folded(x, no, start, p[1], p[2])}
<1>1. \A s \in SUBSET T, f \in Folds : <<s, f>> \in P <=> Folded(x, no, start, s, f)
  OBVIOUS
<1>2. Begin(start) \in Folds
  BY DEF Begin, Folds
<1>3. <<{}, Begin(start)>> \in P
  BY <1>1, <1>2, FoldedBegin
<1>4. ASSUME NEW s \in SUBSET T, NEW f \in Folds, NEW i \in T \ s, <<s, f>> \in P
      PROVE  <<s \cup {i}, Apply(f, recs[i], no)>> \in P
  <2>1. i \in Ids /\ recs[i].identity = x /\ s \cup {i} \in SUBSET T
    OBVIOUS
  <2>2. Folded(recs[i].identity, no, start, s, f)
    BY <1>1, <1>4, <2>1
  <2>3. Folded(recs[i].identity, no, start, s \cup {i}, Apply(f, recs[i], no))
    BY <2>1, <2>2, FoldedStep
  <2>4. Apply(f, recs[i], no) \in Folds
    BY <2>1, ApplyType
  <2> QED
    BY <1>1, <2>1, <2>3, <2>4
<1>5. Fold(x, S, start, no) \in Folds /\ <<T, Fold(x, S, start, no)>> \in P
  <2>1. KeptByApply(P, T, no)
    BY <1>4 DEF KeptByApply
  <2> HIDE DEF P
  <2> QED
    BY <1>3, <2>1, FoldHas
<1> QED
  BY <1>1, <1>5

\* The same, with what it shows.
LEMMA FoldShowsNewest ==
  ASSUME recs \in [Ids -> RawRecords], NEW x, NEW S \in SUBSET Ids,
         NEW start \in Rows \cup {None}, NEW no \in 0 .. MaxPages,
         start # None => start.fp.of = start.content,
         NEW T, T = {i \in S : recs[i].identity = x}, NEW M \in SUBSET Ids,
         \A i \in M \cup T : recs[i].updated # 0,
         FoldedNewest(M, start, {}, Begin(start))
  PROVE  FoldedNewest(M, start, T, Fold(x, S, start, no))
<1> DEFINE P == {p \in (SUBSET T) \X Folds : /\ Folded(x, no, start, p[1], p[2])
                                             /\ FoldedNewest(M, start, p[1], p[2])}
<1>1. \A s \in SUBSET T, f \in Folds :
        <<s, f>> \in P <=> Folded(x, no, start, s, f) /\ FoldedNewest(M, start, s, f)
  OBVIOUS
<1>2. Begin(start) \in Folds
  BY DEF Begin, Folds
<1>3. <<{}, Begin(start)>> \in P
  BY <1>1, <1>2, FoldedBegin
<1>4. ASSUME NEW s \in SUBSET T, NEW f \in Folds, NEW i \in T \ s, <<s, f>> \in P
      PROVE  <<s \cup {i}, Apply(f, recs[i], no)>> \in P
  <2>1. i \in Ids /\ recs[i].identity = x /\ s \cup {i} \in SUBSET T /\ s \in SUBSET Ids
    OBVIOUS
  <2>2. Folded(recs[i].identity, no, start, s, f) /\ FoldedNewest(M, start, s, f)
    BY <1>1, <1>4, <2>1
  <2>3. Folded(recs[i].identity, no, start, s \cup {i}, Apply(f, recs[i], no))
    BY <2>1, <2>2, FoldedStep
  <2>4. Apply(f, recs[i], no) \in Folds
    BY <2>1, ApplyType
  <2>5. f.cur # None => f.cur.fp.of = f.cur.content
    BY <2>2 DEF Folded, FoldedRow
  <2>6. \A j \in M \cup (s \cup {i}) : recs[j].updated # 0
    BY <2>1
  <2>7. FoldedNewest(M, start, s \cup {i}, Apply(f, recs[i], no))
    BY <2>1, <2>2, <2>5, <2>6, FoldedNewestStep
  <2> QED
    BY <1>1, <2>1, <2>3, <2>4, <2>7
<1>5. Fold(x, S, start, no) \in Folds /\ <<T, Fold(x, S, start, no)>> \in P
  <2>1. KeptByApply(P, T, no)
    BY <1>4 DEF KeptByApply
  <2> HIDE DEF P
  <2> QED
    BY <1>3, <2>1, FoldHas
<1> QED
  BY <1>1, <1>5

-----------------------------------------------------------------------------
(* The counters of a page                                                  *)

\* P is a set of pairs: the identities added up so far and their sum.
KeptByAdding(P, T, plan, field) ==
  \A s \in SUBSET T, n \in Nat : \A x \in T \ s :
    <<s, n>> \in P => <<s \cup {x}, plan[x][field] + n>> \in P

LEMMA CountHas ==
  ASSUME NEW plan, NEW field, NEW T, T = DOMAIN plan, IsFiniteSet(T),
         \A x \in T : plan[x][field] \in Nat,
         NEW P, <<{}, 0>> \in P, KeptByAdding(P, T, plan, field)
  PROVE  Count(plan, field) \in Nat /\ <<T, Count(plan, field)>> \in P
<1> DEFINE Some(s) == CHOOSE x \in s : TRUE
           last == [s \in SUBSET T |-> Some(s)]
           step == [p \in Nat \X T |-> plan[p[2]][field] + p[1]]
           IsSum(g) == g = [s \in SUBSET T |-> IF s = {} THEN 0
                                ELSE plan[Some(s)][field] + g[s \ {Some(s)}]]
           c == CHOOSE g : IsSum(g)
<1>1. \A s \in SUBSET T : s # {} => last[s] = Some(s) /\ Some(s) \in s
  OBVIOUS
<1>2. \A n \in Nat, x \in T : step[<<n, x>>] = plan[x][field] + n
  OBVIOUS
<1>3. step \in [Nat \X T -> Nat]
  OBVIOUS
<1>4. PICK g \in [SUBSET T -> Nat] : IsFoldOf(g, T, 0, last, step)
  <2>1. \A s \in SUBSET T : s # {} => last[s] \in s
    BY <1>1
  <2> HIDE DEF last, step
  <2> QED
    BY <1>3, <2>1, FoldExists
<1>5. IsSum(g)
  <2>1. ASSUME NEW s \in SUBSET T, s # {} PROVE g[s] = plan[Some(s)][field] + g[s \ {Some(s)}]
    <3>1. g[s] = step[<<g[s \ {last[s]}], last[s]>>]
      BY <1>4, <2>1 DEF IsFoldOf
    <3>2. s \ {Some(s)} \in SUBSET T /\ Some(s) \in T
      BY <1>1, <2>1
    <3> HIDE DEF last, step, Some
    <3> QED
      BY <1>1, <1>2, <2>1, <3>1, <3>2
  <2>2. g[{}] = 0
    BY <1>4 DEF IsFoldOf
  <2>3. g = [s \in SUBSET T |-> g[s]]
    OBVIOUS
  <2> HIDE DEF Some
  <2> QED
    BY <2>1, <2>2, <2>3, Zenon
<1>6. IsSum(c)
  <2> HIDE DEF IsSum
  <2> QED
    BY <1>5, Zenon
<1>7. Count(plan, field) = c[T]
  BY DEF Count, MapThenSumSet, MapThenFoldSet
<1> DEFINE Q == {s \in SUBSET T : c[s] \in Nat /\ <<s, c[s]>> \in P}
<1> HIDE DEF c
<1>8. {} \in Q
  <2>1. c[{}] = 0 /\ 0 \in Nat
    BY <1>6
  <2>2. <<{}, c[{}]>> \in P /\ c[{}] \in Nat
    BY <2>1, Zenon
  <2> QED
    BY <2>2
<1>9. ASSUME NEW s \in SUBSET T, s # {}, s \ {Some(s)} \in Q PROVE s \in Q
  <2>1. c[s] = plan[Some(s)][field] + c[s \ {Some(s)}]
    BY <1>6, <1>9
  <2>2. PICK x \in T : x = Some(s) /\ x \in s
    BY <1>1, <1>9
  <2>3. PICK n \in Nat : n = c[s \ {x}] /\ <<s \ {x}, n>> \in P
    BY <1>9, <2>2
  <2>4. <<(s \ {x}) \cup {x}, plan[x][field] + n>> \in P
    BY <2>2, <2>3 DEF KeptByAdding
  <2>5. (s \ {x}) \cup {x} = s
    BY <2>2
  <2>6. plan[x][field] + n \in Nat
    OBVIOUS
  <2> HIDE DEF Some
  <2> QED
    BY <2>1, <2>2, <2>3, <2>4, <2>5, <2>6
<1>10. T \in Q
  <2> HIDE DEF Q
  <2>1. \A s \in SUBSET T : s # {} => \E x \in s : s \ {x} \in Q => s \in Q
    BY <1>1, <1>9
  <2> QED
    BY <1>8, <2>1, SubsetsHave
<1> QED
  BY <1>7, <1>10

-----------------------------------------------------------------------------
(* ApplyBatch                                                              *)

SameVersion(a, b) ==
  /\ a.product = b.product /\ a.current = b.current
  /\ a.number = b.number /\ a.content = b.content

\* What a worker knows of a row that it read as start and that is now otherwise.
Outlives(now, start) ==
  /\ now # None => now.fp.of = now.content
  /\ start # None => /\ now # None /\ now.product = start.product
                     /\ now.current = start.current => SameVersion(now, start)

\* A write without conflict: of the version that was read if it adds one, else of
\* whatever version there is.
LEMMA WrittenRow ==
  ASSUME NEW start \in Rows \cup {None}, NEW now \in Rows \cup {None}, NEW f \in Folds,
         NEW x, NEW no, NEW s, s # {}, Folded(x, no, start, s, f),
         Outlives(now, start), ~Conflict(start, f, now)
  PROVE  LET n == Written(start, f, now)
         IN /\ n \in Rows /\ n.fp.of = n.content
            /\ start = None <=> now = None
            /\ f.added = {} => SameVersion(n, now)
            /\ f.added # {} => /\ SameVersion(n, f.cur)
                               /\ start # None => SameVersion(now, start)
            /\ now # None => /\ n.product = now.product
                             /\ n.updated >= now.updated /\ n.received >= now.received
<1>1. PICK n : n = Written(start, f, now)
  OBVIOUS
<1>2. f.cur = None \/ f.cur \in Rows
  BY DEF Folds
<1>3. /\ FoldedRow(x, no, start, s, f) /\ FoldedChain(start, no, f)
  BY DEF Folded
<1>4. f.cur \in Rows /\ f.cur # None /\ f.cur.fp.of = f.cur.content
  BY <1>2, <1>3 DEF FoldedRow
<1>5. CASE start = None
  <2>1. now = None /\ n = f.cur
    BY <1>1, <1>5 DEF Conflict, Written
  <2>2. f.added # {}
    <3>1. f.cur.number \in Nat /\ f.cur.number # 0 /\ Base(start) = 0
      BY <1>3, <1>4, <1>5, RowType DEF Base
    <3>2. f.cur.number \in 0 + 1 .. f.cur.number
      BY <3>1
    <3> QED
      BY <1>3, <1>4, <3>1, <3>2 DEF FoldedChain
  <2> QED
    BY <1>1, <1>4, <1>5, <2>1, <2>2 DEF SameVersion
<1>6. CASE start # None
  <2>1. /\ now # None /\ now \in Rows /\ now.product = start.product
        /\ now.fp.of = now.content /\ start \in Rows
    BY <1>6 DEF Outlives
  <2>2. /\ now.updated \in SourceTimes \cup {0} /\ now.received \in ReceiveTimes \cup {0}
        /\ now.updated \in Nat /\ now.received \in Nat
        /\ f.cur.updated \in SourceTimes \cup {0} /\ f.cur.received \in ReceiveTimes \cup {0}
        /\ f.cur.updated \in Nat /\ f.cur.received \in Nat
    BY <1>4, <2>1, RowType
  <2>3. CASE f.added # {}
    <3>1. SameVersion(now, start)
      BY <1>6, <2>3 DEF Conflict, Outlives
    <3>2. n = Watermarked(f.cur, now)
      BY <1>1, <1>6, <2>3 DEF Written, RaiseWatermark
    <3>3. /\ n \in Rows /\ SameVersion(n, f.cur) /\ n.fp = f.cur.fp
          /\ n.updated = Greatest(f.cur.updated, now.updated)
          /\ n.received = Greatest(f.cur.received, now.received)
      BY <1>4, <2>2, <3>2, WatermarkedRow DEF SameVersion
    <3>4. n.updated >= now.updated /\ n.received >= now.received
      BY <2>2, <3>3, GreatestType
    <3>5. n.product = now.product
      BY <1>3, <1>4, <1>6, <2>1, <3>3 DEF FoldedRow, SameVersion
    <3>6. n.fp.of = n.content
      BY <1>4, <3>3 DEF SameVersion
    <3> QED
      BY <1>1, <1>6, <2>1, <2>3, <3>1, <3>3, <3>4, <3>5, <3>6
  <2>4. CASE f.added = {} /\ f.touched
    <3>1. PICK m : m = [now EXCEPT !.updated = f.cur.updated, !.received = f.cur.received]
      OBVIOUS
    <3>2. /\ m \in Rows /\ SameVersion(m, now) /\ m.fp = now.fp
          /\ m.updated = f.cur.updated /\ m.received = f.cur.received
      BY <2>1, <2>2, <3>1 DEF Rows, SameVersion
    <3>3. PICK k : k = Watermarked(m, now)
      OBVIOUS
    <3>4. /\ k \in Rows /\ SameVersion(k, m) /\ k.fp = m.fp
          /\ k.updated = Greatest(m.updated, now.updated)
          /\ k.received = Greatest(m.received, now.received)
      BY <2>2, <3>2, <3>3, WatermarkedRow DEF SameVersion
    <3>5. n = [k EXCEPT !.fp = IF f.cur.fp # start.fp THEN f.cur.fp ELSE @]
      BY <1>1, <1>6, <2>4, <3>1, <3>3 DEF Written, RaiseWatermark
    <3>6. f.cur.fp \in [alg : {"v0", "v1"}, of : Contents]
      BY <1>4, RowType
    <3>7. /\ n \in Rows /\ SameVersion(n, k) /\ n.updated = k.updated /\ n.received = k.received
          /\ n.fp = IF f.cur.fp # start.fp THEN f.cur.fp ELSE k.fp
      BY <3>4, <3>5, <3>6 DEF Rows, SameVersion
    <3>8. SameVersion(n, now)
      BY <3>2, <3>4, <3>7 DEF SameVersion
    <3>9. n.updated >= now.updated /\ n.received >= now.received
      <4>1. /\ Greatest(f.cur.updated, now.updated) >= now.updated
            /\ Greatest(f.cur.received, now.received) >= now.received
        BY <2>2, GreatestType
      <4>2. /\ n.updated = Greatest(f.cur.updated, now.updated)
            /\ n.received = Greatest(f.cur.received, now.received)
        BY <3>2, <3>4, <3>7
      <4> QED
        BY <4>1, <4>2
    <3>10. n.fp.of = n.content
      <4>1. CASE f.cur.fp # start.fp
        <5>1. SameVersion(now, start)
          BY <1>6, <2>4, <4>1 DEF Conflict, Outlives
        <5>2. f.cur.number = Base(start)
          <6>1. f.cur.number \in Nat /\ Base(start) \in Nat
            BY <1>4, <2>1, RowType DEF Base
          <6>2. Base(start) <= f.cur.number
            BY <1>3, <1>4 DEF FoldedChain
          <6>3. f.cur.number \notin Base(start) + 1 .. f.cur.number
            BY <1>3, <1>4, <2>4 DEF FoldedChain
          <6> QED
            BY <6>1, <6>2, <6>3
        <5>3. f.cur.content = start.content
          BY <1>3, <1>4, <5>2 DEF FoldedChain
        <5> QED
          BY <1>4, <3>7, <3>8, <4>1, <5>1, <5>3 DEF SameVersion
      <4>2. CASE f.cur.fp = start.fp
        BY <2>1, <3>2, <3>4, <3>7, <3>8, <4>2 DEF SameVersion
      <4> QED
        BY <4>1, <4>2
    <3> QED
      BY <1>1, <1>6, <2>1, <2>4, <3>7, <3>8, <3>9, <3>10 DEF SameVersion
  <2>5. CASE f.added = {} /\ ~f.touched
    <3>1. n = now
      BY <1>1, <1>6, <2>5 DEF Written
    <3> QED
      BY <1>1, <1>6, <2>1, <2>2, <2>5, <3>1 DEF SameVersion
  <2> QED
    BY <2>3, <2>4, <2>5
<1> QED
  BY <1>5, <1>6

-----------------------------------------------------------------------------
(* The steps that leave the catalogue alone                                *)

LEMMA InitIInv == Init => IInv
<1> SUFFICES ASSUME Init PROVE IInv
  OBVIOUS
<1>1. PICK old \in SUBSET Identities, c \in Contents :
        /\ row = [x \in Identities |-> IF x \in old THEN Legacy(x, c) ELSE None]
        /\ versions = {FirstVersion(Legacy(x, c)) : x \in old}
        /\ counted = [new |-> Cardinality(old), changed |-> 0, unchanged |-> 0]
  BY DEF Init
<1>2. \A x \in Identities : Legacy(x, c) \in Rows
  BY SizeAssumption DEF Legacy, Rows, ProductIds, VersionIds
<1>3. \A x \in Identities : FirstVersion(Legacy(x, c)) \in VersionRows
  BY <1>2 DEF FirstVersion, Legacy, Rows, VersionRows
<1>4. \A x \in Identities : (row[x] # None <=> x \in old) /\ (x \in old => row[x] = Legacy(x, c))
  BY <1>1, <1>2, RowType
<1>5. IsFiniteSet(old) /\ Cardinality(old) \in Nat
  BY SizeAssumption, FS_Subset, FS_CardinalityType
<1>6. TypeOK
  <2>1. row \in [Identities -> Rows \cup {None}] /\ versions \subseteq VersionRows
    BY <1>1, <1>2, <1>3
  <2>2. counted \in [{"new", "changed", "unchanged"} -> Nat]
    BY <1>1, <1>5
  <2> QED
    BY <2>1, <2>2, SizeAssumption DEF Init, TypeOK
<1>14. ASSUME NEW x \in Identities
      PROVE  LET l == Legacy(x, c)
             IN /\ l.product = <<x, 0>> /\ l.number = 1 /\ l.current = <<<<x, 0>>, 0, 1>>
                /\ l.content = c /\ l.fp.of = c /\ l.updated = 0 /\ l.received = 0
  BY DEF Legacy
<1>7. RowInv
  <2> SUFFICES ASSUME NEW x \in Identities, row[x] # None
               PROVE  row[x].product[1] = x /\ row[x].fp.of = row[x].content
    BY DEF RowInv
  <2>1. row[x] = Legacy(x, c)
    BY <1>4
  <2>2. row[x].product = <<x, 0>> /\ row[x].content = c /\ row[x].fp.of = c
    BY <1>14, <2>1
  <2> QED
    BY <2>2
<1>8. \A v \in versions : \E x \in old :
        /\ v = FirstVersion(Legacy(x, c)) /\ v.product = <<x, 0>> /\ v.number = 1
        /\ v.id = <<<<x, 0>>, 0, 1>> /\ v.content = c
  BY <1>1 DEF FirstVersion, Legacy
<1>9. \A x \in old : /\ row[x].product = <<x, 0>> /\ row[x].number = 1
                     /\ row[x].current = <<<<x, 0>>, 0, 1>> /\ row[x].content = c
                     /\ row[x].updated = 0 /\ row[x].received = 0
  <2> SUFFICES ASSUME NEW x \in old
               PROVE  /\ row[x].product = <<x, 0>> /\ row[x].number = 1
                      /\ row[x].current = <<<<x, 0>>, 0, 1>> /\ row[x].content = c
                      /\ row[x].updated = 0 /\ row[x].received = 0
    OBVIOUS
  <2>1. x \in Identities /\ row[x] = Legacy(x, c)
    BY <1>4
  <2> QED
    BY <1>14, <2>1
<1>10. ChainInv
  <2>1. \A v \in versions : \E x \in Identities : row[x] # None /\ row[x].product = v.product
    BY <1>4, <1>8, <1>9
  <2>2. ASSUME NEW x \in Identities, row[x] # None
        PROVE  ChainOf({v \in versions : v.product = row[x].product}, row[x])
    <3>1. x \in old
      BY <1>4, <2>2
    <3>2. PICK first : first = FirstVersion(Legacy(x, c))
      OBVIOUS
    <3>3. /\ first \in versions /\ first.product = <<x, 0>> /\ first.number = 1
          /\ first.id = <<<<x, 0>>, 0, 1>> /\ first.content = c
      BY <1>1, <3>1, <3>2 DEF FirstVersion, Legacy
    <3>4. {v \in versions : v.product = row[x].product} = {first}
      BY <1>8, <1>9, <3>1, <3>2, <3>3
    <3>5. ChainOf({first}, row[x])
      BY <1>9, <3>1, <3>3 DEF ChainOf
    <3> QED
      BY <3>4, <3>5
  <2> QED
    BY <2>1, <2>2 DEF ChainInv
<1>11. SnapInv
  BY DEF Init, SnapInv
<1>12. CountInv
  <2>1. {x \in Identities : row[x] # None} = old
    BY <1>4
  <2>2. IsFiniteSet(versions) /\ Cardinality(versions) = Cardinality(old)
    <3> DEFINE b == [x \in old |-> FirstVersion(Legacy(x, c))]
    <3>1. b \in Bijection(old, versions)
      <4>1. b \in [old -> versions]
        BY <1>1
      <4>2. \A x, y \in old : b[x] = b[y] => x = y
        BY DEF FirstVersion, Legacy
      <4>3. \A v \in versions : \E x \in old : b[x] = v
        BY <1>8
      <4> HIDE DEF b
      <4> QED
        BY <4>1, <4>2, <4>3 DEF Bijection, Injection, Surjection, IsInjective
    <3>2. ExistsBijection(old, versions)
      BY <3>1 DEF ExistsBijection
    <3> QED
      BY <1>5, <3>2, FS_Bijection
  <2>3. counted.new = Cardinality(old) /\ counted.changed = 0
    BY <1>1
  <2> QED
    BY <1>5, <2>1, <2>2, <2>3 DEF CountInv, CountersMatchRows
<1>13. NewestInv
  <2>1. \A x : Mine(x) = {}
    BY DEF Init, Mine
  <2> QED
    BY <1>4, <1>9, <2>1 DEF NewestInv
<1> QED
  BY <1>6, <1>7, <1>10, <1>11, <1>12, <1>13 DEF IInv

\* The catalogue and its history are as they were, and so is all that is said of them.
LEMMA CatalogueKept ==
  ASSUME IInv, UNCHANGED <<recs, catalogueVars>>
  PROVE  RowInv' /\ ChainInv' /\ CountInv' /\ NewestInv'
<1>1. UNCHANGED <<recs, row, versions, counted, done, outrun>>
  BY DEF catalogueVars
<1>2. RowInv'
  BY <1>1 DEF IInv, RowInv
<1>3. ChainInv'
  BY <1>1 DEF IInv, ChainInv
<1>4. CountInv'
  BY <1>1 DEF IInv, CountInv, CountersMatchRows
<1>5. NewestInv'
  <2>1. \A x : Mine(x)' = Mine(x)
    BY <1>1 DEF Mine
  <2> QED
    BY <1>1, <2>1 DEF IInv, NewestInv
<1> QED
  BY <1>2, <1>3, <1>4, <1>5

\* The snapshots of worker v.
SnapOK(v) ==
  pc[v] = "write" =>
    /\ snap[v] \in [Touched(page[v]) -> Rows \cup {None}]
    /\ \A x \in Touched(page[v]) : snap[v][x] # None =>
         /\ row[x] # None /\ row[x].product = snap[v][x].product
         /\ snap[v][x].fp.of = snap[v][x].content
         /\ \E u \in versions : /\ u.id = snap[v][x].current /\ u.product = snap[v][x].product
                                /\ u.number = snap[v][x].number
                                /\ u.content = snap[v][x].content

LEMMA SnapsOK == IInv => \A v \in Workers : SnapOK(v)
BY DEF IInv, TypeOK, SnapInv, SnapOK

LEMMA TouchedType ==
  ASSUME recs \in [Ids -> RawRecords], NEW S \in SUBSET Ids
  PROVE  Touched(S) \in SUBSET Identities
BY RecordType DEF Touched

\* A worker whose own variables stay, beside rows that keep their product and versions
\* that stay.
LEMMA SnapKept ==
  ASSUME recs' = recs, NEW v, SnapOK(v), recs \in [Ids -> RawRecords], page[v] \in SUBSET Ids,
         pc'[v] = pc[v], page'[v] = page[v], snap'[v] = snap[v], versions \subseteq versions',
         \A x \in Identities : row[x] # None => row'[x] # None /\ row'[x].product = row[x].product
  PROVE  SnapOK(v)'
<1> SUFFICES ASSUME pc[v] = "write" PROVE SnapOK(v)'
  BY DEF SnapOK
<1>1. PICK T : T = Touched(page[v])
  OBVIOUS
<1>2. Touched(page[v])' = T /\ T \in SUBSET Identities
  BY <1>1, TouchedType DEF Touched
<1>3. PICK g : g = snap[v]
  OBVIOUS
<1>4. /\ g \in [T -> Rows \cup {None}]
      /\ \A x \in T : g[x] # None =>
           /\ row[x] # None /\ row[x].product = g[x].product /\ g[x].fp.of = g[x].content
           /\ \E u \in versions : /\ u.id = g[x].current /\ u.product = g[x].product
                                  /\ u.number = g[x].number /\ u.content = g[x].content
  BY <1>1, <1>3 DEF SnapOK
<1>5. \A x \in T : g[x] # None =>
        /\ row'[x] # None /\ row'[x].product = g[x].product /\ g[x].fp.of = g[x].content
        /\ \E u \in versions' : /\ u.id = g[x].current /\ u.product = g[x].product
                                /\ u.number = g[x].number /\ u.content = g[x].content
  BY <1>2, <1>4
<1> QED
  BY <1>2, <1>3, <1>4, <1>5 DEF SnapOK

\* Together with the rest of the types.
LEMMA SnapsGiveInv ==
  ASSUME \A v \in Workers : SnapOK(v)'
  PROVE  /\ SnapInv'
         /\ (\A v \in Workers : pc[v] = "write" =>
               snap[v] \in [Touched(page[v]) -> Rows \cup {None}])'
BY DEF SnapInv, SnapOK

LEMMA StartStep ==
  ASSUME IInv, NEW w \in Workers, NEW S \in SUBSET Ids, StartPage(w, S)
  PROVE  IInv'
<1>1. /\ pages' = pages + 1 /\ pages < MaxPages
      /\ page' = [page EXCEPT ![w] = S]
      /\ serial' = [serial EXCEPT ![w] = pages + 1]
      /\ pc' = [pc EXCEPT ![w] = "read"]
      /\ UNCHANGED <<recs, catalogueVars, snap, tries>>
  BY DEF StartPage
<1>2. RowInv' /\ ChainInv' /\ CountInv' /\ NewestInv'
  BY <1>1, CatalogueKept
<1>3. UNCHANGED <<recs, row, versions, counted, done, outrun, snap, tries>>
  BY <1>1 DEF catalogueVars
<1>4. TypeOK
  BY DEF IInv
<1>5. /\ \A v \in Workers : page[v] \in SUBSET Ids
      /\ recs \in [Ids -> RawRecords]
  BY <1>4 DEF TypeOK
<1>6. pc'[w] = "read" /\ \A v \in Workers \ {w} : pc'[v] = pc[v] /\ page'[v] = page[v]
  BY <1>1, <1>4 DEF TypeOK
<1>7. ASSUME NEW v \in Workers PROVE SnapOK(v)'
  <2>1. CASE v = w
    BY <1>6, <2>1 DEF SnapOK
  <2>2. CASE v # w
    <3>1. SnapOK(v)
      BY SnapsOK
    <3> QED
      BY <1>3, <1>5, <1>6, <2>2, <3>1, SnapKept
  <2> QED
    BY <2>1, <2>2
<1>8. pages + 1 \in 0 .. MaxPages
  BY <1>1, <1>4, SizeAssumption DEF TypeOK
<1>9. TypeOK'
  <2>1. /\ page' \in [Workers -> SUBSET Ids] /\ pc' \in [Workers -> {"idle", "read", "write"}]
        /\ serial' \in [Workers -> 0 .. MaxPages] /\ pages' \in 0 .. MaxPages
    BY <1>1, <1>4, <1>8 DEF TypeOK
  <2> QED
    BY <1>3, <1>4, <1>7, <2>1, SnapsGiveInv DEF TypeOK
<1> QED
  BY <1>2, <1>7, <1>9, SnapsGiveInv DEF IInv

LEMMA ReadStep ==
  ASSUME IInv, NEW w \in Workers, ReadSnapshots(w)
  PROVE  IInv'
<1>1. /\ snap' = [snap EXCEPT ![w] = [x \in Touched(page[w]) |-> row[x]]]
      /\ pc' = [pc EXCEPT ![w] = "write"]
      /\ UNCHANGED <<recs, catalogueVars, page, serial, tries, pages>>
  BY DEF ReadSnapshots
<1>2. RowInv' /\ ChainInv' /\ CountInv' /\ NewestInv'
  BY <1>1, CatalogueKept
<1>3. UNCHANGED <<recs, row, versions, counted, done, outrun, page, serial, tries, pages>>
  BY <1>1 DEF catalogueVars
<1>4. TypeOK
  BY DEF IInv
<1>5. /\ \A v \in Workers : page[v] \in SUBSET Ids
      /\ recs \in [Ids -> RawRecords] /\ row \in [Identities -> Rows \cup {None}]
      /\ DOMAIN snap = Workers
  BY <1>4 DEF TypeOK
<1>6. /\ snap'[w] = [x \in Touched(page[w]) |-> row[x]] /\ DOMAIN snap' = Workers
      /\ \A v \in Workers \ {w} : pc'[v] = pc[v] /\ snap'[v] = snap[v]
  BY <1>1, <1>4 DEF TypeOK
<1>7. ASSUME NEW v \in Workers PROVE SnapOK(v)'
  <2>1. CASE v = w
    <3>1. PICK T : T = Touched(page[w])
      OBVIOUS
    <3>2. Touched(page[w])' = T /\ T \in SUBSET Identities
      BY <1>3, <1>5, <3>1, TouchedType DEF Touched
    <3>3. PICK g : g = [x \in T |-> row[x]] /\ g = snap'[w]
      BY <1>6, <3>1
    <3>4. g \in [T -> Rows \cup {None}]
      BY <1>5, <3>2, <3>3
    <3>5. ASSUME NEW x \in T, g[x] # None
          PROVE  /\ row[x] # None /\ row[x].product = g[x].product /\ g[x].fp.of = g[x].content
                 /\ \E u \in versions : /\ u.id = g[x].current /\ u.product = g[x].product
                                        /\ u.number = g[x].number /\ u.content = g[x].content
      <4>1. x \in Identities /\ g[x] = row[x] /\ row[x] \in Rows
        BY <1>5, <3>2, <3>3, <3>5
      <4>2. row[x].number \in 1 .. row[x].number
        BY <4>1, RowType
      <4>3. ChainOf({z \in versions : z.product = row[x].product}, row[x])
        BY <3>5, <4>1 DEF IInv, ChainInv
      <4>4. PICK u \in versions : u.product = row[x].product /\ u.number = row[x].number
        BY <4>2, <4>3 DEF ChainOf
      <4>5. u.id = row[x].current /\ u.content = row[x].content
        BY <4>3, <4>4 DEF ChainOf
      <4> QED
        BY <3>5, <4>1, <4>4, <4>5 DEF IInv, RowInv
    <3> QED
      BY <1>3, <2>1, <3>2, <3>3, <3>4, <3>5 DEF SnapOK
  <2>2. CASE v # w
    <3>1. SnapOK(v)
      BY SnapsOK
    <3> QED
      BY <1>3, <1>5, <1>6, <2>2, <3>1, SnapKept
  <2> QED
    BY <2>1, <2>2
<1>8. TypeOK'
  <2>1. pc' \in [Workers -> {"idle", "read", "write"}]
    BY <1>1, <1>4 DEF TypeOK
  <2> QED
    BY <1>3, <1>4, <1>6, <1>7, <2>1, SnapsGiveInv DEF TypeOK
<1> QED
  BY <1>2, <1>7, <1>8, SnapsGiveInv DEF IInv

\* A worker that leaves its page, or reads it again, has no snapshot to speak of.
LEMMA DroppedSnapshot ==
  ASSUME IInv, NEW w \in Workers, LeavePage(w) \/ (/\ tries' = [tries EXCEPT ![w] = 1]
                                                  /\ pc' = [pc EXCEPT ![w] = "read"]
                                                  /\ snap' = [snap EXCEPT ![w] = <<>>]
                                                  /\ UNCHANGED <<page, serial>>)
  PROVE  /\ pc' \in [Workers -> {"idle", "read", "write"}] /\ page' \in [Workers -> SUBSET Ids]
         /\ serial' \in [Workers -> 0 .. MaxPages] /\ tries' \in [Workers -> 0 .. 1]
         /\ DOMAIN snap' = Workers /\ pc'[w] # "write"
         /\ \A v \in Workers \ {w} : pc'[v] = pc[v] /\ page'[v] = page[v] /\ snap'[v] = snap[v]
<1>1. 0 \in 0 .. MaxPages
  BY SizeAssumption
<1>2. CASE LeavePage(w)
  <2>1. /\ pc' = [pc EXCEPT ![w] = "idle"] /\ page' = [page EXCEPT ![w] = {}]
        /\ serial' = [serial EXCEPT ![w] = 0] /\ snap' = [snap EXCEPT ![w] = <<>>]
        /\ tries' = [tries EXCEPT ![w] = 0]
    BY <1>2 DEF LeavePage
  <2> QED
    BY <1>1, <2>1 DEF IInv, TypeOK
<1>3. CASE /\ tries' = [tries EXCEPT ![w] = 1] /\ pc' = [pc EXCEPT ![w] = "read"]
           /\ snap' = [snap EXCEPT ![w] = <<>>] /\ UNCHANGED <<page, serial>>
  BY <1>3 DEF IInv, TypeOK
<1> QED
  BY <1>2, <1>3

LEMMA RollbackStep ==
  ASSUME IInv, NEW w \in Workers, PageConflict(w) \/ PageAborted(w)
  PROVE  IInv'
<1>1. /\ LeavePage(w) \/ (/\ tries' = [tries EXCEPT ![w] = 1]
                          /\ pc' = [pc EXCEPT ![w] = "read"]
                          /\ snap' = [snap EXCEPT ![w] = <<>>]
                          /\ UNCHANGED <<page, serial>>)
      /\ UNCHANGED <<recs, catalogueVars, pages>>
  BY DEF PageConflict, PageAborted
<1>2. RowInv' /\ ChainInv' /\ CountInv' /\ NewestInv'
  BY <1>1, CatalogueKept
<1>3. UNCHANGED <<recs, row, versions, counted, done, outrun, pages>>
  BY <1>1 DEF catalogueVars
<1>4. /\ pc' \in [Workers -> {"idle", "read", "write"}] /\ page' \in [Workers -> SUBSET Ids]
      /\ serial' \in [Workers -> 0 .. MaxPages] /\ tries' \in [Workers -> 0 .. 1]
      /\ DOMAIN snap' = Workers /\ pc'[w] # "write"
      /\ \A v \in Workers \ {w} : pc'[v] = pc[v] /\ page'[v] = page[v] /\ snap'[v] = snap[v]
  BY <1>1, DroppedSnapshot
<1>5. /\ \A v \in Workers : page[v] \in SUBSET Ids
      /\ recs \in [Ids -> RawRecords]
  BY DEF IInv, TypeOK
<1>6. ASSUME NEW v \in Workers PROVE SnapOK(v)'
  <2>1. CASE v = w
    BY <1>4, <2>1 DEF SnapOK
  <2>2. CASE v # w
    <3>1. SnapOK(v)
      BY SnapsOK
    <3> QED
      BY <1>3, <1>4, <1>5, <2>2, <3>1, SnapKept
  <2> QED
    BY <2>1, <2>2
<1>7. TypeOK'
  BY <1>3, <1>4, <1>6, SnapsGiveInv DEF IInv, TypeOK
<1> QED
  BY <1>2, <1>6, <1>7, SnapsGiveInv DEF IInv

-----------------------------------------------------------------------------
(* CommitPage                                                              *)

\* A row with the current version that was read is at the version that was read.
LEMMA SnapOutlives ==
  ASSUME IInv, NEW w \in Workers, pc[w] = "write", NEW x \in Touched(page[w])
  PROVE  /\ x \in Identities /\ snap[w][x] \in Rows \cup {None} /\ row[x] \in Rows \cup {None}
         /\ snap[w][x] # None => snap[w][x].fp.of = snap[w][x].content
         /\ Outlives(row[x], snap[w][x])
<1>1. /\ page[w] \in SUBSET Ids /\ recs \in [Ids -> RawRecords]
      /\ snap[w] \in [Touched(page[w]) -> Rows \cup {None}]
      /\ row \in [Identities -> Rows \cup {None}] /\ versions \subseteq VersionRows
  BY DEF IInv, TypeOK
<1>2. x \in Identities
  BY <1>1, TouchedType
<1>3. PICK start, now : start = snap[w][x] /\ now = row[x]
  OBVIOUS
<1>4. start \in Rows \cup {None} /\ now \in Rows \cup {None}
  BY <1>1, <1>2, <1>3
<1>5. now # None => now.fp.of = now.content
  BY <1>2, <1>3 DEF IInv, RowInv
<1>6. ASSUME start # None
      PROVE  /\ now # None /\ now.product = start.product /\ start.fp.of = start.content
             /\ now.current = start.current => SameVersion(now, start)
  <2>1. PICK u \in versions : /\ u.id = start.current /\ u.product = start.product
                              /\ u.number = start.number /\ u.content = start.content
    BY <1>3, <1>6 DEF IInv, SnapInv
  <2>2. now # None /\ now \in Rows /\ now.product = start.product /\ start.fp.of = start.content
    BY <1>3, <1>4, <1>6 DEF IInv, SnapInv
  <2>3. ChainOf({v \in versions : v.product = now.product}, now)
    BY <1>2, <1>3, <2>2 DEF IInv, ChainInv
  <2>4. now.number \in 1 .. now.number
    BY <2>2, RowType
  <2>5. PICK v \in versions : v.product = now.product /\ v.number = now.number
    BY <2>3, <2>4 DEF ChainOf
  <2>6. v.id = now.current /\ v.content = now.content /\ v.id[3] = v.number
    BY <2>3, <2>5 DEF ChainOf
  <2>7. u.id[3] = u.number
    BY <2>1, <2>2, <2>3 DEF ChainOf
  <2>8. ASSUME now.current = start.current PROVE SameVersion(now, start)
    <3>1. u.number = v.number
      BY <2>1, <2>6, <2>7, <2>8
    <3>2. u = v
      BY <2>1, <2>2, <2>3, <2>5, <3>1 DEF ChainOf
    <3> QED
      BY <2>1, <2>2, <2>5, <2>6, <2>8, <3>2 DEF SameVersion
  <2> QED
    BY <2>2, <2>8
<1> QED
  BY <1>2, <1>3, <1>4, <1>5, <1>6 DEF Outlives

\* What the transaction of worker w writes for identity x.
Commits(w, x) ==
  LET start == snap[w][x]
      f == Plan(w)[x]
      s == {i \in page[w] : recs[i].identity = x}
  IN /\ x \in Identities /\ start \in Rows \cup {None} /\ row[x] \in Rows \cup {None}
     /\ f \in Folds /\ s # {} /\ f = Fold(x, page[w], start, serial[w])
     /\ start # None => start.fp.of = start.content
     /\ Folded(x, serial[w], start, s, f)
     /\ Outlives(row[x], start) /\ ~Conflict(start, f, row[x])
     /\ row'[x] = Written(start, f, row[x])

LEMMA CommitWrites ==
  ASSUME IInv, NEW w \in Workers, CommitPage(w)
  PROVE  /\ \A x \in Touched(page[w]) : Commits(w, x)
         /\ \A x \in Identities \ Touched(page[w]) : row'[x] = row[x]
         /\ DOMAIN Plan(w) = Touched(page[w]) /\ Touched(page[w]) \in SUBSET Identities
         /\ row' = [x \in Identities |-> row'[x]]
<1>1. PICK D : D = Touched(page[w])
  OBVIOUS
<1>2. /\ recs \in [Ids -> RawRecords] /\ page[w] \in SUBSET Ids /\ serial[w] \in 0 .. MaxPages
  BY DEF IInv, TypeOK
<1>3. D \in SUBSET Identities
  BY <1>1, <1>2, TouchedType
<1>4. /\ DOMAIN Plan(w) = D
      /\ \A x \in D : Plan(w)[x] = Fold(x, page[w], snap[w][x], serial[w])
  BY <1>1 DEF Plan
<1>5. PICK plan : plan = Plan(w)
  OBVIOUS
<1>6. /\ pc[w] = "write" /\ ~Conflicts(w)
      /\ row' = [x \in Identities |->
                   IF x \in DOMAIN plan THEN Written(snap[w][x], plan[x], row[x]) ELSE row[x]]
  BY <1>5 DEF CommitPage
<1>7. /\ \A x \in D : row'[x] = Written(snap[w][x], plan[x], row[x])
      /\ \A x \in Identities \ D : row'[x] = row[x]
      /\ row' = [x \in Identities |-> row'[x]]
  BY <1>3, <1>4, <1>5, <1>6
<1>8. \A x \in D : ~Conflict(snap[w][x], plan[x], row[x])
  BY <1>1, <1>5, <1>6 DEF Conflicts
<1>9. ASSUME NEW x \in D PROVE Commits(w, x)
  <2>1. PICK start, f, s : /\ start = snap[w][x] /\ f = plan[x]
                           /\ s = {i \in page[w] : recs[i].identity = x}
    OBVIOUS
  <2>2. /\ x \in Identities /\ start \in Rows \cup {None} /\ row[x] \in Rows \cup {None}
        /\ start # None => start.fp.of = start.content
        /\ Outlives(row[x], start)
    BY <1>1, <1>6, <2>1, SnapOutlives
  <2>3. s # {}
    BY <1>1, <2>1 DEF Touched
  <2>4. f = Fold(x, page[w], start, serial[w])
    BY <1>4, <1>5, <2>1
  <2>5. f \in Folds /\ Folded(x, serial[w], start, s, f)
    BY <1>2, <2>1, <2>2, <2>4, FoldResult
  <2>6. row'[x] = Written(start, f, row[x]) /\ ~Conflict(start, f, row[x])
    BY <1>7, <1>8, <2>1
  <2> QED
    BY <1>5, <2>1, <2>2, <2>3, <2>4, <2>5, <2>6 DEF Commits
<1> QED
  BY <1>1, <1>3, <1>4, <1>7, <1>9

\* WrittenRow, of what is committed.
LEMMA CommittedRow ==
  ASSUME NEW w, NEW x, Commits(w, x)
  PROVE  LET start == snap[w][x]
             f == Plan(w)[x]
         IN /\ row'[x] \in Rows /\ row'[x].fp.of = row'[x].content
            /\ start = None <=> row[x] = None
            /\ f.added = {} => SameVersion(row'[x], row[x])
            /\ f.added # {} => /\ SameVersion(row'[x], f.cur)
                               /\ start # None => SameVersion(row[x], start)
            /\ row[x] # None => /\ row'[x].product = row[x].product
                                /\ row'[x].updated >= row[x].updated
                                /\ row'[x].received >= row[x].received
<1>1. PICK start, f, s, now, n : /\ start = snap[w][x] /\ f = Plan(w)[x] /\ now = row[x]
                                 /\ s = {i \in page[w] : recs[i].identity = x}
                                 /\ n = row'[x]
  OBVIOUS
<1>2. /\ start \in Rows \cup {None} /\ now \in Rows \cup {None}
      /\ f \in Folds /\ s # {} /\ Folded(x, serial[w], start, s, f)
      /\ Outlives(now, start) /\ ~Conflict(start, f, now)
      /\ n = Written(start, f, now)
  BY <1>1 DEF Commits
<1>3. PICK no : no = serial[w]
  OBVIOUS
<1>4. /\ n \in Rows /\ n.fp.of = n.content
      /\ start = None <=> now = None
      /\ f.added = {} => SameVersion(n, now)
      /\ f.added # {} => /\ SameVersion(n, f.cur)
                         /\ start # None => SameVersion(now, start)
      /\ now # None => /\ n.product = now.product
                       /\ n.updated >= now.updated /\ n.received >= now.received
  BY <1>2, <1>3, WrittenRow
<1> QED
  BY <1>1, <1>4

\* Rows stay, with their product; watermarks rise.
LEMMA CommitKeepsRows ==
  ASSUME IInv, NEW w \in Workers, CommitPage(w), NEW x \in Identities, row[x] # None
  PROVE  /\ row'[x] # None /\ row'[x].product = row[x].product
         /\ row'[x].updated >= row[x].updated /\ row'[x].received >= row[x].received
<1>1. row[x] \in Rows
  BY DEF IInv, TypeOK
<1>2. CASE x \in Touched(page[w])
  <2>1. Commits(w, x)
    BY <1>2, CommitWrites
  <2>2. /\ row'[x] \in Rows /\ row'[x].product = row[x].product
        /\ row'[x].updated >= row[x].updated /\ row'[x].received >= row[x].received
    BY <2>1, CommittedRow
  <2> QED
    BY <2>2, RowType
<1>3. CASE x \notin Touched(page[w])
  <2>1. row'[x] = row[x]
    BY <1>3, CommitWrites
  <2>2. row[x].updated \in Nat /\ row[x].received \in Nat
    BY <1>1, RowType
  <2> QED
    BY <2>1, <2>2
<1> QED
  BY <1>2, <1>3

\* The versions of a fold continue the chain of the row that it started from.
LEMMA ChainExtends ==
  ASSUME NEW start \in Rows \cup {None}, NEW now \in Rows \cup {None}, NEW n \in Rows,
         NEW f \in Folds, NEW x, NEW no, NEW s, Folded(x, no, start, s, f), f.added # {},
         SameVersion(n, f.cur), NEW V \in SUBSET VersionRows,
         start = None => V = {},
         start # None => now # None /\ SameVersion(now, start) /\ ChainOf(V, now)
  PROVE  ChainOf(V \cup f.added, n)
<1>1. FoldedRow(x, no, start, s, f) /\ FoldedChain(start, no, f)
  BY DEF Folded
<1>2. f.cur # None /\ f.cur \in Rows /\ f.added \in SUBSET VersionRows
  BY <1>1 DEF FoldedChain, Folds
<1>3. /\ n.number \in Nat /\ f.cur.number = n.number /\ f.cur.product = n.product
      /\ f.cur.current = n.current /\ f.cur.content = n.content
  BY RowType DEF SameVersion
<1>4. PICK b \in Nat : b = Base(start)
  BY RowType DEF Base
<1>5. \A v \in V \cup f.added : v.number \in Nat \ {0}
  BY <1>2 DEF VersionRows
<1>6. \A v \in f.added :
        /\ v.product = n.product /\ v.id = <<v.product, no, v.number>>
        /\ b < v.number /\ v.number <= n.number
        /\ v.number = n.number => v.id = n.current /\ v.content = n.content
        /\ start # None /\ v.number = start.number + 1 =>
             v.from = start.current /\ v.content # start.content
  BY <1>1, <1>3, <1>4 DEF FoldedChain
<1>7. \A v \in V : /\ start # None /\ start.number = b
                   /\ v.id[1] = v.product /\ v.id[3] = v.number
                   /\ v.product = start.product /\ v.number <= b
                   /\ v.number = b => v.id = start.current /\ v.content = start.content
  BY <1>4 DEF ChainOf, SameVersion, Base
<1>8. start # None => n.product = start.product
  BY <1>1, <1>2, <1>3 DEF FoldedRow
<1>9. b <= n.number
  BY <1>1, <1>2, <1>3, <1>4 DEF FoldedChain
<1>10. b # n.number
  <2>1. PICK v \in f.added : TRUE
    OBVIOUS
  <2> QED
    BY <1>3, <1>5, <1>6, <2>1
<1>11. ASSUME NEW v \in V \cup f.added
       PROVE  /\ v.id[1] = v.product /\ v.id[3] = v.number
              /\ v.product = n.product /\ v.number <= n.number
              /\ v.number = n.number => v.id = n.current /\ v.content = n.content
  <2>1. CASE v \in V
    BY <1>3, <1>5, <1>7, <1>8, <1>9, <1>10, <2>1
  <2>2. CASE v \in f.added
    BY <1>6, <2>2
  <2> QED
    BY <2>1, <2>2
<1>12. ASSUME NEW u \in V \cup f.added, NEW v \in V \cup f.added, u.number = v.number
       PROVE  u = v
  <2>1. \A a \in V, c \in f.added : a.number # c.number
    BY <1>5, <1>6, <1>7
  <2>2. CASE u \in V /\ v \in V
    BY <1>7, <1>12, <2>2 DEF ChainOf
  <2>3. CASE u \in f.added /\ v \in f.added
    BY <1>1, <1>12, <2>3 DEF FoldedChain
  <2> QED
    BY <1>12, <2>1, <2>2, <2>3
<1>13. ASSUME NEW u \in V \cup f.added, NEW v \in V \cup f.added, v.number = u.number + 1
       PROVE  v.from = u.id /\ v.content # u.content
  <2>1. CASE u \in V /\ v \in V
    BY <1>7, <1>13, <2>1 DEF ChainOf
  <2>2. CASE u \in f.added /\ v \in f.added
    BY <1>1, <1>13, <2>2 DEF FoldedChain
  <2>3. CASE u \in V /\ v \in f.added
    <3>1. u.number = b /\ v.number = b + 1
      BY <1>5, <1>6, <1>7, <1>13, <2>3
    <3> QED
      BY <1>6, <1>7, <2>3, <3>1
  <2>4. CASE u \in f.added /\ v \in V
    BY <1>5, <1>6, <1>7, <1>13, <2>4
  <2> QED
    BY <2>1, <2>2, <2>3, <2>4
<1>14. ASSUME NEW k \in 1 .. n.number PROVE \E v \in V \cup f.added : v.number = k
  <2>1. CASE k <= b
    <3>1. start # None /\ now.number = b
      BY <1>4, <2>1 DEF Base, SameVersion
    <3>2. k \in 1 .. now.number
      BY <2>1, <3>1
    <3> QED
      BY <3>1, <3>2 DEF ChainOf
  <2>2. CASE k > b
    <3>1. k \in b + 1 .. n.number
      BY <1>3, <2>2
    <3> QED
      BY <1>1, <1>2, <1>3, <1>4, <3>1 DEF FoldedChain
  <2> QED
    BY <2>1, <2>2
<1> QED
  BY <1>11, <1>12, <1>13, <1>14 DEF ChainOf

\* The versions that the transaction of worker w inserts.
Inserted(w) == UNION {Plan(w)[x].added : x \in Touched(page[w])}

LEMMA InsertedVersions ==
  ASSUME IInv, NEW w \in Workers, CommitPage(w)
  PROVE  /\ versions' = versions \cup Inserted(w) /\ Inserted(w) \subseteq VersionRows
         /\ \A x \in Touched(page[w]) : \A v \in Plan(w)[x].added :
              row'[x] # None /\ v.product = row'[x].product /\ v.product[1] = x
<1>1. DOMAIN Plan(w) = Touched(page[w])
  BY CommitWrites
<1>2. versions' = versions \cup Inserted(w)
  BY <1>1 DEF CommitPage, Inserted
<1>3. ASSUME NEW x \in Touched(page[w])
      PROVE  /\ Plan(w)[x].added \in SUBSET VersionRows
             /\ \A v \in Plan(w)[x].added :
                  row'[x] # None /\ v.product = row'[x].product /\ v.product[1] = x
  <2>1. PICK f, start, n, no, s : /\ f = Plan(w)[x] /\ start = snap[w][x] /\ n = row'[x]
                                  /\ no = serial[w]
                                  /\ s = {i \in page[w] : recs[i].identity = x}
    OBVIOUS
  <2>2. Commits(w, x)
    BY CommitWrites
  <2>3. f \in Folds /\ Folded(x, no, start, s, f) /\ x \in Identities
    BY <2>1, <2>2 DEF Commits
  <2>4. n \in Rows /\ n # None /\ (f.added # {} => SameVersion(n, f.cur))
    BY <2>1, <2>2, CommittedRow, RowType
  <2>5. f.added \in SUBSET VersionRows
    BY <2>3 DEF Folds
  <2>6. ASSUME NEW v \in f.added PROVE v.product = n.product /\ v.product[1] = x
    <3>1. v.product = f.cur.product /\ f.cur # None
      BY <2>3 DEF Folded, FoldedChain
    <3>2. n.product = f.cur.product
      BY <2>4 DEF SameVersion
    <3>3. CASE start = None
      <4>1. f.cur.product = <<x, no>>
        BY <2>3, <3>1, <3>3 DEF Folded, FoldedRow
      <4> QED
        BY <3>1, <3>2, <4>1
    <3>4. CASE start # None
      <4>1. f.cur.product = start.product
        BY <2>3, <3>1, <3>4 DEF Folded, FoldedRow
      <4>2. row[x] # None /\ row[x].product = start.product
        BY <2>1, <2>2, <3>4 DEF Commits, Outlives
      <4>3. row[x].product[1] = x
        BY <2>3, <4>2 DEF IInv, RowInv
      <4> QED
        BY <3>1, <3>2, <4>1, <4>2, <4>3
    <3> QED
      BY <3>1, <3>2, <3>3, <3>4
  <2> QED
    BY <2>1, <2>4, <2>5, <2>6
<1>4. Inserted(w) \subseteq VersionRows
  BY <1>3 DEF Inserted
<1> QED
  BY <1>2, <1>3, <1>4

LEMMA CommitRowInv ==
  ASSUME IInv, NEW w \in Workers, CommitPage(w)
  PROVE  RowInv' /\ row' \in [Identities -> Rows \cup {None}]
<1>1. ASSUME NEW x \in Identities
      PROVE  /\ row'[x] \in Rows \cup {None}
             /\ row'[x] # None => row'[x].product[1] = x /\ row'[x].fp.of = row'[x].content
  <2>1. row[x] \in Rows \cup {None}
    BY DEF IInv, TypeOK
  <2>2. CASE x \notin Touched(page[w])
    <3>1. row'[x] = row[x]
      BY <2>2, CommitWrites
    <3> QED
      BY <2>1, <3>1 DEF IInv, RowInv
  <2>3. CASE x \in Touched(page[w])
    <3>1. Commits(w, x)
      BY <2>3, CommitWrites
    <3>2. row'[x] \in Rows /\ row'[x].fp.of = row'[x].content
      BY <3>1, CommittedRow
    <3>3. CASE row[x] # None
      <4>1. row'[x].product = row[x].product
        BY <3>3, CommitKeepsRows
      <4>2. row[x].product[1] = x
        BY <3>3 DEF IInv, RowInv
      <4> QED
        BY <3>2, <4>1, <4>2
    <3>4. CASE row[x] = None
      <4>1. SameVersion(row'[x], Plan(w)[x].cur) /\ snap[w][x] = None
        <5>1. row'[x] = Written(snap[w][x], Plan(w)[x], row[x]) /\ snap[w][x] = None
          BY <3>1, <3>4, CommittedRow DEF Commits
        <5> QED
          BY <5>1 DEF Written, SameVersion
      <4>2. Plan(w)[x].cur # None /\ Plan(w)[x].cur.product = <<x, serial[w]>>
        BY <3>1, <4>1 DEF Commits, Folded, FoldedRow
      <4> QED
        BY <3>2, <4>1, <4>2 DEF SameVersion
    <3> QED
      BY <3>3, <3>4
  <2> QED
    BY <2>2, <2>3
<1>2. row' \in [Identities -> Rows \cup {None}]
  BY <1>1, CommitWrites
<1> QED
  BY <1>1, <1>2 DEF RowInv

LEMMA CommitChainInv ==
  ASSUME IInv, NEW w \in Workers, CommitPage(w)
  PROVE  ChainInv'
<1>1. /\ versions' = versions \cup Inserted(w)
      /\ \A x \in Touched(page[w]) : \A v \in Plan(w)[x].added :
           row'[x] # None /\ v.product = row'[x].product /\ v.product[1] = x
  BY InsertedVersions
<1>2. /\ Touched(page[w]) \in SUBSET Identities
      /\ \A x \in Touched(page[w]) : Commits(w, x)
      /\ \A x \in Identities \ Touched(page[w]) : row'[x] = row[x]
  BY CommitWrites
<1>3. RowInv' /\ row' \in [Identities -> Rows \cup {None}]
  BY CommitRowInv
<1>4. ASSUME NEW v \in versions'
      PROVE  \E x \in Identities : row'[x] # None /\ row'[x].product = v.product
  <2>1. CASE v \in versions
    <3>1. PICK x \in Identities : row[x] # None /\ row[x].product = v.product
      BY <2>1 DEF IInv, ChainInv
    <3>2. row'[x] # None /\ row'[x].product = row[x].product
      BY <3>1, CommitKeepsRows
    <3> QED
      BY <3>1, <3>2
  <2>2. CASE v \in Inserted(w)
    BY <1>1, <1>2, <2>2 DEF Inserted
  <2> QED
    BY <1>1, <2>1, <2>2
<1>5. ASSUME NEW x \in Identities, row'[x] # None
      PROVE  ChainOf({v \in versions' : v.product = row'[x].product}, row'[x])
  <2>1. PICK n, p : n = row'[x] /\ p = row'[x].product
    OBVIOUS
  <2>2. p[1] = x /\ n \in Rows /\ n # None /\ n.product = p
    BY <1>3, <1>5, <2>1 DEF RowInv
  <2>3. PICK V : V = {v \in versions : v.product = p}
    OBVIOUS
  <2>4. V \in SUBSET VersionRows
    BY <2>3 DEF IInv, TypeOK
  <2>5. row[x] = None => V = {}
    <3> SUFFICES ASSUME row[x] = None, NEW v \in V PROVE FALSE
      OBVIOUS
    <3>1. PICK y \in Identities : row[y] # None /\ row[y].product = v.product
      BY <2>3 DEF IInv, ChainInv
    <3>2. row[y].product[1] = y
      BY <3>1 DEF IInv, RowInv
    <3>3. y = x
      BY <2>2, <2>3, <3>1, <3>2
    <3> QED
      BY <3>1, <3>3
  <2>6. row[x] # None => row[x].product = p /\ ChainOf(V, row[x])
    <3> SUFFICES ASSUME row[x] # None PROVE row[x].product = p /\ ChainOf(V, row[x])
      OBVIOUS
    <3>1. row'[x].product = row[x].product
      BY CommitKeepsRows
    <3>2. ChainOf({v \in versions : v.product = row[x].product}, row[x])
      BY DEF IInv, ChainInv
    <3> QED
      BY <2>1, <2>3, <3>1, <3>2
  <2>7. CASE x \notin Touched(page[w])
    <3>1. row[x] = n
      BY <1>2, <2>1, <2>7
    <3>2. \A v \in Inserted(w) : v.product # p
      BY <1>1, <2>2, <2>7 DEF Inserted
    <3>3. {v \in versions' : v.product = p} = V
      BY <1>1, <2>3, <3>2
    <3> QED
      BY <2>1, <2>2, <2>6, <3>1, <3>3
  <2>8. CASE x \in Touched(page[w])
    <3>1. PICK f, start, now, no, s :
            /\ f = Plan(w)[x] /\ start = snap[w][x] /\ now = row[x] /\ no = serial[w]
            /\ s = {i \in page[w] : recs[i].identity = x}
      OBVIOUS
    <3>2. Commits(w, x)
      BY <1>2, <2>8
    <3>3. /\ start \in Rows \cup {None} /\ now \in Rows \cup {None} /\ f \in Folds
          /\ Folded(x, no, start, s, f)
      BY <3>1, <3>2 DEF Commits
    <3>4. /\ start = None <=> now = None
          /\ f.added = {} => SameVersion(n, now)
          /\ f.added # {} => SameVersion(n, f.cur) /\ (start # None => SameVersion(now, start))
      BY <2>1, <3>1, <3>2, CommittedRow
    <3>5. {v \in versions' : v.product = p} = V \cup f.added
      <4>1. \A v \in f.added : v \in versions' /\ v.product = p
        BY <1>1, <2>1, <2>8, <3>1 DEF Inserted
      <4>2. \A v \in Inserted(w) : v.product = p => v \in f.added
        <5> SUFFICES ASSUME NEW v \in Inserted(w), v.product = p PROVE v \in f.added
          OBVIOUS
        <5>1. PICK y \in Touched(page[w]) : v \in Plan(w)[y].added
          BY DEF Inserted
        <5>2. v.product[1] = y
          BY <1>1, <5>1
        <5> QED
          BY <2>2, <3>1, <5>1, <5>2
      <4> QED
        BY <1>1, <2>3, <4>1, <4>2
    <3>6. CASE f.added # {}
      <4>1. ChainOf(V \cup f.added, n)
        <5>1. start = None => V = {}
          BY <2>5, <3>1, <3>4
        <5>2. start # None => now # None /\ SameVersion(now, start) /\ ChainOf(V, now)
          BY <2>6, <3>1, <3>4, <3>6
        <5>3. SameVersion(n, f.cur)
          BY <3>4, <3>6
        <5> QED
          BY <2>2, <2>4, <3>3, <3>6, <5>1, <5>2, <5>3, ChainExtends
      <4> QED
        BY <2>1, <3>5, <4>1
    <3>7. CASE f.added = {}
      <4>1. now # None
        <5>1. s # {} /\ row'[x] = Written(start, f, now)
          BY <3>1, <3>2 DEF Commits
        <5>2. start = None => f.cur # None /\ f.cur \in Rows /\ f.cur.number \in Nat \ {0}
          BY <3>3, <5>1, RowType DEF Folded, FoldedRow, Folds
        <5>3. start = None => f.cur.number \in 0 + 1 .. f.cur.number
          BY <5>2
        <5> QED
          BY <3>3, <3>4, <3>7, <5>2, <5>3 DEF Folded, FoldedChain, Base
      <4>2. SameVersion(n, now) /\ ChainOf(V, now)
        BY <2>6, <3>1, <3>4, <3>7, <4>1
      <4>3. ChainOf(V, n)
        BY <4>2 DEF ChainOf, SameVersion
      <4> QED
        BY <2>1, <3>5, <3>7, <4>3
    <3> QED
      BY <3>6, <3>7
  <2> QED
    BY <2>7, <2>8
<1> QED
  BY <1>4, <1>5 DEF ChainInv

LEMMA CommitSnapInv ==
  ASSUME IInv, NEW w \in Workers, CommitPage(w), NEW v \in Workers
  PROVE  SnapOK(v)'
<1>1. LeavePage(w) /\ recs' = recs
  BY DEF CommitPage
<1>2. /\ pc'[w] # "write"
      /\ \A u \in Workers \ {w} : pc'[u] = pc[u] /\ page'[u] = page[u] /\ snap'[u] = snap[u]
  BY <1>1, DroppedSnapshot
<1>3. CASE v = w
  BY <1>2, <1>3 DEF SnapOK
<1>4. CASE v # w
  <2>1. SnapOK(v)
    BY SnapsOK
  <2>2. versions \subseteq versions'
    BY InsertedVersions
  <2>3. \A x \in Identities : row[x] # None => row'[x] # None /\ row'[x].product = row[x].product
    BY CommitKeepsRows
  <2>4. recs \in [Ids -> RawRecords] /\ page[v] \in SUBSET Ids
    BY DEF IInv, TypeOK
  <2> QED
    BY <1>1, <1>2, <1>4, <2>1, <2>2, <2>3, <2>4, SnapKept
<1> QED
  BY <1>3, <1>4

\* Of a page, `new` counts the identities that were not there, and `new` and `changed`
\* together the versions inserted.
LEMMA PageCounts ==
  ASSUME IInv, NEW w \in Workers, CommitPage(w), NEW D, D = Touched(page[w])
  PROVE  /\ \A field \in {"new", "changed", "unchanged"} : Count(Plan(w), field) \in Nat
         /\ Count(Plan(w), "new") = Cardinality({x \in D : row[x] = None})
         /\ IsFiniteSet(Inserted(w))
         /\ Count(Plan(w), "new") + Count(Plan(w), "changed") = Cardinality(Inserted(w))
<1>1. PICK plan : plan = Plan(w)
  OBVIOUS
<1> DEFINE New(s) == {x \in s : row[x] = None}
           Added(s) == UNION {plan[x].added : x \in s}
<1>2. DOMAIN plan = D /\ D \in SUBSET Identities
  BY <1>1, CommitWrites
<1>3. IsFiniteSet(D) /\ \A s \in SUBSET D : IsFiniteSet(s)
  BY <1>2, SizeAssumption, FS_Subset
<1>4. ASSUME NEW x \in D
      PROVE  /\ plan[x].new \in Nat /\ plan[x].changed \in Nat /\ plan[x].unchanged \in Nat
             /\ plan[x].new = IF row[x] = None THEN 1 ELSE 0
             /\ IsFiniteSet(plan[x].added)
             /\ Cardinality(plan[x].added) = plan[x].new + plan[x].changed
             /\ \A v \in plan[x].added : v.product[1] = x
  <2>1. PICK f, start, no, s : /\ f = plan[x] /\ start = snap[w][x] /\ no = serial[w]
                               /\ s = {i \in page[w] : recs[i].identity = x}
    OBVIOUS
  <2>2. Commits(w, x)
    BY CommitWrites
  <2>3. f \in Folds /\ Folded(x, no, start, s, f) /\ s # {}
    BY <1>1, <2>1, <2>2 DEF Commits
  <2>4. start = None <=> row[x] = None
    BY <2>1, <2>2, CommittedRow
  <2>5. \A v \in f.added : v.product[1] = x
    BY <1>1, <2>1, InsertedVersions
  <2> QED
    BY <2>1, <2>3, <2>4, <2>5 DEF Folds, Folded, FoldedCount
<1>5. \A s \in SUBSET D : IsFiniteSet(New(s)) /\ Cardinality(New(s)) \in Nat
  <2> SUFFICES ASSUME NEW s \in SUBSET D PROVE IsFiniteSet(New(s)) /\ Cardinality(New(s)) \in Nat
    OBVIOUS
  <2>1. IsFiniteSet(New(s))
    BY <1>3, FS_Subset
  <2> QED
    BY <2>1, FS_CardinalityType
<1>6. ASSUME NEW s \in SUBSET D, NEW x \in D \ s
      PROVE  Cardinality(New(s \cup {x})) = Cardinality(New(s)) + plan[x].new
  <2>1. CASE row[x] = None
    <3>1. New(s \cup {x}) = New(s) \cup {x} /\ x \notin New(s)
      BY <2>1
    <3>2. Cardinality(New(s) \cup {x}) = Cardinality(New(s)) + 1
      <4> HIDE DEF New
      <4> QED
        BY <1>5, <3>1, FS_AddElement
    <3> QED
      BY <1>4, <2>1, <3>1, <3>2
  <2>2. CASE row[x] # None
    <3>1. New(s \cup {x}) = New(s)
      BY <2>2
    <3>2. Cardinality(New(s)) \in Nat /\ plan[x].new = 0
      BY <1>4, <1>5, <2>2
    <3> HIDE DEF New
    <3> QED
      BY <3>1, <3>2
  <2> QED
    BY <2>1, <2>2
<1>7. Cardinality(New({})) = 0 /\ Cardinality(Added({})) = 0 /\ IsFiniteSet(Added({}))
  <2>1. New({}) = {} /\ Added({}) = {}
    OBVIOUS
  <2> QED
    BY <2>1, FS_EmptySet
<1>8. ASSUME NEW s \in SUBSET D, NEW x \in D \ s, IsFiniteSet(Added(s)),
             Cardinality(Added(s)) \in Nat
      PROVE  /\ IsFiniteSet(Added(s \cup {x}))
             /\ Cardinality(Added(s \cup {x})) =
                  Cardinality(Added(s)) + plan[x].new + plan[x].changed
  <2>1. Added(s \cup {x}) = Added(s) \cup plan[x].added
    OBVIOUS
  <2>2. Added(s) \cap plan[x].added = {}
    <3> SUFFICES ASSUME NEW v \in Added(s), v \in plan[x].added PROVE FALSE
      OBVIOUS
    <3>1. PICK y \in s : v \in plan[y].added
      OBVIOUS
    <3>2. y \in D /\ y # x
      OBVIOUS
    <3> QED
      BY <1>4, <3>1, <3>2
  <2>3. PICK A, B : A = Added(s) /\ B = plan[x].added
    OBVIOUS
  <2>4. IsFiniteSet(A) /\ IsFiniteSet(B) /\ A \cap B = {}
    BY <1>4, <1>8, <2>2, <2>3
  <2>5. /\ IsFiniteSet(A \cup B)
        /\ Cardinality(A \cup B) = Cardinality(A) + Cardinality(B) - Cardinality(A \cap B)
    BY <2>4, FS_Union
  <2>6. Cardinality(A \cap B) = 0
    BY <2>4, FS_EmptySet
  <2>7. /\ Cardinality(A) \in Nat /\ Cardinality(B) = plan[x].new + plan[x].changed
        /\ plan[x].new \in Nat /\ plan[x].changed \in Nat
    BY <1>4, <1>8, <2>3
  <2>8. Cardinality(A \cup B) = Cardinality(A) + plan[x].new + plan[x].changed
    BY <2>5, <2>6, <2>7
  <2> HIDE DEF Added
  <2> QED
    BY <2>1, <2>3, <2>5, <2>8
<1>9. Count(plan, "new") \in Nat /\ Count(plan, "new") = Cardinality(New(D))
  <2> DEFINE P == {p \in (SUBSET D) \X Nat : p[2] = Cardinality(New(p[1]))}
  <2>1. \A s \in SUBSET D, n \in Nat : <<s, n>> \in P <=> n = Cardinality(New(s))
    OBVIOUS
  <2>2. <<{}, 0>> \in P
    BY <1>7, <2>1
  <2>3. KeptByAdding(P, D, plan, "new")
    <3> SUFFICES ASSUME NEW s \in SUBSET D, NEW n \in Nat, NEW x \in D \ s, <<s, n>> \in P
                 PROVE  <<s \cup {x}, plan[x].new + n>> \in P
      BY DEF KeptByAdding
    <3>1. plan[x].new \in Nat /\ plan[x].new + n \in Nat /\ s \cup {x} \in SUBSET D
      BY <1>4
    <3>2. n = Cardinality(New(s))
      BY <2>1
    <3> HIDE DEF P, New
    <3>3. plan[x].new + n = Cardinality(New(s \cup {x}))
      BY <1>6, <3>1, <3>2
    <3> QED
      BY <2>1, <3>1, <3>3
  <2>4. \A x \in D : plan[x].new \in Nat
    BY <1>4
  <2>5. Count(plan, "new") \in Nat /\ <<D, Count(plan, "new")>> \in P
    <3> HIDE DEF P
    <3> QED
      BY <1>2, <1>3, <2>2, <2>3, <2>4, CountHas
  <2> QED
    BY <2>1, <2>5
<1>10. /\ Count(plan, "changed") \in Nat /\ IsFiniteSet(Added(D))
       /\ Count(plan, "changed") + Cardinality(New(D)) = Cardinality(Added(D))
  <2> DEFINE P == {p \in (SUBSET D) \X Nat :
                     /\ IsFiniteSet(Added(p[1]))
                     /\ p[2] + Cardinality(New(p[1])) = Cardinality(Added(p[1]))}
  <2>1. \A s \in SUBSET D, n \in Nat :
          <<s, n>> \in P <=>
            IsFiniteSet(Added(s)) /\ n + Cardinality(New(s)) = Cardinality(Added(s))
    <3> HIDE DEF New, Added
    <3> QED
      OBVIOUS
  <2>2. <<{}, 0>> \in P
    <3>1. {} \in SUBSET D /\ 0 \in Nat
      OBVIOUS
    <3> HIDE DEF New, Added, P
    <3> QED
      BY <1>7, <2>1, <3>1
  <2>3. KeptByAdding(P, D, plan, "changed")
    <3> SUFFICES ASSUME NEW s \in SUBSET D, NEW n \in Nat, NEW x \in D \ s, <<s, n>> \in P
                 PROVE  <<s \cup {x}, plan[x].changed + n>> \in P
      BY DEF KeptByAdding
    <3>1. /\ plan[x].changed \in Nat /\ plan[x].changed + n \in Nat /\ s \cup {x} \in SUBSET D
          /\ plan[x].new \in Nat
      BY <1>4
    <3>2. IsFiniteSet(Added(s)) /\ n + Cardinality(New(s)) = Cardinality(Added(s))
      BY <2>1
    <3> HIDE DEF P, New, Added
    <3>3. Cardinality(New(s)) \in Nat /\ Cardinality(Added(s)) \in Nat
      BY <1>5, <3>2
    <3>4. /\ IsFiniteSet(Added(s \cup {x}))
          /\ Cardinality(Added(s \cup {x})) =
               Cardinality(Added(s)) + plan[x].new + plan[x].changed
      BY <1>8, <3>2, <3>3
    <3>5. Cardinality(New(s \cup {x})) = Cardinality(New(s)) + plan[x].new
      BY <1>6
    <3>6. (plan[x].changed + n) + Cardinality(New(s \cup {x})) = Cardinality(Added(s \cup {x}))
      BY <3>1, <3>2, <3>3, <3>4, <3>5
    <3> QED
      BY <2>1, <3>1, <3>4, <3>6
  <2>4. \A x \in D : plan[x].changed \in Nat
    BY <1>4
  <2>5. Count(plan, "changed") \in Nat /\ <<D, Count(plan, "changed")>> \in P
    <3> HIDE DEF P
    <3> QED
      BY <1>2, <1>3, <2>2, <2>3, <2>4, CountHas
  <2> QED
    BY <2>1, <2>5
<1>11. Count(plan, "unchanged") \in Nat
  <2> DEFINE P == (SUBSET D) \X Nat
  <2>1. KeptByAdding(P, D, plan, "unchanged")
    BY <1>4 DEF KeptByAdding
  <2>2. \A x \in D : plan[x].unchanged \in Nat
    BY <1>4
  <2>3. <<{}, 0>> \in P
    OBVIOUS
  <2> HIDE DEF P
  <2> QED
    BY <1>2, <1>3, <2>1, <2>2, <2>3, CountHas
<1>12. Added(D) = Inserted(w)
  BY <1>1 DEF Inserted
<1> HIDE DEF Added
<1> QED
  BY <1>1, <1>5, <1>9, <1>10, <1>11, <1>12

LEMMA InsertedNew ==
  ASSUME IInv, NEW w \in Workers, CommitPage(w)
  PROVE  versions \cap Inserted(w) = {}
<1> SUFFICES ASSUME NEW v \in versions, v \in Inserted(w) PROVE FALSE
  OBVIOUS
<1>1. PICK x \in Touched(page[w]) : v \in Plan(w)[x].added
  BY DEF Inserted
<1>2. v.product[1] = x
  BY <1>1, InsertedVersions
<1>3. PICK y \in Identities : row[y] # None /\ row[y].product = v.product
  BY DEF IInv, ChainInv
<1>4. y = x
  BY <1>2, <1>3 DEF IInv, RowInv
<1>5. Commits(w, x)
  BY CommitWrites
<1>6. PICK f, start, now, no, s :
        /\ f = Plan(w)[x] /\ start = snap[w][x] /\ now = row[x] /\ no = serial[w]
        /\ s = {i \in page[w] : recs[i].identity = x}
  OBVIOUS
<1>7. f \in Folds /\ Folded(x, no, start, s, f) /\ start \in Rows \cup {None}
  BY <1>5, <1>6 DEF Commits
<1>8. start # None /\ SameVersion(now, start)
  BY <1>1, <1>3, <1>4, <1>5, <1>6, CommittedRow
<1>9. ChainOf({u \in versions : u.product = now.product}, now)
  BY <1>3, <1>4, <1>6 DEF IInv, ChainInv
<1>10. v.number <= start.number
  BY <1>3, <1>4, <1>6, <1>8, <1>9 DEF ChainOf, SameVersion
<1>11. start.number < v.number
  BY <1>1, <1>6, <1>7, <1>8 DEF Folded, FoldedChain, Base
<1>12. start.number \in Nat /\ v.number \in Nat
  <2>1. start.number \in Nat
    BY <1>7, <1>8, RowType
  <2>2. v \in VersionRows
    BY DEF IInv, TypeOK
  <2> QED
    BY <2>1, <2>2 DEF VersionRows
<1> QED
  BY <1>10, <1>11, <1>12

LEMMA CommitCountInv ==
  ASSUME IInv, NEW w \in Workers, CommitPage(w)
  PROVE  CountInv' /\ counted' \in [{"new", "changed", "unchanged"} -> Nat]
<1> DEFINE D == Touched(page[w])
           old == {x \in Identities : row[x] # None}
           fresh == {x \in D : row[x] = None}
<1>1. counted \in [{"new", "changed", "unchanged"} -> Nat]
  BY DEF IInv, TypeOK
<1>2. counted' = [field \in {"new", "changed", "unchanged"} |->
                    counted[field] + Count(Plan(w), field)]
  BY <1>1 DEF CommitPage
<1>3. PICK n \in Nat, c \in Nat, u \in Nat :
        /\ n = Count(Plan(w), "new") /\ c = Count(Plan(w), "changed")
        /\ u = Count(Plan(w), "unchanged")
  BY PageCounts
<1>4. /\ n = Cardinality(fresh) /\ IsFiniteSet(Inserted(w))
      /\ n + c = Cardinality(Inserted(w))
  BY <1>3, PageCounts
<1>5. PICK n0 \in Nat, c0 \in Nat, u0 \in Nat :
        n0 = counted["new"] /\ c0 = counted["changed"] /\ u0 = counted["unchanged"]
  BY <1>1
<1>6. /\ counted'["new"] = n0 + n /\ counted'["changed"] = c0 + c
      /\ counted'["unchanged"] = u0 + u
  BY <1>2, <1>3, <1>5
<1>7. counted' \in [{"new", "changed", "unchanged"} -> Nat]
  <2>1. n0 + n \in Nat /\ c0 + c \in Nat /\ u0 + u \in Nat
    OBVIOUS
  <2> QED
    BY <1>2, <1>3, <1>5, <2>1
<1>8. /\ IsFiniteSet(versions) /\ n0 = Cardinality(old) /\ n0 + c0 = Cardinality(versions)
  BY <1>5 DEF IInv, CountInv, CountersMatchRows
<1>9. D \in SUBSET Identities
  BY CommitWrites
<1>10. IsFiniteSet(old) /\ IsFiniteSet(fresh) /\ old \cap fresh = {}
  BY <1>9, SizeAssumption, FS_Subset
<1>11. {x \in Identities : row'[x] # None} = old \cup fresh
  <2>1. \A x \in old : row'[x] # None
    BY CommitKeepsRows
  <2>2. \A x \in D : row'[x] # None
    BY CommitWrites, CommittedRow, RowType
  <2>3. \A x \in Identities \ D : row'[x] = row[x]
    BY CommitWrites
  <2> HIDE DEF D
  <2> QED
    BY <1>9, <2>1, <2>2, <2>3
<1> HIDE DEF old, fresh
<1>12. Cardinality(old \cup fresh) = n0 + n
  <2>1. Cardinality(old \cup fresh) =
          Cardinality(old) + Cardinality(fresh) - Cardinality(old \cap fresh)
    BY <1>10, FS_Union
  <2>2. Cardinality(old \cap fresh) = 0
    BY <1>10, FS_EmptySet
  <2> QED
    BY <1>4, <1>8, <2>1, <2>2
<1>13. IsFiniteSet(versions') /\ Cardinality(versions') = (n0 + c0) + (n + c)
  <2>1. versions' = versions \cup Inserted(w) /\ versions \cap Inserted(w) = {}
    BY InsertedVersions, InsertedNew
  <2>2. PICK A, B : A = versions /\ B = Inserted(w)
    OBVIOUS
  <2>3. /\ IsFiniteSet(A \cup B)
        /\ Cardinality(A \cup B) = Cardinality(A) + Cardinality(B) - Cardinality(A \cap B)
    BY <1>4, <1>8, <2>2, FS_Union
  <2>4. Cardinality(A \cap B) = 0
    BY <2>1, <2>2, FS_EmptySet
  <2>5. Cardinality(A) = n0 + c0 /\ Cardinality(B) = n + c
    BY <1>4, <1>8, <2>2
  <2>6. Cardinality(A \cup B) = (n0 + c0) + (n + c)
    BY <2>3, <2>4, <2>5
  <2> QED
    BY <2>1, <2>2, <2>3, <2>6
<1>14. counted'.new = n0 + n /\ counted'.changed = c0 + c
  BY <1>6
<1>15. (n0 + n) + (c0 + c) = (n0 + c0) + (n + c)
  OBVIOUS
<1> QED
  BY <1>7, <1>11, <1>12, <1>13, <1>14, <1>15 DEF CountInv, CountersMatchRows

\* On the row that it was decided on, the page writes what the fold shows.
LEMMA WrittenShows ==
  ASSUME NEW start \in Rows \cup {None}, NEW f \in Folds, NEW x, NEW no, NEW s, s # {},
         Folded(x, no, start, s, f), start # None => f.cur.updated >= start.updated
  PROVE  LET n == Written(start, f, start)
         IN n.content = f.cur.content /\ n.updated = f.cur.updated
<1>1. PICK n : n = Written(start, f, start)
  OBVIOUS
<1>2. FoldedRow(x, no, start, s, f) /\ FoldedChain(start, no, f)
  BY DEF Folded
<1>3. f.cur \in Rows /\ f.cur # None
  BY <1>2 DEF FoldedRow, Folds
<1>4. CASE start = None
  BY <1>4 DEF Written
<1>5. CASE start # None
  <2>1. /\ start \in Rows /\ start.updated \in Nat /\ f.cur.updated \in Nat
        /\ start.updated \in SourceTimes \cup {0} /\ start.received \in ReceiveTimes \cup {0}
        /\ f.cur.updated \in SourceTimes \cup {0} /\ f.cur.received \in ReceiveTimes \cup {0}
        /\ f.cur.number \in Nat /\ start.number \in Nat
    BY <1>3, <1>5, RowType
  <2>2. Greatest(f.cur.updated, start.updated) = f.cur.updated
    BY <1>5, <2>1 DEF Greatest
  <2>3. CASE f.added # {}
    <3>1. n = Watermarked(f.cur, start)
      BY <1>1, <1>5, <2>3 DEF Written, RaiseWatermark
    <3>2. n.content = f.cur.content /\ n.updated = Greatest(f.cur.updated, start.updated)
      BY <1>3, <2>1, <3>1, WatermarkedRow
    <3> QED
      BY <1>1, <2>2, <3>2
  <2>4. CASE f.added = {} /\ f.touched
    <3>1. f.cur.content = start.content
      <4>1. f.cur.number \notin Base(start) + 1 .. f.cur.number /\ Base(start) <= f.cur.number
        BY <1>2, <1>3, <2>4 DEF FoldedChain
      <4>2. f.cur.number = Base(start)
        BY <1>5, <2>1, <4>1 DEF Base
      <4> QED
        BY <1>2, <1>3, <4>2 DEF FoldedChain
    <3>2. PICK m : m = [start EXCEPT !.updated = f.cur.updated, !.received = f.cur.received]
      OBVIOUS
    <3>3. m \in Rows /\ m.content = start.content /\ m.updated = f.cur.updated
      BY <2>1, <3>2 DEF Rows
    <3>4. PICK k : k = Watermarked(m, start)
      OBVIOUS
    <3>5. k \in Rows /\ k.content = m.content /\ k.updated = Greatest(m.updated, start.updated)
      BY <2>1, <3>3, <3>4, WatermarkedRow
    <3>6. n = [k EXCEPT !.fp = IF f.cur.fp # start.fp THEN f.cur.fp ELSE @]
      BY <1>1, <1>5, <2>4, <3>2, <3>4 DEF Written, RaiseWatermark
    <3>7. n.content = k.content /\ n.updated = k.updated
      BY <3>5, <3>6 DEF Rows
    <3> QED
      BY <1>1, <2>2, <3>1, <3>3, <3>5, <3>7
  <2>5. CASE f.added = {} /\ ~f.touched
    <3>1. n = start /\ f.cur = start
      BY <1>1, <1>2, <1>5, <2>5 DEF Written, FoldedRow
    <3> QED
      BY <1>1, <3>1
  <2> QED
    BY <2>3, <2>4, <2>5
<1> QED
  BY <1>4, <1>5

LEMMA CommitNewestInv ==
  ASSUME IInv, NEW w \in Workers, CommitPage(w)
  PROVE  NewestInv'
<1>1. /\ recs' = recs /\ done' = done \cup page[w] /\ DOMAIN Plan(w) = Touched(page[w])
      /\ outrun' = outrun \cup {x \in DOMAIN Plan(w) : snap[w][x] # row[x]}
  BY CommitWrites DEF CommitPage
<1>2. /\ recs \in [Ids -> RawRecords] /\ page[w] \in SUBSET Ids /\ done \in SUBSET Ids
      /\ serial[w] \in 0 .. MaxPages
  BY DEF IInv, TypeOK
<1> SUFFICES ASSUME NEW x \in Identities
             PROVE  LET M == Mine(x)'
                    IN /\ M = {} /\ row'[x] # None => row'[x].updated = 0 /\ row'[x].received = 0
                       /\ M # {} => row'[x] # None
                       /\ x \notin outrun' /\ M # {} /\ (\A i \in M : recs[i].updated # 0) =>
                            ShowsLatest(M, row'[x])
  BY <1>1 DEF NewestInv, ShowsLatest
<1>3. PICK M, T, n : M = Mine(x) /\ T = {i \in page[w] : recs[i].identity = x} /\ n = row'[x]
  OBVIOUS
<1>4. Mine(x)' = M \cup T /\ M \in SUBSET Ids
  BY <1>1, <1>2, <1>3 DEF Mine
<1>5. /\ M = {} /\ row[x] # None => row[x].updated = 0 /\ row[x].received = 0
      /\ M # {} => row[x] # None
      /\ x \notin outrun /\ M # {} /\ (\A i \in M : recs[i].updated # 0) =>
           ShowsLatest(M, row[x])
  BY <1>3 DEF IInv, NewestInv, ShowsLatest
<1>6. CASE x \notin Touched(page[w])
  <2>1. T = {} /\ n = row[x]
    BY <1>3, <1>6, CommitWrites DEF Touched
  <2>2. x \notin outrun' => x \notin outrun
    BY <1>1
  <2> QED
    BY <1>3, <1>4, <1>5, <2>1, <2>2
<1>7. CASE x \in Touched(page[w])
  <2>1. Commits(w, x)
    BY <1>7, CommitWrites
  <2>2. PICK f, start, no : f = Plan(w)[x] /\ start = snap[w][x] /\ no = serial[w]
    OBVIOUS
  <2>3. /\ start \in Rows \cup {None} /\ f \in Folds /\ T # {}
        /\ f = Fold(x, page[w], start, no) /\ Folded(x, no, start, T, f)
        /\ start # None => start.fp.of = start.content
        /\ n = Written(start, f, row[x])
    BY <1>3, <2>1, <2>2 DEF Commits
  <2>4. n # None
    BY <1>3, <2>1, CommittedRow, RowType
  <2>5. ASSUME x \notin outrun', \A i \in M \cup T : recs[i].updated # 0
        PROVE  ShowsLatest(M \cup T, n)
    <3>1. x \notin outrun /\ start = row[x]
      BY <1>1, <1>7, <2>2, <2>5
    <3>2. start # None => start.updated \in Nat
      BY <2>3, RowType
    <3>3. FoldedNewest(M, start, {}, Begin(start))
      <4>1. Begin(start).cur = start
        BY DEF Begin
      <4>2. M \cup {} = M
        OBVIOUS
      <4> QED
        BY <1>5, <2>5, <3>1, <3>2, <4>1, <4>2 DEF FoldedNewest
    <3>4. FoldedNewest(M, start, T, f)
      BY <1>2, <1>3, <1>4, <2>2, <2>3, <2>5, <3>3, FoldShowsNewest
    <3>5. ShowsLatest(M \cup T, f.cur) /\ (start # None => f.cur.updated >= start.updated)
      BY <2>3, <3>4 DEF FoldedNewest
    <3>6. n = Written(start, f, start)
      BY <2>3, <3>1
    <3>7. n.content = f.cur.content /\ n.updated = f.cur.updated
      BY <2>3, <3>5, <3>6, WrittenShows
    <3> QED
      BY <3>5, <3>7 DEF ShowsLatest
  <2>6. M \cup T # {}
    BY <2>3
  <2> QED
    BY <1>3, <1>4, <2>4, <2>5, <2>6
<1> QED
  BY <1>6, <1>7

LEMMA CommitStep ==
  ASSUME IInv, NEW w \in Workers, CommitPage(w)
  PROVE  IInv'
<1>1. LeavePage(w) /\ UNCHANGED <<recs, pages>>
  BY DEF CommitPage
<1>2. /\ pc' \in [Workers -> {"idle", "read", "write"}] /\ page' \in [Workers -> SUBSET Ids]
      /\ serial' \in [Workers -> 0 .. MaxPages] /\ tries' \in [Workers -> 0 .. 1]
      /\ DOMAIN snap' = Workers
  BY <1>1, DroppedSnapshot
<1>3. \A v \in Workers : SnapOK(v)'
  BY CommitSnapInv
<1>4. /\ RowInv' /\ row' \in [Identities -> Rows \cup {None}]
      /\ CountInv' /\ counted' \in [{"new", "changed", "unchanged"} -> Nat]
  BY CommitRowInv, CommitCountInv
<1>5. versions' \subseteq VersionRows
  BY InsertedVersions DEF IInv, TypeOK
<1>6. done' \in SUBSET Ids /\ outrun' \in SUBSET Identities
  BY CommitWrites DEF CommitPage, IInv, TypeOK
<1>7. TypeOK'
  <2>1. recs' \in [Ids -> RawRecords] /\ pages' \in 0 .. MaxPages
    BY <1>1 DEF IInv, TypeOK
  <2> QED
    BY <1>2, <1>3, <1>4, <1>5, <1>6, <2>1, SnapsGiveInv DEF TypeOK
<1> QED
  BY <1>3, <1>4, <1>7, CommitChainInv, CommitNewestInv, SnapsGiveInv DEF IInv

LEMMA StepIInv == IInv /\ [Next]_vars => IInv'
<1> SUFFICES ASSUME IInv, [Next]_vars PROVE IInv'
  OBVIOUS
<1>1. CASE \E w \in Workers, S \in SUBSET Ids : StartPage(w, S)
  BY <1>1, StartStep
<1>2. CASE \E w \in Workers : ReadSnapshots(w)
  BY <1>2, ReadStep
<1>3. CASE \E w \in Workers : PageConflict(w) \/ PageAborted(w)
  BY <1>3, RollbackStep
<1>4. CASE \E w \in Workers : CommitPage(w)
  BY <1>4, CommitStep
<1>5. CASE UNCHANGED vars
  <2>1. /\ UNCHANGED <<recs, catalogueVars>>
        /\ UNCHANGED <<pc, page, serial, snap, tries, pages>>
    BY <1>5 DEF vars, workerVars
  <2>2. RowInv' /\ ChainInv' /\ CountInv' /\ NewestInv'
    BY <2>1, CatalogueKept
  <2>3. UNCHANGED <<recs, row, versions, counted, done, outrun>>
    BY <2>1 DEF catalogueVars
  <2>4. /\ \A v \in Workers : page[v] \in SUBSET Ids
        /\ recs \in [Ids -> RawRecords]
    BY DEF IInv, TypeOK
  <2>5. \A v \in Workers : SnapOK(v)'
    BY <2>1, <2>3, <2>4, SnapsOK, SnapKept
  <2>6. TypeOK'
    BY <2>1, <2>3, <2>5, SnapsGiveInv DEF IInv, TypeOK
  <2> QED
    BY <2>2, <2>5, <2>6, SnapsGiveInv DEF IInv
<1> QED
  BY <1>1, <1>2, <1>3, <1>4, <1>5 DEF Next

-----------------------------------------------------------------------------
(* The results                                                             *)

THEOREM CatalogueInvariance == Spec => []IInv
BY InitIInv, StepIInv, PTL DEF Spec

\* Every state of the catalogue and of its workers is of the declared types.
THEOREM CatalogueTypeCorrect == Spec => []TypeOK
<1>1. IInv => TypeOK
  BY DEF IInv
<1> QED
  BY <1>1, CatalogueInvariance, PTL

\* ApplyBatch: whatever is committed in between, the versions of a product are numbered
\* from 1 without gaps or doubles, each leads from the one before it to new content, and
\* the product is at the last.
THEOREM VersionsAreChained == Spec => []VersionsFormChain
<1>1. IInv => VersionsFormChain
  <2> SUFFICES ASSUME IInv PROVE VersionsFormChain
    OBVIOUS
  <2>1. \A v \in versions : \E x \in Identities : row[x] # None /\ row[x].product = v.product
    BY DEF IInv, ChainInv
  <2>2. ASSUME NEW x \in Identities, row[x] # None, NEW chain,
               chain = {v \in versions : v.product = row[x].product}
        PROVE  /\ {v.number : v \in chain} = 1 .. row[x].number
               /\ Cardinality(chain) = row[x].number
               /\ \A v \in chain : v.number = row[x].number =>
                    /\ v.id = row[x].current /\ v.content = row[x].content
                    /\ v.content = row[x].fp.of
               /\ \A u, v \in chain : v.number = u.number + 1 =>
                    v.from = u.id /\ v.content # u.content
    <3>1. ChainOf(chain, row[x]) /\ row[x] \in Rows /\ row[x].fp.of = row[x].content
      BY <2>2 DEF IInv, ChainInv, RowInv, TypeOK
    <3>2. PICK n \in Nat : n = row[x].number
      BY <3>1, RowType
    <3>3. \A v \in chain : v.number \in Nat \ {0}
      BY <2>2 DEF IInv, TypeOK, VersionRows
    <3>4. \A v \in chain : v.number \in 1 .. n
      BY <3>1, <3>2, <3>3 DEF ChainOf
    <3>5. \A k \in 1 .. n : \E v \in chain : v.number = k
      BY <3>1, <3>2 DEF ChainOf
    <3>6. {v.number : v \in chain} = 1 .. n
      BY <3>4, <3>5
    <3>7. Cardinality(chain) = n
      <4> DEFINE b == [k \in 1 .. n |-> CHOOSE v \in chain : v.number = k]
      <4>1. \A k \in 1 .. n : b[k] \in chain /\ b[k].number = k
        BY <3>5
      <4>2. \A v \in chain : b[v.number] = v
        BY <3>1, <3>4, <4>1 DEF ChainOf
      <4>3. b \in [1 .. n -> chain]
        BY <4>1
      <4> HIDE DEF b
      <4>4. b \in Bijection(1 .. n, chain)
        BY <3>4, <4>1, <4>2, <4>3 DEF Bijection, Injection, Surjection, IsInjective
      <4>5. ExistsBijection(1 .. n, chain)
        BY <4>4 DEF ExistsBijection
      <4> QED
        BY <4>5, FS_CountingElements
    <3> QED
      BY <3>1, <3>2, <3>6, <3>7 DEF ChainOf
  <2> QED
    BY <2>1, <2>2 DEF VersionsFormChain
<1> QED
  BY <1>1, CatalogueInvariance, PTL

\* The committed records_new and records_changed are the products and the versions.
THEOREM CountersTellTruth == Spec => []CountersMatchRows
<1>1. IInv => CountersMatchRows
  BY DEF IInv, CountInv
<1> QED
  BY <1>1, CatalogueInvariance, PTL

\* Stale and the watermarks: whatever the order records come in, a product shows a record
\* of the latest source time, unless a page was committed on a row it had not read.
THEOREM NewestIsShown == Spec => []NewestWinsUnlessOutrun
<1>1. IInv => NewestWinsUnlessOutrun
  <2> SUFFICES ASSUME IInv, NEW x \in Identities \ outrun PROVE ShowsNewest(x)
    BY DEF NewestWinsUnlessOutrun
  <2> QED
    BY DEF IInv, NewestInv, Mine, ShowsNewest
<1> QED
  BY <1>1, CatalogueInvariance, PTL

\* BatchUpdateProductSourceOnChanged and -Watermarks: no commit lowers a watermark.
THEOREM WatermarksNeverFall == Spec => WatermarksRise
<1>1. IInv /\ [Next]_vars =>
        [\A x \in Identities : row[x] # None =>
           row'[x].updated >= row[x].updated /\ row'[x].received >= row[x].received]_vars
  <2> SUFFICES ASSUME IInv, Next, NEW x \in Identities, row[x] # None
               PROVE  row'[x].updated >= row[x].updated /\ row'[x].received >= row[x].received
    OBVIOUS
  <2>1. CASE \E w \in Workers : CommitPage(w)
    BY <2>1, CommitKeepsRows
  <2>2. CASE row' = row
    <3>1. row[x] \in Rows
      BY DEF IInv, TypeOK
    <3>2. row[x].updated \in Nat /\ row[x].received \in Nat
      BY <3>1, RowType
    <3> QED
      BY <2>2, <3>2
  <2> QED
    BY <2>1, <2>2 DEF Next, StartPage, ReadSnapshots, PageConflict, PageAborted, catalogueVars
<1> QED
  BY <1>1, CatalogueInvariance, PTL DEF Spec, WatermarksRise

=============================================================================
