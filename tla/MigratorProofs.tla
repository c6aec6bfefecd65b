--------------------------- MODULE MigratorProofs ---------------------------
(***************************************************************************)
(* For any number of invocations and versions, any set of releases and any *)
(* set of no-transaction migrations: Migrator is type correct, the         *)
(* recorded versions have no gap, and the schema agrees with the record    *)
(* but for a version that is halfway.                                      *)
(*                                                                         *)
(* The argument: the session that holds the lock is alone past it, so what *)
(* it listed stays true: going up, exactly the known versions that are not *)
(* recorded are left, and going down a last part of the recorded ones      *)
(* (ListInv). Hence its current version is the one behind, or at, the end  *)
(* of the record. A no-transaction version is halfway until its            *)
(* bookkeeping, which is reached only with its object as the script leaves *)
(* it (StatementInv): nobody drops an index while the lock is held.        *)
(***************************************************************************)
EXTENDS Migrator, FiniteSetTheorems, TLAPS

Listed == {"run", "exec", "check", "record"}

\* The recorded versions are those up to some n.
Prefix == \E n \in 0 .. NumVersions : recorded = 1 .. n

\* What is left to do after the listing.
ListInv(m) ==
  pc[m] \in Listed =>
    IF dir[m] = "up" THEN todo[m] = 1 .. known[m] \ recorded
    ELSE \E j, n \in 0 .. NumVersions : recorded = 1 .. n /\ todo[m] = j + 1 .. n

\* What holds between the steps of a no-transaction migration.
StatementInv(m) ==
  /\ pc[m] \in {"exec", "check", "record"} => todo[m] # {} /\ Current(m) \in halfway
  /\ pc[m] = "check" =>
       (object[Current(m)] = "absent" <=> After(Current(m), dir[m]) = "absent")
  /\ pc[m] = "record" => object[Current(m)] = After(Current(m), dir[m])

SessionInv(m) == ListInv(m) /\ StatementInv(m)

IInv == /\ TypeOK /\ Prefix
        /\ \A m \in Migrators : SessionInv(m)
        /\ SchemaMatchesRecord

-----------------------------------------------------------------------------
(* Numbers                                                                 *)

LEMMA Constants ==
  /\ NumVersions \in Nat /\ Versions \subseteq Nat /\ NoTx \subseteq Versions
  /\ \A k \in Releases : k \in 0 .. NumVersions
  /\ \A v \in Versions, d \in Directions : After(v, d) \in {"absent", "present"}
BY NoTxAssumption, ReleaseAssumption DEF Versions, After

\* The least and the greatest element of an interval are its ends.
LEMMA IntervalMin == ASSUME NEW a \in Nat, NEW b \in Nat, a <= b PROVE Min(a .. b) = a
<1>1. a \in a .. b /\ \A y \in a .. b : a <= y
  OBVIOUS
<1>2. \A x \in a .. b : (\A y \in a .. b : x <= y) => x = a
  BY <1>1
<1> QED
  BY <1>1, <1>2 DEF Min

LEMMA IntervalMax == ASSUME NEW a \in Nat, NEW b \in Nat, a <= b PROVE Max(a .. b) = b
<1>1. b \in a .. b /\ \A y \in a .. b : b >= y
  OBVIOUS
<1>2. \A x \in a .. b : (\A y \in a .. b : x >= y) => x = b
  BY <1>1
<1> QED
  BY <1>1, <1>2 DEF Max

\* The last n of the versions 1 .. k are an interval.
LEMMA LastVersions ==
  ASSUME NEW k \in Nat, NEW n \in Nat
  PROVE  \E j \in 0 .. k : {v \in 1 .. k : Cardinality({w \in 1 .. k : w > v}) < n} = j + 1 .. k
<1>1. ASSUME NEW v \in 1 .. k
      PROVE  Cardinality({w \in 1 .. k : w > v}) = k - v
  <2>1. {w \in 1 .. k : w > v} = v + 1 .. k
    OBVIOUS
  <2>2. Cardinality(v + 1 .. k) = IF v + 1 > k THEN 0 ELSE k - (v + 1) + 1
    BY FS_Interval
  <2>3. Cardinality(v + 1 .. k) = k - v
    BY <2>2
  <2> QED
    BY <2>1, <2>3, Zenon
<1>2. {v \in 1 .. k : Cardinality({w \in 1 .. k : w > v}) < n} = {v \in 1 .. k : k - v < n}
  BY <1>1
<1>3. CASE n >= k
  <2>1. {v \in 1 .. k : k - v < n} = 0 + 1 .. k /\ 0 \in 0 .. k
    BY <1>3
  <2> QED
    BY <1>2, <2>1
<1>4. CASE n < k
  <2>1. {v \in 1 .. k : k - v < n} = (k - n) + 1 .. k /\ k - n \in 0 .. k
    BY <1>4
  <2> QED
    BY <1>2, <2>1
<1> QED
  BY <1>3, <1>4

-----------------------------------------------------------------------------
(* The session that holds the lock                                         *)

\* Its current version is next to the end of the record.
LEMMA CurrentVersion ==
  ASSUME IInv, NEW m \in Migrators, pc[m] \in Listed, todo[m] # {}
  PROVE  \E n \in 0 .. NumVersions :
           /\ recorded = 1 .. n
           /\ dir[m] = "up" => Current(m) = n + 1 /\ todo[m] = n + 1 .. known[m]
           /\ dir[m] = "down" => Current(m) = n /\ \E j \in 0 .. n - 1 : todo[m] = j + 1 .. n
           /\ Current(m) \in Versions
<1>1. /\ known[m] \in 0 .. NumVersions /\ NumVersions \in Nat /\ dir[m] \in {"up", "down"}
      /\ ListInv(m)
  BY Constants DEF IInv, TypeOK, SessionInv, Directions
<1>2. CASE dir[m] = "up"
  <2>1. PICK n \in 0 .. NumVersions : recorded = 1 .. n
    BY DEF IInv, Prefix
  <2>2. todo[m] = 1 .. known[m] \ recorded
    BY <1>1, <1>2 DEF ListInv
  <2>3. \A x : x \in todo[m] <=> x \in n + 1 .. known[m]
    BY <1>1, <2>1, <2>2
  <2>4. todo[m] = n + 1 .. known[m]
    BY <2>3, <2>2, Zenon
  <2>5. n + 1 <= known[m]
    BY <1>1, <2>4
  <2>6. Min(n + 1 .. known[m]) = n + 1
    BY <1>1, <2>5, IntervalMin
  <2>7. Current(m) = n + 1
    BY <1>2, <2>4, <2>6 DEF Current
  <2>8. n + 1 \in Versions
    BY <1>1, <2>5 DEF Versions
  <2> QED
    BY <1>2, <2>1, <2>4, <2>7, <2>8
<1>3. CASE dir[m] = "down"
  <2>1. PICK j, n \in 0 .. NumVersions : recorded = 1 .. n /\ todo[m] = j + 1 .. n
    BY <1>1, <1>3 DEF ListInv
  <2>2. j \in 0 .. n - 1 /\ j + 1 <= n
    BY <2>1
  <2>3. Max(j + 1 .. n) = n
    <3>1. PICK a \in Nat : a = j + 1
      OBVIOUS
    <3>2. Max(a .. n) = n
      BY <2>2, <3>1, IntervalMax
    <3> QED
      BY <3>1, <3>2
  <2>4. Current(m) = n
    BY <1>3, <2>1, <2>3 DEF Current
  <2>5. n \in Versions
    BY <1>1, <2>2 DEF Versions
  <2> QED
    BY <1>3, <2>1, <2>2, <2>4, <2>5
<1> QED
  BY <1>1, <1>2, <1>3

\* Its bookkeeping moves the end of the record by one.
LEMMA BookkeepFacts ==
  ASSUME IInv, NEW m \in Migrators, pc[m] \in Listed, todo[m] # {},
         Bookkeep(m, Current(m)), dir' = dir, known' = known, pc'[m] \in {"run", "unlock"}
  PROVE  /\ Prefix' /\ recorded' \subseteq Versions /\ todo' \in [Migrators -> SUBSET Versions]
         /\ \A v \in Versions \ {Current(m)} : v \in recorded' <=> v \in recorded
         /\ Current(m) \in recorded' <=> dir[m] = "up"
         /\ SessionInv(m)'
<1>1. PICK n \in 0 .. NumVersions :
        /\ recorded = 1 .. n
        /\ dir[m] = "up" => Current(m) = n + 1 /\ todo[m] = n + 1 .. known[m]
        /\ dir[m] = "down" => Current(m) = n /\ \E j \in 0 .. n - 1 : todo[m] = j + 1 .. n
        /\ Current(m) \in Versions
  BY CurrentVersion
<1>2. /\ known[m] \in 0 .. NumVersions /\ NumVersions \in Nat /\ dir[m] \in {"up", "down"}
      /\ todo \in [Migrators -> SUBSET Versions] /\ recorded \subseteq Versions
  BY Constants DEF IInv, TypeOK, Directions
<1>3. PICK v \in Versions : v = Current(m)
  BY <1>1
<1>4. /\ recorded' = IF dir[m] = "up" THEN recorded \cup {v} ELSE recorded \ {v}
      /\ todo'[m] = todo[m] \ {v}
  BY <1>2, <1>3 DEF Bookkeep
<1>5. todo' \in [Migrators -> SUBSET Versions]
  BY <1>2, <1>3 DEF Bookkeep
<1>6. CASE dir[m] = "up"
  <2>1. v = n + 1 /\ todo[m] = n + 1 .. known[m] /\ n + 1 \in 0 .. NumVersions
    BY <1>1, <1>2, <1>3, <1>6 DEF Versions
  <2>2. recorded' = 1 .. n + 1
    BY <1>1, <1>4, <1>6, <2>1
  <2>3. todo'[m] = 1 .. known[m] \ recorded'
    <3>1. \A x : x \in todo[m] \ {v} <=> x \in 1 .. known[m] \ (1 .. n + 1)
      BY <1>2, <2>1
    <3> QED
      BY <1>4, <2>2, <3>1, Zenon
  <2>4. Prefix'
    BY <2>1, <2>2 DEF Prefix
  <2>5. SessionInv(m)'
    BY <1>6, <2>3 DEF SessionInv, ListInv, StatementInv
  <2> QED
    BY <1>2, <1>3, <1>4, <1>5, <1>6, <2>4, <2>5
<1>7. CASE dir[m] = "down"
  <2>1. v = n
    BY <1>1, <1>3, <1>7
  <2>2. PICK j \in 0 .. n - 1 : todo[m] = j + 1 .. n
    BY <1>1, <1>7
  <2>3. n - 1 \in 0 .. NumVersions /\ j \in 0 .. NumVersions
    BY <1>2, <2>1, <2>2
  <2>4. recorded' = 1 .. n - 1
    BY <1>1, <1>4, <1>7, <2>1
  <2>5. todo'[m] = j + 1 .. n - 1
    BY <1>4, <2>1, <2>2
  <2>6. Prefix'
    BY <2>3, <2>4 DEF Prefix
  <2>7. \E i, k \in 0 .. NumVersions : recorded' = 1 .. k /\ todo'[m] = i + 1 .. k
    BY <2>3, <2>4, <2>5
  <2>8. SessionInv(m)'
    BY <1>7, <2>7 DEF SessionInv, ListInv, StatementInv
  <2> QED
    BY <1>2, <1>3, <1>4, <1>5, <1>7, <2>6, <2>8
<1> QED
  BY <1>2, <1>6, <1>7

-----------------------------------------------------------------------------
(* What steps have in common                                               *)

LEMMA LockHolder ==
  ASSUME TypeOK, NEW m \in Migrators, pc[m] \in Inside
  PROVE  lock = m /\ m # None /\ \A q \in Migrators \ {m} : pc[q] \notin Inside
BY NoneAssumption DEF TypeOK

\* A session that is not past the lock has nothing to say.
LEMMA Outside == ASSUME NEW q, pc[q] \notin Inside PROVE SessionInv(q)
BY DEF SessionInv, ListInv, StatementInv, Listed, Inside

LEMMA InitIInv == Init => IInv
<1> SUFFICES ASSUME Init PROVE IInv
  OBVIOUS
<1>1. TypeOK
  <2>1. object \in [Versions -> {"absent", "invalid", "present"}]
    BY Constants DEF Init, After
  <2>2. known \in [Migrators -> 0 .. NumVersions]
    <3>1. 0 \in 0 .. NumVersions
      BY Constants
    <3> QED
      BY <3>1, Zenon DEF Init
  <2>3. \A m \in Migrators : pc[m] \in Inside <=> lock = m
    BY NoneAssumption DEF Init, Inside
  <2> QED
    BY <2>1, <2>2, <2>3 DEF Init, TypeOK, Directions
<1>2. Prefix
  BY Constants DEF Init, Prefix
<1>3. \A m \in Migrators : SessionInv(m)
  BY DEF Init, SessionInv, ListInv, StatementInv, Listed
<1>4. SchemaMatchesRecord
  BY DEF Init, SchemaMatchesRecord
<1> QED
  BY <1>1, <1>2, <1>3, <1>4 DEF IInv

\* A session ends.
LEMMA EndFacts ==
  ASSUME TypeOK, NEW m \in Migrators, EndSession(m),
         recorded' \subseteq Versions, halfway' \subseteq NoTx,
         object' \in [Versions -> {"absent", "invalid", "present"}]
  PROVE  /\ TypeOK' /\ pc'[m] = "idle"
         /\ \A q \in Migrators \ {m} : /\ pc'[q] = pc[q] /\ dir'[q] = dir[q]
                                       /\ known'[q] = known[q] /\ todo'[q] = todo[q]
<1>1. /\ pc' \in [Migrators -> {"idle", "lock"} \cup Inside] /\ pc'[m] = "idle"
      /\ dir' \in [Migrators -> Directions]
      /\ todo' \in [Migrators -> SUBSET Versions]
      /\ older' \in [Migrators -> SUBSET Migrators]
      /\ lock' \in Migrators \cup {None}
  BY DEF EndSession, TypeOK, Directions
<1>2. known' \in [Migrators -> 0 .. NumVersions]
  <2>1. 0 \in 0 .. NumVersions
    BY Constants
  <2> QED
    BY <2>1, Zenon DEF EndSession, TypeOK
<1>3. \A q \in Migrators \ {m} : /\ pc'[q] = pc[q] /\ dir'[q] = dir[q]
                                 /\ known'[q] = known[q] /\ todo'[q] = todo[q]
  BY Zenon DEF EndSession, TypeOK
<1>4. \A q \in Migrators : pc'[q] \in Inside <=> lock' = q
  BY <1>1, <1>3, NoneAssumption DEF EndSession, TypeOK, Inside
<1>5. gone' \subseteq {q \in Migrators : pc'[q] \in {"lock", "exec"}}
  BY <1>3 DEF EndSession, TypeOK
<1> QED
  BY <1>1, <1>2, <1>3, <1>4, <1>5 DEF TypeOK

\* A session inside goes to another place inside.
LEMMA GotoFacts ==
  ASSUME TypeOK, NEW m \in Migrators, NEW l \in Inside, pc[m] \in Inside, Goto(m, l),
         m \notin gone, UNCHANGED <<lock, dir, known, gone>>,
         todo' \in [Migrators -> SUBSET Versions], older' \in [Migrators -> SUBSET Migrators],
         recorded' \subseteq Versions, halfway' \subseteq NoTx,
         object' \in [Versions -> {"absent", "invalid", "present"}]
  PROVE  /\ TypeOK' /\ pc'[m] = l
         /\ \A q \in Migrators \ {m} : pc'[q] = pc[q] /\ SessionInv(q)'
<1>1. /\ pc' \in [Migrators -> {"idle", "lock"} \cup Inside] /\ pc'[m] = l
      /\ \A q \in Migrators \ {m} : pc'[q] = pc[q]
  BY DEF Goto, TypeOK
<1>2. \A q \in Migrators : pc'[q] \in Inside <=> lock' = q
  BY <1>1 DEF TypeOK
<1>3. gone' \subseteq {q \in Migrators : pc'[q] \in {"lock", "exec"}}
  BY <1>1 DEF TypeOK
<1>4. TypeOK'
  BY <1>1, <1>2, <1>3 DEF TypeOK
<1>5. ASSUME NEW q \in Migrators \ {m} PROVE SessionInv(q)'
  <2>1. pc'[q] \notin Inside
    BY <1>1, LockHolder
  <2> QED
    BY <2>1 DEF SessionInv, ListInv, StatementInv, Listed, Inside
<1> QED
  BY <1>1, <1>4, <1>5

\* Sessions do not die between statements.
LEMMA Alive ==
  ASSUME TypeOK, NEW m \in Migrators, pc[m] \notin {"lock", "exec"}
  PROVE  m \notin gone
BY DEF TypeOK

\* A session that stands still, beside a database that does.
LEMMA SessionFrame ==
  ASSUME NEW q \in Migrators, SessionInv(q), UNCHANGED dbVars,
         pc'[q] = pc[q], dir'[q] = dir[q], known'[q] = known[q], todo'[q] = todo[q]
  PROVE  SessionInv(q)'
<1>1. Current(q)' = Current(q)
  BY DEF Current
<1>2. ListInv(q)'
  BY DEF SessionInv, ListInv, dbVars
<1>3. StatementInv(q)'
  BY <1>1 DEF SessionInv, StatementInv, After, dbVars
<1> QED
  BY <1>2, <1>3 DEF SessionInv

LEMMA DatabaseFrame ==
  ASSUME IInv, UNCHANGED dbVars
  PROVE  /\ Prefix' /\ SchemaMatchesRecord'
         /\ recorded' \subseteq Versions /\ halfway' \subseteq NoTx
         /\ object' \in [Versions -> {"absent", "invalid", "present"}]
BY DEF IInv, TypeOK, Prefix, SchemaMatchesRecord, After, dbVars

\* A session ends and leaves the database alone.
LEMMA StepEnd == ASSUME IInv, NEW m \in Migrators, EndSession(m), UNCHANGED dbVars PROVE IInv'
<1>1. /\ TypeOK' /\ pc'[m] = "idle"
      /\ \A q \in Migrators \ {m} : /\ pc'[q] = pc[q] /\ dir'[q] = dir[q]
                                    /\ known'[q] = known[q] /\ todo'[q] = todo[q]
  BY EndFacts, DatabaseFrame DEF IInv
<1>2. ASSUME NEW q \in Migrators PROVE SessionInv(q)'
  <2>1. CASE q = m
    BY <1>1, <2>1 DEF SessionInv, ListInv, StatementInv, Listed
  <2>2. CASE q # m
    BY <1>1, <2>2, SessionFrame DEF IInv
  <2> QED
    BY <2>1, <2>2
<1> QED
  BY <1>1, <1>2, DatabaseFrame DEF IInv

\* A session goes to a place where nothing is known of it.
LEMMA StepUnlockNext ==
  ASSUME IInv, NEW m \in Migrators, pc[m] \in Inside, m \notin gone, Goto(m, "unlock"),
         UNCHANGED <<dbVars, lock, dir, known, todo, older, gone>>
  PROVE  IInv'
<1>1. TypeOK' /\ pc'[m] = "unlock" /\ \A q \in Migrators \ {m} : SessionInv(q)'
  BY GotoFacts, DatabaseFrame DEF IInv, TypeOK, Inside
<1>2. SessionInv(m)'
  BY <1>1 DEF SessionInv, ListInv, StatementInv, Listed
<1> QED
  BY <1>1, <1>2, DatabaseFrame DEF IInv

-----------------------------------------------------------------------------
(* The steps                                                               *)

LEMMA StepStart ==
  ASSUME IInv, NEW m \in Migrators, NEW d \in Directions, NEW k \in Releases, Start(m, d, k)
  PROVE  IInv'
<1>1. k \in 0 .. NumVersions /\ UNCHANGED <<dbVars, lock, todo, older, gone>>
  BY Constants DEF Start
<1>2. /\ pc' \in [Migrators -> {"idle", "lock"} \cup Inside] /\ pc'[m] = "lock"
      /\ dir' \in [Migrators -> Directions]
      /\ \A q \in Migrators \ {m} : pc'[q] = pc[q] /\ dir'[q] = dir[q] /\ known'[q] = known[q]
  BY DEF Start, Goto, IInv, TypeOK
<1>3. known' \in [Migrators -> 0 .. NumVersions]
  BY <1>1, Zenon DEF Start, IInv, TypeOK
<1>4. \A q \in Migrators : pc'[q] \in Inside <=> lock' = q
  BY <1>1, <1>2 DEF Start, IInv, TypeOK, Inside
<1>5. gone' \subseteq {q \in Migrators : pc'[q] \in {"lock", "exec"}}
  BY <1>1, <1>2 DEF IInv, TypeOK
<1>6. TypeOK'
  BY <1>1, <1>2, <1>3, <1>4, <1>5, DatabaseFrame DEF IInv, TypeOK
<1>7. ASSUME NEW q \in Migrators PROVE SessionInv(q)'
  <2>1. CASE q = m
    BY <1>2, <2>1 DEF SessionInv, ListInv, StatementInv, Listed
  <2>2. CASE q # m
    BY <1>1, <1>2, <2>2, SessionFrame DEF IInv
  <2> QED
    BY <2>1, <2>2
<1> QED
  BY <1>1, <1>6, <1>7, DatabaseFrame DEF IInv

LEMMA StepAcquire == ASSUME IInv, NEW m \in Migrators, Acquire(m) PROVE IInv'
<1>1. UNCHANGED dbVars
  BY DEF Acquire
<1>2. CASE m \in gone /\ EndSession(m)
  BY <1>1, <1>2, StepEnd
<1>3. CASE /\ m \notin gone
           /\ lock' = m
           /\ Goto(m, "list")
           /\ older' = [q \in Migrators |-> older[q] \ {m}]
           /\ UNCHANGED <<dir, known, todo, gone>>
  <2>1. /\ pc' \in [Migrators -> {"idle", "lock"} \cup Inside] /\ pc'[m] = "list"
        /\ \A q \in Migrators \ {m} : pc'[q] = pc[q]
    BY <1>3 DEF Goto, IInv, TypeOK, Inside
  <2>2. \A q \in Migrators : pc[q] \notin Inside
    BY NoneAssumption DEF Acquire, IInv, TypeOK
  <2>3. \A q \in Migrators : pc'[q] \in Inside <=> lock' = q
    BY <1>3, <2>1, <2>2 DEF Inside
  <2>4. gone' \subseteq {q \in Migrators : pc'[q] \in {"lock", "exec"}}
    BY <1>3, <2>1 DEF IInv, TypeOK
  <2>5. older' \in [Migrators -> SUBSET Migrators]
    BY <1>3 DEF IInv, TypeOK
  <2>6. TypeOK'
    BY <1>1, <1>3, <2>1, <2>3, <2>4, <2>5, DatabaseFrame DEF IInv, TypeOK
  <2>7. \A q \in Migrators : SessionInv(q)'
    BY <2>1, <2>2 DEF SessionInv, ListInv, StatementInv, Listed, Inside
  <2> QED
    BY <1>1, <2>6, <2>7, DatabaseFrame DEF IInv
<1> QED
  BY <1>2, <1>3 DEF Acquire

LEMMA StepList == ASSUME IInv, NEW m \in Migrators, List(m) PROVE IInv'
<1>1. UNCHANGED <<dbVars, lock, dir, known, older, gone>> /\ pc[m] = "list" /\ Goto(m, "run")
  BY DEF List
<1>2. PICK n \in Versions \cup {1} :
        /\ dir[m] = "up" \/ n \in Versions
        /\ todo' = [todo EXCEPT ![m] = Pending(dir[m], known[m], n)]
  BY DEF List
<1>3. n \in Nat /\ dir[m] \in {"up", "down"} /\ known[m] \in 0 .. NumVersions
  BY Constants DEF IInv, TypeOK, Directions
<1>4. PICK k \in 0 .. NumVersions : recorded = 1 .. k
  BY DEF IInv, Prefix
<1>5. Pending(dir[m], known[m], n) \in SUBSET Versions
  BY <1>3, <1>4, Constants DEF Pending, Versions
<1>6. todo' \in [Migrators -> SUBSET Versions] /\ todo'[m] = Pending(dir[m], known[m], n)
  BY <1>2, <1>5, Zenon DEF IInv, TypeOK
<1>7. TypeOK' /\ pc'[m] = "run" /\ \A q \in Migrators \ {m} : SessionInv(q)'
  BY <1>1, <1>6, GotoFacts, DatabaseFrame, Alive DEF IInv, TypeOK, Inside
<1>8. ListInv(m)'
  <2>1. CASE dir[m] = "up"
    BY <1>1, <1>6, <2>1 DEF ListInv, Pending, dbVars
  <2>2. CASE dir[m] = "down"
    <3>1. todo'[m] = {v \in 1 .. k : Cardinality({w \in 1 .. k : w > v}) < n}
      BY <1>4, <1>6, <2>2 DEF Pending
    <3>2. PICK j \in 0 .. k : todo'[m] = j + 1 .. k
      <4>1. k \in Nat
        OBVIOUS
      <4>2. \E j \in 0 .. k :
              {v \in 1 .. k : Cardinality({w \in 1 .. k : w > v}) < n} = j + 1 .. k
        BY <1>3, <4>1, LastVersions
      <4> QED
        BY <3>1, <4>2, Zenon
    <3>3. j \in 0 .. NumVersions /\ recorded' = 1 .. k
      BY <1>1, <1>4, Constants DEF dbVars
    <3> QED
      BY <1>1, <2>2, <3>2, <3>3 DEF ListInv
  <2> QED
    BY <1>3, <2>1, <2>2
<1>9. SessionInv(m)'
  BY <1>7, <1>8 DEF SessionInv, StatementInv
<1> QED
  BY <1>1, <1>7, <1>9, DatabaseFrame DEF IInv

\* The current version of a session that has not finished.
LEMMA Unfinished ==
  ASSUME IInv, NEW m \in Migrators, pc[m] \in Listed, todo[m] # {}
  PROVE  Current(m) \in Versions
BY CurrentVersion

\* A version is booked in one step with its object, or after it.
LEMMA Booked ==
  ASSUME IInv, NEW m \in Migrators, pc[m] \in {"run", "record"}, todo[m] # {},
         Bookkeep(m, Current(m)), Goto(m, "run") \/ Goto(m, "unlock"),
         UNCHANGED <<lock, dir, known, older, gone>>,
         object' = [object EXCEPT ![Current(m)] = After(Current(m), dir[m])],
         halfway' = halfway \ {Current(m)}
  PROVE  IInv'
<1>1. PICK v \in Versions : v = Current(m)
  BY Unfinished DEF Listed
<1>2. PICK l \in {"run", "unlock"} : Goto(m, l)
  OBVIOUS
<1>3. pc[m] \in Inside /\ pc[m] \in Listed /\ l \in Inside /\ m \notin gone
  BY Alive DEF Inside, Listed, IInv
<1>4. pc'[m] = l
  BY <1>2 DEF Goto, IInv, TypeOK
<1>5. /\ Prefix' /\ recorded' \subseteq Versions /\ todo' \in [Migrators -> SUBSET Versions]
      /\ \A w \in Versions \ {v} : w \in recorded' <=> w \in recorded
      /\ v \in recorded' <=> dir[m] = "up"
      /\ SessionInv(m)'
  BY <1>1, <1>3, <1>4, BookkeepFacts
<1>6. dir[m] \in Directions /\ After(v, dir[m]) \in {"absent", "present"}
  BY Constants DEF IInv, TypeOK
<1>7. /\ object' \in [Versions -> {"absent", "invalid", "present"}]
      /\ object'[v] = After(v, dir[m])
      /\ \A w \in Versions \ {v} : object'[w] = object[w]
      /\ halfway' = halfway \ {v} /\ halfway' \subseteq NoTx
  BY <1>1, <1>6 DEF IInv, TypeOK
<1>8. TypeOK' /\ \A q \in Migrators \ {m} : SessionInv(q)'
  BY <1>2, <1>3, <1>5, <1>7, GotoFacts DEF IInv, TypeOK
<1>9. SchemaMatchesRecord'
  <2> SUFFICES ASSUME NEW w \in Versions \ halfway'
               PROVE  object'[w] = After(w, IF w \in recorded' THEN "up" ELSE "down")
    BY DEF SchemaMatchesRecord, After
  <2>1. CASE w = v
    BY <1>5, <1>6, <1>7, <2>1 DEF Directions
  <2>2. CASE w # v
    BY <1>5, <1>7, <2>2 DEF IInv, SchemaMatchesRecord
  <2> QED
    BY <2>1, <2>2
<1> QED
  BY <1>5, <1>8, <1>9 DEF IInv

LEMMA StepRunInTx == ASSUME IInv, NEW m \in Migrators, RunInTx(m) PROVE IInv'
<1>1. todo[m] # {} /\ pc[m] = "run"
  BY DEF RunInTx, Finished
<1>2. Current(m) \notin halfway
  BY DEF RunInTx, IInv, TypeOK
<1>3. halfway' = halfway \ {Current(m)}
  BY <1>2 DEF RunInTx
<1> QED
  BY <1>1, <1>3, Booked DEF RunInTx

LEMMA StepRecord == ASSUME IInv, NEW m \in Migrators, Record(m) PROVE IInv'
<1>1. pc[m] = "record" /\ todo[m] # {} /\ object[Current(m)] = After(Current(m), dir[m])
  BY DEF Record, IInv, SessionInv, StatementInv
<1>2. object' = [object EXCEPT ![Current(m)] = After(Current(m), dir[m])]
  BY <1>1 DEF Record, IInv, TypeOK
<1> QED
  BY <1>1, <1>2, Booked DEF Record

\* A statement changes nothing but the object of a version that is halfway.
LEMMA HalfwayFrame ==
  ASSUME IInv, NEW v \in Versions, v \in halfway', recorded' = recorded,
         halfway \subseteq halfway', \A w \in Versions \ {v} : object'[w] = object[w]
  PROVE  Prefix' /\ SchemaMatchesRecord'
<1>1. Prefix'
  BY DEF IInv, Prefix
<1>2. SchemaMatchesRecord'
  BY DEF IInv, SchemaMatchesRecord, After
<1> QED
  BY <1>1, <1>2

LEMMA StepExec == ASSUME IInv, NEW m \in Migrators, Exec(m) PROVE IInv'
<1>1. todo[m] # {} /\ pc[m] = "run" /\ pc[m] \in Listed /\ pc[m] \in Inside /\ m \notin gone
  BY Alive DEF Exec, Finished, Listed, Inside, IInv
<1>2. PICK v \in Versions : v = Current(m) /\ v \in NoTx
  BY <1>1, Unfinished DEF Exec
<1>3. /\ UNCHANGED <<recorded, lock, dir, known, todo, gone>>
      /\ halfway' = halfway \cup {v} /\ halfway' \subseteq NoTx
  BY <1>2 DEF Exec, IInv, TypeOK
<1>4. \/ /\ (object[v] = "absent") = (After(v, dir[m]) = "absent")
         /\ Goto(m, "check") /\ UNCHANGED <<object, older>>
      \/ /\ Goto(m, "exec")
         /\ object' = [object EXCEPT ![v] = "invalid"]
         /\ older' = [older EXCEPT ![m] = IF dir[m] = "down" THEN Waiters ELSE {}]
  BY <1>2 DEF Exec
<1>5. /\ object' \in [Versions -> {"absent", "invalid", "present"}]
      /\ older' \in [Migrators -> SUBSET Migrators]
      /\ \A w \in Versions \ {v} : object'[w] = object[w]
  BY <1>4 DEF IInv, TypeOK, Waiters
<1>6. PICK l \in {"exec", "check"} :
        /\ Goto(m, l)
        /\ l = "check" => /\ (object[v] = "absent") = (After(v, dir[m]) = "absent")
                          /\ object' = object
  BY <1>4
<1>7. TypeOK' /\ pc'[m] = l /\ \A q \in Migrators \ {m} : SessionInv(q)'
  <2>1. l \in Inside /\ recorded' \subseteq Versions /\ todo' \in [Migrators -> SUBSET Versions]
    BY <1>3 DEF Inside, IInv, TypeOK
  <2> QED
    BY <1>1, <1>3, <1>5, <1>6, <2>1, GotoFacts DEF IInv
<1>8. Current(m)' = v
  BY <1>2, <1>3 DEF Current
<1>9. SessionInv(m)'
  <2>1. ListInv(m)'
    BY <1>1, <1>3 DEF ListInv, IInv, SessionInv
  <2>2. StatementInv(m)'
    BY <1>1, <1>3, <1>6, <1>7, <1>8 DEF StatementInv, After
  <2> QED
    BY <2>1, <2>2 DEF SessionInv
<1>10. Prefix' /\ SchemaMatchesRecord'
  BY <1>3, <1>5, HalfwayFrame
<1> QED
  BY <1>7, <1>9, <1>10 DEF IInv

LEMMA StepExecEnds == ASSUME IInv, NEW m \in Migrators, ExecEnds(m) PROVE IInv'
<1>1. /\ todo[m] # {} /\ pc[m] = "exec" /\ pc[m] \in Listed /\ pc[m] \in Inside
      /\ Current(m) \in halfway
  BY DEF ExecEnds, Listed, Inside, IInv, SessionInv, StatementInv
<1>2. PICK v \in Versions : v = Current(m) /\ v \in halfway
  BY <1>1, Unfinished
<1>3. UNCHANGED <<recorded, halfway>> /\ object' = [object EXCEPT ![v] = After(v, dir[m])]
  BY <1>2 DEF ExecEnds
<1>4. dir[m] \in Directions /\ After(v, dir[m]) \in {"absent", "present"}
  BY Constants DEF IInv, TypeOK
<1>5. /\ object' \in [Versions -> {"absent", "invalid", "present"}]
      /\ object'[v] = After(v, dir[m])
      /\ \A w \in Versions \ {v} : object'[w] = object[w]
      /\ recorded' \subseteq Versions /\ halfway' \subseteq NoTx
  BY <1>3, <1>4 DEF IInv, TypeOK
<1>6. Prefix' /\ SchemaMatchesRecord'
  BY <1>2, <1>3, <1>5, HalfwayFrame
<1>7. CASE m \in gone
  <2>1. EndSession(m)
    BY <1>7 DEF ExecEnds
  <2>2. /\ TypeOK' /\ pc'[m] = "idle"
        /\ \A q \in Migrators \ {m} : pc'[q] = pc[q]
    BY <1>5, <2>1, EndFacts DEF IInv
  <2>3. \A q \in Migrators : pc'[q] \notin Inside
    BY <1>1, <2>2, LockHolder DEF IInv, Inside
  <2>4. \A q \in Migrators : SessionInv(q)'
    BY <2>3 DEF SessionInv, ListInv, StatementInv, Listed, Inside
  <2> QED
    BY <1>6, <2>2, <2>4 DEF IInv
<1>8. CASE m \notin gone
  <2>1. Goto(m, "check") /\ UNCHANGED <<lock, dir, known, todo, older, gone>>
    BY <1>8 DEF ExecEnds
  <2>2. TypeOK' /\ pc'[m] = "check" /\ \A q \in Migrators \ {m} : SessionInv(q)'
    <3>1. /\ "check" \in Inside /\ todo' \in [Migrators -> SUBSET Versions]
          /\ older' \in [Migrators -> SUBSET Migrators]
      BY <2>1 DEF Inside, IInv, TypeOK
    <3> QED
      BY <1>1, <1>5, <1>8, <2>1, <3>1, GotoFacts DEF IInv
  <2>3. Current(m)' = v
    BY <1>2, <2>1 DEF Current
  <2>4. ListInv(m)'
    BY <1>1, <1>3, <2>1 DEF ListInv, IInv, SessionInv
  <2>5. StatementInv(m)'
    BY <1>1, <1>2, <1>3, <1>5, <2>1, <2>2, <2>3 DEF StatementInv, After
  <2>6. SessionInv(m)'
    BY <2>4, <2>5 DEF SessionInv
  <2> QED
    BY <1>6, <2>2, <2>6 DEF IInv
<1> QED
  BY <1>7, <1>8

LEMMA StepExecFails == ASSUME IInv, NEW m \in Migrators, ExecFails(m) PROVE IInv'
<1>1. UNCHANGED dbVars /\ pc[m] \in Inside
  BY DEF ExecFails, Inside
<1>2. CASE m \in gone
  BY <1>1, <1>2, StepEnd DEF ExecFails
<1>3. CASE m \notin gone
  BY <1>1, <1>3, StepUnlockNext DEF ExecFails
<1> QED
  BY <1>2, <1>3

LEMMA StepCheck == ASSUME IInv, NEW m \in Migrators, Check(m) PROVE IInv'
<1>1. /\ UNCHANGED <<dbVars, lock, dir, known, todo, older, gone>>
      /\ pc[m] = "check" /\ pc[m] \in Inside /\ pc[m] \in Listed /\ m \notin gone
  BY Alive DEF Check, Inside, Listed, IInv
<1>2. CASE ~NoInvalidIndexes
  BY <1>1, <1>2, StepUnlockNext DEF Check
<1>3. CASE NoInvalidIndexes
  <2>1. todo[m] # {} /\ Current(m) \in halfway
    BY <1>1 DEF IInv, SessionInv, StatementInv
  <2>2. PICK v \in Versions : v = Current(m)
    BY <1>1, <2>1, Unfinished
  <2>3. object[v] = "absent" <=> After(v, dir[m]) = "absent"
    BY <1>1, <2>2 DEF IInv, SessionInv, StatementInv
  <2>4. object[v] \in {"absent", "present"} /\ After(v, dir[m]) \in {"absent", "present"}
    BY <1>3, Constants DEF NoInvalidIndexes, IInv, TypeOK
  <2>5. object[v] = After(v, dir[m])
    BY <2>3, <2>4
  <2>6. Goto(m, "record")
    BY <1>3 DEF Check
  <2>7. TypeOK' /\ pc'[m] = "record" /\ \A q \in Migrators \ {m} : SessionInv(q)'
    BY <1>1, <2>6, GotoFacts, DatabaseFrame DEF IInv, TypeOK, Inside
  <2>8. Current(m)' = v
    BY <1>1, <2>2 DEF Current
  <2>9. ListInv(m)'
    BY <1>1 DEF ListInv, IInv, SessionInv, dbVars
  <2>10. StatementInv(m)'
    BY <1>1, <2>1, <2>2, <2>5, <2>7, <2>8 DEF StatementInv, After, dbVars
  <2>11. SessionInv(m)'
    BY <2>9, <2>10 DEF SessionInv
  <2> QED
    BY <1>1, <2>7, <2>11, DatabaseFrame DEF IInv
<1> QED
  BY <1>2, <1>3

LEMMA StepReturn == ASSUME IInv, NEW m \in Migrators, Return(m) \/ Fails(m) PROVE IInv'
<1>1. /\ UNCHANGED <<dbVars, lock, dir, known, todo, older, gone>> /\ Goto(m, "unlock")
      /\ pc[m] \in {"list", "run", "check", "record"}
  BY DEF Return, Fails
<1>2. pc[m] \in Inside /\ m \notin gone
  BY <1>1, Alive DEF Inside, IInv
<1> QED
  BY <1>1, <1>2, StepUnlockNext

LEMMA StepCrash == ASSUME IInv, NEW m \in Migrators, Crash(m) PROVE IInv'
<1>1. UNCHANGED dbVars
  BY DEF Crash
<1>2. CASE pc[m] \notin {"lock", "exec"}
  BY <1>1, <1>2, StepEnd DEF Crash
<1>3. CASE pc[m] \in {"lock", "exec"}
  <2>1. gone' = gone \cup {m} /\ UNCHANGED <<lock, pc, dir, known, todo, older>>
    BY <1>3 DEF Crash
  <2>2. TypeOK'
    BY <1>1, <1>3, <2>1, DatabaseFrame DEF IInv, TypeOK
  <2>3. \A q \in Migrators : SessionInv(q)'
    BY <1>1, <2>1, SessionFrame DEF IInv
  <2> QED
    BY <1>1, <2>2, <2>3, DatabaseFrame DEF IInv
<1> QED
  BY <1>2, <1>3

\* Only a version that is halfway has an INVALID index.
LEMMA StepOperatorDrops == ASSUME IInv, NEW v \in Versions, OperatorDrops(v) PROVE IInv'
<1>1. /\ UNCHANGED <<recorded, halfway, lock, sessionVars>>
      /\ object' = [object EXCEPT ![v] = "absent"] /\ object[v] = "invalid" /\ lock = None
  BY DEF OperatorDrops
<1>2. v \in halfway
  BY <1>1 DEF IInv, SchemaMatchesRecord, After
<1>3. /\ object' \in [Versions -> {"absent", "invalid", "present"}]
      /\ \A w \in Versions \ {v} : object'[w] = object[w]
  BY <1>1 DEF IInv, TypeOK
<1>4. TypeOK'
  BY <1>1, <1>3 DEF IInv, TypeOK, sessionVars
<1>5. \A q \in Migrators : pc'[q] \notin Inside
  BY <1>1, NoneAssumption DEF IInv, TypeOK, sessionVars
<1>6. \A q \in Migrators : SessionInv(q)'
  BY <1>5 DEF SessionInv, ListInv, StatementInv, Listed, Inside
<1> QED
  BY <1>1, <1>2, <1>3, <1>4, <1>6, HalfwayFrame DEF IInv

LEMMA StepIInv == IInv /\ [Next]_vars => IInv'
<1> SUFFICES ASSUME IInv, [Next]_vars PROVE IInv'
  OBVIOUS
<1>1. ASSUME NEW m \in Migrators, NEW d \in Directions, NEW k \in Releases, Start(m, d, k)
      PROVE  IInv'
  BY <1>1, StepStart
<1>2. ASSUME NEW m \in Migrators, Acquire(m) \/ WaitFails(m) \/ Crash(m) PROVE IInv'
  BY <1>2, StepAcquire, StepEnd, StepCrash DEF WaitFails
<1>3. ASSUME NEW m \in Migrators, Advance(m) PROVE IInv'
  BY <1>3, StepList, StepRunInTx, StepExec, StepExecEnds, StepExecFails, StepCheck,
     StepRecord, StepReturn, StepEnd DEF Advance, Unlock
<1>4. ASSUME NEW v \in Versions, OperatorDrops(v) PROVE IInv'
  BY <1>4, StepOperatorDrops
<1>5. CASE UNCHANGED vars
  <2>1. UNCHANGED dbVars /\ UNCHANGED <<lock, pc, dir, known, todo, older, gone>>
    BY <1>5 DEF vars, sessionVars
  <2>2. TypeOK'
    BY <2>1, DatabaseFrame DEF IInv, TypeOK
  <2>3. \A q \in Migrators : SessionInv(q)'
    BY <2>1, SessionFrame DEF IInv
  <2> QED
    BY <2>1, <2>2, <2>3, DatabaseFrame DEF IInv
<1> QED
  BY <1>1, <1>2, <1>3, <1>4, <1>5 DEF Next

LEMMA InvariantHolds == Spec => []IInv
BY InitIInv, StepIInv, PTL DEF Spec

-----------------------------------------------------------------------------

\* withLock and the steps of Up and Down keep the types, and exactly the session that
\* holds the advisory lock is past it.
THEOREM MigratorTypeCorrect == Spec => []TypeOK
<1>1. IInv => TypeOK
  BY DEF IInv
<1> QED
  BY <1>1, InvariantHolds, PTL

\* Migrator.Version: the greatest recorded version stands for all of them, whatever
\* releases, rollbacks and crashes take turns.
THEOREM MigratorVersionTellsAll == Spec => []VersionTellsAll
<1>1. IInv => VersionTellsAll
  <2> SUFFICES ASSUME IInv PROVE recorded = 1 .. Version
    BY DEF VersionTellsAll
  <2>1. PICK n \in 0 .. NumVersions : recorded = 1 .. n
    BY DEF IInv, Prefix
  <2>2. CASE n = 0
    BY <2>1, <2>2 DEF Version
  <2>3. CASE n # 0
    <3>1. n \in Nat /\ 1 <= n /\ 1 \in Nat
      BY <2>3
    <3>2. Max(1 .. n) = n
      BY <3>1, IntervalMax
    <3>3. recorded # {}
      BY <2>1, <3>1
    <3> QED
      BY <2>1, <3>2, <3>3 DEF Version
  <2> QED
    BY <2>2, <2>3
<1> QED
  BY <1>1, InvariantHolds, PTL

\* runInTx and runWithoutTx: the schema and schema_migrations agree on every version but
\* a no-transaction one whose bookkeeping is still due.
THEOREM MigratorSchemaMatchesRecord == Spec => []SchemaMatchesRecord
<1>1. IInv => SchemaMatchesRecord
  BY DEF IInv
<1> QED
  BY <1>1, InvariantHolds, PTL

=============================================================================
