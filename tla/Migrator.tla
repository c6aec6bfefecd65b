------------------------------ MODULE Migrator ------------------------------
(***************************************************************************)
(* Schema migrations: several cmd/migrate invocations, of releases that    *)
(* embed different numbers of migration files, apply and roll back         *)
(* versions of one database. They exclude one another by an advisory lock  *)
(* that belongs to a database session. A migration commits with its        *)
(* bookkeeping in one transaction, or is a no-transaction migration: one   *)
(* statement on an index, a check for INVALID indexes and the bookkeeping, *)
(* one after the other, with nothing to roll the earlier ones back.        *)
(*                                                                         *)
(* Each version stands for the object its scripts are about: a table that  *)
(* comes with the version and goes with its rollback, or, for a            *)
(* no-transaction version as in src/migrations 11 to 18, an index that     *)
(* DROP INDEX CONCURRENTLY IF EXISTS takes away and CREATE INDEX           *)
(* CONCURRENTLY IF NOT EXISTS brings back.                                 *)
(***************************************************************************)
EXTENDS Naturals, FiniteSetsExt

CONSTANTS
  Migrators,         \* invocations that may be under way at once
  NumVersions,       \* migrations of the newest release
  NoTx,              \* versions whose files carry noTransactionDirective
  Releases,          \* numbers of migrations that the deployed releases embed
  None

Versions == 1 .. NumVersions

ASSUME NoTxAssumption == NumVersions \in Nat /\ NoTx \subseteq Versions
ASSUME ReleaseAssumption == Releases \subseteq Versions
ASSUME NoneAssumption == None \notin Migrators

VARIABLES
  \* PostgreSQL
  recorded,          \* schema_migrations
  object,            \* each version's object; "invalid" is an index with NOT indisvalid
  lock,              \* the session that holds migrationLockID
  \* the sessions
  pc,
  dir,               \* command
  known,             \* the files at hand are those of versions 1 .. known
  todo,              \* versions still to run, from the one listing under the lock
  older,             \* sessions whose snapshots an index build has to outwait
  gone,              \* sessions whose client is dead
  \* history
  halfway            \* versions whose statement was tried since their bookkeeping

dbVars == <<recorded, object, halfway>>
sessionVars == <<pc, dir, known, todo, older, gone>>
vars == <<dbVars, lock, sessionVars>>

Directions == {"up", "down"}
Inside == {"list", "run", "exec", "check", "record", "unlock"}

\* What a script leaves.
After(v, d) == IF (v \in NoTx) = (d = "up") THEN "absent" ELSE "present"

\* Exactly the session that holds the lock is past it.
TypeOK ==
  /\ recorded \subseteq Versions
  /\ object \in [Versions -> {"absent", "invalid", "present"}]
  /\ lock \in Migrators \cup {None}
  /\ pc \in [Migrators -> {"idle", "lock"} \cup Inside]
  /\ dir \in [Migrators -> Directions]
  /\ known \in [Migrators -> 0 .. NumVersions]
  /\ todo \in [Migrators -> SUBSET Versions]
  /\ older \in [Migrators -> SUBSET Migrators]
  /\ gone \subseteq {m \in Migrators : pc[m] \in {"lock", "exec"}}
  /\ halfway \subseteq NoTx
  /\ \A m \in Migrators : pc[m] \in Inside <=> lock = m

Init ==
  /\ recorded = {} /\ halfway = {} /\ lock = None
  /\ object = [v \in Versions |-> After(v, "down")]
  /\ pc = [m \in Migrators |-> "idle"]
  /\ dir = [m \in Migrators |-> "up"]
  /\ known = [m \in Migrators |-> 0]
  /\ todo = [m \in Migrators |-> {}]
  /\ older = [m \in Migrators |-> {}]
  /\ gone = {}

Goto(m, l) == pc' = [pc EXCEPT ![m] = l]

Waiters == {q \in Migrators : pc[q] = "lock"}

\* Bug: a command that is given up on leaves its session, and the lock, in the pool.
KeepLock(m) ==
  /\ pc' = [pc EXCEPT ![m] = "idle"]
  /\ UNCHANGED lock
  /\ dir' = [dir EXCEPT ![m] = "up"]
  /\ known' = [known EXCEPT ![m] = 0]
  /\ todo' = [todo EXCEPT ![m] = {}]
  /\ older' = [q \in Migrators |-> IF q = m THEN {} ELSE older[q] \ {m}]
  /\ gone' = gone \ {m}

\* The session ends or unlocks: the lock it may hold, or wait for, is given up, and its
\* snapshot is gone.
EndSession(m) ==
  /\ pc' = [pc EXCEPT ![m] = "idle"]
  /\ lock' = IF lock = m THEN None ELSE lock
  /\ dir' = [dir EXCEPT ![m] = "up"]
  /\ known' = [known EXCEPT ![m] = 0]
  /\ todo' = [todo EXCEPT ![m] = {}]
  /\ older' = [q \in Migrators |-> IF q = m THEN {} ELSE older[q] \ {m}]
  /\ gone' = gone \ {m}

-----------------------------------------------------------------------------
(* run, parseCommand and withLock                                          *)

\* The files are read and found well-formed, and the session asks for the lock. Down
\* keeps its step count by listing no more than that.
Start(m, d, k) ==
  /\ pc[m] = "idle"
  /\ Goto(m, "lock")
  /\ dir' = [dir EXCEPT ![m] = d]
  /\ known' = [known EXCEPT ![m] = k]
  /\ UNCHANGED <<dbVars, lock, todo, older, gone>>

\* Bug: the answer of pg_try_advisory_lock is not looked at.
TryLock(m) ==
  /\ pc[m] = "lock"
  /\ lock' = m
  /\ Goto(m, "list")
  /\ older' = [q \in Migrators |-> older[q] \ {m}]
  /\ UNCHANGED <<dbVars, dir, known, todo, gone>>

\* pg_advisory_lock returns. The backend of a dead client finds out only now.
Acquire(m) ==
  /\ pc[m] = "lock" /\ lock = None
  /\ \/ m \in gone /\ EndSession(m)
     \/ /\ m \notin gone
        /\ lock' = m
        /\ Goto(m, "list")
        /\ older' = [q \in Migrators |-> older[q] \ {m}]
        /\ UNCHANGED <<dir, known, todo, gone>>
  /\ UNCHANGED dbVars

\* The wait is cancelled, or ended by the deadlock detector.
WaitFails(m) ==
  /\ pc[m] = "lock"
  /\ EndSession(m)
  /\ UNCHANGED dbVars

-----------------------------------------------------------------------------
(* Up and Down                                                             *)

\* Bug: the first versions are rolled back, not the last.
FirstApplied(d, k, n) ==
  IF d = "up" THEN 1 .. k \ recorded
  ELSE {v \in recorded : Cardinality({w \in recorded : w < v}) < n}

\* What is to be run: the known versions that are not recorded, or the last n recorded.
Pending(d, k, n) ==
  IF d = "up" THEN 1 .. k \ recorded
  ELSE {v \in recorded : Cardinality({w \in recorded : w > v}) < n}

\* appliedVersionsDesc, once, under the lock.
List(m) ==
  /\ pc[m] = "list"
  /\ \E n \in IF dir[m] = "up" THEN {1} ELSE Versions :
       todo' = [todo EXCEPT ![m] = Pending(dir[m], known[m], n)]
  /\ Goto(m, "run")
  /\ UNCHANGED <<dbVars, lock, dir, known, older, gone>>

Current(m) == IF dir[m] = "up" THEN Min(todo[m]) ELSE Max(todo[m])

\* Nothing is left, or the rollback's file is not in this release.
Finished(m) == todo[m] # {} => Current(m) > known[m]

Return(m) ==
  /\ pc[m] = "run" /\ Finished(m)
  /\ Goto(m, "unlock")
  /\ UNCHANGED <<dbVars, lock, dir, known, todo, older, gone>>

\* The INSERT into, or DELETE from, schema_migrations.
Bookkeep(m, v) ==
  /\ recorded' = IF dir[m] = "up" THEN recorded \cup {v} ELSE recorded \ {v}
  /\ todo' = [todo EXCEPT ![m] = @ \ {v}]

\* runInTx: the script, written for the object as the version before it left it, and the
\* bookkeeping commit together. The reply to COMMIT may be lost.
RunInTx(m) ==
  LET v == Current(m) IN
  /\ pc[m] = "run" /\ ~Finished(m) /\ v \notin NoTx
  /\ object[v] # After(v, dir[m])
  /\ object' = [object EXCEPT ![v] = After(v, dir[m])]
  /\ Bookkeep(m, v)
  /\ Goto(m, "run") \/ Goto(m, "unlock")
  /\ UNCHANGED <<halfway, lock, dir, known, older, gone>>

\* runWithoutTx: IF [NOT] EXISTS goes by the index's name, so an INVALID one counts as
\* there; else the statement sets out, and the index is INVALID until it is done.
Exec(m) ==
  LET v == Current(m)
      skipped == (object[v] = "absent") = (After(v, dir[m]) = "absent")
  IN
  /\ pc[m] = "run" /\ ~Finished(m) /\ v \in NoTx
  /\ halfway' = halfway \cup {v}
  /\ IF skipped
     THEN Goto(m, "check") /\ UNCHANGED <<object, older>>
     ELSE /\ Goto(m, "exec")
          /\ object' = [object EXCEPT ![v] = "invalid"]
          /\ older' = [older EXCEPT ![m] = IF dir[m] = "down" THEN Waiters ELSE {}]
  /\ UNCHANGED <<recorded, lock, dir, known, todo, gone>>

\* The statement is done. A build outwaits the snapshots taken before it, the ones of
\* sessions that wait for this one's lock included.
ExecEnds(m) ==
  /\ pc[m] = "exec" /\ older[m] = {}
  /\ object' = [object EXCEPT ![Current(m)] = After(Current(m), dir[m])]
  /\ IF m \in gone THEN EndSession(m)
     ELSE Goto(m, "check") /\ UNCHANGED <<lock, dir, known, todo, older, gone>>
  /\ UNCHANGED <<recorded, halfway>>

\* It fails, is cancelled, or is the deadlock detector's victim.
ExecFails(m) ==
  /\ pc[m] = "exec"
  /\ IF m \in gone THEN EndSession(m)
     ELSE Goto(m, "unlock") /\ UNCHANGED <<lock, dir, known, todo, older, gone>>
  /\ UNCHANGED dbVars

\* Bug: the check is left out.
AnyIndexes == TRUE

\* checkNoInvalidIndexes, of the whole search path.
NoInvalidIndexes == \A v \in Versions : object[v] # "invalid"

Check(m) ==
  /\ pc[m] = "check"
  /\ Goto(m, IF NoInvalidIndexes THEN "record" ELSE "unlock")
  /\ UNCHANGED <<dbVars, lock, dir, known, todo, older, gone>>

Record(m) ==
  LET v == Current(m) IN
  /\ pc[m] = "record"
  /\ Bookkeep(m, v)
  /\ halfway' = halfway \ {v}
  /\ Goto(m, "run") \/ Goto(m, "unlock")
  /\ UNCHANGED <<object, lock, dir, known, older, gone>>

\* A statement fails before it has done anything, or the context is cancelled.
Fails(m) ==
  /\ pc[m] \in {"list", "run", "check", "record"}
  /\ Goto(m, "unlock")
  /\ UNCHANGED <<dbVars, lock, dir, known, todo, older, gone>>

Unlock(m) ==
  /\ pc[m] = "unlock"
  /\ EndSession(m)
  /\ UNCHANGED dbVars

-----------------------------------------------------------------------------

\* The process dies. Its session ends with it, but for a backend inside a statement,
\* which goes on to the statement's end.
Crash(m) ==
  /\ pc[m] # "idle" /\ m \notin gone
  /\ IF pc[m] \in {"lock", "exec"}
     THEN gone' = gone \cup {m} /\ UNCHANGED <<lock, pc, dir, known, todo, older>>
     ELSE EndSession(m)
  /\ UNCHANGED dbVars

\* "drop it and rerun the migration" (ErrInvalidIndex). In this order: an operator who
\* drops the index while a rerun is between its skipped CREATE and its check would have
\* the version's bookkeeping done without the index.
OperatorDrops(v) ==
  /\ object[v] = "invalid" /\ lock = None
  /\ object' = [object EXCEPT ![v] = "absent"]
  /\ UNCHANGED <<recorded, halfway, lock, sessionVars>>

Advance(m) ==
  \/ List(m) \/ RunInTx(m) \/ Exec(m) \/ ExecEnds(m) \/ ExecFails(m) \/ Check(m) \/ Record(m)
  \/ Fails(m) \/ Return(m) \/ Unlock(m)

Next ==
  \/ \E m \in Migrators, d \in Directions, k \in Releases : Start(m, d, k)
  \/ \E m \in Migrators : Acquire(m) \/ WaitFails(m) \/ Advance(m) \/ Crash(m)
  \/ \E v \in Versions : OperatorDrops(v)

Spec == Init /\ [][Next]_vars

\* A session that can go on does; the lock is granted in the order it was asked for.
Fairness == \A m \in Migrators : WF_vars(Advance(m)) /\ SF_vars(Acquire(m))

FairSpec == Spec /\ Fairness

-----------------------------------------------------------------------------
(* Properties                                                              *)

\* Migrator.Version
Version == IF recorded = {} THEN 0 ELSE Max(recorded)

\* The reported version says it all: the recorded versions are those up to it, without
\* a gap, although releases with fewer files, rollbacks and crashes take turns.
VersionTellsAll == recorded = 1 .. Version

\* "a failure leaves no partial state" (migrator.go): schema_migrations and the schema
\* agree on every version, except on a no-transaction version whose statement was run
\* and whose bookkeeping has not followed yet. Running that command to its end settles
\* the version, whatever was left INVALID, dropped by hand or undone in between.
SchemaMatchesRecord ==
  \A v \in Versions \ halfway :
    object[v] = After(v, IF v \in recorded THEN "up" ELSE "down")

\* A command that was started ends: no session keeps the lock, and an index build that
\* waits for a session which waits for its lock does not leave both hanging.
CommandsEnd == \A m \in Migrators : pc[m] # "idle" ~> pc[m] = "idle"

=============================================================================
