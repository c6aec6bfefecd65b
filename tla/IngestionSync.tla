---------------------------- MODULE IngestionSync ----------------------------
(***************************************************************************)
(* Ingestion runs of one source: callers of SyncSource that start a run    *)
(* and page through the source's feed, and operators that fail, cancel or  *)
(* resume a run through the run service. The rows of a batch commit with   *)
(* the run's counters and checkpoint; a run that finishes processable is   *)
(* queued for RunProcessing by the statement that finishes it.             *)
(*                                                                         *)
(* The feed, and the checkpoints in it, are SourceAdapter's.               *)
(***************************************************************************)
EXTENDS SourceAdapter

CONSTANTS
  Syncs,             \* callers of SyncSource
  Operators,         \* callers of FailRun, CancelRun and ResumeRun
  MaxErrorPercent,   \* ErrorBudget.MaxErrorRate, in percent
  MinSampleRows,     \* ErrorBudget.MinSampleRows
  MaxRuns            \* bound of the model: runs started in one behaviour

ASSUME SizeAssumption == MaxRuns \in Nat
ASSUME BudgetAssumption == MaxErrorPercent \in 1 .. 99 /\ MinSampleRows \in Nat \ {0}
ASSUME ActorAssumption == Syncs \cap Operators = {}

Runs == 1 .. MaxRuns       \* in the order of their creation
NoRun == 0
Actors == Syncs \cup Operators

VARIABLES
  \* ingestion_runs
  status,            \* "ABSENT" until created
  checkpoint,
  seen,              \* records_seen
  failed,            \* records_failed
  \* raw_records and ingestion_run_processing
  saved,             \* rows saved for each run
  queued,
  \* the callers
  pc,
  run,               \* run.ID
  at,                \* currentCP
  goal,              \* the transition asked for
  found,             \* the run as transitionRun read it
  \* history
  from,              \* the checkpoint each run was started with
  unclaimed,         \* runs that were created and given to no sync
  abandoned          \* runs whose sync died or could not write their end

runVars == <<status, checkpoint, seen, failed, saved, queued, from, unclaimed>>
actorVars == <<pc, run, at, goal, found>>
vars == <<sourceVars, runVars, actorVars, abandoned>>

Statuses == {"ABSENT", "RUNNING", "COMPLETED", "PARTIAL", "FAILED", "CANCELLED"}
Locations == {"idle", "create", "fetch", "persist", "find", "update"}
Goals == {"none", "complete", "fail", "cancel"}
Nothing == [status |-> "ABSENT", failed |-> 0, checkpoint |-> 0]

TypeOK ==
  /\ SourceTypeOK
  /\ status \in [Runs -> Statuses]
  /\ checkpoint \in [Runs -> Positions]
  /\ seen \in [Runs -> Nat] /\ failed \in [Runs -> Nat]
  /\ saved \in [Runs -> SUBSET Rows]
  /\ queued \subseteq Runs
  /\ pc \in [Actors -> Locations]
  /\ run \in [Actors -> Runs \cup {NoRun}]
  /\ at \in [Actors -> Positions]
  /\ goal \in [Actors -> Goals]
  /\ found \in [Actors -> [status : Statuses, failed : 0 .. FeedLength, checkpoint : Positions]]
  /\ from \in [Runs -> Positions] /\ unclaimed \subseteq Runs /\ abandoned \subseteq Runs

Init ==
  /\ SourceInit
  /\ status = [r \in Runs |-> "ABSENT"]
  /\ checkpoint = [r \in Runs |-> 0]
  /\ seen = [r \in Runs |-> 0]
  /\ failed = [r \in Runs |-> 0]
  /\ saved = [r \in Runs |-> {}]
  /\ queued = {}
  /\ pc = [a \in Actors |-> "idle"]
  /\ run = [a \in Actors |-> NoRun]
  /\ at = [a \in Actors |-> 0]
  /\ goal = [a \in Actors |-> "none"]
  /\ found = [a \in Actors |-> Nothing]
  /\ from = [r \in Runs |-> 0] /\ unclaimed = {} /\ abandoned = {}

Created == {r \in Runs : status[r] # "ABSENT"}
Latest == CHOOSE r \in Created : \A q \in Created : q <= r

\* The call returns.
Leave(a) ==
  /\ pc' = [pc EXCEPT ![a] = "idle"]
  /\ run' = [run EXCEPT ![a] = NoRun]
  /\ at' = [at EXCEPT ![a] = 0]
  /\ goal' = [goal EXCEPT ![a] = "none"]
  /\ found' = [found EXCEPT ![a] = Nothing]

\* failRun, cancelRun or CompleteRun is called.
Ask(a, g) ==
  /\ pc' = [pc EXCEPT ![a] = "find"]
  /\ goal' = [goal EXCEPT ![a] = g]
  /\ found' = [found EXCEPT ![a] = Nothing]

\* An error: the run is failed, or cancelled when it was the context that ended.
GiveUp(a) == Ask(a, "fail") \/ Ask(a, "cancel")

-----------------------------------------------------------------------------
(* Service.StartRun and ResumeRun                                          *)

Resumable(r) == status[r] \in {"PARTIAL", "FAILED"}

\* SyncParams.InitialCheckpoint: none, or one that an earlier run has left.
StartingPoints == {0} \cup {checkpoint[r] : r \in {q \in Runs : Resumable(q)}}

\* No active run is found. The latest run is looked at, and no other.
Check(a, c) ==
  /\ pc[a] = "idle"
  /\ Created # {} => status[Latest] # "RUNNING"
  /\ pc' = [pc EXCEPT ![a] = "create"]
  /\ at' = [at EXCEPT ![a] = c]
  /\ UNCHANGED <<sourceVars, abandoned, runVars, run, goal, found>>

\* ResumeRun: the run it reads has ended, and does not change any more.
ResumeRun(o, r) == Resumable(r) /\ Check(o, checkpoint[r])

\* Bug: the check is taken for enough.
AnyActive == TRUE

\* The unique index on active runs.
NoActive == \A q \in Created : status[q] # "RUNNING"

\* CreateRun. SyncSource gets the run and works on it. But if the context ends or the
\* reply is lost, StartRun fails although the row is there, and SyncSource returns; and
\* ResumeRun hands the run to a caller that has no way to sync it.
Create(a) ==
  LET r == Cardinality(Created) + 1 IN
  /\ pc[a] = "create" /\ r \in Runs
  /\ NoActive
  /\ status' = [status EXCEPT ![r] = "RUNNING"]
  /\ checkpoint' = [checkpoint EXCEPT ![r] = at[a]]
  /\ from' = [from EXCEPT ![r] = at[a]]
  /\ \/ /\ a \in Syncs
        /\ run' = [run EXCEPT ![a] = r]
        /\ pc' = [pc EXCEPT ![a] = "fetch"]
        /\ UNCHANGED <<unclaimed, at, goal, found>>
     \/ Leave(a) /\ unclaimed' = unclaimed \cup {r}
  /\ UNCHANGED <<sourceVars, abandoned, seen, failed, saved, queued>>

\* The index refuses the row, or the statement fails.
CreateFails(a) ==
  /\ pc[a] = "create"
  /\ Leave(a)
  /\ UNCHANGED <<sourceVars, abandoned, runVars>>

-----------------------------------------------------------------------------
(* SyncCoordinator.SyncSource                                              *)

\* An empty NextCheckpoint leaves the checkpoint alone.
NextCheckpoint(c, ans) == IF ans.next # 0 THEN ans.next ELSE c

\* Bug: an error of the adapter is returned and the run left as it is.
FetchReturns(s) ==
  /\ pc[s] = "fetch"
  /\ \/ pc' = [pc EXCEPT ![s] = "persist"] /\ UNCHANGED <<run, at, goal, found>>
     \/ Leave(s)
  /\ UNCHANGED <<sourceVars, abandoned, runVars>>

\* The adapter answers; or it fails (on a malformed row under FAIL_FAST, on the network),
\* names the checkpoint it was sent (as a Link header may), or the context ends.
Fetch(s) ==
  /\ pc[s] = "fetch"
  /\ \/ pc' = [pc EXCEPT ![s] = "persist"] /\ UNCHANGED <<goal, found>>
     \/ GiveUp(s)
  /\ UNCHANGED <<sourceVars, abandoned, runVars, run, at>>

\* ErrorBudget.Check. A run's counters are those of the call that started it.
Exceeded(n, f) == n >= MinSampleRows /\ f * 100 > MaxErrorPercent * n

SaveBatch(r, ans) ==
  /\ saved' = [saved EXCEPT ![r] = @ \cup (ans.rows \cap Sound)]
  /\ checkpoint' = [checkpoint EXCEPT ![r] = NextCheckpoint(@, ans)]

\* persistBatch: rows, counters and checkpoint in one transaction, for a RUNNING run.
\* Then the error budget, and on to the next page. If the reply to COMMIT is lost the
\* batch is there but the call gives up.
Persist(s) ==
  LET r == run[s] IN
  /\ pc[s] = "persist"
  /\ status[r] = "RUNNING"
  /\ \E ans \in Answers(at[s]) :
       /\ SaveBatch(r, ans)
       /\ seen' = [seen EXCEPT ![r] = @ + Cardinality(ans.rows \cap (Sound \cup Malformed))]
       /\ failed' = [failed EXCEPT ![r] = @ + Cardinality(ans.rows \cap Malformed)]
       /\ \/ /\ Exceeded(seen'[r], failed'[r])
             /\ Ask(s, "fail") /\ UNCHANGED at
          \/ /\ ~Exceeded(seen'[r], failed'[r])
             /\ at' = [at EXCEPT ![s] = NextCheckpoint(@, ans)]
             /\ IF ans.next # 0
                THEN pc' = [pc EXCEPT ![s] = "fetch"] /\ UNCHANGED <<goal, found>>
                ELSE Ask(s, "complete")
          \/ GiveUp(s) /\ UNCHANGED at
  /\ UNCHANGED <<sourceVars, abandoned, unclaimed, status, queued, from, run>>

\* A statement fails, or the run is not RUNNING any more: rolled back.
PersistFails(s) ==
  /\ pc[s] = "persist"
  /\ GiveUp(s)
  /\ UNCHANGED <<sourceVars, abandoned, runVars, run, at>>

Orphaned(a) == abandoned \cup (IF a \in Syncs THEN {run[a]} \ {NoRun} ELSE {})

\* The process dies. Nobody else drives its run.
Crash(a) ==
  /\ pc[a] # "idle"
  /\ Leave(a)
  /\ abandoned' = Orphaned(a)
  /\ UNCHANGED <<sourceVars, runVars>>

-----------------------------------------------------------------------------
(* Service.transitionRun                                                   *)

Terminal == {"COMPLETED", "PARTIAL", "FAILED", "CANCELLED"}

\* Bug: a run that has ended can still be failed.
AllowedAlways(g, st) == IF g = "complete" THEN st = "RUNNING" ELSE TRUE

\* IngestionRun.Complete, Fail and Cancel
Allowed(g, st) == IF g = "complete" THEN st = "RUNNING" ELSE st \notin Terminal

\* A transition that fails: completion is given up on, the others are not repeated.
TransitionFails(a) ==
  IF goal[a] = "complete" THEN GiveUp(a) /\ UNCHANGED <<run, at>> ELSE Leave(a)

Find(a) ==
  LET r == run[a] IN
  /\ pc[a] = "find"
  /\ \/ /\ Allowed(goal[a], status[r])
        /\ found' = [found EXCEPT ![a] = [status |-> status[r], failed |-> failed[r],
                                          checkpoint |-> checkpoint[r]]]
        /\ pc' = [pc EXCEPT ![a] = "update"]
        /\ UNCHANGED <<run, at, goal>>
     \/ ~Allowed(goal[a], status[r]) /\ TransitionFails(a)
  /\ UNCHANGED <<sourceVars, abandoned, runVars>>

\* Bug: a cancelled run is put back to the state before its start.
TargetPending(a) ==
  CASE goal[a] = "fail" -> "FAILED"
    [] goal[a] = "cancel" -> "PENDING"
    [] OTHER -> IF found[a].failed > 0 THEN "PARTIAL" ELSE "COMPLETED"

\* The status a transition leads to.
Target(a) ==
  CASE goal[a] = "fail" -> "FAILED"
    [] goal[a] = "cancel" -> "CANCELLED"
    [] OTHER -> IF found[a].failed > 0 THEN "PARTIAL" ELSE "COMPLETED"

Processable(st) == st \in {"COMPLETED", "PARTIAL"}

\* A checkpoint that the statement writes: an empty one leaves the stored one alone.
Written(a) ==
  LET c == IF goal[a] = "complete" THEN at[a] ELSE found[a].checkpoint
  IN IF c = 0 THEN checkpoint[run[a]] ELSE c

\* UpdateStatus: guarded by the status that was read; queues in the same statement.
\* The reply may be lost.
Update(a) ==
  LET r == run[a] IN
  /\ pc[a] = "update"
  /\ \/ /\ status[r] = found[a].status
        /\ status' = [status EXCEPT ![r] = Target(a)]
        /\ checkpoint' = [checkpoint EXCEPT ![r] = Written(a)]
        /\ queued' = IF Processable(Target(a)) THEN queued \cup {r} ELSE queued
        /\ UNCHANGED <<seen, failed, saved, from, unclaimed>>
        /\ Leave(a) \/ TransitionFails(a)
     \/ status[r] # found[a].status /\ TransitionFails(a) /\ UNCHANGED runVars
  /\ UNCHANGED <<sourceVars, abandoned>>

\* One of the two statements fails.
StoreError(a) ==
  /\ pc[a] \in {"find", "update"}
  /\ TransitionFails(a)
  /\ abandoned' = IF goal[a] = "complete" THEN abandoned ELSE Orphaned(a)
  /\ UNCHANGED <<sourceVars, runVars>>

\* An operator fails or cancels a run while it may be at work.
Intervene(o, r) ==
  /\ pc[o] = "idle" /\ r \in Created
  /\ GiveUp(o)
  /\ run' = [run EXCEPT ![o] = r]
  /\ UNCHANGED <<sourceVars, abandoned, runVars, at>>

-----------------------------------------------------------------------------

Next ==
  \/ \E s \in Syncs, c \in StartingPoints : Check(s, c)
  \/ \E s \in Syncs : Fetch(s) \/ Persist(s) \/ PersistFails(s)
  \/ \E o \in Operators, r \in Runs : ResumeRun(o, r) \/ Intervene(o, r)
  \/ \E a \in Actors : Create(a) \/ CreateFails(a)
  \/ \E a \in Actors : Find(a) \/ Update(a) \/ StoreError(a) \/ Crash(a)

Spec == Init /\ [][Next]_vars

-----------------------------------------------------------------------------
(* Properties                                                              *)

\* "the checkpoint never advances past records that were not saved" (sync.go), whoever
\* dies, fails or cancels: every sound row between a run's start and its checkpoint is
\* saved under that run.
CheckpointBacked ==
  \A r \in Runs : (from[r] + 1 .. checkpoint[r]) \cap Sound \subseteq saved[r]

\* What RunProcessing takes for granted of a queued run: it has ended as COMPLETED or
\* PARTIAL and stays so, and its rows are all there: none is missing, skipped rows are
\* told by the status, and no batch is added behind the processor's cursor.
QueuedIsFinal ==
  /\ queued = {r \in Runs : Processable(status[r])}
  /\ \A r \in queued : /\ saved[r] = Behind(from[r], Sound)
                       /\ status[r] = "PARTIAL" <=> failed[r] > 0

\* A run is driven by one caller: no two calls of SyncSource work on the same one, and
\* no two runs of the source are fed at a time, although the check for an active run
\* and the creation of the new one are two steps.
OneDriver ==
  \A s, u \in Syncs : s # u /\ pc[s] \in {"fetch", "persist"} /\ pc[u] \in {"fetch", "persist"}
    => ~(status[run[s]] = "RUNNING" /\ status[run[u]] = "RUNNING")

\* A RUNNING run keeps StartRun from ever starting another. It is being driven, unless
\* its sync died or could not write the run's end, or no sync ever got it: StartRun
\* failed after its INSERT had committed, or ResumeRun created it. No other error,
\* cancellation or operator leaves a run behind. A run that no sync got stays empty,
\* keeps the checkpoint it was started with and is never queued: whoever ends it, by
\* FailRun or CancelRun, takes no row away.
StrandedRuns ==
  /\ \A r \in Runs : status[r] = "RUNNING" =>
       (\E s \in Syncs : run[s] = r) \/ r \in abandoned \cup unclaimed
  /\ \A r \in unclaimed : saved[r] = {} /\ checkpoint[r] = from[r] /\ r \notin queued

\* "Processable reports whether a run in this status has records to turn into products"
\* (run.go): the rows that a queued run does not read, because it was resumed behind
\* them, are in runs that are queued too.
PassedRowsQueued ==
  \A r \in queued :
    (1 .. from[r]) \cap Sound \subseteq UNION {saved[q] : q \in queued}

=============================================================================
