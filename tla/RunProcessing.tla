---------------------------- MODULE RunProcessing ----------------------------
(***************************************************************************)
(* Turning the raw records of finished ingestion runs into products: the   *)
(* ingestion_run_processing queue, the workers that take runs from it      *)
(* (ProcessNext) and the operator commands that reprocess one              *)
(* (ingest process --run [--from-start]). A run's records are read page by *)
(* page behind a cursor; a page's products, events, counters and cursor    *)
(* commit in one transaction, guarded by a claim token with a lease. What  *)
(* a page does to the products is the subject of ProductCatalogue.         *)
(***************************************************************************)
EXTENDS Naturals, FiniteSets

CONSTANTS
  Runs,              \* finished ingestion runs
  Workers,           \* callers of ProcessNext and ProcessRun
  Tokens,            \* claim tokens (UUIDs)
  NoToken,           \* claim_token IS NULL
  NoRun,             \* no run at hand
  RunLength,         \* raw records of a run, in id order
  BatchSize,         \* ProcessRunOptions.BatchSize
  MaxErrorPercent,   \* ErrorBudget.MaxErrorRate, in percent
  MinSampleRows,     \* ErrorBudget.MinSampleRows
  MaxCommands,       \* bound of the model: operator commands in one behaviour
  MaxFaults          \* bound of the model: crashes, shutdowns, failed queries, lost
                     \* replies and early lease expiries in one behaviour

ASSUME SizeAssumption == RunLength \in Nat /\ BatchSize \in Nat \ {0}
ASSUME BudgetAssumption == MaxErrorPercent \in 1 .. 99 /\ MinSampleRows \in Nat \ {0}
ASSUME BoundAssumption == MaxCommands \in Nat /\ MaxFaults \in Nat
ASSUME NoneAssumption == NoToken \notin Tokens /\ NoRun \notin Runs

Records == 1 .. RunLength

VARIABLES
  bad,               \* records of each run that Normalize rejects, fixed throughout
  \* ingestion_run_processing
  status,            \* "ABSENT" until the ingestion run finishes
  claimToken,
  leaseLive,         \* lease_expires_at >= NOW()
  cursor,            \* cursor_raw_record_id, 0 for NULL
  seen,              \* records_seen
  failed,            \* records_failed
  \* the workers
  pc,                \* where ProcessRun stands
  job,               \* runID
  held,              \* opts.ClaimToken
  at,                \* cursorID
  tries,             \* conflicts met by processPageWithRetry
  \* history
  applied,           \* committed applications of each record since the last reset
  commands,
  faults

rowVars == <<status, claimToken, leaseLive, cursor, seen, failed, applied>>
workerVars == <<pc, job, held, at, tries>>
vars == <<bad, rowVars, workerVars, commands, faults>>

Locations == {"idle", "reset", "claim", "load", "list", "page", "fail", "release", "complete"}

TypeOK ==
  /\ bad \in [Runs -> SUBSET Records]
  /\ status \in [Runs -> {"ABSENT", "PENDING", "RUNNING", "COMPLETED", "FAILED"}]
  /\ claimToken \in [Runs -> Tokens \cup {NoToken}]
  /\ leaseLive \in [Runs -> BOOLEAN]
  /\ cursor \in [Runs -> 0 .. RunLength]
  /\ seen \in [Runs -> Nat]
  /\ failed \in [Runs -> Nat]
  /\ pc \in [Workers -> Locations]
  /\ job \in [Workers -> Runs \cup {NoRun}]
  /\ held \in [Workers -> Tokens \cup {NoToken}]
  /\ at \in [Workers -> 0 .. RunLength]
  /\ tries \in [Workers -> 0 .. 1]
  /\ applied \in [Runs -> [Records -> Nat]]
  /\ commands \in 0 .. MaxCommands
  /\ faults \in 0 .. MaxFaults

Init ==
  /\ bad \in [Runs -> SUBSET Records]
  /\ status = [r \in Runs |-> "ABSENT"]
  /\ claimToken = [r \in Runs |-> NoToken]
  /\ leaseLive = [r \in Runs |-> FALSE]
  /\ cursor = [r \in Runs |-> 0]
  /\ seen = [r \in Runs |-> 0]
  /\ failed = [r \in Runs |-> 0]
  /\ pc = [w \in Workers |-> "idle"]
  /\ job = [w \in Workers |-> NoRun]
  /\ held = [w \in Workers |-> NoToken]
  /\ at = [w \in Workers |-> 0]
  /\ tries = [w \in Workers |-> 0]
  /\ applied = [r \in Runs |-> [i \in Records |-> 0]]
  /\ commands = 0
  /\ faults = 0

Fault == faults < MaxFaults /\ faults' = faults + 1

Goto(w, l) == pc' = [pc EXCEPT ![w] = l]

\* ProcessRun returns.
Leave(w) ==
  /\ Goto(w, "idle")
  /\ job' = [job EXCEPT ![w] = NoRun]
  /\ held' = [held EXCEPT ![w] = NoToken]
  /\ at' = [at EXCEPT ![w] = 0]
  /\ tries' = [tries EXCEPT ![w] = 0]

-----------------------------------------------------------------------------
(* The statements of the run processing repository                        *)

\* Bug: a run whose worker died is never taken over.
NeverExpired(r) == FALSE

LeaseExpired(r) == status[r] = "RUNNING" /\ ~leaseLive[r]

\* The WHERE clause of the progress, release, complete and fail statements.
\* UpdateProgress also asks for status = 'RUNNING'.
Owns(w) == claimToken[job[w]] = held[w]

Claim(r, t) ==
  /\ status' = [status EXCEPT ![r] = "RUNNING"]
  /\ claimToken' = [claimToken EXCEPT ![r] = t]
  /\ leaseLive' = [leaseLive EXCEPT ![r] = TRUE]
  /\ UNCHANGED <<cursor, seen, failed, applied>>

\* Release, Complete and Fail: a new status and no claim, if the claim is w's.
GiveBack(w, s) ==
  LET r == job[w] IN
  IF Owns(w)
  THEN /\ status' = [status EXCEPT ![r] = s]
       /\ claimToken' = [claimToken EXCEPT ![r] = NoToken]
       /\ leaseLive' = [leaseLive EXCEPT ![r] = FALSE]
       /\ UNCHANGED <<cursor, seen, failed, applied>>
  ELSE UNCHANGED rowVars

-----------------------------------------------------------------------------
(* The queue and its leases                                                *)

\* IngestionRepository.UpdateStatus: a run that finishes processable is queued by the
\* statement that finishes it.
Queue(r) ==
  /\ status[r] = "ABSENT"
  /\ status' = [status EXCEPT ![r] = "PENDING"]
  /\ UNCHANGED <<bad, claimToken, leaseLive, cursor, seen, failed, applied, workerVars,
                 commands, faults>>

Working(r) == \E w \in Workers : held[w] = claimToken[r]

Expire(r) ==
  /\ leaseLive[r]
  /\ leaseLive' = [leaseLive EXCEPT ![r] = FALSE]
  /\ UNCHANGED <<bad, status, claimToken, cursor, seen, failed, applied, workerVars, commands>>

\* The lease of a worker that died, or that could not settle its run, runs out.
AbandonedLeaseExpires(r) == ~Working(r) /\ Expire(r) /\ UNCHANGED faults

\* The lease runs out under a worker that is merely slow.
EarlyLeaseExpires(r) == Working(r) /\ Expire(r) /\ Fault

-----------------------------------------------------------------------------
(* RunProcessor                                                            *)

FreshTokens == Tokens \ ({claimToken[r] : r \in Runs} \cup {held[w] : w \in Workers})

\* wiring.ProcessRunOptions: every call has a token of its own.
NewToken == CHOOSE t \in FreshTokens : TRUE

\* ProcessNext up to its call of ProcessRun. Any choice stands for the ORDER BY and
\* for what SKIP LOCKED skips.
ClaimNext(w) ==
  /\ pc[w] = "idle"
  /\ FreshTokens # {}
  /\ \E r \in Runs :
       /\ status[r] = "PENDING" \/ LeaseExpired(r)
       /\ Claim(r, NewToken)
       /\ job' = [job EXCEPT ![w] = r]
  /\ held' = [held EXCEPT ![w] = NewToken]
  /\ Goto(w, "claim")
  /\ UNCHANGED <<bad, at, tries, commands, faults>>

\* An operator processes one run again. A run that is not processable is refused;
\* the others have a row, so EnsureExists changes nothing.
Command(w, r, fromStart) ==
  /\ pc[w] = "idle"
  /\ FreshTokens # {}
  /\ status[r] # "ABSENT"
  /\ commands < MaxCommands
  /\ commands' = commands + 1
  /\ job' = [job EXCEPT ![w] = r]
  /\ held' = [held EXCEPT ![w] = NewToken]
  /\ Goto(w, IF fromStart THEN "reset" ELSE "claim")
  /\ UNCHANGED <<bad, rowVars, at, tries, faults>>

Resettable(r) == status[r] \in {"PENDING", "FAILED", "COMPLETED"} \/ LeaseExpired(r)

ResetFromStart(w) ==
  LET r == job[w] IN
  /\ pc[w] = "reset"
  /\ \/ /\ Resettable(r)
        /\ status' = [status EXCEPT ![r] = "PENDING"]
        /\ claimToken' = [claimToken EXCEPT ![r] = NoToken]
        /\ leaseLive' = [leaseLive EXCEPT ![r] = FALSE]
        /\ cursor' = [cursor EXCEPT ![r] = 0]
        /\ seen' = [seen EXCEPT ![r] = 0]
        /\ failed' = [failed EXCEPT ![r] = 0]
        /\ applied' = [applied EXCEPT ![r] = [i \in Records |-> 0]]
        /\ Goto(w, "claim")
        /\ UNCHANGED <<job, held, at, tries>>
     \/ ~Resettable(r) /\ Leave(w) /\ UNCHANGED rowVars
  /\ UNCHANGED <<bad, commands, faults>>

\* The cursor to start from is the one the claim returns.
ClaimSpecific(w) ==
  LET r == job[w] IN
  /\ pc[w] = "claim"
  /\ \/ /\ Resettable(r) \/ Owns(w)
        /\ Claim(r, held[w])
        /\ at' = [at EXCEPT ![w] = cursor[r]]
        /\ Goto(w, "load")
        /\ UNCHANGED <<job, held, tries>>
     \/ ~(Resettable(r) \/ Owns(w)) /\ Leave(w) /\ UNCHANGED rowVars
  /\ UNCHANGED <<bad, commands, faults>>

\* The source and its field mapping are found, or the run is failed.
LoadSource(w) ==
  /\ pc[w] = "load"
  /\ Goto(w, "list") \/ Goto(w, "fail")
  /\ UNCHANGED <<bad, rowVars, job, held, at, tries, commands, faults>>

\* Bug: a run is completed after its first page.
ListOnce(w) ==
  /\ pc[w] = "list"
  /\ Goto(w, IF at[w] = 0 THEN "page" ELSE "complete")
  /\ UNCHANGED <<bad, rowVars, job, held, at, tries, commands, faults>>

\* ListKeysetByRunID after the cursor this call holds.
ListPage(w) ==
  /\ pc[w] = "list"
  /\ Goto(w, IF at[w] < RunLength THEN "page" ELSE "complete")
  /\ UNCHANGED <<bad, rowVars, job, held, at, tries, commands, faults>>

\* A query or a transaction fails and the run is failed; or it fails because the
\* context was cancelled, and the claim is released.
QueryFails(w) ==
  /\ pc[w] \in {"load", "list", "page"}
  /\ Fault
  /\ Goto(w, "fail") \/ Goto(w, "release")
  /\ UNCHANGED <<bad, rowVars, job, held, at, tries, commands>>

\* Bug: one conflict too many is tolerated.
ConflictTwice(w) ==
  /\ pc[w] = "page"
  /\ IF tries[w] <= 1
     THEN tries' = [tries EXCEPT ![w] = @ + 1] /\ UNCHANGED pc
     ELSE Goto(w, "fail") /\ UNCHANGED tries
  /\ UNCHANGED <<bad, rowVars, job, held, at, commands, faults>>

\* ErrIdentityConflict, ErrVersionConflict or ErrDeadlockConflict: rolled back, once
\* tried again.
PageConflict(w) ==
  /\ pc[w] = "page"
  /\ IF tries[w] = 0
     THEN tries' = [tries EXCEPT ![w] = 1] /\ UNCHANGED pc
     ELSE Goto(w, "fail") /\ UNCHANGED tries
  /\ UNCHANGED <<bad, rowVars, job, held, at, commands, faults>>

Last(w) == IF at[w] + BatchSize < RunLength THEN at[w] + BatchSize ELSE RunLength
Page(w) == at[w] + 1 .. Last(w)

\* ErrorBudget.Check on the totals that the progress statement returns.
Exceeded(n, f) == n >= MinSampleRows /\ f * 100 > MaxErrorPercent * n

\* Bug: the progress statement does not compare tokens.
MayProgressAny(w) == status[job[w]] = "RUNNING"

\* The WHERE clause of the progress statement.
MayProgress(w) == status[job[w]] = "RUNNING" /\ Owns(w)

\* The transaction of a page commits; the error budget is looked at after that.
CommitPage(w) ==
  LET r == job[w] IN
  /\ pc[w] = "page"
  /\ MayProgress(w)
  /\ cursor' = [cursor EXCEPT ![r] = Last(w)]
  /\ seen' = [seen EXCEPT ![r] = @ + Cardinality(Page(w))]
  /\ failed' = [failed EXCEPT ![r] = @ + Cardinality(Page(w) \cap bad[r])]
  /\ applied' = [applied EXCEPT ![r] =
                   [i \in Records |-> IF i \in Page(w) THEN @[i] + 1 ELSE @[i]]]
  /\ leaseLive' = [leaseLive EXCEPT ![r] = TRUE]
  /\ at' = [at EXCEPT ![w] = Last(w)]
  /\ tries' = [tries EXCEPT ![w] = 0]
  /\ \/ Goto(w, IF Exceeded(seen'[r], failed'[r]) THEN "fail" ELSE "list") /\ UNCHANGED faults
     \/ (Goto(w, "fail") \/ Goto(w, "release")) /\ Fault   \* the reply to COMMIT is lost
  /\ UNCHANGED <<bad, status, claimToken, job, held, commands>>

\* The progress statement matches no row: ErrLeaseLost rolls the page back, and
\* ProcessRun returns without touching the run.
LeaseLost(w) ==
  /\ pc[w] = "page"
  /\ ~MayProgress(w)
  /\ Leave(w)
  /\ UNCHANGED <<bad, rowVars, commands, faults>>

\* The last statement of ProcessRun. If it fails the claim is left to its lease.
Finish(w, l, s) ==
  /\ pc[w] = l
  /\ \/ GiveBack(w, s) /\ UNCHANGED faults
     \/ Fault /\ UNCHANGED rowVars
  /\ Leave(w)
  /\ UNCHANGED <<bad, commands>>

ReleaseRun(w) == Finish(w, "release", "PENDING")
FailRun(w) == Finish(w, "fail", "FAILED")

CompleteRun(w) == Finish(w, "complete", "COMPLETED")

\* The process dies; or, before the claim, a query fails and ProcessRun just returns.
Crash(w) ==
  /\ pc[w] # "idle"
  /\ Fault
  /\ Leave(w)
  /\ UNCHANGED <<bad, rowVars, commands>>

-----------------------------------------------------------------------------

Step(w) ==
  \/ ResetFromStart(w) \/ ClaimSpecific(w) \/ LoadSource(w) \/ ListPage(w)
  \/ PageConflict(w) \/ CommitPage(w) \/ LeaseLost(w)
  \/ ReleaseRun(w) \/ FailRun(w) \/ CompleteRun(w)

Next ==
  \/ \E r \in Runs : Queue(r) \/ AbandonedLeaseExpires(r) \/ EarlyLeaseExpires(r)
  \/ \E w \in Workers : ClaimNext(w) \/ Step(w) \/ QueryFails(w) \/ Crash(w)
  \/ \E w \in Workers, r \in Runs, fromStart \in BOOLEAN : Command(w, r, fromStart)

Spec == Init /\ [][Next]_vars

\* runProcessingLoop polls for ever, a call goes on, and abandoned leases run out.
Fairness ==
  /\ \A w \in Workers : WF_vars(ClaimNext(w)) /\ WF_vars(Step(w))
  /\ \A r \in Runs : WF_vars(AbandonedLeaseExpires(r))

FairSpec == Spec /\ Fairness

-----------------------------------------------------------------------------
(* Properties                                                              *)

\* Cursor, counters and products move together whoever holds the run: since the last
\* reset every record up to the cursor was applied exactly once, none beyond it, and
\* the counters count just those. A worker that lost its lease adds nothing.
ProgressExact ==
  \A r \in Runs :
    /\ \A i \in Records : applied[r][i] = IF i <= cursor[r] THEN 1 ELSE 0
    /\ seen[r] = cursor[r]
    /\ failed[r] = Cardinality(bad[r] \cap 1 .. cursor[r])

\* A run is COMPLETED only with its last record applied, although Complete asks for
\* nothing but the token and a run may have been reset or taken over meanwhile.
CompletedIsWhole ==
  \A r \in Runs : status[r] = "COMPLETED" => cursor[r] = RunLength

\* A queued run is COMPLETED or FAILED in the end, whatever dies on the way.
EventuallyProcessed ==
  \A r \in Runs : status[r] = "PENDING" ~> status[r] \in {"COMPLETED", "FAILED"}

\* "ErrorBudget bounds the share of rows a run may skip before the run is failed."
\* (error_budget.go): no run over its budget is COMPLETED.
BudgetBoundsCompletion ==
  \A r \in Runs : status[r] = "COMPLETED" => ~Exceeded(seen[r], failed[r])

=============================================================================
