---------------------------- MODULE OutboxProofs ----------------------------
(***************************************************************************)
(* The safety properties of Outbox for any number of events, relays and    *)
(* tokens, any batch size and any limits on attempts and faults.           *)
(***************************************************************************)
EXTENDS Outbox, FiniteSetTheorems, TLAPS

-----------------------------------------------------------------------------
(* The inductive invariant                                                 *)

\* A row: a token is found on PENDING rows only, and attempts are left exactly as long
\* as the row is not given up.
RowInv ==
  \A e \in Events :
    /\ claimToken[e] # NoToken => status[e] = "PENDING"
    /\ status[e] = "ABSENT" => retryCount[e] = 0
    /\ status[e] = "PENDING" => retryCount[e] < MaxAttempts
    /\ status[e] = "FAILED" => retryCount[e] = MaxAttempts

\* A relay: it holds a token as long as it is at work on a batch, has an event at hand
\* only while recording its refusal, and its batch consists of committed events.
RelayInv ==
  \A r \in Relays :
    /\ pc[r] \notin {"idle", "down"} => held[r] # NoToken
    /\ pc[r] \in {"idle", "down"} => todo[r] = {}
    /\ pc[r] = "record" <=> cur[r] # NoEvent
    /\ \A e \in todo[r] \cup published[r] : status[e] # "ABSENT"
    /\ \A e \in published[r] : copies[e] > 0

Inv == TypeOK /\ RowInv /\ RelayInv

\* An event whose refusal is about to be recorded has a refusal to spare.
RefusalInv ==
  \A e \in Events :
    /\ retryCount[e] <= refusals[e]
    /\ \A r \in Relays :
         cur[r] = e /\ claimToken[e] = held[r] => retryCount[e] < refusals[e]

-----------------------------------------------------------------------------
(* Lemmas about the helpers                                                *)

\* A token that Claim draws is carried by no row and by no relay.
LEMMA FreshTokenProperties ==
  ASSUME FreshTokens # {}
  PROVE  /\ NewToken \in Tokens
         /\ NewToken # NoToken
         /\ \A e \in Events : claimToken[e] # NewToken
         /\ \A r \in Relays : held[r] # NewToken
<1>1. NewToken \in FreshTokens
  BY DEF NewToken
<1> QED
  BY <1>1, NoneAssumption DEF FreshTokens

\* The count of faults stays within its bound.
LEMMA FaultType ==
  ASSUME faults \in 0 .. MaxFaults, Fault
  PROVE  faults' \in 0 .. MaxFaults
BY FaultsAssumption DEF Fault

-----------------------------------------------------------------------------
(* Each action preserves Inv                                               *)

\* Inv holds before anything is written or claimed.
LEMMA InitInv == Init => Inv
BY AttemptsAssumption, FaultsAssumption, NoneAssumption
DEF Init, Inv, TypeOK, RowInv, RelayInv, Statuses, Locations

\* The commit of new rows preserves Inv.
LEMMA WriteEventsInv ==
  ASSUME Inv, NEW S \in SUBSET Events, WriteEvents(S)
  PROVE  Inv'
<1>1. TypeOK'
  BY DEF Inv, TypeOK, WriteEvents, relayVars, historyVars, Statuses
<1>2. RowInv'
  BY AttemptsAssumption DEF Inv, TypeOK, RowInv, WriteEvents
<1>3. RelayInv'
  BY DEF Inv, TypeOK, RelayInv, WriteEvents, relayVars
<1> QED
  BY <1>1, <1>2, <1>3 DEF Inv

\* The passing of time, backoff or lease, preserves Inv.
LEMMA DueInv ==
  ASSUME Inv, NEW e \in Events,
         BackoffElapses(e) \/ AbandonedLeaseExpires(e) \/ EarlyLeaseExpires(e)
  PROVE  Inv'
<1>1. /\ due' = due \cup {e}
      /\ UNCHANGED <<status, retryCount, claimToken, relayVars, copies, refusals>>
      /\ faults' \in 0 .. MaxFaults
      /\ incidents' \in [Events -> Nat]
  BY FaultType
  DEF Inv, TypeOK, BackoffElapses, AbandonedLeaseExpires, EarlyLeaseExpires, LeaseExpires,
      historyVars
<1>2. TypeOK'
  BY <1>1 DEF Inv, TypeOK, relayVars
<1>3. RowInv' /\ RelayInv'
  BY <1>1 DEF Inv, RowInv, RelayInv, relayVars
<1> QED
  BY <1>2, <1>3 DEF Inv

\* A claim preserves Inv: it takes PENDING rows only.
LEMMA ClaimInv ==
  ASSUME Inv, NEW r \in Relays, Claim(r)
  PROVE  Inv'
<1>1. PICK S \in Batches : ClaimBatch(S, NewToken) /\ todo' = [todo EXCEPT ![r] = S]
  BY DEF Claim
<1>2. S \subseteq Events /\ \A e \in S : status[e] = "PENDING"
  BY DEF Batches, Claimable, Inv, TypeOK
<1>3. NewToken \in Tokens /\ NewToken # NoToken
  BY FreshTokenProperties DEF Claim
<1>4. TypeOK'
  BY <1>1, <1>2, <1>3 DEF Inv, TypeOK, Claim, ClaimBatch, Locations, historyVars
<1>5. RowInv'
  BY <1>1, <1>2, <1>3 DEF Inv, TypeOK, RowInv, ClaimBatch
<1>6. RelayInv'
  BY <1>1, <1>2, <1>3 DEF Inv, TypeOK, RelayInv, Claim, ClaimBatch
<1> QED
  BY <1>4, <1>5, <1>6 DEF Inv

\* An acknowledged XADD preserves Inv.
LEMMA PublishAcceptedInv ==
  ASSUME Inv, NEW r \in Relays, NEW e \in Events, PublishAccepted(r, e)
  PROVE  Inv'
<1>1. TypeOK'
  BY DEF Inv, TypeOK, PublishAccepted, rowVars, historyVars
<1>2. RowInv'
  BY DEF Inv, RowInv, PublishAccepted, rowVars
<1>3. RelayInv'
  BY DEF Inv, TypeOK, RelayInv, PublishAccepted, rowVars
<1> QED
  BY <1>1, <1>2, <1>3 DEF Inv

\* A refused event preserves Inv while its refusal waits to be recorded.
LEMMA PublishRefusedInv ==
  ASSUME Inv, NEW r \in Relays, NEW e \in Events, PublishRefused(r, e)
  PROVE  Inv'
<1>1. TypeOK'
  BY DEF Inv, TypeOK, PublishRefused, rowVars, Locations
<1>2. RowInv'
  BY DEF Inv, RowInv, PublishRefused, rowVars
<1>3. RelayInv'
  BY NoneAssumption DEF Inv, TypeOK, RelayInv, PublishRefused, rowVars
<1> QED
  BY <1>1, <1>2, <1>3 DEF Inv

\* Both ways out of a batch: the XADD may have been applied without an answer.
LEMMA UnansweredInv ==
  ASSUME Inv, NEW r \in Relays, NEW e \in Events, XAddUnanswered(e),
         pc[r] = "publish",
         NEW l \in {"settle_mark", "stop_mark"}, pc' = [pc EXCEPT ![r] = l],
         faults' \in 0 .. MaxFaults,
         UNCHANGED <<rowVars, held, todo, cur, published, refusals>>
  PROVE  Inv'
<1>1. /\ copies' \in [Events -> Nat] /\ incidents' \in [Events -> Nat]
      /\ \A x \in Events : copies[x] > 0 => copies'[x] > 0
  BY DEF XAddUnanswered, Inv, TypeOK
<1>2. TypeOK'
  BY <1>1 DEF Inv, TypeOK, rowVars, Locations
<1>3. RowInv'
  BY DEF Inv, RowInv, rowVars
<1>4. RelayInv'
  BY <1>1 DEF Inv, TypeOK, RelayInv, rowVars
<1> QED
  BY <1>2, <1>3, <1>4 DEF Inv

\* What a settling write does to the rows, in the terms of Inv.
LEMMA MarkPublishedInv ==
  ASSUME Inv, NEW S \in SUBSET Events, NEW t \in Tokens, MarkPublished(S, t)
  PROVE  /\ status' \in [Events -> Statuses] /\ retryCount' = retryCount
         /\ claimToken' \in [Events -> Tokens \cup {NoToken}] /\ due' = due
         /\ RowInv'
         /\ \A e \in Events : status[e] # "ABSENT" => status'[e] # "ABSENT"
<1>1. \A e \in Owned(S, t) : e \in Events /\ status[e] = "PENDING"
  BY NoneAssumption DEF Inv, RowInv, TypeOK, Owned
<1>2. /\ status' \in [Events -> Statuses] /\ retryCount' = retryCount
      /\ claimToken' \in [Events -> Tokens \cup {NoToken}] /\ due' = due
  BY DEF MarkPublished, Inv, TypeOK, Statuses
<1>3. RowInv'
  BY <1>1, <1>2 DEF MarkPublished, Inv, TypeOK, RowInv
<1> QED
  BY <1>1, <1>2, <1>3 DEF MarkPublished, Inv, TypeOK

\* RecordFailure on a claimed row keeps retry_count within MaxAttempts, although its
\* statement does not look at the status.
LEMMA RecordFailureInv ==
  ASSUME Inv, NEW e \in Events, claimToken[e] # NoToken, RecordFailure(e)
  PROVE  /\ status' \in [Events -> Statuses] /\ retryCount' \in [Events -> 0 .. MaxAttempts]
         /\ claimToken' \in [Events -> Tokens \cup {NoToken}] /\ due' \in SUBSET Events
         /\ RowInv'
         /\ \A x \in Events : status[x] # "ABSENT" => status'[x] # "ABSENT"
<1>1. status[e] = "PENDING" /\ retryCount[e] < MaxAttempts
  BY DEF Inv, RowInv
<1>2. retryCount[e] \in Nat /\ retryCount[e] + 1 <= MaxAttempts
  BY <1>1, AttemptsAssumption DEF Inv, TypeOK
<1>3. /\ status' \in [Events -> Statuses] /\ retryCount' \in [Events -> 0 .. MaxAttempts]
      /\ claimToken' \in [Events -> Tokens \cup {NoToken}] /\ due' \in SUBSET Events
  BY <1>2, AttemptsAssumption DEF RecordFailure, Inv, TypeOK, Statuses
<1>4. RowInv'
  BY <1>1, <1>2, <1>3, AttemptsAssumption DEF RecordFailure, Inv, TypeOK, RowInv
<1> QED
  BY <1>3, <1>4 DEF RecordFailure, Inv, TypeOK

\* Recording a refusal, on an owned row, on a lost one or in vain, preserves Inv.
LEMMA RecordRefusalInv ==
  ASSUME Inv, NEW r \in Relays, RecordRefusal(r)
  PROVE  Inv'
<1>1. cur[r] \in Events /\ held[r] \in Tokens /\ held[r] # NoToken
  BY NoneAssumption DEF RecordRefusal, Inv, TypeOK, RelayInv
<1>2. /\ status' \in [Events -> Statuses] /\ retryCount' \in [Events -> 0 .. MaxAttempts]
      /\ claimToken' \in [Events -> Tokens \cup {NoToken}] /\ due' \in SUBSET Events
      /\ RowInv'
      /\ \A x \in Events : status[x] # "ABSENT" => status'[x] # "ABSENT"
      /\ faults' \in 0 .. MaxFaults
  <2>1. CASE cur[r] \in Owned({cur[r]}, held[r]) /\ RecordFailure(cur[r]) /\ UNCHANGED faults
    <3>1. claimToken[cur[r]] # NoToken
      BY <1>1, <2>1 DEF Owned
    <3> QED
      BY <1>1, <2>1, <3>1, RecordFailureInv DEF Inv, TypeOK
  <2>2. CASE UNCHANGED <<rowVars, faults>>
    BY <2>2 DEF Inv, TypeOK, RowInv, rowVars
  <2>3. CASE WriteFails
    BY <2>3, FaultType DEF Inv, TypeOK, RowInv, rowVars, WriteFails
  <2> QED
    BY <2>1, <2>2, <2>3 DEF RecordRefusal
<1>3. TypeOK'
  BY <1>2 DEF Inv, TypeOK, RecordRefusal, Locations
<1>4. RelayInv'
  BY <1>2 DEF Inv, TypeOK, RelayInv, RecordRefusal
<1> QED
  BY <1>2, <1>3, <1>4 DEF Inv

\* RunOnce returns after a write that respects the rows.
LEMMA LeaveBatchInv ==
  ASSUME Inv, NEW r \in Relays, NEW l \in {"idle", "down"}, LeaveBatch(r, l),
         status' \in [Events -> Statuses], retryCount' \in [Events -> 0 .. MaxAttempts],
         claimToken' \in [Events -> Tokens \cup {NoToken}], due' \in SUBSET Events,
         RowInv',
         \A x \in Events : status[x] # "ABSENT" => status'[x] # "ABSENT",
         faults' \in 0 .. MaxFaults,
         UNCHANGED <<copies, incidents, refusals>>
  PROVE  Inv'
<1>1. TypeOK'
  BY DEF Inv, TypeOK, LeaveBatch, Locations
<1>2. RelayInv'
  BY NoneAssumption DEF Inv, TypeOK, RelayInv, LeaveBatch
<1> QED
  BY <1>1, <1>2 DEF Inv

\* Marking the published events at the end of a batch preserves Inv.
LEMMA FinishBatchInv ==
  ASSUME Inv, NEW r \in Relays, FinishBatch(r)
  PROVE  Inv'
<1>1. held[r] \in Tokens /\ published[r] \in SUBSET Events
  BY DEF FinishBatch, Inv, TypeOK, RelayInv
<1>2. CASE MarkPublished(published[r], held[r]) /\ UNCHANGED faults
  BY <1>1, <1>2, MarkPublishedInv, LeaveBatchInv DEF FinishBatch, Inv, TypeOK
<1>3. CASE WriteFails
  <2>1. RowInv' /\ faults' \in 0 .. MaxFaults
    BY <1>3, FaultType DEF WriteFails, rowVars, Inv, TypeOK, RowInv
  <2> QED
    BY <1>3, <2>1, LeaveBatchInv DEF FinishBatch, WriteFails, rowVars, Inv, TypeOK
<1> QED
  BY <1>2, <1>3 DEF FinishBatch

\* Marking the published events on the way out of a batch preserves Inv.
LEMMA SettleMarkInv ==
  ASSUME Inv, NEW r \in Relays, SettleMark(r)
  PROVE  Inv'
<1>1. held[r] \in Tokens /\ published[r] \in SUBSET Events
  BY DEF SettleMark, Inv, TypeOK, RelayInv
<1>2. /\ status' \in [Events -> Statuses] /\ retryCount' = retryCount
      /\ claimToken' \in [Events -> Tokens \cup {NoToken}] /\ due' = due
      /\ RowInv'
      /\ \A x \in Events : status[x] # "ABSENT" => status'[x] # "ABSENT"
      /\ faults' \in 0 .. MaxFaults
  <2>1. CASE MarkPublished(published[r], held[r]) /\ UNCHANGED faults
    BY <1>1, <2>1, MarkPublishedInv DEF Inv, TypeOK
  <2>2. CASE WriteFails
    BY <2>2, FaultType DEF WriteFails, rowVars, Inv, TypeOK, RowInv
  <2> QED
    BY <2>1, <2>2 DEF SettleMark
<1>3. TypeOK'
  BY <1>2 DEF Inv, TypeOK, SettleMark, Locations
<1>4. RelayInv'
  BY <1>2 DEF Inv, TypeOK, RelayInv, SettleMark
<1> QED
  BY <1>2, <1>3, <1>4 DEF Inv

\* Releasing the events that were not published preserves Inv.
LEMMA SettleReleaseInv ==
  ASSUME Inv, NEW r \in Relays, SettleRelease(r)
  PROVE  Inv'
<1>1. PICK l \in {"idle", "down"} : LeaveBatch(r, l)
  BY DEF SettleRelease
<1>2. /\ status' = status /\ retryCount' = retryCount
      /\ claimToken' \in [Events -> Tokens \cup {NoToken}] /\ due' \in SUBSET Events
      /\ RowInv'
      /\ faults' \in 0 .. MaxFaults
  <2>1. CASE Release(todo[r], held[r]) /\ UNCHANGED faults
    <3>1. Owned(todo[r], held[r]) \subseteq Events
      BY DEF Owned, Inv, TypeOK
    <3> QED
      BY <2>1, <3>1 DEF Release, Inv, TypeOK, RowInv
  <2>2. CASE WriteFails
    BY <2>2, FaultType DEF WriteFails, rowVars, Inv, TypeOK, RowInv
  <2> QED
    BY <2>1, <2>2 DEF SettleRelease
<1> QED
  BY <1>1, <1>2, LeaveBatchInv DEF SettleRelease, Inv, TypeOK

\* A crash preserves Inv: the rows keep the dead relay's token until their lease ends.
LEMMA CrashInv ==
  ASSUME Inv, NEW r \in Relays, Crash(r)
  PROVE  Inv'
<1>1. RowInv' /\ faults' \in 0 .. MaxFaults
  BY FaultType DEF Crash, rowVars, Inv, TypeOK, RowInv
<1> QED
  BY <1>1, LeaveBatchInv DEF Crash, rowVars, Inv, TypeOK

\* Starting a worker preserves Inv.
LEMMA StartInv ==
  ASSUME Inv, NEW r \in Relays, Start(r)
  PROVE  Inv'
<1>1. TypeOK'
  BY DEF Inv, TypeOK, Start, rowVars, historyVars, Locations
<1>2. RowInv' /\ RelayInv'
  BY DEF Inv, TypeOK, RowInv, RelayInv, Start, rowVars
<1> QED
  BY <1>1, <1>2 DEF Inv

\* A stuttering step preserves Inv.
LEMMA StutterInv ==
  ASSUME Inv, UNCHANGED vars
  PROVE  Inv'
BY DEF Inv, TypeOK, RowInv, RelayInv, vars, rowVars, relayVars, historyVars

\* Every step of the outbox preserves Inv.
LEMMA NextInv ==
  ASSUME Inv, [Next]_vars
  PROVE  Inv'
<1>1. CASE \E S \in SUBSET Events : WriteEvents(S)
  BY <1>1, WriteEventsInv
<1>2. CASE \E e \in Events : Elapse(e) \/ EarlyLeaseExpires(e)
  BY <1>2, DueInv DEF Elapse
<1>3. ASSUME NEW r \in Relays, Step(r) \/ Cancelled(r) \/ Crash(r) \/ Start(r)
      PROVE  Inv'
  <2>1. CASE Step(r)
    BY <2>1, ClaimInv, RecordRefusalInv, FinishBatchInv, SettleMarkInv, SettleReleaseInv DEF Step
  <2>2. CASE Cancelled(r)
    <3>1. PICK e \in Events : XAddUnanswered(e)
      BY <2>2 DEF Cancelled, Inv, TypeOK
    <3>2. faults' \in 0 .. MaxFaults
      BY <2>2, FaultType DEF Cancelled, Inv, TypeOK
    <3> QED
      BY <2>2, <3>1, <3>2, UnansweredInv DEF Cancelled
  <2> QED
    BY <1>3, <2>1, <2>2, CrashInv, StartInv
<1>4. ASSUME NEW r \in Relays, NEW e \in Events,
             PublishAccepted(r, e) \/ PublishRefused(r, e) \/ PublishUnavailable(r, e)
      PROVE  Inv'
  <2>1. CASE PublishUnavailable(r, e)
    <3>1. faults' \in 0 .. MaxFaults
      BY <2>1, FaultType DEF PublishUnavailable, Inv, TypeOK
    <3> QED
      BY <2>1, <3>1, UnansweredInv DEF PublishUnavailable
  <2> QED
    BY <1>4, <2>1, PublishAcceptedInv, PublishRefusedInv
<1>5. CASE UNCHANGED vars
  BY <1>5, StutterInv
<1> QED
  BY <1>1, <1>2, <1>3, <1>4, <1>5 DEF Next

-----------------------------------------------------------------------------
(* Theorems                                                                *)

\* Inv holds in every reachable state of the outbox.
THEOREM Invariance == Spec => []Inv
<1>1. Init => Inv
  BY InitInv
<1>2. Inv /\ [Next]_vars => Inv'
  BY NextInv
<1> QED
  BY <1>1, <1>2, PTL DEF Spec

\* The outbox is type correct: in particular retry_count never passes MaxAttempts,
\* although RecordFailure increments it without looking at the status.
THEOREM TypeCorrect == Spec => []TypeOK
BY Invariance, PTL DEF Inv

\* A claim token is only ever found on a PENDING row.
THEOREM ClaimsArePending == Spec => []ClaimImpliesPending
<1>1. Inv => ClaimImpliesPending
  BY DEF Inv, RowInv, ClaimImpliesPending
<1> QED
  BY <1>1, Invariance, PTL

-----------------------------------------------------------------------------
(* Attempts and refusals                                                   *)

\* A step of the invariant: only a relay that owns the row spends an attempt, and the
\* claim is gone once it did, so no second relay spends the same refusal.
LEMMA NextRefusals ==
  ASSUME Inv, RefusalInv, [Next]_vars
  PROVE  RefusalInv'
<1>1. ASSUME NEW S \in SUBSET Events, WriteEvents(S)
      PROVE  RefusalInv'
  BY <1>1 DEF RefusalInv, WriteEvents, relayVars, historyVars
<1>2. ASSUME NEW e \in Events,
             BackoffElapses(e) \/ AbandonedLeaseExpires(e) \/ EarlyLeaseExpires(e)
      PROVE  RefusalInv'
  BY <1>2 DEF RefusalInv, BackoffElapses, AbandonedLeaseExpires, EarlyLeaseExpires, LeaseExpires,
              relayVars, historyVars
<1>3. ASSUME NEW r \in Relays, Claim(r)
      PROVE  RefusalInv'
  <2>1. PICK S \in Batches : ClaimBatch(S, NewToken)
    BY <1>3 DEF Claim
  <2>2. \A q \in Relays : held[q] # NewToken
    BY <1>3, FreshTokenProperties DEF Claim
  <2>3. cur[r] = NoEvent
    BY <1>3 DEF Claim, Inv, RelayInv
  <2> QED
    BY <1>3, <2>1, <2>2, <2>3, NoneAssumption
    DEF Claim, ClaimBatch, RefusalInv, historyVars, Inv, TypeOK
<1>4. ASSUME NEW r \in Relays, NEW e \in Events, PublishAccepted(r, e) \/ PublishUnavailable(r, e)
      PROVE  RefusalInv'
  BY <1>4 DEF PublishAccepted, PublishUnavailable, RefusalInv, rowVars, historyVars
<1>5. ASSUME NEW r \in Relays, NEW e \in Events, PublishRefused(r, e)
      PROVE  RefusalInv'
  BY <1>5 DEF PublishRefused, RefusalInv, rowVars, Inv, TypeOK
<1>6. ASSUME NEW r \in Relays, Cancelled(r) \/ Start(r) \/ Crash(r)
      PROVE  RefusalInv'
  BY <1>6, NoneAssumption
  DEF Cancelled, Start, Crash, LeaveBatch, RefusalInv, rowVars, historyVars, Inv, TypeOK
<1>7. ASSUME NEW r \in Relays, RecordRefusal(r)
      PROVE  RefusalInv'
  <2>1. cur[r] \in Events /\ cur' = [cur EXCEPT ![r] = NoEvent]
        /\ UNCHANGED <<held, refusals>>
    BY <1>7, NoneAssumption DEF RecordRefusal, Inv, TypeOK, RelayInv
  <2>2. CASE cur[r] \in Owned({cur[r]}, held[r]) /\ RecordFailure(cur[r])
    <3>1. \A q \in Relays : cur[q] = cur[r] => held[q] # NoToken
      BY <2>1, NoneAssumption DEF Inv, RelayInv
    <3>2. retryCount[cur[r]] < refusals[cur[r]] /\ retryCount[cur[r]] \in Nat
          /\ refusals[cur[r]] \in Nat
      BY <2>1, <2>2, AttemptsAssumption DEF Owned, RefusalInv, Inv, TypeOK
    <3> QED
      BY <2>1, <2>2, <3>1, <3>2, NoneAssumption DEF RecordFailure, RefusalInv, Inv, TypeOK
  <2>3. CASE UNCHANGED rowVars
    BY <2>1, <2>3, NoneAssumption DEF RefusalInv, rowVars, Inv, TypeOK
  <2> QED
    BY <1>7, <2>2, <2>3 DEF RecordRefusal, WriteFails, rowVars
<1>8. ASSUME NEW r \in Relays, FinishBatch(r) \/ SettleMark(r) \/ SettleRelease(r)
      PROVE  RefusalInv'
  <2>1. /\ \A e \in Events : claimToken'[e] = claimToken[e] \/ claimToken'[e] = NoToken
        /\ UNCHANGED <<retryCount, refusals>>
    BY <1>8 DEF FinishBatch, SettleMark, SettleRelease, MarkPublished, Release, WriteFails, rowVars
  <2>2. \A q \in Relays : \/ cur'[q] = cur[q] /\ held'[q] = held[q]
                          \/ cur'[q] = NoEvent
    BY <1>8 DEF FinishBatch, SettleMark, SettleRelease, LeaveBatch, Inv, TypeOK
  <2>3. \A q \in Relays : cur[q] # NoEvent => held[q] # NoToken
    BY DEF Inv, RelayInv
  <2> QED
    BY <2>1, <2>2, <2>3, NoneAssumption DEF RefusalInv
<1>9. CASE UNCHANGED vars
  BY <1>9 DEF RefusalInv, vars, rowVars, relayVars, historyVars
<1> QED
  BY <1>1, <1>2, <1>3, <1>4, <1>5, <1>6, <1>7, <1>8, <1>9 DEF Next, Step, Elapse

\* A broker outage or a shutdown never costs an event one of its attempts: the attempts
\* that RecordFailure counts are refusals, and FAILED means MaxAttempts of them.
THEOREM AttemptsCounted == Spec => []AttemptsAreRefusals
<1>1. Init => RefusalInv
  BY NoneAssumption DEF Init, RefusalInv
<1>2. Inv /\ RefusalInv /\ [Next]_vars => RefusalInv'
  BY NextRefusals
<1>3. Inv /\ RefusalInv => AttemptsAreRefusals
  BY AttemptsAssumption DEF Inv, TypeOK, RowInv, RefusalInv, AttemptsAreRefusals
<1> QED
  BY <1>1, <1>2, <1>3, Invariance, PTL DEF Spec

-----------------------------------------------------------------------------
(* Copies and incidents                                                    *)

\* The relays that may still publish e, or hand it back.
Busy(e) == {r \in Relays : e \in todo[r] \/ cur[r] = e}

\* 1 if e is there for the next claim, or is going to be without any incident.
Open(e) ==
  IF \/ status[e] = "ABSENT"
     \/ status[e] = "PENDING" /\ (claimToken[e] = NoToken \/ e \in due)
  THEN 1 ELSE 0

\* The copies there are and the copies that may still be made without another incident
\* are paid for together.
CopyInv ==
  /\ \A r \in Relays : cur[r] \notin todo[r]
  /\ \A e \in Events : copies[e] + Cardinality(Busy(e)) + Open(e) <= 1 + incidents[e]

\* The numbers that CopyInv adds up are natural numbers.
LEMMA CopyTypes ==
  ASSUME Inv, NEW e \in Events
  PROVE  /\ copies[e] \in Nat /\ incidents[e] \in Nat
         /\ IsFiniteSet(Busy(e)) /\ Cardinality(Busy(e)) \in Nat
         /\ Open(e) \in {0, 1}
<1>1. Busy(e) \subseteq Relays
  BY DEF Busy
<1>2. IsFiniteSet(Busy(e))
  BY <1>1, RelaysAssumption, FS_Subset
<1> QED
  BY <1>2, FS_CardinalityType DEF Inv, TypeOK, Open

\* A step of a single relay adds it to those busy with e, removes it, or neither.
LEMMA BusyMoves ==
  ASSUME Inv, NEW r \in Relays, NEW e \in Events,
         \A q \in Relays \ {r} : todo'[q] = todo[q] /\ cur'[q] = cur[q]
  PROVE  Cardinality(Busy(e)') = IF r \in Busy(e)'
                                 THEN IF r \in Busy(e) THEN Cardinality(Busy(e))
                                                       ELSE Cardinality(Busy(e)) + 1
                                 ELSE IF r \in Busy(e) THEN Cardinality(Busy(e)) - 1
                                                       ELSE Cardinality(Busy(e))
<1>1. IsFiniteSet(Busy(e))
  BY CopyTypes
<1>2. CASE r \in Busy(e)'
  <2>1. Busy(e)' = Busy(e) \cup {r}
    BY <1>2 DEF Busy
  <2> QED
    BY <1>1, <1>2, <2>1, FS_AddElement
<1>3. CASE r \notin Busy(e)'
  <2>1. Busy(e)' = Busy(e) \ {r}
    BY <1>3 DEF Busy
  <2> QED
    BY <1>1, <1>3, <2>1, FS_RemoveElement
<1> QED
  BY <1>2, <1>3

\* The rows, the stream or the clock move, the relays do not.
LEMMA RestingCopies ==
  ASSUME Inv, CopyInv, UNCHANGED <<todo, cur>>,
         \A e \in Events : /\ copies'[e] \in Nat /\ incidents'[e] \in Nat
                           /\ Open(e)' \in {0, 1}
                           /\ copies'[e] + Open(e)' + incidents[e]
                                <= copies[e] + Open(e) + incidents'[e]
  PROVE  CopyInv'
<1>1. \A r \in Relays : (cur[r] \notin todo[r])'
  BY DEF CopyInv
<1>2. ASSUME NEW e \in Events
      PROVE  (copies[e] + Cardinality(Busy(e)) + Open(e) <= 1 + incidents[e])'
  <2>1. Busy(e)' = Busy(e)
    BY DEF Busy
  <2> QED
    BY <1>2, <2>1, CopyTypes DEF CopyInv
<1> QED
  BY <1>1, <1>2 DEF CopyInv

\* A relay claims: what was open is closed, and one relay is busy with it.
LEMMA ClaimCopies ==
  ASSUME Inv, CopyInv, NEW r \in Relays, Claim(r)
  PROVE  CopyInv'
<1>1. PICK S \in Batches : ClaimBatch(S, NewToken) /\ todo' = [todo EXCEPT ![r] = S]
  BY DEF Claim
<1>2. NewToken # NoToken
  BY FreshTokenProperties DEF Claim
<1>3. todo[r] = {} /\ cur[r] = NoEvent
  BY DEF Claim, Inv, RelayInv
<1>4. S \subseteq Claimable /\ S \subseteq Events
  BY DEF Batches, Claimable, Inv, TypeOK
<1>5. UNCHANGED <<cur, copies, incidents, status>>
  BY <1>1 DEF Claim, ClaimBatch, historyVars
<1>6. \A q \in Relays : (cur[q] \notin todo[q])'
  BY <1>1, <1>3, <1>4, <1>5, NoneAssumption DEF CopyInv, Inv, TypeOK
<1>7. ASSUME NEW e \in Events
      PROVE  (copies[e] + Cardinality(Busy(e)) + Open(e) <= 1 + incidents[e])'
  <2>1. r \notin Busy(e) /\ (r \in Busy(e)' <=> e \in S)
    BY <1>1, <1>3, <1>5, NoneAssumption DEF Busy, Inv, TypeOK
  <2>2. CASE e \in S
    <3>1. Open(e) = 1 /\ Open(e)' = 0
      BY <1>1, <1>2, <1>4, <1>5, <2>2 DEF Open, ClaimBatch, Claimable
    <3>2. Cardinality(Busy(e)') = Cardinality(Busy(e)) + 1
      BY <1>1, <1>5, <2>1, <2>2, BusyMoves DEF Inv, TypeOK
    <3> QED
      BY <1>5, <3>1, <3>2, CopyTypes DEF CopyInv
  <2>3. CASE e \notin S
    <3>1. Open(e)' = Open(e)
      BY <1>1, <1>5, <2>3 DEF Open, ClaimBatch
    <3>2. Cardinality(Busy(e)') = Cardinality(Busy(e))
      BY <1>1, <1>5, <2>1, <2>3, BusyMoves DEF Inv, TypeOK
    <3> QED
      BY <1>5, <3>1, <3>2, CopyTypes DEF CopyInv
  <2> QED
    BY <2>2, <2>3
<1> QED
  BY <1>6, <1>7 DEF CopyInv

\* An accepted event turns a busy relay into a copy, a refused one leaves it busy.
LEMMA AnsweredCopies ==
  ASSUME Inv, CopyInv, NEW r \in Relays, NEW x \in Events,
         PublishAccepted(r, x) \/ PublishRefused(r, x)
  PROVE  CopyInv'
<1>1. cur[r] = NoEvent /\ x \in todo[r] /\ todo' = [todo EXCEPT ![r] = @ \ {x}]
      /\ UNCHANGED <<rowVars, incidents>>
  BY DEF PublishAccepted, PublishRefused, historyVars, Inv, RelayInv
<1>2. \A q \in Relays : (cur[q] \notin todo[q])'
  BY <1>1 DEF PublishAccepted, PublishRefused, CopyInv, Inv, TypeOK
<1>3. ASSUME NEW e \in Events
      PROVE  (copies[e] + Cardinality(Busy(e)) + Open(e) <= 1 + incidents[e])'
  <2>1. Open(e)' = Open(e)
    BY <1>1 DEF Open, rowVars
  <2>2. \A q \in Relays \ {r} : todo'[q] = todo[q] /\ cur'[q] = cur[q]
    BY DEF PublishAccepted, PublishRefused, Inv, TypeOK
  <2>3. CASE PublishAccepted(r, x) /\ e = x
    <3>1. r \in Busy(e) /\ r \notin Busy(e)'
      BY <1>1, <2>3, NoneAssumption DEF PublishAccepted, Busy, Inv, TypeOK
    <3>2. Cardinality(Busy(e)') = Cardinality(Busy(e)) - 1
      BY <2>2, <3>1, BusyMoves
    <3>3. copies'[e] = copies[e] + 1 /\ incidents' = incidents
      BY <1>1, <2>3 DEF PublishAccepted, Inv, TypeOK
    <3> QED
      BY <2>1, <3>2, <3>3, CopyTypes DEF CopyInv
  <2>4. CASE ~(PublishAccepted(r, x) /\ e = x)
    <3>1. r \in Busy(e) <=> r \in Busy(e)'
      BY <1>1, <2>4, NoneAssumption DEF PublishAccepted, PublishRefused, Busy, Inv, TypeOK
    <3>2. Cardinality(Busy(e)') = Cardinality(Busy(e))
      BY <2>2, <3>1, BusyMoves
    <3>3. copies'[e] = copies[e] /\ incidents' = incidents
      BY <1>1, <2>4 DEF PublishAccepted, PublishRefused, Inv, TypeOK
    <3> QED
      BY <2>1, <3>2, <3>3, CopyTypes DEF CopyInv
  <2> QED
    BY <2>3, <2>4
<1> QED
  BY <1>2, <1>3 DEF CopyInv

\* A relay that is done with some of its events opens at most those it was busy with.
LEMMA RetiringCopies ==
  ASSUME Inv, CopyInv, NEW r \in Relays,
         \A q \in Relays \ {r} : todo'[q] = todo[q] /\ cur'[q] = cur[q],
         todo'[r] \subseteq todo[r], cur'[r] = NoEvent,
         UNCHANGED <<copies, incidents>>,
         \A e \in Events : \/ Open(e)' = Open(e) \/ Open(e)' = 0
                           \/ Open(e)' = 1 /\ r \in Busy(e) /\ e \notin todo'[r]
  PROVE  CopyInv'
<1>1. \A q \in Relays : (cur[q] \notin todo[q])'
  BY NoneAssumption DEF CopyInv, Inv, TypeOK
<1>2. ASSUME NEW e \in Events
      PROVE  (copies[e] + Cardinality(Busy(e)) + Open(e) <= 1 + incidents[e])'
  <2>1. r \in Busy(e)' <=> e \in todo'[r]
    BY NoneAssumption DEF Busy
  <2>2. r \in Busy(e)' => r \in Busy(e)
    BY <2>1 DEF Busy
  <2>3. CASE Open(e)' = 1 /\ r \in Busy(e) /\ e \notin todo'[r]
    BY <2>1, <2>3, BusyMoves, CopyTypes DEF CopyInv
  <2>4. CASE Open(e)' = Open(e) \/ Open(e)' = 0
    BY <2>2, <2>4, BusyMoves, CopyTypes DEF CopyInv
  <2> QED
    BY <2>3, <2>4
<1> QED
  BY <1>1, <1>2 DEF CopyInv

\* A refusal is recorded, or fails to be.
LEMMA RecordRefusalCopies ==
  ASSUME Inv, CopyInv, NEW r \in Relays, RecordRefusal(r)
  PROVE  CopyInv'
<1>1. /\ \A q \in Relays \ {r} : todo'[q] = todo[q] /\ cur'[q] = cur[q]
      /\ todo'[r] = todo[r] /\ cur'[r] = NoEvent
      /\ cur[r] \in Events /\ cur[r] \notin todo[r]
      /\ UNCHANGED <<copies, incidents>>
  BY NoneAssumption DEF RecordRefusal, CopyInv, Inv, TypeOK, RelayInv
<1>2. ASSUME NEW e \in Events
      PROVE  \/ Open(e)' = Open(e) \/ Open(e)' = 0
             \/ Open(e)' = 1 /\ r \in Busy(e) /\ e \notin todo'[r]
  <2>1. CASE RecordFailure(cur[r]) /\ e = cur[r]
    BY <1>1, <2>1 DEF Open, Busy
  <2>2. CASE RecordFailure(cur[r]) /\ e # cur[r]
    BY <1>1, <2>2 DEF RecordFailure, Open, Inv, TypeOK
  <2>3. CASE UNCHANGED rowVars
    BY <2>3 DEF Open, rowVars
  <2> QED
    BY <2>1, <2>2, <2>3 DEF RecordRefusal, WriteFails, rowVars
<1> QED
  BY <1>1, <1>2, RetiringCopies

\* The batch is left with its published events marked, or not.
LEMMA FinishBatchCopies ==
  ASSUME Inv, CopyInv, NEW r \in Relays, FinishBatch(r)
  PROVE  CopyInv'
<1>1. /\ \A q \in Relays \ {r} : todo'[q] = todo[q] /\ cur'[q] = cur[q]
      /\ todo'[r] = {} /\ cur'[r] = NoEvent
      /\ UNCHANGED <<copies, incidents>>
  BY DEF FinishBatch, LeaveBatch, Inv, TypeOK
<1>2. \A e \in Events : Open(e)' = Open(e) \/ Open(e)' = 0
  BY DEF FinishBatch, MarkPublished, WriteFails, rowVars, Open
<1> QED
  BY <1>1, <1>2, RetiringCopies

\* Marking on the way out closes rows and touches no relay's batch.
LEMMA SettleMarkCopies ==
  ASSUME Inv, CopyInv, NEW r \in Relays, SettleMark(r)
  PROVE  CopyInv'
<1>1. \A e \in Events : Open(e)' = Open(e) \/ Open(e)' = 0
  BY DEF SettleMark, MarkPublished, WriteFails, rowVars, Open
<1>2. UNCHANGED <<todo, cur, copies, incidents>>
  BY DEF SettleMark
<1> QED
  BY <1>1, <1>2, RestingCopies, CopyTypes

\* The rows that are released open, and their relay is no longer busy with them.
LEMMA SettleReleaseCopies ==
  ASSUME Inv, CopyInv, NEW r \in Relays, SettleRelease(r)
  PROVE  CopyInv'
<1>1. /\ \A q \in Relays \ {r} : todo'[q] = todo[q] /\ cur'[q] = cur[q]
      /\ todo'[r] = {} /\ cur'[r] = NoEvent
      /\ UNCHANGED <<copies, incidents>>
  BY DEF SettleRelease, LeaveBatch, Inv, TypeOK
<1>2. ASSUME NEW e \in Events
      PROVE  \/ Open(e)' = Open(e) \/ Open(e)' = 0
             \/ Open(e)' = 1 /\ r \in Busy(e) /\ e \notin todo'[r]
  <2>1. CASE e \in todo[r]
    BY <1>1, <2>1 DEF Open, Busy
  <2>2. CASE e \notin todo[r]
    BY <2>2 DEF SettleRelease, Release, Owned, WriteFails, rowVars, Open, Inv, TypeOK
  <2> QED
    BY <2>1, <2>2
<1> QED
  BY <1>1, <1>2, RetiringCopies

\* A crash forgets the batch and opens nothing.
LEMMA CrashCopies ==
  ASSUME Inv, CopyInv, NEW r \in Relays, Crash(r)
  PROVE  CopyInv'
<1>1. /\ \A q \in Relays \ {r} : todo'[q] = todo[q] /\ cur'[q] = cur[q]
      /\ todo'[r] = {} /\ cur'[r] = NoEvent
      /\ UNCHANGED <<copies, incidents>>
  BY DEF Crash, LeaveBatch, Inv, TypeOK
<1>2. \A e \in Events : Open(e)' = Open(e)
  BY DEF Crash, rowVars, Open
<1> QED
  BY <1>1, <1>2, RetiringCopies

\* A lost XADD reply costs an incident for the copy it makes.
LEMMA UnansweredCopies ==
  ASSUME Inv, CopyInv, NEW x \in Events, XAddUnanswered(x), UNCHANGED <<rowVars, todo, cur>>
  PROVE  CopyInv'
<1>1. \A e \in Events : Open(e)' = Open(e)
  BY DEF Open, rowVars
<1>2. \A e \in Events : /\ copies'[e] \in Nat /\ incidents'[e] \in Nat
                        /\ copies'[e] + incidents[e] <= copies[e] + incidents'[e]
  BY DEF XAddUnanswered, Inv, TypeOK
<1> QED
  BY <1>1, <1>2, RestingCopies, CopyTypes

\* Time opens a row at the price of an incident, unless it was as good as open.
LEMMA DueCopies ==
  ASSUME Inv, CopyInv, NEW x \in Events,
         BackoffElapses(x) \/ AbandonedLeaseExpires(x) \/ EarlyLeaseExpires(x)
  PROVE  CopyInv'
<1>1. UNCHANGED <<todo, cur, copies, status, claimToken>> /\ due' = due \cup {x}
  BY DEF BackoffElapses, AbandonedLeaseExpires, EarlyLeaseExpires, LeaseExpires, relayVars
<1>2. CASE BackoffElapses(x)
  <2>1. \A e \in Events : Open(e)' = Open(e)
    BY <1>1, <1>2 DEF BackoffElapses, Open
  <2> QED
    BY <1>1, <1>2, <2>1, RestingCopies, CopyTypes DEF BackoffElapses, historyVars
<1>3. CASE LeaseExpires(x)
  <2>1. \A e \in Events : e # x => Open(e)' = Open(e) /\ incidents'[e] = incidents[e]
    BY <1>1, <1>3 DEF LeaseExpires, Open, Inv, TypeOK
  <2>2. Open(x)' \in {0, 1} /\ incidents'[x] = incidents[x] + 1
    BY <1>3 DEF LeaseExpires, Open, Inv, TypeOK
  <2> QED
    BY <1>1, <2>1, <2>2, RestingCopies, CopyTypes
<1> QED
  BY <1>2, <1>3 DEF AbandonedLeaseExpires, EarlyLeaseExpires

\* A new row is open, as it was before it was written.
LEMMA WriteEventsCopies ==
  ASSUME Inv, CopyInv, NEW S \in SUBSET Events, WriteEvents(S)
  PROVE  CopyInv'
<1>1. \A e \in Events : Open(e)' = Open(e)
  BY DEF WriteEvents, Open
<1>2. UNCHANGED <<todo, cur, copies, incidents>>
  BY DEF WriteEvents, relayVars, historyVars
<1> QED
  BY <1>1, <1>2, RestingCopies, CopyTypes

\* Every step preserves CopyInv.
LEMMA NextCopies ==
  ASSUME Inv, CopyInv, [Next]_vars
  PROVE  CopyInv'
<1>1. ASSUME NEW r \in Relays, Cancelled(r)
      PROVE  CopyInv'
  BY <1>1, UnansweredCopies DEF Cancelled, Inv, TypeOK
<1>2. ASSUME NEW r \in Relays, NEW e \in Events, PublishUnavailable(r, e)
      PROVE  CopyInv'
  BY <1>2, UnansweredCopies DEF PublishUnavailable
<1>3. CASE UNCHANGED <<rowVars, todo, cur, copies, incidents>>
  BY <1>3 DEF CopyInv, Busy, Open, rowVars
<1>4. ASSUME NEW r \in Relays, Start(r)
      PROVE  CopyInv'
  BY <1>3, <1>4 DEF Start, historyVars
<1>5. CASE UNCHANGED vars
  BY <1>3, <1>5 DEF vars, relayVars, historyVars
<1>6. ASSUME NEW r \in Relays, Step(r)
      PROVE  CopyInv'
  BY <1>6, ClaimCopies, RecordRefusalCopies, FinishBatchCopies, SettleMarkCopies,
     SettleReleaseCopies DEF Step
<1> QED
  BY <1>1, <1>2, <1>4, <1>5, <1>6, WriteEventsCopies, DueCopies, AnsweredCopies, CrashCopies
  DEF Next, Elapse

\* For any number of relays, every copy of an event beyond the first is paid for by a
\* lease that expired on its row or by a lost XADD reply.
THEOREM DuplicatesBounded == Spec => []DuplicatesAccounted
<1>1. Init => CopyInv
  <2>1. ASSUME Init
        PROVE  CopyInv
    <3>1. \A e \in Events : Busy(e) = {} /\ Open(e) = 1
      BY <2>1, NoneAssumption DEF Init, Busy, Open
    <3> QED
      BY <2>1, <3>1, FS_EmptySet DEF Init, CopyInv
  <2> QED
    BY <2>1
<1>2. Inv /\ CopyInv /\ [Next]_vars => CopyInv'
  BY NextCopies
<1>3. Inv /\ CopyInv => DuplicatesAccounted
  BY CopyTypes DEF CopyInv, DuplicatesAccounted
<1> QED
  BY <1>1, <1>2, <1>3, Invariance, PTL DEF Spec

-----------------------------------------------------------------------------
(* Refinement                                                              *)

\* What a step of the relays is to EventDelivery: a commit, a delivery, a settlement,
\* a surrender, or nothing.
LEMMA StepSimulation ==
  ASSUME Inv, [Next]_vars
  PROVE  [Delivery!Next]_(Delivery!vars)
<1>1. ASSUME NEW S \in SUBSET Events, WriteEvents(S)
      PROVE  Delivery!Next
  BY <1>1 DEF WriteEvents, Delivery!Next, Delivery!Commit
<1>2. ASSUME NEW r \in Relays, NEW t \in Tokens, MarkPublished(published[r], t), UNCHANGED copies
      PROVE  Delivery!Next
  <2>1. Owned(published[r], t) \in SUBSET Events
    BY DEF Owned, Inv, TypeOK
  <2>2. \A e \in Owned(published[r], t) : status[e] = "PENDING" /\ copies[e] > 0
    BY NoneAssumption DEF Owned, Inv, TypeOK, RowInv, RelayInv
  <2>3. Delivery!Settle(Owned(published[r], t))
    BY <1>2, <2>2 DEF MarkPublished, Delivery!Settle
  <2> QED
    BY <2>1, <2>3 DEF Delivery!Next
<1>3. ASSUME NEW e \in Events, status[e] # "ABSENT",
             copies' = [copies EXCEPT ![e] = @ + 1], UNCHANGED status
      PROVE  Delivery!Next
  BY <1>3 DEF Delivery!Next, Delivery!Deliver
<1>4. ASSUME NEW r \in Relays, FinishBatch(r) \/ SettleMark(r)
      PROVE  [Delivery!Next]_(Delivery!vars)
  <2>1. held[r] \in Tokens
    BY <1>4 DEF FinishBatch, SettleMark, Inv, TypeOK, RelayInv
  <2> QED
    BY <1>2, <1>4, <2>1 DEF FinishBatch, SettleMark, WriteFails, rowVars, Delivery!vars
<1>5. ASSUME NEW r \in Relays, RecordRefusal(r)
      PROVE  [Delivery!Next]_(Delivery!vars)
  <2>1. CASE cur[r] \in Owned({cur[r]}, held[r]) /\ RecordFailure(cur[r])
    <3>1. cur[r] \in Events /\ status[cur[r]] = "PENDING"
      BY <1>5, <2>1, NoneAssumption DEF RecordRefusal, Owned, Inv, TypeOK, RowInv, RelayInv
    <3>2. CASE retryCount[cur[r]] + 1 >= MaxAttempts
      BY <1>5, <2>1, <3>1, <3>2 DEF RecordRefusal, RecordFailure, Delivery!Next, Delivery!GiveUp
    <3>3. CASE ~(retryCount[cur[r]] + 1 >= MaxAttempts)
      <4>1. status' = status
        BY <2>1, <3>1, <3>3 DEF RecordFailure, Inv, TypeOK
      <4> QED
        BY <1>5, <4>1 DEF RecordRefusal, Delivery!vars
    <3> QED
      BY <3>2, <3>3
  <2>2. CASE UNCHANGED rowVars
    BY <1>5, <2>2 DEF RecordRefusal, rowVars, Delivery!vars
  <2> QED
    BY <1>5, <2>1, <2>2 DEF RecordRefusal, WriteFails, rowVars
<1>6. ASSUME NEW r \in Relays, NEW e \in Events, PublishAccepted(r, e)
      PROVE  Delivery!Next
  BY <1>3, <1>6 DEF PublishAccepted, rowVars, Inv, RelayInv
<1>7. ASSUME NEW r \in Relays, NEW e \in todo[r], XAddUnanswered(e), UNCHANGED rowVars
      PROVE  [Delivery!Next]_(Delivery!vars)
  BY <1>3, <1>7 DEF XAddUnanswered, rowVars, Delivery!vars, Inv, TypeOK, RelayInv
<1>8. ASSUME NEW r \in Relays, Cancelled(r)
      PROVE  [Delivery!Next]_(Delivery!vars)
  BY <1>7, <1>8 DEF Cancelled
<1>9. ASSUME NEW r \in Relays, NEW e \in Events, PublishUnavailable(r, e)
      PROVE  [Delivery!Next]_(Delivery!vars)
  BY <1>7, <1>9 DEF PublishUnavailable
<1>10. ASSUME NEW r \in Relays, NEW e \in Events, PublishRefused(r, e)
       PROVE  UNCHANGED Delivery!vars
  BY <1>10 DEF PublishRefused, rowVars, Delivery!vars
<1>11. ASSUME NEW r \in Relays, Claim(r) \/ SettleRelease(r) \/ Crash(r) \/ Start(r)
       PROVE  UNCHANGED Delivery!vars
  BY <1>11
  DEF Claim, ClaimBatch, SettleRelease, Release, WriteFails, Crash, Start, rowVars, Delivery!vars
<1>12. ASSUME NEW e \in Events,
              BackoffElapses(e) \/ AbandonedLeaseExpires(e) \/ EarlyLeaseExpires(e)
       PROVE  UNCHANGED Delivery!vars
  BY <1>12 DEF BackoffElapses, AbandonedLeaseExpires, EarlyLeaseExpires, LeaseExpires, Delivery!vars
<1>13. CASE UNCHANGED vars
  BY <1>13 DEF vars, rowVars, Delivery!vars
<1> QED
  BY <1>1, <1>4, <1>5, <1>6, <1>8, <1>9, <1>10, <1>11, <1>12, <1>13 DEF Next, Step, Elapse

\* The relays implement EventDelivery: at-least-once delivery before settlement, and no
\* settled row reopened, for any number of relays and whatever fails.
THEOREM DeliveryImplemented == Spec => DeliverySpec
<1>1. Init => Delivery!Init
  BY DEF Init, Delivery!Init
<1>2. Inv /\ [Next]_vars => [Delivery!Next]_(Delivery!vars)
  BY StepSimulation
<1> QED
  BY <1>1, <1>2, Invariance, PTL DEF Spec, DeliverySpec, Delivery!Spec

=============================================================================
