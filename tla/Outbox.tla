------------------------------- MODULE Outbox -------------------------------
(***************************************************************************)
(* The transactional outbox: the outbox_events table, the relays that      *)
(* claim batches of it and publish them, and the Redis stream they publish *)
(* to. One statement of the repository is one atomic step; everything a    *)
(* relay does between two statements interleaves with the other relays,    *)
(* with the passing of leases and with crashes.                            *)
(*                                                                         *)
(* Time is abstracted to the set of rows that are due, available_at <=     *)
(* NOW(): a row that is not due may become due at any moment.              *)
(***************************************************************************)
EXTENDS Naturals, FiniteSets

CONSTANTS
  Events,         \* rows of outbox_events
  Relays,         \* worker processes running Relay.Run
  Tokens,         \* claim tokens (UUIDs)
  NoToken,        \* claim_token IS NULL
  NoEvent,        \* no event at hand
  BatchSize,      \* RelayConfig.BatchSize
  MaxAttempts,    \* RelayConfig.MaxAttempts
  MaxFaults       \* bound of the model: crashes, shutdowns, failed store writes,
                  \* lost replies and early lease expiries in one behaviour

ASSUME BatchAssumption == BatchSize \in Nat \ {0}
ASSUME AttemptsAssumption == MaxAttempts \in Nat \ {0}
ASSUME FaultsAssumption == MaxFaults \in Nat
ASSUME RelaysAssumption == IsFiniteSet(Relays)
ASSUME NoneAssumption == NoToken \notin Tokens /\ NoEvent \notin Events

VARIABLES
  \* outbox_events
  status,         \* "ABSENT" until the writing transaction commits
  retryCount,
  claimToken,
  due,            \* rows with available_at <= NOW()
  \* the relays
  pc,             \* where RunOnce stands
  held,           \* claimToken of the current RunOnce
  todo,           \* events[i:], claimed and not yet handled
  cur,            \* the event whose refusal is being recorded
  published,      \* publishedIDs
  \* Redis
  copies,         \* entries XADDed for each event
  \* history, read by no guard except the fault bound
  faults,
  incidents,      \* lease expiries and lost replies that hit each event
  refusals        \* permanent refusals of each event by the broker

rowVars == <<status, retryCount, claimToken, due>>
relayVars == <<pc, held, todo, cur, published>>
historyVars == <<faults, incidents, refusals>>
vars == <<rowVars, relayVars, copies, historyVars>>

Statuses == {"ABSENT", "PENDING", "PROCESSED", "FAILED"}

\* "settle" is the way out of a batch: its first half marks what was published,
\* its second releases the rest. "stop_" is the same on a cancelled context.
Locations == {"down", "idle", "publish", "record",
              "settle_mark", "settle_release", "stop_mark", "stop_release"}

TypeOK ==
  /\ status \in [Events -> Statuses]
  /\ retryCount \in [Events -> 0 .. MaxAttempts]
  /\ claimToken \in [Events -> Tokens \cup {NoToken}]
  /\ due \in SUBSET Events
  /\ pc \in [Relays -> Locations]
  /\ held \in [Relays -> Tokens \cup {NoToken}]
  /\ todo \in [Relays -> SUBSET Events]
  /\ cur \in [Relays -> Events \cup {NoEvent}]
  /\ published \in [Relays -> SUBSET Events]
  /\ copies \in [Events -> Nat]
  /\ faults \in 0 .. MaxFaults
  /\ incidents \in [Events -> Nat]
  /\ refusals \in [Events -> Nat]

Init ==
  /\ status = [e \in Events |-> "ABSENT"]
  /\ retryCount = [e \in Events |-> 0]
  /\ claimToken = [e \in Events |-> NoToken]
  /\ due = {}
  /\ pc = [r \in Relays |-> "idle"]
  /\ held = [r \in Relays |-> NoToken]
  /\ todo = [r \in Relays |-> {}]
  /\ cur = [r \in Relays |-> NoEvent]
  /\ published = [r \in Relays |-> {}]
  /\ copies = [e \in Events |-> 0]
  /\ faults = 0
  /\ incidents = [e \in Events |-> 0]
  /\ refusals = [e \in Events |-> 0]

-----------------------------------------------------------------------------
(* The statements of the outbox repository: each operator is the effect of *)
(* one UPDATE on outbox_events, guarded the way its WHERE clause does.     *)

\* Bug: a row whose last claim was never settled is not claimed again.
UnclaimedOnly == {e \in due : status[e] = "PENDING" /\ claimToken[e] = NoToken}

Claimable == {e \in due : status[e] = "PENDING"}

\* The rows one claim statement may take: as many claimable ones as the limit
\* allows. Any choice stands for the ORDER BY and for what SKIP LOCKED skips.
Batches ==
  {S \in SUBSET Claimable :
     S # {} /\ Cardinality(S) <= BatchSize}

\* Bug: the claim does not push available_at past the lease.
ClaimWithoutLease(S, t) ==
  /\ claimToken' = [e \in Events |-> IF e \in S THEN t ELSE claimToken[e]]
  /\ UNCHANGED <<status, retryCount, due>>

ClaimBatch(S, t) ==
  /\ claimToken' = [e \in Events |-> IF e \in S THEN t ELSE claimToken[e]]
  /\ due' = due \ S
  /\ UNCHANGED <<status, retryCount>>

\* Rows of S that still carry the token: the WHERE clause of every settling write.
Owned(S, t) == {e \in S : claimToken[e] = t}

MarkPublished(S, t) ==
  /\ status' = [e \in Events |-> IF e \in Owned(S, t) THEN "PROCESSED" ELSE status[e]]
  /\ claimToken' = [e \in Events |-> IF e \in Owned(S, t) THEN NoToken ELSE claimToken[e]]
  /\ UNCHANGED <<retryCount, due>>

\* Bug: a failed row keeps its claim.
FailureKeepsClaim(e) ==
  /\ retryCount' = [retryCount EXCEPT ![e] = @ + 1]
  /\ status' = [status EXCEPT ![e] =
                  IF retryCount[e] + 1 >= MaxAttempts THEN "FAILED" ELSE "PENDING"]
  /\ due' = due \ {e}
  /\ UNCHANGED claimToken

\* Bug: > where the statement has >=.
FailureOneLate(e) ==
  /\ retryCount' = [retryCount EXCEPT ![e] = @ + 1]
  /\ status' = [status EXCEPT ![e] =
                  IF retryCount[e] + 1 > MaxAttempts THEN "FAILED" ELSE "PENDING"]
  /\ claimToken' = [claimToken EXCEPT ![e] = NoToken]
  /\ due' = due \ {e}

\* One more attempt spent, the claim dropped, the row not due before its backoff.
RecordFailure(e) ==
  /\ retryCount' = [retryCount EXCEPT ![e] = @ + 1]
  /\ status' = [status EXCEPT ![e] =
                  IF retryCount[e] + 1 >= MaxAttempts THEN "FAILED" ELSE "PENDING"]
  /\ claimToken' = [claimToken EXCEPT ![e] = NoToken]
  /\ due' = due \ {e}

Release(S, t) ==
  /\ claimToken' = [e \in Events |-> IF e \in Owned(S, t) THEN NoToken ELSE claimToken[e]]
  /\ due' = due \cup Owned(S, t)
  /\ UNCHANGED <<status, retryCount>>

-----------------------------------------------------------------------------
(* The writers: an event row is inserted by the transaction of the change  *)
(* it announces, and several by one COPY.                                  *)

WriteEvents(S) ==
  /\ S # {}
  /\ \A e \in S : status[e] = "ABSENT"
  /\ status' = [e \in Events |-> IF e \in S THEN "PENDING" ELSE status[e]]
  /\ due' = due \cup S
  /\ UNCHANGED <<retryCount, claimToken, relayVars, copies, historyVars>>

-----------------------------------------------------------------------------
(* Time and faults                                                         *)

Fault == faults < MaxFaults /\ faults' = faults + 1

\* The backoff of a failed attempt elapses.
BackoffElapses(e) ==
  /\ status[e] = "PENDING" /\ claimToken[e] = NoToken /\ e \notin due
  /\ due' = due \cup {e}
  /\ UNCHANGED <<status, retryCount, claimToken, relayVars, copies, historyVars>>

\* The relay whose RunOnce claimed e still works on that batch.
Working(e) == \E r \in Relays : held[r] = claimToken[e]

LeaseExpires(e) ==
  /\ status[e] = "PENDING" /\ claimToken[e] # NoToken /\ e \notin due
  /\ due' = due \cup {e}
  /\ incidents' = [incidents EXCEPT ![e] = @ + 1]
  /\ UNCHANGED <<status, retryCount, claimToken, relayVars, copies, refusals>>

\* The lease runs out after its relay died or failed to settle the row.
AbandonedLeaseExpires(e) ==
  /\ ~Working(e)
  /\ LeaseExpires(e)
  /\ UNCHANGED faults

\* The lease runs out under a relay that is merely slow.
EarlyLeaseExpires(e) ==
  /\ Working(e)
  /\ LeaseExpires(e)
  /\ Fault

-----------------------------------------------------------------------------
(* Relay.RunOnce                                                           *)

FreshTokens == Tokens \ ({claimToken[e] : e \in Events} \cup {held[r] : r \in Relays})

\* uuid.NewString: a token that no row and no relay carries.
NewToken == CHOOSE t \in FreshTokens : TRUE

Claim(r) ==
  /\ pc[r] = "idle"
  /\ FreshTokens # {}
  /\ \E S \in Batches :
       /\ ClaimBatch(S, NewToken)
       /\ todo' = [todo EXCEPT ![r] = S]
  /\ held' = [held EXCEPT ![r] = NewToken]
  /\ pc' = [pc EXCEPT ![r] = "publish"]
  /\ UNCHANGED <<cur, published, copies, historyVars>>

\* XADD applied and acknowledged.
PublishAccepted(r, e) ==
  /\ pc[r] = "publish" /\ e \in todo[r]
  /\ copies' = [copies EXCEPT ![e] = @ + 1]
  /\ published' = [published EXCEPT ![r] = @ \cup {e}]
  /\ todo' = [todo EXCEPT ![r] = @ \ {e}]
  /\ UNCHANGED <<rowVars, pc, held, cur, historyVars>>

\* An error that ClassifyRedisError does not put down to the broker.
PublishRefused(r, e) ==
  /\ pc[r] = "publish" /\ e \in todo[r]
  /\ refusals' = [refusals EXCEPT ![e] = @ + 1]
  /\ cur' = [cur EXCEPT ![r] = e]
  /\ todo' = [todo EXCEPT ![r] = @ \ {e}]
  /\ pc' = [pc EXCEPT ![r] = "record"]
  /\ UNCHANGED <<rowVars, held, published, copies, faults, incidents>>

\* The XADD of e fails for the caller: it was not applied, or only its reply is lost.
XAddUnanswered(e) ==
  \/ UNCHANGED <<copies, incidents>>
  \/ /\ copies' = [copies EXCEPT ![e] = @ + 1]
     /\ incidents' = [incidents EXCEPT ![e] = @ + 1]

\* Bug: an outage is charged to the event like a refusal.
OutageAsRefusal(r, e) ==
  /\ pc[r] = "publish" /\ e \in todo[r]
  /\ cur' = [cur EXCEPT ![r] = e]
  /\ todo' = [todo EXCEPT ![r] = @ \ {e}]
  /\ pc' = [pc EXCEPT ![r] = "record"]
  /\ UNCHANGED <<rowVars, held, published, copies, historyVars>>

\* ErrBrokerUnavailable: e stays among events[i:], the batch is settled and left.
PublishUnavailable(r, e) ==
  /\ pc[r] = "publish" /\ e \in todo[r]
  /\ XAddUnanswered(e)
  /\ IF copies' = copies THEN UNCHANGED faults ELSE Fault
  /\ pc' = [pc EXCEPT ![r] = "settle_mark"]
  /\ UNCHANGED <<rowVars, held, todo, cur, published, refusals>>

\* The context is cancelled, before an event is published or while it is.
Cancelled(r) ==
  /\ pc[r] = "publish"
  /\ \E e \in todo[r] : XAddUnanswered(e)
  /\ Fault
  /\ pc' = [pc EXCEPT ![r] = "stop_mark"]
  /\ UNCHANGED <<rowVars, held, todo, cur, published, refusals>>

\* A store write takes effect, or fails and leaves the rows alone. The relay goes
\* on the same way in both cases: errors are logged and joined.
WriteFails == Fault /\ UNCHANGED rowVars

RecordRefusal(r) ==
  /\ pc[r] = "record"
  /\ \/ cur[r] \in Owned({cur[r]}, held[r]) /\ RecordFailure(cur[r]) /\ UNCHANGED faults
     \/ cur[r] \notin Owned({cur[r]}, held[r]) /\ UNCHANGED <<rowVars, faults>>
     \/ WriteFails
  /\ cur' = [cur EXCEPT ![r] = NoEvent]
  /\ pc' = [pc EXCEPT ![r] = "publish"]
  /\ UNCHANGED <<held, todo, published, copies, incidents, refusals>>

\* RunOnce returns: everything but the location is forgotten.
LeaveBatch(r, to) ==
  /\ pc' = [pc EXCEPT ![r] = to]
  /\ held' = [held EXCEPT ![r] = NoToken]
  /\ todo' = [todo EXCEPT ![r] = {}]
  /\ cur' = [cur EXCEPT ![r] = NoEvent]
  /\ published' = [published EXCEPT ![r] = {}]

\* The whole batch was tried: mark what was accepted. Rows whose token changed are
\* not touched; the relay only warns of a potential duplicate.
FinishBatch(r) ==
  /\ pc[r] = "publish" /\ todo[r] = {}
  /\ \/ MarkPublished(published[r], held[r]) /\ UNCHANGED faults
     \/ WriteFails
  /\ LeaveBatch(r, "idle")
  /\ UNCHANGED <<copies, incidents, refusals>>

\* Bug: the rows that were not published are marked instead of those that were.
SettleMarksRest(r) ==
  /\ pc[r] \in {"settle_mark", "stop_mark"}
  /\ MarkPublished(todo[r], held[r]) /\ UNCHANGED faults
  /\ pc' = [pc EXCEPT ![r] = IF @ = "settle_mark" THEN "settle_release" ELSE "stop_release"]
  /\ UNCHANGED <<held, todo, cur, published, copies, incidents, refusals>>

SettleMark(r) ==
  /\ pc[r] \in {"settle_mark", "stop_mark"}
  /\ \/ MarkPublished(published[r], held[r]) /\ UNCHANGED faults
     \/ WriteFails
  /\ pc' = [pc EXCEPT ![r] = IF @ = "settle_mark" THEN "settle_release" ELSE "stop_release"]
  /\ UNCHANGED <<held, todo, cur, published, copies, incidents, refusals>>

SettleRelease(r) ==
  /\ pc[r] \in {"settle_release", "stop_release"}
  /\ \/ Release(todo[r], held[r]) /\ UNCHANGED faults
     \/ WriteFails
  /\ LeaveBatch(r, IF pc[r] = "settle_release" THEN "idle" ELSE "down")
  /\ UNCHANGED <<copies, incidents, refusals>>

-----------------------------------------------------------------------------
(* The worker process                                                      *)

\* The process dies, or a claim's reply is lost and RunOnce returns at once.
Crash(r) ==
  /\ pc[r] # "down"
  /\ Fault
  /\ LeaveBatch(r, "down")
  /\ UNCHANGED <<rowVars, copies, incidents, refusals>>

Start(r) ==
  /\ pc[r] = "down"
  /\ pc' = [pc EXCEPT ![r] = "idle"]
  /\ UNCHANGED <<rowVars, held, todo, cur, published, copies, historyVars>>

-----------------------------------------------------------------------------

Elapse(e) == BackoffElapses(e) \/ AbandonedLeaseExpires(e)

Answered(r) == \E e \in Events : PublishAccepted(r, e) \/ PublishRefused(r, e)

Step(r) == Claim(r) \/ RecordRefusal(r) \/ FinishBatch(r) \/ SettleMark(r) \/ SettleRelease(r)

Next ==
  \/ \E S \in SUBSET Events : WriteEvents(S)
  \/ \E e \in Events : Elapse(e) \/ EarlyLeaseExpires(e)
  \/ \E r \in Relays : Step(r) \/ Cancelled(r) \/ Crash(r) \/ Start(r)
  \/ \E r \in Relays, e \in Events :
       PublishAccepted(r, e) \/ PublishRefused(r, e) \/ PublishUnavailable(r, e)

Spec == Init /\ [][Next]_vars

\* Time passes, a relay that is up takes its next step, a dead worker is started
\* again, and a broker that is asked again and again answers at last.
Fairness ==
  /\ \A e \in Events : WF_vars(Elapse(e))
  /\ \A r \in Relays : WF_vars(Step(r)) /\ WF_vars(Start(r)) /\ SF_vars(Answered(r))

FairSpec == Spec /\ Fairness

-----------------------------------------------------------------------------
(* Properties                                                              *)

\* A claim token is only ever found on a PENDING row. MarkPublished leaves status out
\* of its WHERE clause and relies on it: with a token on a FAILED row it would
\* resurrect an event the relay gave up on.
ClaimImpliesPending ==
  \A e \in Events : claimToken[e] # NoToken => status[e] = "PENDING"

\* Every copy of an event beyond the first is paid for by a lease that expired on a
\* claimed row or by a lost XADD reply: crashes, shutdowns, outages, failed writes
\* and relays racing for the same rows duplicate nothing by themselves.
DuplicatesAccounted ==
  \A e \in Events : copies[e] <= 1 + incidents[e]

\* A broker outage or a shutdown never costs an event one of its attempts, however
\* claims move between relays: each counted attempt is a refusal of its own.
AttemptsAreRefusals ==
  \A e \in Events :
    /\ retryCount[e] <= refusals[e]
    /\ status[e] = "FAILED" => refusals[e] >= MaxAttempts

\* The relays implement the promise of EventDelivery: a row is PROCESSED only after
\* its event reached the stream, and a settled row stays settled.
Delivery == INSTANCE EventDelivery WITH Events <- Events, status <- status, copies <- copies
DeliverySpec == Delivery!Spec

\* Whatever crashes, once faults stop and the broker answers, every committed event
\* is PROCESSED or FAILED.
EventuallySettled ==
  \A e \in Events : status[e] = "PENDING" ~> status[e] \in {"PROCESSED", "FAILED"}

=============================================================================
