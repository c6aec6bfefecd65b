---------------------------- MODULE EventConsumer ----------------------------
(***************************************************************************)
(* One consumer group of a Redis stream: the consumers and their worker    *)
(* pools, the idempotency guard around the message handler, the dead-letter *)
(* table and its replay. The stream is fed by the outbox, which may publish *)
(* an event more than once (EventDelivery); redeliveries, reclaims by       *)
(* another consumer, expired key leases, failed writes and crashes come on  *)
(* top of that. One SQL statement or Redis command is one atomic step; the  *)
(* handler's transaction is one step too, since its CompleteKey locks the   *)
(* key's row until it commits.                                              *)
(***************************************************************************)
EXTENDS Naturals, Sequences, FiniteSets

CONSTANTS
  Consumers,          \* processes running Consumer.Run in this group
  Events,             \* event ids, the idempotency keys of the handler's scope
  Payloads,           \* payload hashes
  NoTask,             \* lease_token IS NULL
  RetryMaxAttempts,   \* ConsumerConfig.RetryMaxAttempts
  Concurrency,        \* ConsumerConfig.Concurrency, workers of a pool
  MaxEntries,         \* bound of the model: entries ever added to the stream
  MaxFaults           \* bound of the model: crashes, failed commands, group losses

ASSUME RetryAssumption == RetryMaxAttempts \in Nat \ {0}
ASSUME ConcurrencyAssumption == Concurrency \in Nat \ {0}
ASSUME BoundAssumption == MaxEntries \in Nat /\ MaxFaults \in Nat

Ids == 1 .. MaxEntries

\* A delivery being processed: a consumer and a stream ID. It stands for the lease
\* token too: each handler call draws a fresh one, and at most one call per
\* delivery is under way (Consumer.inFlight).
Tasks == Consumers \X Ids

ASSUME NoTaskAssumption == NoTask \notin Tasks

VARIABLES
  \* Redis
  stream,             \* entries in the order they were added; stream IDs are positions
  lastRead,           \* the group's last-delivered-id
  pel,                \* delivered and not acknowledged
  \* the consumers' tasks
  loc,                \* where processMessage stands, "none" if not in flight
  attempt,            \* attempt counter of its retry loop
  \* PostgreSQL
  keyStatus,          \* idempotency_keys.status, "ABSENT" when there is no row
  keyHash,            \* payload_hash
  keyToken,           \* lease_token
  keyExpired,         \* lease_expires_at <= NOW()
  dlq,                \* dlq_messages, by stream ID
  effects,            \* committed handler transactions per event
  \* history
  acked,              \* stream IDs acknowledged by XACK
  faults

streamVars == <<stream, lastRead, pel, acked>>
taskVars == <<loc, attempt>>
keyVars == <<keyStatus, keyHash, keyToken, keyExpired>>
vars == <<streamVars, taskVars, keyVars, dlq, effects, faults>>

NoHash == "none"

\* An envelope whose fields do not decode has no event.
Corrupt == "corrupt"
Entries == [event : Events \cup {Corrupt}, payload : Payloads,
            target : {"any", "this", "other"}]

Locations == {"none", "claim", "inspect", "handle", "release_retry",
              "release_dead", "dead_letter", "ack"}

TypeOK ==
  /\ stream \in Seq(Entries) /\ Len(stream) <= MaxEntries
  /\ lastRead \in 0 .. Len(stream)
  /\ pel \in SUBSET Ids
  /\ loc \in [Tasks -> Locations]
  /\ attempt \in [Tasks -> 0 .. RetryMaxAttempts]
  /\ keyStatus \in [Events -> {"ABSENT", "IN_PROGRESS", "COMPLETED"}]
  /\ keyHash \in [Events -> Payloads \cup {NoHash}]
  /\ keyToken \in [Events -> Tasks \cup {NoTask}]
  /\ keyExpired \in [Events -> BOOLEAN]
  /\ dlq \in [Ids -> {"none", "DEAD", "REPLAYED"}]
  /\ effects \in [Events -> Nat]
  /\ acked \in SUBSET Ids
  /\ faults \in 0 .. MaxFaults

Init ==
  /\ stream = <<>> /\ lastRead = 0 /\ pel = {} /\ acked = {}
  /\ loc = [t \in Tasks |-> "none"]
  /\ attempt = [t \in Tasks |-> 0]
  /\ keyStatus = [e \in Events |-> "ABSENT"]
  /\ keyHash = [e \in Events |-> NoHash]
  /\ keyToken = [e \in Events |-> NoTask]
  /\ keyExpired = [e \in Events |-> FALSE]
  /\ dlq = [i \in Ids |-> "none"]
  /\ effects = [e \in Events |-> 0]
  /\ faults = 0

Fault == faults < MaxFaults /\ faults' = faults + 1

Goto(t, l) == loc' = [loc EXCEPT ![t] = l]

\* The task of a delivery ends.
Leave(t) ==
  /\ Goto(t, "none")
  /\ attempt' = [attempt EXCEPT ![t] = 0]

Event(t) == stream[t[2]].event
Payload(t) == stream[t[2]].payload

-----------------------------------------------------------------------------
(* The stream                                                              *)

\* An XADD by the relay: an event, published for the first time or once more, or a
\* foreign entry that does not decode.
Publish(m) ==
  /\ Len(stream) < MaxEntries
  /\ m.target = "any"
  /\ stream' = Append(stream, m)
  /\ UNCHANGED <<lastRead, pel, acked, taskVars, keyVars, dlq, effects, faults>>

\* The relay publishes the outbox row a replay wrote: same event id and payload,
\* addressed to the group that dead-lettered it, here this one.
PublishReplay(i) ==
  /\ dlq[i] = "REPLAYED"
  /\ Len(stream) < MaxEntries
  /\ stream' = Append(stream, [stream[i] EXCEPT !.target = "this"])
  /\ UNCHANGED <<lastRead, pel, acked, taskVars, keyVars, dlq, effects, faults>>

\* A replay that another group asked for.
PublishForeignReplay(m) ==
  /\ Len(stream) < MaxEntries
  /\ m.target = "other" /\ m.event # Corrupt
  /\ stream' = Append(stream, m)
  /\ UNCHANGED <<lastRead, pel, acked, taskVars, keyVars, dlq, effects, faults>>

\* Bug: a replay for another group is handled here too.
HandleForeign(m) == IF m.event = Corrupt THEN "dead_letter" ELSE "claim"

\* processMessage before its first attempt: a corrupt envelope is dead-lettered, a
\* replay for another group acknowledged unhandled.
First(m) ==
  CASE m.event = Corrupt -> "dead_letter"
    [] m.event # Corrupt /\ m.target = "other" -> "ack"
    [] OTHER -> "claim"

\* XREADGROUP ">": the next entry is delivered to some consumer.
Read ==
  /\ lastRead < Len(stream)
  /\ lastRead' = lastRead + 1
  /\ pel' = pel \cup {lastRead + 1}
  /\ UNCHANGED <<stream, acked, taskVars, keyVars, dlq, effects, faults>>

InFlight(c) == {i \in Ids : loc[<<c, i>>] # "none"}

\* A worker of c's pool takes up a pending entry, which c read or got from XAUTOCLAIM
\* after another consumer let it idle. dispatchMessage drops what c has in flight.
Dispatch(c, i) ==
  /\ i \in pel
  /\ loc[<<c, i>>] = "none"
  /\ Cardinality(InFlight(c)) < Concurrency
  /\ Goto(<<c, i>>, First(stream[i]))
  /\ attempt' = [attempt EXCEPT ![<<c, i>>] = 1]
  /\ UNCHANGED <<streamVars, keyVars, dlq, effects, faults>>

\* The group is gone (NOGROUP) and EnsureGroup recreates it at 0.
GroupLost ==
  /\ lastRead > 0
  /\ Fault
  /\ lastRead' = 0 /\ pel' = {}
  /\ UNCHANGED <<stream, acked, taskVars, keyVars, dlq, effects>>

-----------------------------------------------------------------------------
(* Consumer.processMessage                                                 *)

\* Bug: one attempt too many.
RetryOneMore(t) ==
  IF attempt[t] > RetryMaxAttempts
  THEN Goto(t, "dead_letter") /\ UNCHANGED attempt
  ELSE Goto(t, "claim") /\ attempt' = [attempt EXCEPT ![t] = @ + 1]

\* What Classify and the attempt counter make of a transient error.
RetryOrDeadLetter(t) ==
  IF attempt[t] = RetryMaxAttempts
  THEN Goto(t, "dead_letter") /\ UNCHANGED attempt
  ELSE Goto(t, "claim") /\ attempt' = [attempt EXCEPT ![t] = @ + 1]

\* Bug: a key whose holder died is never taken over.
AvailableOnce(e, h) == keyStatus[e] = "ABSENT"

\* ON CONFLICT DO UPDATE ... WHERE of the claim statement.
Available(e, h) ==
  \/ keyStatus[e] = "ABSENT"
  \/ keyStatus[e] = "IN_PROGRESS" /\ keyExpired[e] /\ keyHash[e] = h

ClaimKey(t) ==
  LET e == Event(t) IN
  /\ loc[t] = "claim"
  /\ IF Available(e, Payload(t))
     THEN /\ keyStatus' = [keyStatus EXCEPT ![e] = "IN_PROGRESS"]
          /\ keyHash' = [keyHash EXCEPT ![e] = Payload(t)]
          /\ keyToken' = [keyToken EXCEPT ![e] = t]
          /\ keyExpired' = [keyExpired EXCEPT ![e] = FALSE]
          /\ Goto(t, "handle")
     ELSE Goto(t, "inspect") /\ UNCHANGED keyVars
  /\ UNCHANGED <<streamVars, attempt, dlq, effects, faults>>

\* A query fails: the guard returns a plain error, which is transient.
StoreError(t) ==
  /\ loc[t] \in {"claim", "inspect"}
  /\ Fault
  /\ RetryOrDeadLetter(t)
  /\ UNCHANGED <<streamVars, keyVars, dlq, effects>>

\* What the second query of ClaimKey finds decides, not what the first one saw.
Found(t) ==
  CASE keyHash[Event(t)] # Payload(t) -> "dead_letter"
    [] keyHash[Event(t)] = Payload(t) /\ keyStatus[Event(t)] = "COMPLETED" -> "ack"
    [] OTHER -> "none"

InspectKey(t) ==
  /\ loc[t] = "inspect"
  /\ IF Found(t) = "none" THEN Leave(t) ELSE Goto(t, Found(t)) /\ UNCHANGED attempt
  /\ UNCHANGED <<streamVars, keyVars, dlq, effects, faults>>

\* WHERE clause of CompleteKey and ReleaseKey.
HoldsLease(t) == keyStatus[Event(t)] = "IN_PROGRESS" /\ keyToken[Event(t)] = t

\* CompleteKey inside the handler's transaction.
CompleteKey(t) ==
  /\ keyStatus' = [keyStatus EXCEPT ![Event(t)] = "COMPLETED"]
  /\ keyToken' = [keyToken EXCEPT ![Event(t)] = NoTask]
  /\ keyExpired' = [keyExpired EXCEPT ![Event(t)] = FALSE]
  /\ UNCHANGED keyHash

\* The handler's transaction commits its effect with the completed key. The handler
\* then returns nil; or the reply to COMMIT is lost, or it fails or panics after it.
HandlerCommits(t) ==
  /\ loc[t] = "handle"
  /\ HoldsLease(t)
  /\ CompleteKey(t)
  /\ effects' = [effects EXCEPT ![Event(t)] = @ + 1]
  /\ \/ Goto(t, "ack") /\ UNCHANGED faults
     \/ (Goto(t, "release_retry") \/ Goto(t, "release_dead")) /\ Fault
  /\ UNCHANGED <<streamVars, attempt, dlq>>

\* Bug: the transaction commits in spite of ErrLeaseLost.
LostLeaseCommits(t) ==
  /\ loc[t] = "handle"
  /\ ~HoldsLease(t)
  /\ effects' = [effects EXCEPT ![Event(t)] = @ + 1]
  /\ Leave(t)
  /\ UNCHANGED <<streamVars, keyVars, dlq, faults>>

\* CompleteKey affects no row: ErrLeaseLost rolls the transaction back, the release
\* that follows affects no row either, and the message is left pending.
HandlerLosesLease(t) ==
  /\ loc[t] = "handle"
  /\ ~HoldsLease(t)
  /\ Leave(t)
  /\ UNCHANGED <<streamVars, keyVars, dlq, effects, faults>>

\* The handler fails before its commit: with a transient error, or with a permanent
\* one, a panic, or nil without CompleteInTx.
HandlerFails(t) ==
  /\ loc[t] = "handle"
  /\ Goto(t, "release_retry") \/ Goto(t, "release_dead")
  /\ UNCHANGED <<streamVars, attempt, keyVars, dlq, effects, faults>>

\* Guard.release, a no-op when the lease is no longer held; then the decision.
ReleaseKey(t) ==
  /\ loc[t] \in {"release_retry", "release_dead"}
  /\ \/ /\ keyExpired' = [keyExpired EXCEPT ![Event(t)] = @ \/ HoldsLease(t)]
        /\ UNCHANGED faults
     \/ Fault /\ UNCHANGED keyExpired
  /\ IF loc[t] = "release_retry"
     THEN RetryOrDeadLetter(t)
     ELSE Goto(t, "dead_letter") /\ UNCHANGED attempt
  /\ UNCHANGED <<streamVars, keyStatus, keyHash, keyToken, dlq, effects>>

\* DLQRepository.Insert, ON CONFLICT DO NOTHING: one row per stream ID.
Insert(i) == dlq' = [dlq EXCEPT ![i] = IF @ = "none" THEN "DEAD" ELSE @]

\* Bug: the message is acknowledged even if the dead-letter row was not written.
AckAfterFailedInsert(t) ==
  /\ loc[t] = "dead_letter"
  /\ \/ /\ Insert(t[2])
        /\ UNCHANGED faults
     \/ Fault /\ UNCHANGED dlq
  /\ Goto(t, "ack")
  /\ UNCHANGED <<streamVars, attempt, keyVars, effects>>

\* deadLetterAndAck: acked only once the row is there.
DeadLetter(t) ==
  /\ loc[t] = "dead_letter"
  /\ \/ /\ Insert(t[2])
        /\ Goto(t, "ack")
        /\ UNCHANGED <<attempt, faults>>
     \/ Fault /\ Leave(t) /\ UNCHANGED dlq
  /\ UNCHANGED <<streamVars, keyVars, effects>>

\* XACK, which may fail and is only logged.
Ack(t) ==
  /\ loc[t] = "ack"
  /\ \/ /\ pel' = pel \ {t[2]}
        /\ acked' = acked \cup {t[2]}
        /\ UNCHANGED faults
     \/ Fault /\ UNCHANGED <<pel, acked>>
  /\ Leave(t)
  /\ UNCHANGED <<stream, lastRead, keyVars, dlq, effects>>

\* Shutdown: a task gives up between two attempts or on a cancelled context, after
\* its release, and leaves the message pending.
Abandon(t) ==
  /\ loc[t] \in {"claim", "inspect"}
  /\ Fault
  /\ Leave(t)
  /\ UNCHANGED <<streamVars, keyVars, dlq, effects>>

\* A consumer process dies and is started again: its tasks are gone, what they
\* wrote stays.
Crash(c) ==
  /\ \E i \in Ids : loc[<<c, i>>] # "none"
  /\ Fault
  /\ loc' = [t \in Tasks |-> IF t[1] = c THEN "none" ELSE loc[t]]
  /\ attempt' = [t \in Tasks |-> IF t[1] = c THEN 0 ELSE attempt[t]]
  /\ UNCHANGED <<streamVars, keyVars, dlq, effects>>

\* The delivery that holds the key is still inside its handler call.
Working(e) == \E t \in Tasks : keyToken[e] = t /\ loc[t] = "handle"

LeaseExpires(e) ==
  /\ keyStatus[e] = "IN_PROGRESS" /\ ~keyExpired[e]
  /\ keyExpired' = [keyExpired EXCEPT ![e] = TRUE]
  /\ UNCHANGED <<streamVars, taskVars, keyStatus, keyHash, keyToken, dlq, effects>>

\* The lease of a delivery that crashed or could not release it runs out.
AbandonedLeaseExpires(e) == ~Working(e) /\ LeaseExpires(e) /\ UNCHANGED faults

\* The handler outlives its lease, although the lease is configured to be longer than
\* the handler's timeout.
EarlyLeaseExpires(e) == Working(e) /\ LeaseExpires(e) /\ Fault

\* A corrupt envelope is not replayable, and a row is replayed once.
Replayable(i) == dlq[i] = "DEAD" /\ stream[i].event # Corrupt

\* ReplayService.Replay: the outbox row and DEAD -> REPLAYED commit together.
Replay(i) ==
  /\ Replayable(i)
  /\ dlq' = [dlq EXCEPT ![i] = "REPLAYED"]
  /\ UNCHANGED <<streamVars, taskVars, keyVars, effects, faults>>

-----------------------------------------------------------------------------

TaskStep(t) ==
  \/ ClaimKey(t) \/ InspectKey(t) \/ ReleaseKey(t) \/ DeadLetter(t) \/ Ack(t)
  \/ HandlerCommits(t) \/ HandlerLosesLease(t) \/ HandlerFails(t)

Next ==
  \/ \E m \in Entries : Publish(m) \/ PublishForeignReplay(m)
  \/ \E i \in Ids : PublishReplay(i) \/ Replay(i)
  \/ \E c \in Consumers : Crash(c)
  \/ \E c \in Consumers, i \in Ids : Dispatch(c, i)
  \/ Read \/ GroupLost
  \/ \E t \in Tasks : TaskStep(t) \/ StoreError(t) \/ Abandon(t)
  \/ \E e \in Events : AbandonedLeaseExpires(e) \/ EarlyLeaseExpires(e)

Spec == Init /\ [][Next]_vars

\* Consumers read and sweep, a task takes its next step (a handler returns: its
\* context has a timeout), and leases run out. Nobody has to replay anything.
Fairness ==
  /\ WF_vars(Read)
  /\ \A i \in Ids : SF_vars(\E c \in Consumers : Dispatch(c, i))
  /\ \A t \in Tasks : WF_vars(TaskStep(t))
  /\ \A e \in Events : WF_vars(AbandonedLeaseExpires(e))

FairSpec == Spec /\ Fairness

-----------------------------------------------------------------------------
(* Properties                                                              *)

\* However often an event is published, delivered, reclaimed, retried and replayed,
\* and even if the group is recreated, the handler's effect commits at most once,
\* and it has committed exactly when the key is COMPLETED.
EffectAtMostOnce ==
  \A e \in Events : effects[e] = IF keyStatus[e] = "COMPLETED" THEN 1 ELSE 0

\* An acknowledged message was not lost: it was meant for another group, its effect
\* is committed, or a dead-letter row keeps it.
NothingLost ==
  \A i \in acked :
    \/ dlq[i] # "none"
    \/ stream[i].event # Corrupt /\ stream[i].target = "other"
    \/ stream[i].event # Corrupt /\ effects[stream[i].event] > 0

\* The group keeps the promise of EventHandling: one effect per event, and only of one that
\* was published to this group; an acknowledgement only of what needs no further delivery;
\* dead letters that stay and are replayed once.
Handling == INSTANCE EventHandling WITH log <- stream
HandlingSpec == Handling!Spec

\* Two deliveries of i's event are under way, of one entry or of two.
Overlap(i) ==
  \E t, u \in Tasks : /\ t # u /\ loc[t] # "none" /\ loc[u] # "none"
                     /\ i <= Len(stream) /\ stream[i].event # Corrupt
                     /\ Event(t) = stream[i].event /\ Event(u) = stream[i].event

\* A message that was delivered is acknowledged in the end, despite lost leases, keys
\* held by another delivery, and crashes. A key in progress or a lost lease costs no
\* attempt (Classify), so two deliveries may put each other off; only if deliveries of
\* its event overlap again and again for ever may a message stay pending.
EventuallyAcked ==
  \A i \in Ids : (i \in pel ~> i \notin pel) \/ []<>Overlap(i)

=============================================================================
