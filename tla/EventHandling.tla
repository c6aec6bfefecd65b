--------------------------- MODULE EventHandling ---------------------------
(***************************************************************************)
(* What a consumer group promises, with no deliveries, retries, leases or  *)
(* idempotency keys in sight: of an event that reached the group in any    *)
(* number of entries the effect commits at most once, an entry is          *)
(* acknowledged only once it needs no further delivery, a dead letter is   *)
(* kept, and it is replayed at most once. EventConsumer.tla implements it. *)
(***************************************************************************)
EXTENDS Naturals, Sequences

CONSTANTS
  Events,           \* event ids
  Entries,          \* records [event, payload, target]
  Corrupt,          \* the event of an entry that does not decode
  Ids               \* stream IDs, positions of the log

VARIABLES
  log,              \* the stream
  effects,          \* [Events -> Nat], committed handler transactions
  dlq,              \* [Ids -> "none" | "DEAD" | "REPLAYED"]
  acked             \* stream IDs that were acknowledged

vars == <<log, effects, dlq, acked>>

Init ==
  /\ log = <<>>
  /\ effects = [e \in Events |-> 0]
  /\ dlq = [i \in Ids |-> "none"]
  /\ acked = {}

\* The outbox publishes. Only what this group asked to be replayed is addressed to it.
Arrive(m) ==
  /\ m.target = "this" => \E i \in DOMAIN log : /\ dlq[i] = "REPLAYED"
                                               /\ m = [log[i] EXCEPT !.target = "this"]
  /\ log' = Append(log, m)
  /\ UNCHANGED <<effects, dlq, acked>>

\* The one time at which an event takes effect: it was published, and not for another
\* group alone.
TakeEffect(e) ==
  /\ effects[e] = 0
  /\ \E i \in DOMAIN log : log[i].event = e /\ log[i].target # "other"
  /\ effects' = [effects EXCEPT ![e] = 1]
  /\ UNCHANGED <<log, dlq, acked>>

\* An entry is given up on.
Bury(i) ==
  /\ i \in DOMAIN log /\ dlq[i] = "none"
  /\ ~(log[i].event # Corrupt /\ log[i].target = "other")
  /\ dlq' = [dlq EXCEPT ![i] = "DEAD"]
  /\ UNCHANGED <<log, effects, acked>>

\* A dead letter goes back to the outbox, once.
Replay(i) ==
  /\ dlq[i] = "DEAD" /\ log[i].event # Corrupt
  /\ dlq' = [dlq EXCEPT ![i] = "REPLAYED"]
  /\ UNCHANGED <<log, effects, acked>>

\* An entry is taken off the pending list: it is a dead letter, or it was decoded and is
\* another group's or has taken effect.
Acknowledge(i) ==
  /\ i \in DOMAIN log
  /\ \/ dlq[i] # "none"
     \/ log[i].event # Corrupt /\ (log[i].target = "other" \/ effects[log[i].event] > 0)
  /\ acked' = acked \cup {i}
  /\ UNCHANGED <<log, effects, dlq>>

Next ==
  \/ \E m \in Entries : Arrive(m)
  \/ \E e \in Events : TakeEffect(e)
  \/ \E i \in Ids : Bury(i) \/ Replay(i) \/ Acknowledge(i)

Spec == Init /\ [][Next]_vars

=============================================================================
