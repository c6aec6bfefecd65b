--------------------------- MODULE EventDelivery ---------------------------
(***************************************************************************)
(* What the transactional outbox promises to the rest of the system, with  *)
(* no relays, claims or leases in sight: an event that was committed is    *)
(* delivered at least once before its row is settled as PROCESSED, and a   *)
(* settled row is never reopened. Outbox.tla implements it.                *)
(***************************************************************************)
EXTENDS Naturals

CONSTANT Events     \* rows of outbox_events

VARIABLES
  status,           \* [Events -> "ABSENT" | "PENDING" | "PROCESSED" | "FAILED"]
  copies            \* [Events -> Nat], entries appended to the stream

vars == <<status, copies>>

Init ==
  /\ status = [e \in Events |-> "ABSENT"]
  /\ copies = [e \in Events |-> 0]

\* The events of one business transaction commit together.
Commit(S) ==
  /\ \A e \in S : status[e] = "ABSENT"
  /\ status' = [e \in Events |-> IF e \in S THEN "PENDING" ELSE status[e]]
  /\ UNCHANGED copies

\* Only a committed event reaches the broker. Delivery may repeat, and a late
\* duplicate may follow settlement.
Deliver(e) ==
  /\ status[e] # "ABSENT"
  /\ copies' = [copies EXCEPT ![e] = @ + 1]
  /\ UNCHANGED status

\* A set of rows is settled: each was pending and has been delivered.
Settle(S) ==
  /\ \A e \in S : status[e] = "PENDING" /\ copies[e] > 0
  /\ status' = [e \in Events |-> IF e \in S THEN "PROCESSED" ELSE status[e]]
  /\ UNCHANGED copies

\* A pending row is given up on.
GiveUp(e) ==
  /\ status[e] = "PENDING"
  /\ status' = [status EXCEPT ![e] = "FAILED"]
  /\ UNCHANGED copies

Next ==
  \/ \E S \in SUBSET Events : Commit(S) \/ Settle(S)
  \/ \E e \in Events : Deliver(e) \/ GiveUp(e)

Spec == Init /\ [][Next]_vars

=============================================================================
