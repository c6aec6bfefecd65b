------------------------------ MODULE MCOutbox ------------------------------
(* Outbox on two events and two relays. *)
EXTENDS Outbox

CONSTANTS e1, e2, r1, r2, t1, t2, t3, t4

MCEvents == {e1, e2}
MCRelays == {r1, r2}
\* One token for every row and every relay, so that a fresh one always exists.
MCTokens == {t1, t2, t3, t4}
=============================================================================
