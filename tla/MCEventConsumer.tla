--------------------------- MODULE MCEventConsumer ---------------------------
(* EventConsumer with two consumers that compete for the entries of one event.   *)
EXTENDS EventConsumer, TLC

CONSTANTS c1, c2, e1, p1, p2

MCConsumers == {c1, c2}
MCEvents == {e1}
MCPayloads == {p1, p2}
MCOnePayload == {p1}
MCSymmetry == Permutations(MCConsumers) \cup Permutations(MCPayloads)
=============================================================================
