---------------------------- MODULE MCSourceConfig ----------------------------
(* Two callers of the service and two workers on one source. *)
EXTENDS SourceConfig, TLC

CONSTANTS a1, a2, w1, w2

MCAdmins == {a1, a2}
MCWorkers == {w1, w2}
MCRates == {1, 2}
MCSymmetry == Permutations(MCAdmins) \cup Permutations(MCWorkers)

=============================================================================
