------------------------- MODULE MCProductCatalogue -------------------------
(* ProductCatalogue with two workers on two identities, or on one. *)
EXTENDS ProductCatalogue, TLC

CONSTANTS x1, x2, a, b, w1, w2

MCOneIdentity == {x1}
MCIdentities == {x1, x2}
MCContents == {a, b}
MCWorkers == {w1, w2}
MCSourceTimes == 0 .. 2
MCKnownSourceTimes == 1 .. 2
MCOneReceiveTime == {1}
MCSymmetry == Permutations(MCContents) \cup Permutations(MCWorkers) \cup Permutations(MCIdentities)
=============================================================================
