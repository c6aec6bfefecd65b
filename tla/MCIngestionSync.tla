--------------------------- MODULE MCIngestionSync ---------------------------
(* Two syncs and an operator on a feed of two rows, in batches of any size. *)
EXTENDS IngestionSync, TLC

CONSTANTS s1, s2, o1

MCSyncs == {s1, s2}
MCOperators == {o1}
MCSymmetry == Permutations(MCSyncs)

=============================================================================
