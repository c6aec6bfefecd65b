----------------------------- MODULE MCMigrator -----------------------------
(* Two invocations, of an old and a new release, on four versions, of which the  *)
(* middle two run without a transaction.                                        *)
EXTENDS Migrator

CONSTANTS m1, m2

MCMigrators == {m1, m2}
MCNoTx == {2, 3}
MCReleases == {3, 4}
=============================================================================
