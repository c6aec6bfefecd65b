--------------------------- MODULE MCRunProcessing ---------------------------
(* RunProcessing on one run, with a worker and an operator (or two workers). *)
EXTENDS RunProcessing

CONSTANTS r1, w1, w2, t1, t2, t3

MCRuns == {r1}
MCWorkers == {w1, w2}
\* One token for the row and one for every worker, so that a fresh one always exists.
MCTokens == {t1, t2, t3}
=============================================================================
