----------------------------- MODULE MCNodeCache -----------------------------
(* Runs that race for the same keys with different model answers.            *)
EXTENDS NodeCache

CONSTANTS r1, r2, o1, o2, k1
=============================================================================
