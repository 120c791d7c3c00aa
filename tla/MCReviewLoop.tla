----------------------------- MODULE MCReviewLoop -----------------------------
(* ReviewLoop for TLC. *)
EXTENDS ReviewLoop, TLC

\* No defect, one code at two severities, and another code.
MCFingerprints == {<<>>, "x" :> 1, "x" :> 2, "y" :> 1}
MCTurns == {0, 2, MaxCount}
=============================================================================
