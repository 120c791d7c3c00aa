--------------------------- MODULE MCRunDirectory ---------------------------
(***************************************************************************)
(* RunDirectory for TLC: two interchangeable processes on one base, two    *)
(* identifiers, so that two starts may draw the same one.                  *)
(***************************************************************************)
EXTENDS RunDirectory, TLC

CONSTANTS p1, p2, i1, i2

MCProcs == {p1, p2}
MCIds == {i1, i2}
Symmetry == Permutations(MCProcs) \cup Permutations(MCIds)
=============================================================================
