--------------------------- MODULE MCCoverageRun ---------------------------
(* A TLC instance of CoverageRun: two workers that may run at once, two pairs. *)
EXTENDS CoverageRun, TLC

Symmetry == Permutations(Executors) \cup Permutations(Pairs)
=============================================================================
