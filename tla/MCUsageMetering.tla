--------------------------- MODULE MCUsageMetering ---------------------------
(* TLC instance of UsageMetering: two days, two overlapping flushes.        *)
EXTENDS UsageMetering, TLC

Symmetry == Permutations(Flushes)

=============================================================================
