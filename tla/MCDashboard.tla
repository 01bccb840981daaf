---------------------------- MODULE MCDashboard ----------------------------
(* TLC instance of Dashboard: the requests of a tab are interchangeable.    *)
EXTENDS Dashboard, TLC

Symmetry == Permutations(Calls)

=============================================================================
