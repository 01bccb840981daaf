----------------------------- MODULE MCSessions ------------------------------
(* TLC instance of Sessions: the tabs of one browser.                       *)
EXTENDS Sessions, TLC

OneJar == [t \in Tabs |-> CHOOSE b \in Browsers : TRUE]

Symmetry == Permutations(Families)

=============================================================================
