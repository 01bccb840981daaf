---------------------------- MODULE MCBrowserPool ----------------------------
(* TLC instance of BrowserPool: more calls than slots.                      *)
EXTENDS BrowserPool, TLC

Symmetry == Permutations(Slots) \cup Permutations(Calls)

=============================================================================
