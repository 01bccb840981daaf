--------------------------- MODULE MCAsyncRender ---------------------------
(* AsyncRender on small instances: what the cfg files need beside values.  *)
EXTENDS AsyncRender, TLC

Symmetry == Permutations(Docs)
=============================================================================
