---------------------------- MODULE MCIdempotency ----------------------------
(* TLC instance of Idempotency: three interchangeable retries of one call.  *)
EXTENDS Idempotency, TLC

Symmetry == Permutations(Requests)

=============================================================================
