------------------------------- MODULE MCTokens -------------------------------
(* TLC instance of Tokens: two ids and three requests of the page, of       *)
(* another session or of a client with an API token.                        *)
EXTENDS Tokens, TLC

CONSTANTS r1, r2, r3, t1, t2

Symmetry == Permutations(Requests)

=============================================================================
