---------------------------- MODULE MCApiAccess ----------------------------
(* TLC instance of ApiAccess: sign-ins from one address, which is allowed   *)
(* one per window; renders with a token, allowed two; a document removal    *)
(* the token has no scope for.                                              *)
EXTENDS ApiAccess, TLC

CONSTANTS c1, c2, c3, t1, u1, a1

MCScopesOf == [t \in {t1} |-> {"pdf:render", "documents:read"}]

MCExpiresAt == [t \in {t1} |-> 3]

MCArrivals ==
    {[route |-> "login", presented |-> Nothing, address |-> a1],
     [route |-> "health", presented |-> Nothing, address |-> a1],
     [route |-> "render", presented |-> t1, address |-> a1],
     [route |-> "remove", presented |-> t1, address |-> a1]}

Symmetry == Permutations(Calls)

=============================================================================
