------------------------------- MODULE MCSmtp -------------------------------
(* TLC instance of Smtp: two requests that write and one that connects.     *)
EXTENDS Smtp, TLC

CONSTANTS o1, o2, o3

MCKindsOf ==
    o1 :> {"create", "update"} @@ o2 :> {"create", "update", "remove"}
    @@ o3 :> {"test", "mail"}

\* Two messages and a change.
StaleKindsOf == o1 :> {"update"} @@ o2 :> {"mail"} @@ o3 :> {"mail"}

\* Three changes.
CircleKindsOf == o1 :> {"update"} @@ o2 :> {"update"} @@ o3 :> {"update"}

Symmetry == Permutations(Configs) \cup Permutations(Instances)

=============================================================================
