---------------------------- MODULE OneTimeSecret ----------------------------
(***************************************************************************)
(* What the vault promises about the password of a queued render           *)
(* (secrets.vault.ts): it is kept once and taken once.  Who took it may    *)
(* seal files with it until the attempt is over; after that nobody has it, *)
(* and no retry, crash, expiry or lost answer brings it back.              *)
(***************************************************************************)
CONSTANT Docs       \* requests, each with a password of its own or none

VARIABLES
    stage,      \* new: not stored yet; kept: in the vault; held: by an attempt; spent
    sealed      \* TRUE while a file sealed with the password is in the store

vars == <<stage, sealed>>

Init ==
    /\ stage = [d \in Docs |-> "new"]
    /\ sealed = [d \in Docs |-> FALSE]

Keep(d) ==
    /\ stage[d] = "new"
    /\ stage' = [stage EXCEPT ![d] = "kept"]
    /\ UNCHANGED sealed

Take(d) ==
    /\ stage[d] = "kept"
    /\ stage' = [stage EXCEPT ![d] = "held"]
    /\ UNCHANGED sealed

\* There was none, it expired or was discarded, or its holder is gone.
Forget(d) ==
    /\ stage' = [stage EXCEPT ![d] = "spent"]
    /\ UNCHANGED sealed

Seal(d) ==
    /\ stage[d] = "held"
    /\ sealed' = [sealed EXCEPT ![d] = TRUE]
    /\ UNCHANGED stage

RemoveFile(d) ==
    /\ sealed' = [sealed EXCEPT ![d] = FALSE]
    /\ UNCHANGED stage

Next == \E d \in Docs : Keep(d) \/ Take(d) \/ Forget(d) \/ Seal(d) \/ RemoveFile(d)

Spec == Init /\ [][Next]_vars

=============================================================================
