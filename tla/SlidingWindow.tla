---------------------------- MODULE SlidingWindow ----------------------------
(***************************************************************************)
(* What the rate limiter promises (rate-limit.service.ts:16-28): over any  *)
(* window a key is served at most its limit, and it is refused only when   *)
(* it has used its limit.  Instances read their own clocks and a call      *)
(* takes time to reach Redis, so both hold up to Slack.                    *)
(*                                                                         *)
(* The promise is stated over the whole history of answers; the code       *)
(* keeps a sorted set that it prunes and lets expire.                      *)
(***************************************************************************)
EXTENDS Integers, FiniteSets

CONSTANTS
    Calls,
    Keys,
    NoKey,
    LimitOf,    \* the limit of every key
    Window,     \* windowMs
    Slack       \* how far an instance's time may be from that of the script

VARIABLES
    clock,
    log         \* the answer every call got: its key, the time and the verdict

vars == <<clock, log>>

Unanswered == [key |-> NoKey, at |-> 0, answer |-> "none"]

\* The calls served on k in the last span.
Served(k, span) ==
    {c \in Calls : /\ log[c].answer = "admitted"
                   /\ log[c].key = k
                   /\ clock - log[c].at < span}

Init ==
    /\ clock = 0
    /\ log = [c \in Calls |-> Unanswered]

Admit(c, k) ==
    /\ log[c] = Unanswered
    /\ Cardinality(Served(k, Window - Slack)) < LimitOf[k]
    /\ log' = [log EXCEPT ![c] = [key |-> k, at |-> clock, answer |-> "admitted"]]
    /\ UNCHANGED clock

Refuse(c, k) ==
    /\ log[c] = Unanswered
    /\ Cardinality(Served(k, Window + Slack)) >= LimitOf[k]
    /\ log' = [log EXCEPT ![c] = [key |-> k, at |-> clock, answer |-> "refused"]]
    /\ UNCHANGED clock

Tick ==
    /\ clock' = clock + 1
    /\ UNCHANGED log

Next ==
    \/ \E c \in Calls, k \in Keys : Admit(c, k) \/ Refuse(c, k)
    \/ Tick

Spec == Init /\ [][Next]_vars

=============================================================================
