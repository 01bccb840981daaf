------------------------------ MODULE ApiAccess ------------------------------
(***************************************************************************)
(* What stands before every handler of the api: AuthGuard, which turns a   *)
(* session's access token or an API token into a request context, and      *)
(* RateLimitGuard, which bills the caller's sorted set in Redis            *)
(* (app.module.ts declares them in this order).                            *)
(*                                                                         *)
(* Several instances run; each takes the time from its own clock before it *)
(* calls the script, so a stamp may lag or lead the clock of Redis.        *)
(*                                                                         *)
(* Names that other modules have too carry the prefix Access: the proofs   *)
(* extend this module and Tokens together.                                 *)
(***************************************************************************)
EXTENDS Integers, FiniteSets

CONSTANTS
    Calls,          \* HTTP requests
    Tokens,         \* API tokens
    Users,          \* users with a dashboard session
    Addresses,      \* client addresses
    Nothing,        \* no credential, no context, no key
    Garbage,        \* a credential that is not ours, or whose secret is wrong
    ScopesOf,       \* the scopes of a token
    ExpiresAt,      \* its expiresAt, or Nothing
    Arrivals,       \* the requests that are made: route, credential, address
    DefaultLimit,   \* RATE_LIMIT_PER_MINUTE
    AuthLimit,      \* AUTH_RATE_LIMIT_PER_MINUTE
    RefreshLimit,   \* the override of the refresh and logout routes
    Window,         \* windowMs
    Second,         \* ticks of the clock in a second
    Lag, Lead,      \* bound: how far an instance's time is behind or ahead
    MaxClock        \* bound

AllScopes == {"pdf:render", "documents:read", "documents:delete"}

\* What the decorators of a route say.
Routes ==
    [login  |-> [public |-> TRUE,  skip |-> FALSE, bucket |-> "",        scopes |-> {}],
     refresh |-> [public |-> TRUE, skip |-> FALSE, bucket |-> "refresh", scopes |-> {}],
     health |-> [public |-> TRUE,  skip |-> TRUE,  bucket |-> "",        scopes |-> {}],
     me     |-> [public |-> FALSE, skip |-> FALSE, bucket |-> "",        scopes |-> {}],
     render |-> [public |-> FALSE, skip |-> FALSE, bucket |-> "",
                 scopes |-> {"pdf:render"}],
     list   |-> [public |-> FALSE, skip |-> FALSE, bucket |-> "",
                 scopes |-> {"documents:read"}],
     remove |-> [public |-> FALSE, skip |-> FALSE, bucket |-> "",
                 scopes |-> {"documents:read", "documents:delete"}]]

Credentials == {Nothing, Garbage} \cup Users \cup Tokens
Subjects == Tokens \cup Users \cup Addresses
Keys == {"", "refresh"} \X Subjects
Arrival == [route : DOMAIN Routes, presented : Credentials, address : Addresses]

\* The limit the guard passes with a key: the override's, else by whether the
\* caller is authenticated.
LimitOf ==
    [k \in Keys |-> IF k[1] = "refresh" THEN RefreshLimit
                    ELSE IF k[2] \in Addresses THEN AuthLimit ELSE DefaultLimit]

Slack == Lag + Lead

ASSUME AccessAssumption ==
    /\ IsFiniteSet(Calls)
    /\ {Nothing, Garbage} \cap Subjects = {}
    /\ Nothing # Garbage
    /\ Tokens \cap Users = {}
    /\ Nothing \notin Keys
    /\ ScopesOf \in [Tokens -> SUBSET AllScopes]
    /\ ExpiresAt \in [Tokens -> Nat \cup {Nothing}]
    /\ Arrivals \subseteq Arrival
    /\ DefaultLimit \in Nat \ {0} /\ AuthLimit \in Nat \ {0} /\ RefreshLimit \in Nat \ {0}
    /\ Window \in Nat /\ Second \in Nat \ {0} /\ MaxClock \in Nat
    /\ Lag \in Nat /\ Lead \in Nat

VARIABLES
    clock,      \* the time, as Redis reads it
    tokens,     \* the rows of api_tokens
    call,       \* every request on its way
    members,    \* the sorted sets in Redis: the calls in it, scored by call.stamp
    expireAt,   \* when PEXPIRE lets a sorted set go
    log         \* history: every verdict of the script, and when it was given

accessVars == <<clock, tokens, call, members, expireAt, log>>

Call == [pc : {"idle", "guard", "script", "done"},
         route : DOMAIN Routes \cup {Nothing},
         presented : Credentials,
         address : Addresses \cup {Nothing},
         ctx : Tokens \cup Users \cup {Nothing},
         dead : BOOLEAN,        \* history: the token was dead when it arrived
         stamp : Int,
         retryAfter : Nat,
         answer : {"none", "handled", "401", "403", "429", "500"}]

Verdict == [key : Keys \cup {Nothing}, at : Nat,
            answer : {"none", "admitted", "refused"}]

AccessTypeOK ==
    /\ clock \in Nat
    /\ tokens \in [Tokens -> {"live", "revoked"}]
    /\ call \in [Calls -> Call]
    /\ members \in [Keys -> SUBSET Calls]
    /\ expireAt \in [Keys -> Nat]
    /\ log \in [Calls -> Verdict]

NewCall == [pc |-> "idle", route |-> Nothing, presented |-> Nothing, address |-> Nothing,
            ctx |-> Nothing, dead |-> FALSE, stamp |-> 0, retryAfter |-> 0,
            answer |-> "none"]

NoVerdict == [key |-> Nothing, at |-> 0, answer |-> "none"]

AccessInit ==
    /\ clock = 0
    /\ tokens = [t \in Tokens |-> "live"]
    /\ call = [c \in Calls |-> NewCall]
    /\ members = [k \in Keys |-> {}]
    /\ expireAt = [k \in Keys |-> 0]
    /\ log = [c \in Calls |-> NoVerdict]

limiterVars == <<members, expireAt, log>>

-----------------------------------------------------------------------------
Expired(t, now) == ExpiresAt[t] # Nothing /\ ExpiresAt[t] <= now

\* Revoked, or expired by the clock of every instance.
Dead(t) == tokens[t] = "revoked" \/ Expired(t, clock - Lag)

Arrive(c, a) ==
    /\ call[c].pc = "idle"
    /\ call' = [call EXCEPT ![c] =
         [@ EXCEPT !.pc = "guard", !.route = a.route, !.presented = a.presented,
                   !.address = a.address,
                   !.dead = a.presented \in Tokens /\ Dead(a.presented)]]
    /\ UNCHANGED <<clock, tokens, limiterVars>>

\* The time of an instance that answers now.
InstanceTimes == (clock - Lag)..(clock + Lead)

\* Mutant: expiresAt is not looked at.
TokenIsLive(t, now) == tokens[t] = "live"

\* The one read of the row that authenticate makes, and its look at the clock.
TokenWorks(t, now) == tokens[t] = "live" /\ ~Expired(t, now)

\* Every credential but an unknown or dead one resolves to a context.
Resolves(presented, now) ==
    \/ presented \in Users
    \/ presented \in Tokens /\ TokenWorks(presented, now)

Granted(presented) == IF presented \in Tokens THEN ScopesOf[presented] ELSE AllScopes

\* RateLimitGuard up to its call of the script: an exempt route passes, for any
\* other the instance reads its own clock.
Stamp(c, ctx) ==
    \/ /\ Routes[call[c].route].skip
       /\ call' = [call EXCEPT ![c] = [@ EXCEPT !.pc = "done", !.answer = "handled",
                                                !.ctx = ctx]]
    \/ /\ ~Routes[call[c].route].skip
       /\ \E stamp \in InstanceTimes :
            call' = [call EXCEPT ![c] = [@ EXCEPT !.pc = "script", !.ctx = ctx,
                                                  !.stamp = stamp]]

Answered(c, answer) ==
    call' = [call EXCEPT ![c] = [@ EXCEPT !.pc = "done", !.answer = answer]]

\* AuthGuard.canActivate where a credential is needed, and the next guard when
\* it lets the request pass.
Guarded(c, now) ==
    LET presented == call[c].presented
        enough == Routes[call[c].route].scopes \subseteq Granted(presented)
    IN
    \/ ~Resolves(presented, now) /\ Answered(c, "401")
    \/ Resolves(presented, now) /\ ~enough /\ Answered(c, "403")
    \/ Resolves(presented, now) /\ enough /\ Stamp(c, presented)

\* The lookup of what looks like an API token may throw.
Authenticate(c) ==
    /\ call[c].pc = "guard"
    /\ \/ Routes[call[c].route].public /\ Stamp(c, Nothing)
       \/ /\ ~Routes[call[c].route].public
          /\ \/ \E now \in InstanceTimes : Guarded(c, now)
             \/ call[c].presented \in Tokens \cup {Garbage} /\ Answered(c, "500")
    /\ UNCHANGED <<clock, tokens, limiterVars>>

-----------------------------------------------------------------------------
(* The script.  Redis runs it as one step.                                  *)

\* RateLimitGuard.identify: per token, then per user, then per address.
KeyOf(c) ==
    <<Routes[call[c].route].bucket,
      IF call[c].ctx # Nothing THEN call[c].ctx ELSE call[c].address>>

InSet(k) == IF clock >= expireAt[k] THEN {} ELSE members[k]

\* ZREMRANGEBYSCORE 0 (now - window) leaves these.
Kept(k, now) == {d \in InSet(k) : call[d].stamp > now - Window}

\* The score of the oldest entry, or the time of the call.
Oldest(S, now) ==
    IF S = {} THEN now
    ELSE CHOOSE s \in {call[d].stamp : d \in S} : \A d \in S : s <= call[d].stamp

\* Mutant: Math.floor.
InWholeSeconds(ticks) == ticks \div Second

\* Math.ceil of a difference in milliseconds, in seconds.
InSeconds(ticks) == (ticks + Second - 1) \div Second

\* The Retry-After header, in ticks of the clock.
RetryAfter(S, now) ==
    LET seconds == InSeconds(Oldest(S, now) + Window - now)
    IN  Second * (IF seconds < 1 THEN 1 ELSE seconds)

\* Mutant: the expiry is set only when the set is created.
ExpiryOfFirst(k) == IF InSet(k) = {} THEN clock + Window ELSE expireAt[k]

\* PEXPIRE.
ExpiryAfterAdd(k) == clock + Window

Verdicts(c, k, answer) ==
    log' = [log EXCEPT ![c] = [key |-> k, at |-> clock, answer |-> answer]]

\* The reply is lost with the connection, or reaches the guard.
Answers(c, answer, retryAfter) ==
    \E heard \in {answer, "500"} :
        call' = [call EXCEPT ![c] = [@ EXCEPT !.pc = "done", !.answer = heard,
                                              !.retryAfter = retryAfter]]

Script(c) ==
    LET k == KeyOf(c)
        kept == Kept(k, call[c].stamp)
    IN
    /\ call[c].pc = "script"
    /\ \/ /\ Cardinality(kept) < LimitOf[k]
          /\ members' = [members EXCEPT ![k] = kept \cup {c}]
          /\ expireAt' = [expireAt EXCEPT ![k] = ExpiryAfterAdd(k)]
          /\ Verdicts(c, k, "admitted")
          /\ Answers(c, "handled", 0)
       \/ /\ Cardinality(kept) >= LimitOf[k]
          /\ members' = [members EXCEPT ![k] = kept]
          /\ Verdicts(c, k, "refused")
          /\ Answers(c, "429", RetryAfter(kept, call[c].stamp))
          /\ UNCHANGED expireAt
    /\ UNCHANGED <<clock, tokens>>

\* Redis is unreachable.
ScriptFails(c) ==
    /\ call[c].pc = "script"
    /\ Answered(c, "500")
    /\ UNCHANGED <<clock, tokens, limiterVars>>

-----------------------------------------------------------------------------
Revoke(t) ==
    /\ tokens[t] = "live"
    /\ tokens' = [tokens EXCEPT ![t] = "revoked"]
    /\ UNCHANGED <<clock, call, limiterVars>>

\* No stamp falls behind its script by more than Lag.
Tick ==
    /\ clock < MaxClock
    /\ \A c \in Calls : call[c].pc = "script" => clock + 1 - Lag <= call[c].stamp
    /\ clock' = clock + 1
    /\ UNCHANGED <<tokens, call, limiterVars>>

CallStep(c) ==
    \/ \E a \in Arrivals : Arrive(c, a)
    \/ Authenticate(c)
    \/ Script(c)
    \/ ScriptFails(c)

AccessNext ==
    \/ \E c \in Calls : CallStep(c)
    \/ \E t \in Tokens : Revoke(t)
    \/ Tick

AccessSpec == AccessInit /\ [][AccessNext]_accessVars

-----------------------------------------------------------------------------
(* Properties.                                                              *)

Limiter ==
    INSTANCE SlidingWindow WITH NoKey <- Nothing, log <- log, clock <- clock

\* The pruned, expiring sorted set decides as if it held the whole history:
\* a call is served only if fewer than the limit were served in the last
\* window, and refused only if the limit was reached in it, up to the error of
\* the instances' clocks (rate-limit.service.ts: the script, its PEXPIRE).
LimiterSpec == Limiter!Spec

\* Retry-After is honest (rate-limit.service.ts:81-89): a caller that waits as
\* long as a refusal told it to, by the clocks of the instances that answer it,
\* is not refused again unless the budget was spent in the meantime.
RetryAfterIsHonest ==
    \A c, d \in Calls :
        /\ call[c].answer = "429"
        /\ log[d].answer = "refused"
        /\ log[d].key = log[c].key
        /\ call[d].stamp >= call[c].stamp + call[c].retryAfter
        => \E e \in Calls : /\ log[e].answer = "admitted"
                            /\ log[e].key = log[c].key
                            /\ log[e].at >= log[c].at

\* A token that was revoked before a request came in, or had expired by the
\* clock of every instance, neither reaches a handler nor spends anybody's
\* budget, whichever instance answers, by whatever time, and whatever the
\* request's other steps race with: the answer is 401, or 500 when the lookup
\* throws (tokens.service.ts:71-97, app.module.ts:66-72).  While the clocks do
\* not agree on the expiry, it depends on the instance.
DeadTokenDoesNothing ==
    \A c \in Calls :
        /\ call[c].dead
        /\ ~Routes[call[c].route].public
        => call[c].answer \in {"none", "401", "500"} /\ log[c] = NoVerdict

-----------------------------------------------------------------------------
(* What makes DeadTokenDoesNothing inductive (ApiAccessProofs).            *)

CallFields == DOMAIN NewCall

\* Every request is a record with the fields of NewCall, read as a function.
Shape ==
    /\ call = [c \in Calls |-> call[c]] /\ log = [c \in Calls |-> log[c]]
    /\ \A c \in Calls : call[c] = [f \in CallFields |-> call[c][f]]

Unheard(c) == call[c].answer = "none" /\ log[c] = NoVerdict

\* Until the guard has looked nothing has happened, and a token that is dead
\* when its request comes in is dead when the guard looks.
UntilTheGuard(c) ==
    /\ call[c].pc = "idle" => Unheard(c) /\ ~call[c].dead
    /\ call[c].pc = "guard" => Unheard(c)
    /\ call[c].dead => call[c].presented \in Tokens /\ Dead(call[c].presented)

\* It goes no further.
Stopped(c) ==
    call[c].dead /\ ~Routes[call[c].route].public =>
      /\ call[c].pc # "script"
      /\ call[c].answer \in {"none", "401", "500"} /\ log[c] = NoVerdict

AccessInv ==
    /\ Shape /\ clock \in Nat
    /\ \A c \in Calls : UntilTheGuard(c) /\ Stopped(c)

-----------------------------------------------------------------------------
(* What makes LimiterSpec and RetryAfterIsHonest inductive                 *)
(* (ApiAccessProofs).                                                      *)

\* The script judges a request once, by a stamp that is off by so much.
Underway(c) ==
    /\ call[c].pc # "idle" =>
         call[c].route \in DOMAIN Routes /\ call[c].address \in Addresses
    /\ call[c].pc # "done" => Unheard(c)
    /\ call[c].stamp >= -Lag
    /\ call[c].pc = "script" => call[c].stamp \in (clock - Lag)..(clock + Lead)

Judged(c) ==
    /\ log[c].answer = "none" => log[c] = NoVerdict
    /\ log[c].answer # "none" =>
         /\ log[c].key \in Keys /\ log[c].at <= clock
         /\ call[c].stamp \in (log[c].at - Lag)..(log[c].at + Lead)
    /\ call[c].answer = "429" => log[c].answer = "refused" /\ call[c].retryAfter >= 1

ServedOn(d, k) == log[d].answer = "admitted" /\ log[d].key = k

\* The sorted set holds calls served on its key, no more than the limit, and
\* every one that may still count.
SetInv(k) ==
    /\ \A d \in members[k] : ServedOn(d, k)
    /\ Cardinality(members[k]) <= LimitOf[k]
    /\ \A d \in Calls : ServedOn(d, k) =>
         /\ log[d].at + Window <= expireAt[k]
         /\ clock - log[d].at < Window - Slack => d \in members[k]

LimiterInv ==
    /\ AccessTypeOK
    /\ \A c \in Calls : Underway(c) /\ Judged(c)
    /\ \A k \in Keys : SetInv(k)

\* A call that counts where an earlier one was refused still did count then.
RefusedInv(d) ==
    log[d].answer = "refused" =>
        \A e \in members[log[d].key] :
            call[e].stamp > call[d].stamp - Window \/ log[e].at >= log[d].at

SpentSince(c) == \E e \in Calls : ServedOn(e, log[c].key) /\ log[e].at >= log[c].at

\* The time a refusal told its caller to wait for.
RetryAt(c) == call[c].stamp + call[c].retryAfter

\* The budget is not spent again, so it has room at that time.
RoomInv(c) ==
    call[c].answer = "429" /\ ~SpentSince(c) =>
        Cardinality({e \in members[log[c].key] : call[e].stamp + Window > RetryAt(c)})
          < LimitOf[log[c].key]

RetryInv ==
    LimiterInv /\ RetryAfterIsHonest /\ \A c \in Calls : RefusedInv(c) /\ RoomInv(c)

=============================================================================
