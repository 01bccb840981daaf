------------------------------ MODULE Sessions -------------------------------
(***************************************************************************)
(* Dashboard sessions of one user: login, refresh, logout and the change   *)
(* of password (auth/auth.service.ts, auth/auth.controller.ts,             *)
(* users/users.controller.ts), over the families of rotating refresh       *)
(* tokens in Redis (auth/refresh-token.service.ts), as driven by the tabs  *)
(* of browsers that share a cookie jar (web: lib/api.ts, at most one       *)
(* refresh in flight per tab).                                             *)
(*                                                                         *)
(* Every rotation draws a fresh secret, so the generation of a family      *)
(* stands for its hash and the one before for previousHash.                *)
(***************************************************************************)
EXTENDS Naturals, FiniteSets

CONSTANTS
    Tabs,           \* requests come from tabs, one at a time each
    Browsers,
    Jar,            \* the browser of every tab
    Families,       \* family ids; login draws an unused one
    NoToken,        \* no cookie
    MaxGeneration,  \* bound: rotations of a family
    MaxChanges,     \* bound: changes of the password
    MaxFaults       \* bound: rejected calls to PostgreSQL or Redis, and
                    \* requests whose process or connection dies

Token == [family : Families, generation : 1..MaxGeneration]

ASSUME ConstantsAssumption ==
    /\ Jar \in [Tabs -> Browsers]
    /\ NoToken \notin Token
    /\ MaxGeneration \in Nat \ {0}
    /\ MaxChanges \in Nat
    /\ MaxFaults \in Nat

VARIABLES
    password,  \* the version of users.passwordHash
    families,  \* refresh:<familyId>
    index,     \* the set refresh:user:<userId>
    cookie,    \* the refresh cookie of every browser
    tab,       \* the request of every tab
    faults     \* rejected calls and lost requests so far

vars == <<password, families, index, cookie, tab, faults>>

\* window: the family expires no later than the index (kept), or a rotation
\* has moved its end past that of the index (extended), which has then expired
\* under it (lapsed).  opened: the password the login verified; raced
\* (history): the login overlapped a change of password in one of the two ways
\* the code misses.
Family == [state : {"none", "live", "gone"}, generation : 0..MaxGeneration,
           inGrace : BOOLEAN, window : {"kept", "extended", "lapsed"},
           opened : 0..MaxChanges, raced : BOOLEAN]

TabPCs == {"idle", "rotate", "forget", "lookup", "issue", "get", "exec",
           "update", "members", "revoke", "reply"}

\* presented: the cookie the request carried; issued: the token its reply
\* sets; clear: its reply clears the cookie; found: what it read in the index;
\* seen: the password it verified.
Tab == [pc : TabPCs, presented : Token \cup {NoToken},
        issued : Token \cup {NoToken}, clear : BOOLEAN,
        found : SUBSET Families, seen : 0..MaxChanges]

TypeOK ==
    /\ password \in 0..MaxChanges
    /\ families \in [Families -> Family]
    /\ index \subseteq Families
    /\ cookie \in [Browsers -> Token \cup {NoToken}]
    /\ tab \in [Tabs -> Tab]
    /\ faults \in 0..MaxFaults

IdleTab == [pc |-> "idle", presented |-> NoToken, issued |-> NoToken,
            clear |-> FALSE, found |-> {}, seen |-> 0]

Init ==
    /\ password = 0
    /\ families = [f \in Families |-> [state |-> "none", generation |-> 0,
                      inGrace |-> FALSE, window |-> "kept", opened |-> 0,
                      raced |-> FALSE]]
    /\ index = {}
    /\ cookie = [b \in Browsers |-> NoToken]
    /\ tab = [t \in Tabs |-> IdleTab]
    /\ faults = 0

Live(f) == families[f].state = "live"

\* A deleted or expired family; its generation is kept as history.
Gone(f) == [families[f] EXCEPT !.state = "gone", !.inGrace = FALSE,
                               !.window = "kept", !.opened = 0, !.raced = FALSE]

NoFault == UNCHANGED faults

CallFails == faults < MaxFaults /\ faults' = faults + 1

Begin(t, pc, presented, seen) ==
    tab' = [tab EXCEPT ![t] = [IdleTab EXCEPT !.pc = pc, !.presented = presented,
                                              !.seen = seen]]

Goto(t, pc) == tab' = [tab EXCEPT ![t].pc = pc]

\* The answer leaves the server.
Reply(t, issued, clear) ==
    tab' = [tab EXCEPT ![t] = [@ EXCEPT !.pc = "reply", !.issued = issued,
                                        !.clear = clear]]

-----------------------------------------------------------------------------
(* POST /v1/auth/refresh.                                                  *)

\* Without a cookie the answer is 401 and nothing changes.
Refresh(t) ==
    /\ tab[t].pc = "idle"
    /\ cookie[Jar[t]] # NoToken
    /\ Begin(t, "rotate", cookie[Jar[t]], 0)
    /\ UNCHANGED <<password, families, index, cookie>>
    /\ NoFault

Presented(t) == tab[t].presented.family

\* Mutant: the grace secret rotates the family like the current one.
GraceRotates(t) ==
    LET token == tab[t].presented
        family == families[token.family]
    IN CASE family.state # "live" -> "unknown"
         [] family.state = "live" /\ token.generation = family.generation -> "rotated"
         [] family.state = "live" /\ token.generation + 1 = family.generation
               /\ family.inGrace -> "rotated"
         [] OTHER -> "reused"

\* Mutant: a family that is gone is written back.
MissingRotates(t) ==
    IF tab[t].presented.generation = families[Presented(t)].generation
    THEN "rotated" ELSE "reused"

\* The outcome of the script for what a tab presents.
Outcome(t) ==
    LET token == tab[t].presented
        family == families[token.family]
    IN CASE family.state # "live" -> "unknown"
         [] family.state = "live" /\ token.generation = family.generation -> "rotated"
         [] family.state = "live" /\ token.generation + 1 = family.generation
               /\ family.inGrace -> "concurrent"
         [] OTHER -> "reused"

\* The end of the family after a rotation.  TTL is rounded to a second: the
\* window is kept, or grows by up to half a second; in the last half second it
\* reads 0 and the fallback starts a whole window anew.
WindowsAfter(f) ==
    IF families[f].window = "kept" THEN {"kept", "extended"} ELSE {families[f].window}

\* What the script writes.
AfterScript(t, window) ==
    LET f == Presented(t)
    IN CASE Outcome(t) = "rotated" ->
              [families EXCEPT ![f] = [@ EXCEPT !.state = "live",
                    !.generation = families[f].generation + 1, !.inGrace = TRUE,
                    !.window = window]]
         [] Outcome(t) = "reused" -> [families EXCEPT ![f] = Gone(f)]
         [] OTHER -> families

\* The rotation script, in one step.  A rejected call may have run it, and
\* ends in an error answer; so does a family nobody knows.
Rotate(t) ==
    /\ tab[t].pc = "rotate"
    /\ Outcome(t) = "rotated" => families[Presented(t)].generation < MaxGeneration
    /\ \/ /\ \E window \in WindowsAfter(Presented(t)) : families' = AfterScript(t, window)
          /\ \/ /\ Outcome(t) \in {"rotated", "concurrent"}
                /\ tab' = [tab EXCEPT ![t] = [@ EXCEPT !.pc = "lookup",
                      !.issued = IF Outcome(t) = "rotated"
                                 THEN [family |-> Presented(t),
                                       generation |-> families[Presented(t)].generation + 1]
                                 ELSE NoToken]]
             \/ Outcome(t) = "reused" /\ Goto(t, "forget")
             \/ Outcome(t) = "unknown" /\ Reply(t, NoToken, TRUE)
          /\ NoFault
       \/ /\ \/ families' = families
             \/ \E window \in WindowsAfter(Presented(t)) : families' = AfterScript(t, window)
          /\ Reply(t, NoToken, TRUE)
          /\ CallFails
    /\ UNCHANGED <<password, index, cookie>>

\* rotate drops a family that was revoked for reuse from the index.
Forget(t) ==
    /\ tab[t].pc = "forget"
    /\ \/ index' = index \ {Presented(t)} /\ NoFault
       \/ index' = index /\ CallFails
    /\ Reply(t, NoToken, TRUE)
    /\ UNCHANGED <<password, families, cookie>>

\* refresh reads the user, who exists (no operation deletes one), and signs.
\* The cookie is cleared on every error of the handler.
Lookup(t) ==
    /\ tab[t].pc = "lookup"
    /\ \/ Reply(t, tab[t].issued, FALSE) /\ NoFault
       \/ Reply(t, NoToken, TRUE) /\ CallFails
    /\ UNCHANGED <<password, families, index, cookie>>

-----------------------------------------------------------------------------
(* POST /v1/auth/login and /register.                                      *)

\* The password the caller gave matches the hash that was read.  A login it
\* does not match changes nothing.
Login(t) ==
    /\ tab[t].pc = "idle"
    /\ Begin(t, "issue", cookie[Jar[t]], password)
    /\ UNCHANGED <<password, families, index, cookie>>
    /\ NoFault

\* issue's SADD.
IndexWith(f) == index \cup {f}

Overtaken(t) ==
    \/ tab[t].seen # password
    \/ \E u \in Tabs : tab[u].pc = "revoke"

\* The index gets a whole window again: no family ends after it.
Covered(f) == IF families[f].window = "extended" THEN "kept" ELSE families[f].window

\* issue: the family and its place in the index, in one MULTI.
Issue(t) ==
    /\ tab[t].pc = "issue"
    /\ \E f \in Families :
          LET opened == [g \in Families |->
                IF g # f THEN [families[g] EXCEPT !.window = Covered(g)]
                ELSE [state |-> "live", generation |-> 1, inGrace |-> FALSE,
                      window |-> "kept", opened |-> tab[t].seen, raced |-> Overtaken(t)]]
          IN /\ families[f].state = "none"
             /\ \/ /\ families' = opened
                   /\ index' = IndexWith(f)
                   /\ Reply(t, [family |-> f, generation |-> 1], FALSE)
                   /\ NoFault
                \/ /\ \/ families' = families /\ index' = index
                      \/ families' = opened /\ index' = IndexWith(f)
                   /\ Reply(t, NoToken, FALSE)
                   /\ CallFails
    /\ UNCHANGED <<password, cookie>>

-----------------------------------------------------------------------------
(* POST /v1/auth/logout.                                                   *)

Logout(t) ==
    /\ tab[t].pc = "idle"
    /\ cookie[Jar[t]] # NoToken
    /\ Begin(t, "get", cookie[Jar[t]], 0)
    /\ UNCHANGED <<password, families, index, cookie>>
    /\ NoFault

\* revoke reads the family to learn whose it is; it remembers what it found.
GetFamily(t) ==
    /\ tab[t].pc = "get"
    /\ \/ /\ tab' = [tab EXCEPT ![t] = [@ EXCEPT !.pc = "exec",
                !.found = IF Live(Presented(t)) THEN {Presented(t)} ELSE {}]]
          /\ NoFault
       \/ Reply(t, NoToken, FALSE) /\ CallFails
    /\ UNCHANGED <<password, families, index, cookie>>

Deleted(fs) ==
    [f \in Families |-> IF f \in fs /\ Live(f) THEN Gone(f) ELSE families[f]]

\* The MULTI of revoke.  Only a logout that got this far clears the cookie.
ExecRevoke(t) ==
    /\ tab[t].pc = "exec"
    /\ LET revoked == /\ families' = Deleted({Presented(t)})
                      /\ index' = index \ tab[t].found
       IN \/ revoked /\ Reply(t, NoToken, TRUE) /\ NoFault
          \/ /\ revoked \/ UNCHANGED <<families, index>>
             /\ Reply(t, NoToken, FALSE)
             /\ CallFails
    /\ UNCHANGED <<password, cookie>>

-----------------------------------------------------------------------------
(* POST /v1/users/me/password.                                             *)

\* The current password matches the hash that was read.
ChangePassword(t) ==
    /\ tab[t].pc = "idle"
    /\ password < MaxChanges
    /\ Begin(t, "update", NoToken, password)
    /\ UNCHANGED <<password, families, index, cookie>>
    /\ NoFault

UpdateHash(t) ==
    /\ tab[t].pc = "update"
    /\ password < MaxChanges
    /\ \/ password' = password + 1 /\ Goto(t, "members") /\ NoFault
       \/ /\ password' \in {password, password + 1}
          /\ Reply(t, NoToken, FALSE)
          /\ CallFails
    /\ UNCHANGED <<families, index, cookie>>

\* revokeAllForUser reads the index; nothing in it, nothing to do.
ReadIndex(t) ==
    /\ tab[t].pc = "members"
    /\ \/ /\ tab' = [tab EXCEPT ![t] = [@ EXCEPT !.found = index,
                !.pc = IF index = {} THEN "reply" ELSE "revoke"]]
          /\ NoFault
       \/ Reply(t, NoToken, FALSE) /\ CallFails
    /\ UNCHANGED <<password, families, index, cookie>>

\* Mutant: deletes the index and leaves the families to their TTL.
ForgetsFamilies(t) == families

\* What the MULTI of revokeAllForUser leaves of the families.
FamiliesAfterRevoke(t) == Deleted(tab[t].found)

\* ... which deletes the families that were read, and the whole index.
RevokeAll(t) ==
    /\ tab[t].pc = "revoke"
    /\ LET revoked == families' = FamiliesAfterRevoke(t) /\ index' = {}
       IN \/ revoked /\ NoFault
          \/ (revoked \/ UNCHANGED <<families, index>>) /\ CallFails
    /\ Reply(t, NoToken, FALSE)
    /\ UNCHANGED <<password, cookie>>

-----------------------------------------------------------------------------
(* The browser, the network and the clock.                                 *)

\* A reply sets or clears the cookie that the tabs of a browser share.
Deliver(t) ==
    /\ tab[t].pc = "reply"
    /\ cookie' = [cookie EXCEPT ![Jar[t]] =
          IF tab[t].issued # NoToken THEN tab[t].issued
          ELSE IF tab[t].clear THEN NoToken ELSE @]
    /\ tab' = [tab EXCEPT ![t] = IdleTab]
    /\ UNCHANGED <<password, families, index>>
    /\ NoFault

\* The connection breaks, or the process dies under the request.
Lose(t) ==
    /\ tab[t].pc # "idle"
    /\ tab' = [tab EXCEPT ![t] = IdleTab]
    /\ UNCHANGED <<password, families, index, cookie>>
    /\ CallFails

\* GRACE_MS after a rotation.
GraceEnds(f) ==
    /\ families[f].inGrace
    /\ families' = [families EXCEPT ![f].inGrace = FALSE]
    /\ UNCHANGED <<password, index, cookie, tab>>
    /\ NoFault

\* The end of its window: REFRESH_TTL_DAYS after the login, or later.
FamilyExpires(f) ==
    /\ Live(f)
    /\ families' = [families EXCEPT ![f] = Gone(f)]
    /\ UNCHANGED <<password, index, cookie, tab>>
    /\ NoFault

\* REFRESH_TTL_DAYS after the last login: the families that kept their window
\* have expired by then.
IndexExpires ==
    /\ index # {}
    /\ \A f \in Families : Live(f) => families[f].window # "kept"
    /\ index' = {}
    /\ families' = [f \in Families |->
         IF Live(f) THEN [families[f] EXCEPT !.window = "lapsed"] ELSE families[f]]
    /\ UNCHANGED <<password, cookie, tab>>
    /\ NoFault

-----------------------------------------------------------------------------

Next ==
    \/ \E t \in Tabs :
          \/ Refresh(t) \/ Rotate(t) \/ Forget(t) \/ Lookup(t)
          \/ Login(t) \/ Issue(t)
          \/ Logout(t) \/ GetFamily(t) \/ ExecRevoke(t)
          \/ ChangePassword(t) \/ UpdateHash(t) \/ ReadIndex(t) \/ RevokeAll(t)
          \/ Deliver(t) \/ Lose(t)
    \/ \E f \in Families : GraceEnds(f) \/ FamilyExpires(f)
    \/ IndexExpires

Spec == Init /\ [][Next]_vars

-----------------------------------------------------------------------------
(* Properties.                                                             *)

NoFaultSoFar == faults = 0

\* The reply of tab t carries this token, or will.
Carries(t, token) == tab[t].pc \in {"lookup", "reply"} /\ tab[t].issued = token

\* The token that replaced the given one.
Successor(token) == [token EXCEPT !.generation = token.generation + 1]

\* What the index has lost, though it lives.
Missed(f) == families[f].raced \/ families[f].window = "lapsed"

\* However the tabs of a browser interleave, their shared cookie never falls
\* behind: while its family lives it names the current secret, or the only
\* newer one is in a reply on its way to that browser (the script's single
\* winner, and no cookie in a concurrent answer).
CookieIsCurrent ==
    NoFaultSoFar =>
        \A b \in Browsers :
            cookie[b] # NoToken /\ Live(cookie[b].family) =>
                \/ cookie[b].generation = families[cookie[b].family].generation
                \/ /\ cookie[b].generation + 1 = families[cookie[b].family].generation
                   /\ \E t \in Tabs : Jar[t] = b /\ Carries(t, Successor(cookie[b]))

\* A change of password that ran to its end ended every session opened with an
\* earlier password, and the next change will find every live family: save
\* those whose login it overtook, between the two steps of revokeAllForUser,
\* and those that were refreshed past the end of the index (issue, rotate,
\* revokeAllForUser, changePassword).
OldSessionsEnd ==
    \A f \in Families :
        Live(f) /\ ~Missed(f) =>
            /\ f \in index
            /\ NoFaultSoFar /\ (\A t \in Tabs : tab[t].pc \notin {"members", "revoke"}) =>
                 families[f].opened = password

\* A family that was revoked, logged out or expired never lives again, whatever
\* refreshes of it are still in flight (ROTATE_SCRIPT's first line).
GoneStaysGone ==
    [][\A f \in Families :
         families[f].state = "gone" => families'[f].state = "gone"]_vars

\* What the code does not promise, though refresh-token.service.ts:134 calls the
\* index "a user's live families, so all sessions can be revoked at once".
IndexIsComplete == \A f \in Families : Live(f) /\ ~families[f].raced => f \in index

\* What a comment claims beyond these, and a run refutes: when a refresh
\* answers with an error, "the cookie is worthless now" (auth.controller.ts:69).
\* A call that rejects clears the cookie of a session that is alive.
ClearedCookieIsWorthless ==
    \A t \in Tabs :
        tab[t].pc = "reply" /\ tab[t].clear => ~Live(Presented(t))

-----------------------------------------------------------------------------
(* What makes these inductive (SessionsProofs).                            *)

OfFamily(token, f) == token # NoToken /\ token.family = f

\* A request knows what its next call needs, a family that is being forgotten
\* is gone, and what revokeAllForUser will not find is new or raced.
RequestInv(t) ==
    /\ tab[t].pc \in {"rotate", "forget", "lookup", "get", "exec"} =>
         tab[t].presented # NoToken
    /\ tab[t].issued # NoToken => tab[t].pc \in {"lookup", "reply"}
    /\ tab[t].pc = "forget" => families[Presented(t)].state = "gone"
    /\ tab[t].pc = "exec" => tab[t].found \subseteq {Presented(t)}
    /\ tab[t].pc = "revoke" =>
         \A f \in Families \ tab[t].found : Live(f) => Missed(f)

\* A token somewhere: its family was opened and has come as far.
Known(token) ==
    token # NoToken =>
        /\ families[token.family].state # "none"
        /\ token.generation <= families[token.family].generation

KnownInv ==
    /\ \A b \in Browsers : Known(cookie[b])
    /\ \A t \in Tabs : Known(tab[t].presented) /\ Known(tab[t].issued)

\* Only the browser that opened a family ever has tokens of it.
HeldIn(b, f) ==
    \/ OfFamily(cookie[b], f)
    \/ \E t \in Tabs :
         Jar[t] = b /\ (OfFamily(tab[t].presented, f) \/ OfFamily(tab[t].issued, f))

OneHome ==
    \A f \in Families : \A a, b \in Browsers : HeldIn(a, f) /\ HeldIn(b, f) => a = b

\* A token on its way to the browser is the current one of its family, and
\* nobody has it yet.
IssuedInv(t) ==
    LET token == tab[t].issued
    IN  token # NoToken /\ Live(token.family) =>
          /\ token.generation = families[token.family].generation
          /\ \A b \in Browsers : cookie[b] # token
          /\ \A u \in Tabs : tab[u].presented # token
          /\ \A u \in Tabs \ {t} : ~OfFamily(tab[u].issued, token.family)

IInv ==
    /\ TypeOK
    /\ \A t \in Tabs : RequestInv(t)
    /\ KnownInv
    /\ OneHome
    /\ \A t \in Tabs : IssuedInv(t)
    /\ CookieIsCurrent
    /\ OldSessionsEnd

=============================================================================
