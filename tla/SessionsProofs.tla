--------------------------- MODULE SessionsProofs ---------------------------
(***************************************************************************)
(* Sessions keeps its cookies current, ends what a change of password must *)
(* end and revives nothing: for any number of tabs, browsers and families. *)
(*                                                                         *)
(* IInv ties every token to one browser (OneHome), every token on its way  *)
(* to the current generation (IssuedInv) and every revocation to what it   *)
(* read (RequestInv).  Most steps only pass tokens on and end sessions:    *)
(* QuietStep proves them all.  The steps that are not quiet are a rotation *)
(* (RotatedStep), a login (OpenedStep), a delivery (DeliverStep) and a new *)
(* password (UpdateHashStep).                                              *)
(***************************************************************************)
EXTENDS Sessions, TLAPS

-----------------------------------------------------------------------------
(* What the steps do to the variables, field by field.                     *)

\* What the assumption on the constants says of tokens and bounds.
LEMMA Constants ==
    /\ \A t \in Tabs : Jar[t] \in Browsers
    /\ NoToken \notin Token
    /\ \A token \in Token : token.family \in Families /\ token.generation \in Nat
    /\ 0 \in 0..MaxChanges
    /\ MaxGeneration \in Nat /\ MaxChanges \in Nat /\ MaxFaults \in Nat
  BY ConstantsAssumption DEF Token

\* A pair of a family and a generation is a token.
LEMMA TokenOf ==
    ASSUME NEW f \in Families, NEW g \in 1..MaxGeneration
    PROVE  /\ [family |-> f, generation |-> g] \in Token
           /\ [family |-> f, generation |-> g] # NoToken
  BY ConstantsAssumption DEF Token

\* The fields of a request.
LEMMA TabFields ==
    ASSUME TypeOK, NEW t \in Tabs
    PROVE  /\ tab[t].pc \in TabPCs
           /\ tab[t].presented \in Token \cup {NoToken}
           /\ tab[t].issued \in Token \cup {NoToken}
           /\ tab[t].clear \in BOOLEAN
           /\ tab[t].found \subseteq Families
           /\ tab[t].seen \in 0..MaxChanges
           /\ cookie[Jar[t]] \in Token \cup {NoToken}
  BY Constants DEF TypeOK, Tab

\* One request changes.
OnlyTab(t) ==
    /\ tab' \in [Tabs -> Tab]
    /\ \A u \in Tabs \ {t} : tab'[u] = tab[u]

\* Overwriting one request with another keeps the others and the type.
LEMMA NewTab ==
    ASSUME TypeOK, NEW t \in Tabs, NEW new \in Tab, tab' = [tab EXCEPT ![t] = new]
    PROVE  OnlyTab(t) /\ tab'[t] = new
  BY DEF TypeOK, OnlyTab

\* A request that is over holds no token.
LEMMA IdleEffect ==
    /\ IdleTab \in Tab /\ IdleTab.pc = "idle"
    /\ IdleTab.presented = NoToken /\ IdleTab.issued = NoToken
  BY Constants DEF IdleTab, Tab, TabPCs

\* What Begin leaves of the request.
LEMMA BeginEffect ==
    ASSUME TypeOK, NEW t \in Tabs, NEW pc \in TabPCs, NEW p \in Token \cup {NoToken},
           NEW s \in 0..MaxChanges, Begin(t, pc, p, s)
    PROVE  /\ OnlyTab(t)
           /\ tab'[t].pc = pc /\ tab'[t].presented = p /\ tab'[t].issued = NoToken
           /\ tab'[t].seen = s
<1> DEFINE new == [IdleTab EXCEPT !.pc = pc, !.presented = p, !.seen = s]
<1>1. /\ new \in Tab /\ new.pc = pc /\ new.presented = p /\ new.issued = NoToken
      /\ new.seen = s
  BY Constants DEF IdleTab, Tab
<1>2. tab' = [tab EXCEPT ![t] = new]
  BY DEF Begin
<1> HIDE DEF new
<1> QED
  BY <1>1, <1>2, NewTab

\* What Reply leaves of the request.
LEMMA ReplyEffect ==
    ASSUME TypeOK, NEW t \in Tabs, NEW i \in Token \cup {NoToken}, NEW c \in BOOLEAN,
           Reply(t, i, c)
    PROVE  /\ OnlyTab(t)
           /\ tab'[t].pc = "reply" /\ tab'[t].issued = i /\ tab'[t].clear = c
           /\ tab'[t].presented = tab[t].presented
<1> DEFINE new == [tab[t] EXCEPT !.pc = "reply", !.issued = i, !.clear = c]
<1>1. tab[t] \in Tab
  BY DEF TypeOK
<1>2. /\ new \in Tab /\ new.pc = "reply" /\ new.issued = i /\ new.clear = c
      /\ new.presented = tab[t].presented
  BY <1>1 DEF Tab, TabPCs
<1>3. tab' = [tab EXCEPT ![t] = new]
  BY DEF Reply
<1> HIDE DEF new
<1> QED
  BY <1>2, <1>3, NewTab

\* What Goto leaves of the request.
LEMMA GotoEffect ==
    ASSUME TypeOK, NEW t \in Tabs, NEW pc \in TabPCs, Goto(t, pc)
    PROVE  /\ OnlyTab(t)
           /\ tab'[t].pc = pc /\ tab'[t].issued = tab[t].issued
           /\ tab'[t].presented = tab[t].presented /\ tab'[t].found = tab[t].found
<1> DEFINE new == [tab[t] EXCEPT !.pc = pc]
<1>1. tab[t] \in Tab
  BY DEF TypeOK
<1>2. /\ new \in Tab /\ new.pc = pc /\ new.issued = tab[t].issued
      /\ new.presented = tab[t].presented /\ new.found = tab[t].found
  BY <1>1 DEF Tab
<1>3. tab' = [tab EXCEPT ![t] = new]
  BY <1>1 DEF Goto
<1> HIDE DEF new
<1> QED
  BY <1>2, <1>3, NewTab

\* One family changes.
OnlyFamily(f) ==
    /\ families' \in [Families -> Family]
    /\ \A g \in Families \ {f} : families'[g] = families[g]

\* Overwriting one family keeps the others and the type.
LEMMA NewFamily ==
    ASSUME TypeOK, NEW f \in Families, NEW new \in Family,
           families' = [families EXCEPT ![f] = new]
    PROVE  OnlyFamily(f) /\ families'[f] = new
  BY DEF TypeOK, OnlyFamily

\* A family that is gone keeps its generation.
LEMMA GoneEffect ==
    ASSUME TypeOK, NEW f \in Families
    PROVE  /\ Gone(f) \in Family /\ Gone(f).state = "gone"
           /\ Gone(f).generation = families[f].generation
<1>1. families[f] \in Family
  BY DEF TypeOK
<1> QED
  BY <1>1, Constants DEF Gone, Family

\* No family is opened, or lives again.
NoneOpens ==
    /\ families' \in [Families -> Family]
    /\ \A f \in Families :
         /\ families[f].state = "none" <=> families'[f].state = "none"
         /\ families[f].state = "gone" => families'[f].state = "gone"
         /\ families'[f].state = "live" =>
              /\ families'[f].opened = families[f].opened
              /\ Missed(f) => Missed(f)'

\* Families stay as they are, save those that end or leave their grace.
OnlyEnd ==
    NoneOpens /\ \A f \in Families : families'[f].generation = families[f].generation

\* Deleting one live family ends it and nothing else.
LEMMA EndEffect ==
    ASSUME TypeOK, NEW f \in Families, Live(f), families' = [families EXCEPT ![f] = Gone(f)]
    PROVE  OnlyEnd /\ families'[f].state = "gone"
<1>1. OnlyFamily(f) /\ families'[f] = Gone(f)
  BY GoneEffect, NewFamily
<1> QED
  BY <1>1, GoneEffect DEF OnlyEnd, NoneOpens, OnlyFamily, Live, Missed

\* A MULTI of DELs ends the families it names.
LEMMA DeletedEffect ==
    ASSUME TypeOK, NEW fs, families' = Deleted(fs)
    PROVE  OnlyEnd /\ \A f \in Families \cap fs : families'[f].state # "live"
<1>1. ASSUME NEW f \in Families
      PROVE  /\ families[f] \in Family
             /\ families'[f] = IF f \in fs /\ Live(f) THEN Gone(f) ELSE families[f]
  BY DEF TypeOK, Deleted
<1>2. families' \in [Families -> Family]
  BY <1>1, GoneEffect DEF Deleted, TypeOK
<1> QED
  BY <1>1, <1>2, GoneEffect DEF OnlyEnd, NoneOpens, Live, Missed

\* Leaving the families alone ends none and opens none.
LEMMA SameFamilies == ASSUME TypeOK, families' = families PROVE OnlyEnd
  BY DEF TypeOK, OnlyEnd, NoneOpens, Missed

\* A run without faults so far had none before this step either.
LEMMA Faults ==
    ASSUME TypeOK, NoFault \/ CallFails
    PROVE  faults' \in 0..MaxFaults /\ (NoFaultSoFar' => NoFaultSoFar /\ NoFault)
  BY Constants DEF TypeOK, NoFault, CallFails, NoFaultSoFar

-----------------------------------------------------------------------------
(* Steps that bring no new token.                                          *)

\* A request takes over the cookie, keeps its tokens or drops them: only a
\* fault drops one on its way.
TokensMove(t) ==
    /\ OnlyTab(t) /\ cookie' = cookie
    /\ NoFaultSoFar' => NoFaultSoFar
    /\ t \in Tabs =>
         /\ tab'[t].presented \in {tab[t].presented, cookie[Jar[t]], NoToken}
         /\ tab'[t].issued \in {tab[t].issued, NoToken}
         /\ NoFaultSoFar' => tab'[t].issued = tab[t].issued
         /\ tab'[t].issued # NoToken => tab'[t].pc \in {"lookup", "reply"}

TokenInv == KnownInv /\ OneHome /\ (\A t \in Tabs : IssuedInv(t)) /\ CookieIsCurrent

\* A step that brings no new token keeps what is known of tokens.
LEMMA TokensStay ==
    ASSUME IInv, TypeOK', NEW t, OnlyEnd, TokensMove(t)
    PROVE  TokenInv'
<1> USE DEF TokensMove, OnlyTab
<1>1. /\ TypeOK
      /\ \A u \in Tabs : tab'[u].issued \in {tab[u].issued, NoToken}
      /\ \A u \in Tabs : tab'[u].presented \in {tab[u].presented, cookie[Jar[u]], NoToken}
  BY DEF IInv
<1>2. ASSUME NEW f \in Families
      PROVE  /\ families'[f].generation = families[f].generation
             /\ families[f].state = "none" <=> families'[f].state = "none"
             /\ Live(f)' => Live(f)
  <2>1. families[f].state \in {"none", "live", "gone"}
    BY <1>1 DEF TypeOK, Family
  <2> QED
    BY <2>1 DEF OnlyEnd, NoneOpens, Live
<1>3. ASSUME NEW token \in Token \cup {NoToken}, Known(token) PROVE Known(token)'
  BY <1>2, <1>3, Constants DEF Known
<1>4. KnownInv'
  <2>1. ASSUME NEW b \in Browsers PROVE Known(cookie[b])'
    BY <1>1, <1>3 DEF IInv, KnownInv, TypeOK
  <2>2. ASSUME NEW u \in Tabs PROVE (Known(tab[u].presented) /\ Known(tab[u].issued))'
    <3>1. Known(tab[u].presented) /\ Known(cookie[Jar[u]]) /\ Known(tab[u].issued) /\ Known(NoToken)
      BY Constants DEF IInv, KnownInv, Known
    <3> QED
      BY <1>1, <1>3, <3>1, TabFields
  <2> QED
    BY <2>1, <2>2 DEF KnownInv
<1>5. ASSUME NEW b \in Browsers, NEW f \in Families, HeldIn(b, f)' PROVE HeldIn(b, f)
  BY <1>1, <1>5, Constants DEF HeldIn, OfFamily
<1>6. OneHome'
  BY <1>5 DEF IInv, OneHome
<1>7. ASSUME NEW u \in Tabs PROVE IssuedInv(u)'
  <2> SUFFICES ASSUME tab'[u].issued # NoToken, Live(tab[u].issued.family)'
               PROVE  IssuedInv(u)'
    BY DEF IssuedInv, Live
  <2>1. tab'[u].issued = tab[u].issued /\ tab[u].issued \in Token
    BY <1>1, TabFields
  <2>2. tab[u].issued.family \in Families /\ Live(tab[u].issued.family)
    BY <1>2, <2>1, Constants
  <2>3. IssuedInv(u)
    BY DEF IInv
  <2>4. \A b \in Browsers : cookie[b] # tab[u].issued
    BY <2>1, <2>2, <2>3 DEF IssuedInv
  <2>5. \A v \in Tabs : tab'[v].presented # tab[u].issued
    BY <1>1, <2>1, <2>2, <2>3, <2>4, Constants DEF IssuedInv
  <2>6. \A v \in Tabs \ {u} : ~OfFamily(tab'[v].issued, tab[u].issued.family)
    BY <1>1, <2>1, <2>2, <2>3 DEF IssuedInv, OfFamily
  <2> QED
    BY <1>2, <2>1, <2>2, <2>3, <2>4, <2>5, <2>6 DEF IssuedInv, OfFamily
<1>8. CookieIsCurrent'
  <2> SUFFICES ASSUME NoFaultSoFar', NEW b \in Browsers, cookie[b] # NoToken,
                      Live(cookie[b].family)'
               PROVE  \/ cookie[b].generation = families'[cookie[b].family].generation
                      \/ /\ cookie[b].generation + 1 = families'[cookie[b].family].generation
                         /\ \E u \in Tabs : Jar[u] = b /\ Carries(u, Successor(cookie[b]))'
    BY DEF CookieIsCurrent, Successor, Carries, Live
  <2>1. cookie[b] \in Token /\ cookie[b].family \in Families
    BY <1>1, Constants DEF TypeOK
  <2>2. /\ Live(cookie[b].family)
        /\ families'[cookie[b].family].generation = families[cookie[b].family].generation
    BY <1>2, <2>1
  <2>3. ASSUME cookie[b].generation + 1 = families[cookie[b].family].generation
        PROVE  Successor(cookie[b]) \in Token
    <3>1. families[cookie[b].family].generation \in 0..MaxGeneration
      BY <1>1, <2>1 DEF TypeOK, Family
    <3> QED
      BY <2>1, <2>3, <3>1, Constants DEF Successor, Token
  <2>4. ASSUME NEW u \in Tabs, Successor(cookie[b]) \in Token,
               Carries(u, Successor(cookie[b]))
        PROVE  Carries(u, Successor(cookie[b]))'
    BY <2>4, Constants DEF Carries, Successor
  <2> QED
    BY <2>1, <2>2, <2>3, <2>4 DEF IInv, CookieIsCurrent
<1> QED
  BY <1>4, <1>6, <1>7, <1>8 DEF TokenInv

-----------------------------------------------------------------------------
(* Steps that open no session.                                             *)

SessionInv == (\A t \in Tabs : RequestInv(t)) /\ OldSessionsEnd

\* A session that the index must know.
Unraced(f) == Live(f) /\ ~Missed(f)

\* No session is opened; one that leaves the index ends; a revocation goes on
\* or has ended every session.
SessionsMove(t) ==
    /\ OnlyTab(t) /\ password' = password
    /\ \A f \in Families : Unraced(f)' /\ f \in index => f \in index'
    /\ NoFaultSoFar' => NoFaultSoFar
    /\ t \in Tabs =>
         /\ RequestInv(t)'
         /\ NoFaultSoFar' /\ tab[t].pc \in {"members", "revoke"} =>
              tab'[t].pc \in {"members", "revoke"} \/ \A f \in Families : ~Unraced(f)'

\* A step that opens no session keeps what is known of sessions.
LEMMA SessionsStay ==
    ASSUME IInv, NEW t, NoneOpens, SessionsMove(t)
    PROVE  SessionInv'
<1>1. ASSUME NEW f \in Families
      PROVE  /\ Live(f)' => Live(f)
             /\ Unraced(f)' => Unraced(f) /\ families'[f].opened = families[f].opened
             /\ Live(f)' /\ Missed(f) => Missed(f)'
             /\ families[f].state = "gone" => families'[f].state = "gone"
  <2>1. families[f].state \in {"none", "live", "gone"}
    BY DEF IInv, TypeOK, Family
  <2> QED
    BY <2>1 DEF OnlyEnd, NoneOpens, Live, Unraced
<1>2. ASSUME NEW u \in Tabs \ {t} PROVE RequestInv(u)'
  <2>1. tab'[u] = tab[u] /\ RequestInv(u)
    BY DEF SessionsMove, OnlyTab, IInv
  <2>2. tab[u].pc = "forget" => Presented(u) \in Families
    BY <2>1, TabFields, Constants DEF RequestInv, Presented, IInv
  <2> QED
    BY <1>1, <2>1, <2>2 DEF RequestInv, Presented, Live
<1>3. ASSUME NEW f \in Families, Unraced(f)' PROVE f \in index'
  BY <1>1, <1>3 DEF IInv, OldSessionsEnd, Unraced, SessionsMove
<1>4. ASSUME NEW f \in Families, Unraced(f)', NoFaultSoFar',
             \A u \in Tabs : tab'[u].pc \notin {"members", "revoke"}
      PROVE  families'[f].opened = password'
  <2>1. \A u \in Tabs : tab[u].pc \notin {"members", "revoke"}
    BY <1>4 DEF SessionsMove, OnlyTab
  <2> QED
    BY <1>1, <1>4, <2>1 DEF IInv, OldSessionsEnd, Unraced, SessionsMove
<1>5. OldSessionsEnd'
  BY <1>3, <1>4 DEF OldSessionsEnd, Unraced, Live
<1>6. \A u \in Tabs : RequestInv(u)'
  BY <1>2 DEF SessionsMove
<1> QED
  BY <1>5, <1>6 DEF SessionInv

\* Both, for one step.
LEMMA QuietStep ==
    ASSUME IInv, NEW t, OnlyEnd, TokensMove(t), SessionsMove(t),
           index' \subseteq Families, faults' \in 0..MaxFaults
    PROVE  IInv'
<1>1. TypeOK'
  BY DEF IInv, TypeOK, OnlyEnd, NoneOpens, TokensMove, SessionsMove, OnlyTab
<1> QED
  BY <1>1, TokensStay, SessionsStay DEF IInv, TokenInv, SessionInv, OnlyEnd

-----------------------------------------------------------------------------
(* The steps.                                                              *)

\* A request begins: it takes the cookie along, or nothing.
LEMMA BeginStep ==
    ASSUME IInv, NEW t \in Tabs, tab[t].pc = "idle",
           NEW pc \in {"rotate", "issue", "get", "update"},
           NEW p \in {cookie[Jar[t]], NoToken}, pc \in {"rotate", "get"} => p # NoToken,
           NEW s \in 0..MaxChanges, Begin(t, pc, p, s),
           UNCHANGED <<password, families, index, cookie, faults>>
    PROVE  IInv'
<1>1. TypeOK /\ RequestInv(t) /\ p \in Token \cup {NoToken} /\ pc \in TabPCs
  BY TabFields DEF IInv, TabPCs
<1>2. /\ OnlyTab(t)
      /\ tab'[t].pc = pc /\ tab'[t].presented = p /\ tab'[t].issued = NoToken
  BY <1>1, BeginEffect
<1>3. TokensMove(t)
  BY <1>1, <1>2 DEF TokensMove, RequestInv, NoFaultSoFar
<1>4. SessionsMove(t)
  BY <1>2 DEF SessionsMove, RequestInv, NoFaultSoFar
<1> QED
  BY <1>1, <1>3, <1>4, SameFamilies, QuietStep DEF TypeOK

\* The four operations begin.
LEMMA BeginSteps ==
    ASSUME IInv, NEW t \in Tabs, Refresh(t) \/ Login(t) \/ Logout(t) \/ ChangePassword(t)
    PROVE  IInv'
<1>1. password \in 0..MaxChanges /\ 0 \in 0..MaxChanges
  BY Constants DEF IInv, TypeOK
<1>2. CASE Refresh(t)
  BY <1>1, <1>2, BeginStep DEF Refresh, NoFault
<1>3. CASE Login(t)
  BY <1>1, <1>3, BeginStep DEF Login, NoFault
<1>4. CASE Logout(t)
  BY <1>1, <1>4, BeginStep DEF Logout, NoFault
<1>5. CASE ChangePassword(t)
  BY <1>1, <1>5, BeginStep DEF ChangePassword, NoFault
<1> QED
  BY <1>2, <1>3, <1>4, <1>5

\* A request answers with the token it has, or with none.
LEMMA ReplyStep ==
    ASSUME IInv, NEW t \in Tabs, NEW i \in {tab[t].issued, NoToken}, NEW c \in BOOLEAN,
           Reply(t, i, c), OnlyEnd, NoFault \/ CallFails, NoFault => i = tab[t].issued,
           UNCHANGED <<password, cookie>>, index' \subseteq Families,
           \A f \in Families : Unraced(f)' /\ f \in index => f \in index',
           tab[t].pc \notin {"members", "revoke"} \/ \A f \in Families : ~Unraced(f)'
             \/ ~NoFault
    PROVE  IInv'
<1>1. TypeOK /\ RequestInv(t) /\ i \in Token \cup {NoToken}
  BY TabFields DEF IInv
<1>2. /\ OnlyTab(t) /\ tab'[t].pc = "reply" /\ tab'[t].issued = i
      /\ tab'[t].presented = tab[t].presented
  BY <1>1, ReplyEffect
<1>3. faults' \in 0..MaxFaults /\ (NoFaultSoFar' => NoFaultSoFar /\ NoFault)
  BY <1>1, Faults
<1>4. TokensMove(t)
  BY <1>2, <1>3 DEF TokensMove
<1>5. SessionsMove(t)
  BY <1>2, <1>3 DEF SessionsMove, RequestInv
<1> QED
  BY <1>1, <1>3, <1>4, <1>5, QuietStep

\* SREM of a family that reuse revoked: it is gone, so no live one leaves
\* the index.
LEMMA ForgetStep == ASSUME IInv, NEW t \in Tabs, Forget(t) PROVE IInv'
<1>1. /\ TypeOK /\ RequestInv(t) /\ tab[t].pc = "forget" /\ Reply(t, NoToken, TRUE)
      /\ UNCHANGED <<password, families, cookie>>
      /\ index' \in {index, index \ {Presented(t)}} /\ (NoFault \/ CallFails)
  BY DEF IInv, Forget
<1>2. families[Presented(t)].state = "gone" /\ tab[t].issued = NoToken
  BY <1>1 DEF RequestInv
<1>3. OnlyEnd
  BY <1>1, SameFamilies
<1>4. \A f \in Families : Unraced(f)' /\ f \in index => f \in index'
  BY <1>1, <1>2 DEF Unraced, Live
<1>5. index' \subseteq Families
  BY <1>1 DEF TypeOK
<1> QED
  BY <1>1, <1>2, <1>3, <1>4, <1>5, ReplyStep

\* refresh answers, with the token that was issued or with an error.
LEMMA LookupStep == ASSUME IInv, NEW t \in Tabs, Lookup(t) PROVE IInv'
<1>1. /\ TypeOK /\ tab[t].pc = "lookup"
      /\ UNCHANGED <<password, families, index, cookie>>
  BY DEF IInv, Lookup
<1>2. OnlyEnd /\ index' \subseteq Families
  BY <1>1, SameFamilies DEF TypeOK
<1>3. CASE Reply(t, tab[t].issued, FALSE) /\ NoFault
  BY <1>1, <1>2, <1>3, ReplyStep
<1>4. CASE Reply(t, NoToken, TRUE) /\ CallFails
  <2>1. ~NoFault
    BY <1>1, <1>4, Constants DEF NoFault, CallFails, TypeOK
  <2> QED
    BY <1>1, <1>2, <1>4, <2>1, ReplyStep
<1> QED
  BY <1>3, <1>4 DEF Lookup

\* A request goes on with what it knows.
LEMMA FoundStep ==
    ASSUME IInv, NEW t \in Tabs, NEW found \in SUBSET Families, NEW pc \in TabPCs,
           tab' = [tab EXCEPT ![t] = [@ EXCEPT !.pc = pc, !.found = found]]
    PROVE  /\ OnlyTab(t) /\ tab'[t].pc = pc /\ tab'[t].found = found
           /\ tab'[t].presented = tab[t].presented /\ tab'[t].issued = tab[t].issued
<1> DEFINE new == [tab[t] EXCEPT !.pc = pc, !.found = found]
<1>1. TypeOK /\ tab[t] \in Tab
  BY DEF IInv, TypeOK
<1>2. /\ new \in Tab /\ new.pc = pc /\ new.found = found
      /\ new.presented = tab[t].presented /\ new.issued = tab[t].issued
  BY <1>1 DEF Tab
<1>3. tab' = [tab EXCEPT ![t] = new]
  BY <1>1 DEF TypeOK
<1> HIDE DEF new
<1> QED
  BY <1>1, <1>2, <1>3, NewTab

\* revoke remembers the family only when it lives.
LEMMA GetFamilyStep == ASSUME IInv, NEW t \in Tabs, GetFamily(t) PROVE IInv'
<1>1. /\ TypeOK /\ RequestInv(t) /\ tab[t].pc = "get" /\ tab[t].issued = NoToken
      /\ tab[t].presented \in Token
      /\ UNCHANGED <<password, families, index, cookie>>
  BY TabFields DEF IInv, GetFamily, RequestInv
<1>2. OnlyEnd /\ index' \subseteq Families
  BY <1>1, SameFamilies DEF TypeOK
<1>3. CASE Reply(t, NoToken, FALSE) /\ CallFails
  BY <1>1, <1>2, <1>3, ReplyStep
<1>4. ASSUME tab' = [tab EXCEPT ![t] = [@ EXCEPT !.pc = "exec",
                !.found = IF Live(Presented(t)) THEN {Presented(t)} ELSE {}]], NoFault
      PROVE  IInv'
  <2> DEFINE found == IF Live(Presented(t)) THEN {Presented(t)} ELSE {}
  <2>1. found \in SUBSET Families /\ found \subseteq {Presented(t)} /\ "exec" \in TabPCs
    BY <1>1, Constants DEF Presented, TabPCs
  <2>2. tab' = [tab EXCEPT ![t] = [@ EXCEPT !.pc = "exec", !.found = found]]
    BY <1>4
  <2> HIDE DEF found
  <2>3. /\ OnlyTab(t) /\ tab'[t].pc = "exec" /\ tab'[t].found = found
        /\ tab'[t].presented = tab[t].presented /\ tab'[t].issued = NoToken
    BY <1>1, <2>1, <2>2, FoundStep
  <2>4. faults' \in 0..MaxFaults /\ (NoFaultSoFar' => NoFaultSoFar)
    BY <1>1, <1>4, Faults
  <2>5. TokensMove(t)
    BY <1>1, <2>3, <2>4 DEF TokensMove
  <2>6. RequestInv(t)'
    BY <1>1, <2>1, <2>3, Constants DEF RequestInv, Presented
  <2>7. SessionsMove(t)
    BY <1>1, <2>3, <2>4, <2>6 DEF SessionsMove
  <2> QED
    BY <1>2, <2>4, <2>5, <2>7, QuietStep
<1>5. \/ Reply(t, NoToken, FALSE) /\ CallFails
      \/ /\ tab' = [tab EXCEPT ![t] = [@ EXCEPT !.pc = "exec",
                !.found = IF Live(Presented(t)) THEN {Presented(t)} ELSE {}]]
         /\ NoFault
  BY DEF GetFamily
<1> QED
  BY <1>3, <1>4, <1>5, Zenon

\* The MULTI of revoke takes a family out of the index only with its key.
LEMMA ExecRevokeStep == ASSUME IInv, NEW t \in Tabs, ExecRevoke(t) PROVE IInv'
<1> DEFINE revoked == /\ families' = Deleted({Presented(t)})
                      /\ index' = index \ tab[t].found
<1>1. /\ TypeOK /\ RequestInv(t) /\ tab[t].pc = "exec" /\ tab[t].issued = NoToken
      /\ tab[t].presented \in Token /\ Presented(t) \in Families
      /\ tab[t].found \subseteq {Presented(t)}
      /\ UNCHANGED <<password, cookie>>
  BY TabFields, Constants DEF IInv, ExecRevoke, RequestInv, Presented
<1>2. ASSUME revoked \/ UNCHANGED <<families, index>>
      PROVE  /\ OnlyEnd /\ index' \subseteq Families
             /\ \A f \in Families : Unraced(f)' /\ f \in index => f \in index'
  <2>1. CASE UNCHANGED <<families, index>>
    BY <1>1, <2>1, SameFamilies DEF TypeOK
  <2>2. CASE revoked
    <3>1. OnlyEnd /\ families'[Presented(t)].state # "live"
      BY <1>1, <2>2, DeletedEffect
    <3> QED
      BY <1>1, <2>2, <3>1 DEF TypeOK, Unraced, Live
  <2> QED
    BY <1>2, <2>1, <2>2
<1>3. CASE revoked /\ Reply(t, NoToken, TRUE) /\ NoFault
  BY <1>1, <1>2, <1>3, ReplyStep
<1>4. CASE (revoked \/ UNCHANGED <<families, index>>) /\ Reply(t, NoToken, FALSE) /\ CallFails
  BY <1>1, <1>2, <1>4, ReplyStep
<1> QED
  BY <1>3, <1>4 DEF ExecRevoke

\* The MULTI of revokeAllForUser ends every session that is not raced.
LEMMA RevokeAllStep == ASSUME IInv, NEW t \in Tabs, RevokeAll(t) PROVE IInv'
<1> DEFINE revoked == families' = Deleted(tab[t].found) /\ index' = {}
<1>1. /\ TypeOK /\ RequestInv(t) /\ tab[t].pc = "revoke" /\ tab[t].issued = NoToken
      /\ tab[t].found \subseteq Families
      /\ UNCHANGED <<password, cookie>> /\ Reply(t, NoToken, FALSE)
  BY TabFields DEF IInv, RevokeAll, RequestInv
<1>2. ASSUME revoked PROVE OnlyEnd /\ \A f \in Families : ~Unraced(f)'
  <2>1. OnlyEnd /\ \A f \in tab[t].found : families'[f].state # "live"
    BY <1>1, <1>2, DeletedEffect
  <2>2. ASSUME NEW f \in Families \ tab[t].found PROVE ~Unraced(f)'
    <3>1. families[f].state \in {"none", "live", "gone"}
      BY <1>1 DEF TypeOK, Family
    <3> QED
      BY <1>1, <2>1, <3>1 DEF RequestInv, OnlyEnd, NoneOpens, Unraced, Live
  <2> QED
    BY <2>1, <2>2 DEF Unraced, Live
<1>3. CASE revoked /\ NoFault
  BY <1>1, <1>2, <1>3, ReplyStep
<1>4. CASE revoked /\ CallFails
  BY <1>1, <1>2, <1>4, ReplyStep
<1>5. CASE UNCHANGED <<families, index>> /\ CallFails
  <2>1. ~NoFault /\ OnlyEnd /\ index' \subseteq Families
    BY <1>1, <1>5, SameFamilies, Constants DEF TypeOK, NoFault, CallFails
  <2> QED
    BY <1>1, <1>5, <2>1, ReplyStep
<1> QED
  BY <1>3, <1>4, <1>5 DEF RevokeAll, FamiliesAfterRevoke

\* SMEMBERS finds every live family that is not raced.
LEMMA ReadIndexStep == ASSUME IInv, NEW t \in Tabs, ReadIndex(t) PROVE IInv'
<1>1. /\ TypeOK /\ RequestInv(t) /\ tab[t].pc = "members" /\ tab[t].issued = NoToken
      /\ UNCHANGED <<password, families, index, cookie>> /\ index \subseteq Families
  BY DEF IInv, ReadIndex, RequestInv, TypeOK
<1>2. OnlyEnd
  BY <1>1, SameFamilies
<1>3. CASE Reply(t, NoToken, FALSE) /\ CallFails
  <2>1. ~NoFault
    BY <1>1, <1>3, Constants DEF NoFault, CallFails, TypeOK
  <2> QED
    BY <1>1, <1>2, <1>3, <2>1, ReplyStep
<1>4. ASSUME NEW pc \in {"reply", "revoke"}, pc = "reply" <=> index = {}, NoFault,
             tab' = [tab EXCEPT ![t] = [@ EXCEPT !.pc = pc, !.found = index]]
      PROVE  IInv'
  <2>1. /\ OnlyTab(t) /\ tab'[t].pc = pc /\ tab'[t].found = index
        /\ tab'[t].presented = tab[t].presented /\ tab'[t].issued = NoToken
    BY <1>1, <1>4, FoundStep DEF TabPCs
  <2>2. faults' \in 0..MaxFaults /\ (NoFaultSoFar' => NoFaultSoFar)
    BY <1>1, <1>4, Faults
  <2>3. \A f \in Families : Unraced(f) => f \in index
    BY DEF IInv, OldSessionsEnd, Unraced
  <2>4. RequestInv(t)'
    BY <1>1, <1>4, <2>1, <2>3 DEF RequestInv, Unraced, Live, Missed
  <2>5. TokensMove(t)
    BY <1>1, <2>1, <2>2 DEF TokensMove
  <2>6. SessionsMove(t)
    BY <1>1, <1>4, <2>1, <2>2, <2>3, <2>4 DEF SessionsMove, Unraced, Live, Missed
  <2> QED
    BY <1>1, <1>2, <2>2, <2>5, <2>6, QuietStep
<1>5. ASSUME tab' = [tab EXCEPT ![t] = [@ EXCEPT !.found = index,
                !.pc = IF index = {} THEN "reply" ELSE "revoke"]], NoFault
      PROVE  IInv'
  <2> DEFINE pc == IF index = {} THEN "reply" ELSE "revoke"
  <2>1. tab' = [tab EXCEPT ![t] = [@ EXCEPT !.pc = pc, !.found = index]]
    BY <1>5
  <2>2. pc \in {"reply", "revoke"} /\ (pc = "reply" <=> index = {})
    OBVIOUS
  <2> HIDE DEF pc
  <2> QED
    BY <1>4, <1>5, <2>1, <2>2
<1> QED
  BY <1>1, <1>3, <1>5 DEF ReadIndex

\* The new password; whoever changed it goes on to revoke.
LEMMA UpdateHashStep == ASSUME IInv, NEW t \in Tabs, UpdateHash(t) PROVE IInv'
<1>1. /\ TypeOK /\ RequestInv(t) /\ tab[t].pc = "update" /\ tab[t].issued = NoToken
      /\ UNCHANGED <<families, index, cookie>> /\ index \subseteq Families
      /\ password \in 0..MaxChanges /\ password < MaxChanges
      /\ password' \in {password, password + 1}
  BY DEF IInv, UpdateHash, RequestInv, TypeOK
<1>2. OnlyEnd
  BY <1>1, SameFamilies
<1>3. \/ Goto(t, "members") /\ NoFault
      \/ Reply(t, NoToken, FALSE) /\ CallFails
  BY DEF UpdateHash
<1>4. /\ OnlyTab(t) /\ tab'[t].pc \in {"members", "reply"} /\ tab'[t].issued = NoToken
      /\ tab'[t].presented = tab[t].presented
      /\ tab'[t].pc = "members" \/ ~NoFault
  <2>1. CASE Goto(t, "members") /\ NoFault
    BY <1>1, <2>1, GotoEffect DEF TabPCs
  <2>2. CASE Reply(t, NoToken, FALSE) /\ CallFails
    <3>1. ~NoFault
      BY <1>1, <2>2, Constants DEF NoFault, CallFails, TypeOK
    <3> QED
      BY <1>1, <2>2, <3>1, ReplyEffect
  <2> QED
    BY <1>3, <2>1, <2>2
<1>5. faults' \in 0..MaxFaults /\ (NoFaultSoFar' => NoFaultSoFar /\ NoFault)
  BY <1>1, <1>3, Faults
<1>6. TypeOK'
  <2>1. password' \in 0..MaxChanges
    BY <1>1, Constants
  <2> QED
    BY <1>1, <1>4, <1>5, <2>1 DEF TypeOK, OnlyTab
<1>7. TokenInv'
  <2>1. TokensMove(t)
    BY <1>1, <1>4, <1>5 DEF TokensMove
  <2> QED
    BY <1>2, <1>6, <2>1, TokensStay
<1>8. ASSUME NEW u \in Tabs PROVE RequestInv(u)'
  <2>1. CASE u = t
    BY <1>4, <2>1 DEF RequestInv
  <2>2. CASE u # t
    BY <1>1, <1>4, <2>2 DEF RequestInv, OnlyTab, IInv, Presented, Live, Missed
  <2> QED
    BY <2>1, <2>2
<1>9. OldSessionsEnd'
  BY <1>1, <1>4, <1>5 DEF IInv, OldSessionsEnd, Live, Missed
<1> QED
  BY <1>6, <1>7, <1>8, <1>9 DEF IInv, TokenInv

\* A request that nobody waits for any more.
LEMMA LoseStep == ASSUME IInv, NEW t \in Tabs, Lose(t) PROVE IInv'
<1>1. /\ TypeOK /\ UNCHANGED <<password, families, index, cookie>> /\ CallFails
      /\ tab' = [tab EXCEPT ![t] = IdleTab] /\ index \subseteq Families
  BY DEF IInv, Lose, TypeOK
<1>2. OnlyTab(t) /\ tab'[t] = IdleTab
  BY <1>1, IdleEffect, NewTab
<1>3. faults' \in 0..MaxFaults /\ ~NoFaultSoFar'
  BY <1>1, Constants DEF CallFails, NoFaultSoFar, TypeOK
<1>4. TokensMove(t)
  BY <1>1, <1>2, <1>3, IdleEffect DEF TokensMove
<1>5. SessionsMove(t)
  BY <1>1, <1>2, <1>3, IdleEffect DEF SessionsMove, RequestInv
<1> QED
  BY <1>1, <1>3, <1>4, <1>5, SameFamilies, QuietStep

\* The clock, between requests: sessions end, and what leaves the index has
\* ended or is missed.
LEMMA TimePasses ==
    ASSUME IInv, OnlyEnd, UNCHANGED <<password, cookie, tab, faults>>,
           index' \subseteq Families,
           \A f \in Families : Unraced(f)' /\ f \in index => f \in index'
    PROVE  IInv'
<1>1. TypeOK /\ faults \in 0..MaxFaults
  BY DEF IInv, TypeOK
<1>2. PICK t : t \in Tabs \/ Tabs = {}
  OBVIOUS
<1>3. OnlyTab(t) /\ (t \in Tabs => RequestInv(t) /\ tab'[t] = tab[t])
  BY <1>1 DEF OnlyTab, TypeOK, IInv
<1>4. TokensMove(t)
  BY <1>1, <1>3 DEF TokensMove, NoFaultSoFar, RequestInv
<1>5. SessionsMove(t)
  <2>1. ASSUME t \in Tabs PROVE RequestInv(t)'
    <3>1. tab[t].pc = "forget" => Presented(t) \in Families
      BY <1>1, <1>3, <2>1, TabFields, Constants DEF RequestInv, Presented
    <3>2. ASSUME NEW g \in Families, Live(g)' PROVE Live(g) /\ (Missed(g) => Missed(g)')
      <4>1. families[g].state \in {"none", "live", "gone"}
        BY <1>1 DEF TypeOK, Family
      <4> QED
        BY <3>2, <4>1 DEF OnlyEnd, NoneOpens, Live
    <3> QED
      BY <1>3, <2>1, <3>1, <3>2 DEF RequestInv, Presented, OnlyEnd, NoneOpens
  <2> QED
    BY <1>1, <1>3, <2>1 DEF SessionsMove, NoFaultSoFar
<1> QED
  BY <1>1, <1>4, <1>5, QuietStep

\* The end of a grace, or of a family.
LEMMA ClockStep ==
    ASSUME IInv, NEW f \in Families, GraceEnds(f) \/ FamilyExpires(f) PROVE IInv'
<1>1. /\ TypeOK /\ index \subseteq Families
      /\ UNCHANGED <<password, index, cookie, tab, faults>>
  BY DEF IInv, TypeOK, GraceEnds, FamilyExpires, NoFault
<1>2. CASE GraceEnds(f)
  <2> DEFINE new == [families[f] EXCEPT !.inGrace = FALSE]
  <2>1. families[f] \in Family
    BY <1>1 DEF TypeOK
  <2>2. /\ new \in Family /\ new.state = families[f].state
        /\ new.generation = families[f].generation
        /\ new.opened = families[f].opened
        /\ new.raced = families[f].raced /\ new.window = families[f].window
    BY <2>1 DEF Family
  <2>3. families' = [families EXCEPT ![f] = new]
    BY <1>1, <1>2 DEF GraceEnds, TypeOK
  <2> HIDE DEF new
  <2>4. OnlyFamily(f) /\ families'[f] = new
    BY <1>1, <2>2, <2>3, NewFamily
  <2>5. OnlyEnd
    BY <2>2, <2>4 DEF OnlyEnd, NoneOpens, OnlyFamily, Missed
  <2> QED
    BY <1>1, <2>5, TimePasses
<1>3. CASE FamilyExpires(f)
  <2>1. OnlyEnd
    BY <1>1, <1>3, EndEffect DEF FamilyExpires
  <2> QED
    BY <1>1, <2>1, TimePasses
<1> QED
  BY <1>2, <1>3

\* The end of the index: whatever outlives it is missed from now on.
LEMMA IndexExpiresStep == ASSUME IInv, IndexExpires PROVE IInv'
<1>1. TypeOK /\ UNCHANGED <<password, cookie, tab, faults>> /\ index' = {}
  BY DEF IInv, IndexExpires, NoFault
<1>2. ASSUME NEW f \in Families
      PROVE  /\ families'[f] \in Family
             /\ families'[f].state = families[f].state
             /\ families'[f].generation = families[f].generation
             /\ families'[f].opened = families[f].opened
             /\ families[f].state = "live" => families'[f].window = "lapsed"
  <2>1. families[f] \in Family
    BY <1>1 DEF TypeOK
  <2> DEFINE new == [families[f] EXCEPT !.window = "lapsed"]
  <2>2. /\ new \in Family /\ new.state = families[f].state
        /\ new.generation = families[f].generation
        /\ new.opened = families[f].opened /\ new.window = "lapsed"
    BY <2>1 DEF Family
  <2>3. families'[f] = IF Live(f) THEN new ELSE families[f]
    BY DEF IndexExpires
  <2> HIDE DEF new
  <2> QED
    BY <2>1, <2>2, <2>3 DEF Live
<1>3. families' \in [Families -> Family]
  BY <1>2 DEF IndexExpires
<1>4. OnlyEnd
  BY <1>2, <1>3 DEF OnlyEnd, NoneOpens, Missed
<1>5. \A f \in Families : ~Unraced(f)'
  BY <1>2 DEF Unraced, Live, Missed
<1> QED
  BY <1>1, <1>4, <1>5, TimePasses

-----------------------------------------------------------------------------
(* Steps that move tokens.                                                  *)

\* The cookie becomes the token that was on its way, and current.
LEMMA DeliverStep == ASSUME IInv, NEW t \in Tabs, Deliver(t) PROVE IInv'
<1> DEFINE token == tab[t].issued
           b == Jar[t]
<1>1. /\ TypeOK /\ tab[t].pc = "reply" /\ b \in Browsers
      /\ token \in Token \cup {NoToken} /\ cookie[b] \in Token \cup {NoToken}
      /\ UNCHANGED <<password, families, index, faults>>
      /\ tab' = [tab EXCEPT ![t] = IdleTab]
  BY TabFields, Constants DEF IInv, Deliver, NoFault
<1>2. OnlyTab(t) /\ tab'[t] = IdleTab
  BY <1>1, IdleEffect, NewTab
<1>3. /\ cookie' \in [Browsers -> Token \cup {NoToken}]
      /\ \A a \in Browsers \ {b} : cookie'[a] = cookie[a]
      /\ cookie'[b] \in {token, cookie[b], NoToken}
      /\ token # NoToken => cookie'[b] = token
  BY <1>1 DEF Deliver, TypeOK
<1> HIDE DEF token, b
<1>4. TypeOK'
  BY <1>1, <1>2, <1>3 DEF TypeOK, OnlyTab
<1>5. KnownInv'
  <2>1. Known(token) /\ Known(NoToken)
    BY DEF IInv, KnownInv, Known, token
  <2> QED
    BY <1>1, <1>2, <1>3, <2>1, IdleEffect DEF IInv, KnownInv, Known, OnlyTab
<1>6. ASSUME NEW a \in Browsers, NEW f \in Families, HeldIn(a, f)' PROVE HeldIn(a, f)
  BY <1>2, <1>3, <1>6, IdleEffect DEF HeldIn, OfFamily, OnlyTab, token, b
<1>7. OneHome'
  BY <1>6 DEF IInv, OneHome
<1>8. ASSUME NEW u \in Tabs PROVE IssuedInv(u)'
  <2>1. CASE u = t
    BY <1>2, <2>1, IdleEffect DEF IssuedInv
  <2>2. ASSUME u # t, tab[u].issued # NoToken, Live(tab[u].issued.family) PROVE IssuedInv(u)'
    <3>1. tab'[u] = tab[u] /\ IssuedInv(u)
      BY <1>2, <2>2 DEF OnlyTab, IInv
    <3>2. tab[u].issued # token
      BY <2>2, <3>1 DEF IssuedInv, OfFamily, token
    <3>3. \A a \in Browsers : cookie'[a] # tab[u].issued
      BY <1>1, <1>3, <2>2, <3>1, <3>2 DEF IssuedInv
    <3>4. \A v \in Tabs : tab'[v].presented # tab[u].issued
      BY <1>2, <2>2, <3>1, IdleEffect DEF IssuedInv, OnlyTab
    <3>5. \A v \in Tabs \ {u} : ~OfFamily(tab'[v].issued, tab[u].issued.family)
      BY <1>2, <2>2, <3>1, IdleEffect DEF IssuedInv, OnlyTab, OfFamily
    <3> QED
      BY <1>1, <2>2, <3>1, <3>3, <3>4, <3>5 DEF IssuedInv, OfFamily
  <2>3. ASSUME u # t, tab[u].issued = NoToken \/ ~Live(tab[u].issued.family)
        PROVE  IssuedInv(u)'
    BY <1>1, <1>2, <2>3 DEF IssuedInv, OnlyTab, Live
  <2> QED
    BY <2>1, <2>2, <2>3
<1>9. CookieIsCurrent'
  <2> SUFFICES ASSUME NoFaultSoFar, NEW a \in Browsers, cookie'[a] # NoToken,
                      families[cookie'[a].family].state = "live"
               PROVE  \/ cookie'[a].generation = families[cookie'[a].family].generation
                      \/ /\ cookie'[a].generation + 1 = families[cookie'[a].family].generation
                         /\ \E u \in Tabs : Jar[u] = a /\ Carries(u, Successor(cookie[a]))'
                         /\ cookie'[a] = cookie[a]
    BY <1>1 DEF CookieIsCurrent, Successor, Carries, Live, NoFaultSoFar
  <2>1. CASE cookie'[a] = token /\ token # NoToken
    BY <2>1 DEF IInv, IssuedInv, Live, token
  <2>2. CASE cookie'[a] = cookie[a] /\ (a = b => token = NoToken)
    <3>1. cookie[a] \in Token
      BY <1>1, <2>2 DEF TypeOK
    <3>2. ASSUME NEW u \in Tabs, Jar[u] = a, Carries(u, Successor(cookie[a])),
                 Successor(cookie[a]) \in Token
          PROVE  Carries(u, Successor(cookie[a]))'
      <4>1. u # t
        BY <2>2, <3>2, Constants DEF Carries, token, b
      <4> QED
        BY <1>2, <2>2, <3>2, <4>1 DEF Carries, Successor, OnlyTab
    <3>3. ASSUME cookie[a].generation + 1 = families[cookie[a].family].generation
          PROVE  Successor(cookie[a]) \in Token
      <4>1. families[cookie[a].family].generation \in 0..MaxGeneration
        BY <1>1, <3>1, Constants DEF TypeOK, Family
      <4> QED
        BY <3>1, <3>3, <4>1, Constants DEF Successor, Token
    <3> QED
      BY <2>2, <3>2, <3>3 DEF IInv, CookieIsCurrent, Live
  <2> QED
    BY <1>3, <2>1, <2>2
<1>10. SessionInv'
  <2>1. SessionsMove(t)
    BY <1>1, <1>2, IdleEffect DEF SessionsMove, RequestInv, NoFaultSoFar
  <2> QED
    BY <1>1, <2>1, SameFamilies, SessionsStay DEF OnlyEnd
<1> QED
  BY <1>4, <1>5, <1>7, <1>8, <1>9, <1>10 DEF IInv, SessionInv

\* A token is its family and its generation.
LEMMA SameToken ==
    ASSUME NEW x \in Token, NEW y \in Token, x.family = y.family,
           x.generation = y.generation
    PROVE  x = y
  BY DEF Token

\* The script's single winner: its token is new, and nobody else's reply
\* carries a token of that family.
LEMMA RotatedStep ==
    ASSUME IInv, TypeOK', NEW t \in Tabs, tab[t].pc = "rotate", OnlyTab(t),
           UNCHANGED <<password, index, cookie>>, NoFaultSoFar' => NoFaultSoFar,
           NEW f \in Families, OnlyFamily(f), f = Presented(t), Live(f), Live(f)',
           tab[t].presented.generation = families[f].generation,
           families'[f].generation = families[f].generation + 1,
           families'[f].opened = families[f].opened, Missed(f) => Missed(f)',
           NEW token \in Token, token.family = f,
           token.generation = families[f].generation + 1,
           tab'[t].presented = tab[t].presented, tab'[t].pc \in {"lookup", "reply"},
           tab'[t].issued \in {token, NoToken}, NoFaultSoFar' => tab'[t].issued = token
    PROVE  IInv'
<1>1. /\ TypeOK /\ RequestInv(t) /\ tab[t].presented \in Token
      /\ tab[t].presented.family = f /\ tab[t].issued = NoToken
  BY TabFields DEF IInv, RequestInv, Presented
<1>2. ASSUME NEW u \in Tabs PROVE ~OfFamily(tab[u].issued, f)
  <2> SUFFICES ASSUME OfFamily(tab[u].issued, f) PROVE FALSE
    OBVIOUS
  <2>1. tab[u].issued \in Token /\ IssuedInv(u)
    BY <1>1, TabFields DEF IInv, OfFamily
  <2>2. tab[u].issued.generation = families[f].generation /\ tab[t].presented # tab[u].issued
    BY <2>1, Constants DEF IssuedInv, OfFamily
  <2> QED
    BY <1>1, <2>1, <2>2, SameToken DEF OfFamily
<1>3. ASSUME NEW h \in Families
      PROVE  /\ families'[h].state = families[h].state
             /\ families[h].generation \in Nat /\ families'[h].generation \in Nat
             /\ families'[h].generation >= families[h].generation
             /\ h # f => families'[h] = families[h]
  <2>1. families[h].generation \in Nat /\ families'[h].generation \in Nat
    BY <1>1, Constants DEF TypeOK, Family
  <2> QED
    BY <2>1 DEF OnlyFamily, Live
<1>4. ASSUME NEW x \in Token \cup {NoToken}, Known(x) PROVE Known(x)' /\ x # token
  BY <1>3, <1>4, Constants DEF Known
<1>5. /\ \A b \in Browsers : cookie[b] \in Token \cup {NoToken} /\ Known(cookie[b])
      /\ \A u \in Tabs : tab[u].presented \in Token \cup {NoToken} /\ Known(tab[u].presented)
      /\ \A u \in Tabs : tab[u].issued \in Token \cup {NoToken} /\ Known(tab[u].issued)
      /\ \A u \in Tabs \ {t} : tab'[u] = tab[u]
  BY <1>1, TabFields DEF IInv, KnownInv, TypeOK, OnlyTab
<1>6. KnownInv'
  <2>1. Known(token)' /\ Known(NoToken)'
    BY <1>3 DEF Known, Live
  <2>2. ASSUME NEW u \in Tabs PROVE (Known(tab[u].presented) /\ Known(tab[u].issued))'
    <3>1. /\ tab'[u].presented = tab[u].presented
          /\ tab'[u].issued \in {tab[u].issued, token, NoToken}
      BY <1>5
    <3>2. Known(tab[u].presented)'
      BY <1>4, <1>5, <3>1 DEF Known
    <3>3. Known(tab[u].issued)'
      BY <1>4, <1>5, <2>1, <3>1 DEF Known
    <3> QED
      BY <3>2, <3>3
  <2>3. ASSUME NEW b \in Browsers PROVE Known(cookie[b])'
    BY <1>4, <1>5 DEF Known
  <2> QED
    BY <2>2, <2>3 DEF KnownInv
<1>7. ASSUME NEW b \in Browsers, NEW h \in Families, HeldIn(b, h)' PROVE HeldIn(b, h)
  BY <1>1, <1>5, <1>7, Constants DEF HeldIn, OfFamily
<1>8. OneHome'
  BY <1>7 DEF IInv, OneHome
<1>9. ASSUME NEW u \in Tabs PROVE IssuedInv(u)'
  <2>1. \A v \in Tabs : tab'[v].presented = tab[v].presented
    BY <1>5
  <2>2. CASE u = t
    <3>1. ASSUME tab'[t].issued = token PROVE IssuedInv(t)'
      <4>1. \A b \in Browsers : cookie'[b] # token
        BY <1>4, <1>5
      <4>2. \A v \in Tabs : tab'[v].presented # token
        BY <1>4, <1>5, <2>1
      <4>3. \A v \in Tabs \ {t} : ~OfFamily(tab'[v].issued, f)
        BY <1>2, <1>5
      <4> QED
        BY <3>1, <4>1, <4>2, <4>3 DEF IssuedInv, OfFamily
    <3>2. ASSUME tab'[t].issued = NoToken PROVE IssuedInv(t)'
      BY <3>2 DEF IssuedInv
    <3> QED
      BY <2>2, <3>1, <3>2
  <2>3. ASSUME u # t, tab[u].issued # NoToken, Live(tab[u].issued.family) PROVE IssuedInv(u)'
    <3> DEFINE h == tab[u].issued.family
    <3>1. tab'[u] = tab[u] /\ IssuedInv(u) /\ h \in Families /\ h # f
      BY <1>2, <1>5, <2>3, Constants DEF IInv, OfFamily
    <3>2. \A v \in Tabs \ {u} : ~OfFamily(tab[v].issued, h)
      BY <2>3, <3>1 DEF IssuedInv
    <3>3. \A v \in Tabs \ {u} : ~OfFamily(tab'[v].issued, h)
      BY <1>5, <3>1, <3>2 DEF OfFamily
    <3>4. \A v \in Tabs : tab'[v].presented # tab[u].issued
      BY <2>1, <2>3, <3>1 DEF IssuedInv
    <3>5. /\ tab[u].issued.generation = families'[h].generation
          /\ \A b \in Browsers : cookie'[b] # tab[u].issued
      BY <1>3, <2>3, <3>1 DEF IssuedInv
    <3> QED
      BY <3>1, <3>3, <3>4, <3>5 DEF IssuedInv, OfFamily
  <2>4. ASSUME u # t, tab[u].issued = NoToken \/ ~Live(tab[u].issued.family)
        PROVE  IssuedInv(u)'
    BY <1>3, <1>5, <2>4, Constants DEF IssuedInv, Live
  <2> QED
    BY <2>2, <2>3, <2>4
<1>10. CookieIsCurrent'
  <2> SUFFICES ASSUME NoFaultSoFar', NEW b \in Browsers, cookie[b] # NoToken,
                      families'[cookie[b].family].state = "live"
               PROVE  \/ cookie[b].generation = families'[cookie[b].family].generation
                      \/ /\ cookie[b].generation + 1 = families'[cookie[b].family].generation
                         /\ \E u \in Tabs : Jar[u] = b /\ Carries(u, Successor(cookie[b]))'
    BY DEF CookieIsCurrent, Successor, Carries, Live, NoFaultSoFar
  <2> DEFINE h == cookie[b].family
  <2>1. cookie[b] \in Token /\ h \in Families /\ families[h].state = "live"
    BY <1>3, <1>5, Constants
  <2>2. \/ cookie[b].generation = families[h].generation
        \/ /\ cookie[b].generation + 1 = families[h].generation
           /\ \E u \in Tabs : Jar[u] = b /\ Carries(u, Successor(cookie[b]))
    BY <2>1 DEF IInv, CookieIsCurrent, Live
  <2>3. ASSUME NEW g, g = families[h].generation, cookie[b].generation + 1 = g \/ cookie[b].generation + 1 = families'[h].generation
        PROVE  Successor(cookie[b]) \in Token /\ Successor(cookie[b]).family = h
                 /\ Successor(cookie[b]).generation = cookie[b].generation + 1
    <3>1. g \in 0..MaxGeneration /\ families'[h].generation \in 0..MaxGeneration
      BY <2>1, <2>3, <1>1 DEF TypeOK, Family
    <3> QED
      BY <2>1, <2>3, <3>1, Constants DEF Successor, Token
  <2>4. CASE h = f
    <3>1. cookie[b].generation = families[f].generation
      <4>1. ASSUME cookie[b].generation + 1 = families[f].generation, NEW u \in Tabs,
                   Carries(u, Successor(cookie[b]))
            PROVE  FALSE
        BY <1>2, <2>3, <2>4, <4>1, Constants DEF Carries, OfFamily
      <4> QED
        BY <2>2, <2>4, <4>1
    <3>2. Successor(cookie[b]) = token
      BY <2>1, <2>3, <2>4, <3>1, SameToken
    <3>3. Jar[t] = b
      <4>1. HeldIn(b, f) /\ HeldIn(Jar[t], f)
        BY <1>1, <2>4, Constants DEF HeldIn, OfFamily
      <4> QED
        BY <4>1, Constants DEF IInv, OneHome
    <3>4. Carries(t, Successor(cookie[b]))'
      BY <3>2 DEF Carries, Successor
    <3> QED
      BY <2>4, <3>1, <3>3, <3>4
  <2>5. CASE h # f
    <3>1. ASSUME NEW u \in Tabs, Carries(u, Successor(cookie[b])),
                 Successor(cookie[b]) \in Token
          PROVE  Carries(u, Successor(cookie[b]))'
      <4>1. u # t
        BY <1>1, <3>1, Constants DEF Carries
      <4> QED
        BY <1>5, <3>1, <4>1 DEF Carries, Successor
    <3> QED
      BY <1>3, <2>1, <2>2, <2>3, <2>5, <3>1
  <2> QED
    BY <2>4, <2>5
<1>11. SessionInv'
  <2>1. NoneOpens
    BY <1>1, <1>3 DEF NoneOpens, OnlyFamily, Missed
  <2>2. SessionsMove(t)
    BY <1>1 DEF SessionsMove, RequestInv, Unraced, Live
  <2> QED
    BY <2>1, <2>2, SessionsStay
<1> QED
  BY <1>6, <1>8, <1>9, <1>10, <1>11 DEF IInv, SessionInv

\* What the script leaves of the families, by its outcome.
LEMMA ScriptEffect ==
    ASSUME IInv, NEW t \in Tabs, tab[t].pc = "rotate", NEW window,
           families' = AfterScript(t, window), Outcome(t) # "rotated"
    PROVE  /\ OnlyEnd /\ Outcome(t) \in {"unknown", "concurrent", "reused"}
           /\ Outcome(t) = "reused" => families'[Presented(t)].state = "gone"
<1>1. /\ TypeOK /\ Presented(t) \in Families
      /\ Outcome(t) \in {"unknown", "concurrent", "reused"}
  BY TabFields, Constants DEF IInv, RequestInv, Presented, Outcome
<1>2. CASE Outcome(t) = "reused"
  <2>1. Live(Presented(t)) /\ families' = [families EXCEPT ![Presented(t)] = Gone(Presented(t))]
    BY <1>2 DEF Outcome, AfterScript, Live, Presented
  <2> QED
    BY <1>1, <1>2, <2>1, EndEffect
<1>3. CASE Outcome(t) # "reused"
  <2>1. families' = families
    BY <1>1, <1>3 DEF AfterScript
  <2> QED
    BY <1>1, <1>3, <2>1, SameFamilies
<1> QED
  BY <1>2, <1>3

Rotated(family, g, window) ==
    [family EXCEPT !.state = "live", !.generation = g, !.inGrace = TRUE, !.window = window]

\* The fields of a rotated family.
LEMMA RotatedFamily ==
    ASSUME NEW family \in Family, NEW g \in 0..MaxGeneration,
           NEW window \in {"kept", "extended", "lapsed"}
    PROVE  /\ Rotated(family, g, window) \in Family
           /\ Rotated(family, g, window).state = "live"
           /\ Rotated(family, g, window).generation = g
           /\ Rotated(family, g, window).opened = family.opened
           /\ Rotated(family, g, window).raced = family.raced
           /\ Rotated(family, g, window).window = window
  BY DEF Family, Rotated

\* The script: one winner, a concurrent caller, reuse, or a family unknown.
LEMMA RotateStep == ASSUME IInv, NEW t \in Tabs, Rotate(t) PROVE IInv'
<1>1. /\ TypeOK /\ RequestInv(t) /\ tab[t].pc = "rotate" /\ tab[t].issued = NoToken
      /\ tab[t].presented \in Token /\ Presented(t) \in Families /\ index \subseteq Families
      /\ UNCHANGED <<password, index, cookie>>
  BY TabFields, Constants DEF IInv, RequestInv, Rotate, Presented, TypeOK
<1> PICK f \in Families : f = Presented(t)
  BY <1>1
<1> DEFINE next == [family |-> f, generation |-> families[f].generation + 1]
           answer(i) == tab' = [tab EXCEPT ![t] = [@ EXCEPT !.pc = "lookup", !.issued = i]]
<1>script. PICK window \in WindowsAfter(f) :
      \/ /\ families' = AfterScript(t, window)
         /\ \/ /\ Outcome(t) \in {"rotated", "concurrent"}
               /\ answer(IF Outcome(t) = "rotated" THEN next ELSE NoToken)
            \/ Outcome(t) = "reused" /\ Goto(t, "forget")
            \/ Outcome(t) = "unknown" /\ Reply(t, NoToken, TRUE)
         /\ NoFault
      \/ /\ families' \in {families, AfterScript(t, window)}
         /\ Reply(t, NoToken, TRUE)
         /\ CallFails
  <2>1. PICK window \in WindowsAfter(f) : TRUE
    BY DEF WindowsAfter
  <2> QED
    BY <2>1 DEF Rotate
<1>2. /\ NoFault \/ CallFails
      /\ faults' \in 0..MaxFaults /\ (NoFaultSoFar' => NoFaultSoFar /\ NoFault)
  <2>1. NoFault \/ CallFails
    BY DEF Rotate
  <2> QED
    BY <1>1, <2>1, Faults
<1>3. ASSUME NEW i \in Token \cup {NoToken}, answer(i)
      PROVE  /\ OnlyTab(t) /\ tab'[t].pc = "lookup" /\ tab'[t].issued = i
             /\ tab'[t].presented = tab[t].presented
  <2> DEFINE new == [tab[t] EXCEPT !.pc = "lookup", !.issued = i]
  <2>1. tab[t] \in Tab
    BY <1>1 DEF TypeOK
  <2>2. /\ new \in Tab /\ new.pc = "lookup" /\ new.issued = i
        /\ new.presented = tab[t].presented
    BY <2>1 DEF Tab, TabPCs
  <2>3. tab' = [tab EXCEPT ![t] = new]
    BY <1>3, <2>1
  <2> HIDE DEF new
  <2> QED
    BY <1>1, <2>2, <2>3, NewTab
<1>4. ASSUME Outcome(t) = "rotated", families' = AfterScript(t, window),
             \/ answer(next) /\ NoFault
             \/ Reply(t, NoToken, TRUE) /\ CallFails
      PROVE  IInv'
  <2> DEFINE new == Rotated(families[f], families[f].generation + 1, window)
  <2>1. /\ Live(f) /\ tab[t].presented.generation = families[f].generation
        /\ families' = [families EXCEPT ![f] = new]
        /\ families[f].generation < MaxGeneration
    BY <1>1, <1>4 DEF Outcome, AfterScript, Live, Presented, Rotate, TypeOK, Rotated
  <2>2. /\ families[f] \in Family /\ families[f].generation + 1 \in 1..MaxGeneration
        /\ families[f].generation + 1 \in 0..MaxGeneration
        /\ window \in {"kept", "extended", "lapsed"}
        /\ families[f].window = "lapsed" => window = "lapsed"
    BY <1>1, <2>1, Constants DEF TypeOK, Family, WindowsAfter
  <2>3. /\ new \in Family /\ new.state = "live" /\ new.opened = families[f].opened
        /\ new.raced = families[f].raced /\ new.window = window
        /\ new.generation = families[f].generation + 1
    <3> HIDE DEF answer, next
    <3>1. PICK g \in 0..MaxGeneration : g = families[f].generation + 1
      BY <2>2
    <3>2. new = Rotated(families[f], g, window)
      BY <3>1
    <3> HIDE DEF new
    <3>3. families[f] \in Family /\ window \in {"kept", "extended", "lapsed"}
      BY <2>2
    <3>4. /\ Rotated(families[f], g, window) \in Family
          /\ Rotated(families[f], g, window).state = "live"
          /\ Rotated(families[f], g, window).generation = g
          /\ Rotated(families[f], g, window).opened = families[f].opened
          /\ Rotated(families[f], g, window).raced = families[f].raced
          /\ Rotated(families[f], g, window).window = window
      BY <3>3, RotatedFamily
    <3> QED
      BY <3>1, <3>2, <3>4
  <2> HIDE DEF new
  <2>4. OnlyFamily(f) /\ families'[f] = new
    BY <1>1, <2>1, <2>3, NewFamily
  <2>5. next \in Token /\ next # NoToken
    BY <1>1, <2>2, TokenOf
  <2>6. next.family = f /\ next.generation = families[f].generation + 1
    OBVIOUS
  <2> HIDE DEF next
  <2>7. /\ OnlyTab(t) /\ tab'[t].pc \in {"lookup", "reply"}
        /\ tab'[t].issued \in {next, NoToken} /\ tab'[t].presented = tab[t].presented
        /\ NoFaultSoFar' => tab'[t].issued = next
    <3>1. CASE answer(next) /\ NoFault
      BY <1>3, <2>5, <3>1
    <3>2. CASE Reply(t, NoToken, TRUE) /\ CallFails
      <4>1. ~NoFaultSoFar'
        BY <1>1, <3>2, Constants DEF CallFails, NoFaultSoFar, TypeOK
      <4> QED
        BY <1>1, <3>2, <4>1, ReplyEffect
    <3> QED
      BY <1>4, <3>1, <3>2
  <2>8. TypeOK' /\ Live(f)' /\ (Missed(f) => Missed(f)')
    BY <1>1, <1>2, <2>2, <2>3, <2>4, <2>7 DEF TypeOK, OnlyTab, OnlyFamily, Live, Missed
  <2>9. tab[t].presented.generation = families[f].generation /\ f = Presented(t)
    BY <2>1
  <2> QED
    BY <1>1, <1>2, <2>1, <2>3, <2>4, <2>5, <2>6, <2>7, <2>8, <2>9, RotatedStep
<1>5. ASSUME Outcome(t) = "concurrent", families' = AfterScript(t, window), answer(NoToken), NoFault
      PROVE  IInv'
  <2>1. /\ OnlyTab(t) /\ tab'[t].pc = "lookup" /\ tab'[t].issued = NoToken
        /\ tab'[t].presented = tab[t].presented
    BY <1>3, <1>5
  <2>2. TokensMove(t)
    BY <1>1, <1>2, <2>1 DEF TokensMove
  <2>3. SessionsMove(t)
    BY <1>1, <1>2, <2>1 DEF SessionsMove, RequestInv
  <2> QED
    BY <1>1, <1>2, <1>5, <2>2, <2>3, ScriptEffect, QuietStep
<1>6. ASSUME Outcome(t) = "reused", families' = AfterScript(t, window), Goto(t, "forget"), NoFault
      PROVE  IInv'
  <2>1. /\ OnlyTab(t) /\ tab'[t].pc = "forget" /\ tab'[t].issued = NoToken
        /\ tab'[t].presented = tab[t].presented
    BY <1>1, <1>6, GotoEffect DEF TabPCs
  <2>2. OnlyEnd /\ families'[Presented(t)].state = "gone"
    BY <1>1, <1>6, ScriptEffect
  <2>3. TokensMove(t)
    BY <1>1, <1>2, <2>1 DEF TokensMove
  <2>4. SessionsMove(t)
    BY <1>1, <1>2, <2>1, <2>2, Constants DEF SessionsMove, RequestInv, Presented
  <2> QED
    BY <1>1, <1>2, <2>2, <2>3, <2>4, QuietStep
<1>7. ASSUME Outcome(t) = "unknown", families' = AfterScript(t, window), Reply(t, NoToken, TRUE), NoFault
      PROVE  IInv'
  <2>1. OnlyEnd
    BY <1>1, <1>7, ScriptEffect
  <2> QED
    BY <1>1, <1>7, <2>1, ReplyStep
<1>8. ASSUME families' = families \/ (families' = AfterScript(t, window) /\ Outcome(t) # "rotated"),
             Reply(t, NoToken, TRUE), CallFails
      PROVE  IInv'
  <2>1. OnlyEnd
    BY <1>1, <1>8, ScriptEffect, SameFamilies
  <2> QED
    BY <1>1, <1>8, <2>1, ReplyStep
<1>9. ASSUME families' = AfterScript(t, window), Outcome(t) \in {"rotated", "concurrent"},
             answer(IF Outcome(t) = "rotated" THEN next ELSE NoToken), NoFault
      PROVE  IInv'
  <2>1. CASE Outcome(t) = "rotated"
    <3>1. answer(next)
      BY <1>9, <2>1
    <3> QED
      BY <1>4, <1>9, <2>1, <3>1
  <2>2. CASE Outcome(t) = "concurrent"
    <3>1. answer(NoToken)
      BY <1>9, <2>2
    <3> QED
      BY <1>5, <1>9, <2>2, <3>1
  <2> QED
    BY <1>9, <2>1, <2>2
<1>10. ASSUME families' = families \/ families' = AfterScript(t, window),
              Reply(t, NoToken, TRUE), CallFails
       PROVE  IInv'
  <2>1. CASE families' = AfterScript(t, window) /\ Outcome(t) = "rotated"
    <3>1. \/ answer(next) /\ NoFault
          \/ Reply(t, NoToken, TRUE) /\ CallFails
      BY <1>10
    <3> HIDE DEF answer, next
    <3> QED
      BY <1>4, <2>1, <3>1, Zenon
  <2>2. CASE ~(families' = AfterScript(t, window) /\ Outcome(t) = "rotated")
    <3>1. families' = families \/ (families' = AfterScript(t, window) /\ Outcome(t) # "rotated")
      BY <1>10, <2>2
    <3> QED
      BY <1>8, <1>10, <3>1
  <2> QED
    BY <2>1, <2>2
<1> HIDE DEF answer, next
<1>11. CASE families' \in {families, AfterScript(t, window)} /\ Reply(t, NoToken, TRUE) /\ CallFails
  BY <1>10, <1>11
<1>12. ASSUME families' = AfterScript(t, window), NoFault,
              \/ /\ Outcome(t) \in {"rotated", "concurrent"}
                 /\ answer(IF Outcome(t) = "rotated" THEN next ELSE NoToken)
              \/ Outcome(t) = "reused" /\ Goto(t, "forget")
              \/ Outcome(t) = "unknown" /\ Reply(t, NoToken, TRUE)
       PROVE  IInv'
  BY <1>6, <1>7, <1>9, <1>12, Zenon
<1> QED
  BY <1>script, <1>11, <1>12, Zenon

-----------------------------------------------------------------------------
(* Steps that open a session.                                              *)

\* One family changes, and at most the windows of the others.
OpensOnly(f) ==
    /\ families' \in [Families -> Family]
    /\ \A g \in Families \ {f} :
         /\ families'[g].state = families[g].state
         /\ families'[g].generation = families[g].generation
         /\ families'[g].opened = families[g].opened
         /\ Missed(g) <=> Missed(g)'

\* A family nobody knew lives; unless a fault takes it, t's reply carries its
\* first token.
LEMMA OpenedStep ==
    ASSUME IInv, NEW t \in Tabs, tab[t].pc = "issue", OnlyTab(t),
           UNCHANGED <<password, cookie>>, faults' \in 0..MaxFaults,
           NoFaultSoFar' => NoFaultSoFar,
           NEW f \in Families, OpensOnly(f), families[f].state = "none",
           Live(f)', families'[f].generation = 1,
           families'[f].opened = tab[t].seen, Overtaken(t) => families'[f].raced,
           index' = index \cup {f},
           NEW token \in Token, token.family = f, token.generation = 1,
           tab'[t].presented = tab[t].presented, tab'[t].pc = "reply",
           tab'[t].issued \in {token, NoToken}
    PROVE  IInv'
<1>1. TypeOK /\ RequestInv(t) /\ tab[t].issued = NoToken
  BY DEF IInv, RequestInv
<1>2. /\ \A b \in Browsers : ~OfFamily(cookie[b], f)
      /\ \A u \in Tabs : ~OfFamily(tab[u].presented, f) /\ ~OfFamily(tab[u].issued, f)
  BY DEF IInv, KnownInv, Known, OfFamily
<1>3. /\ \A u \in Tabs \ {t} : tab'[u] = tab[u]
      /\ \A h \in Families \ {f} :
           /\ families'[h].state = families[h].state
           /\ families'[h].generation = families[h].generation
           /\ families'[h].opened = families[h].opened
           /\ Missed(h) <=> Missed(h)'
  BY DEF OnlyTab, OpensOnly
<1>4. TypeOK'
  BY <1>1 DEF TypeOK, OnlyTab, OpensOnly
<1>5. /\ \A b \in Browsers : cookie[b] \in Token \cup {NoToken} /\ Known(cookie[b])
      /\ \A u \in Tabs : tab[u].presented \in Token \cup {NoToken} /\ Known(tab[u].presented)
      /\ \A u \in Tabs : tab[u].issued \in Token \cup {NoToken} /\ Known(tab[u].issued)
  BY <1>1, TabFields DEF IInv, KnownInv, TypeOK
<1>6. KnownInv'
  <2>1. ASSUME NEW x \in Token \cup {NoToken}, Known(x), ~OfFamily(x, f) PROVE Known(x)'
    BY <1>3, <2>1, Constants DEF Known, OfFamily
  <2>2. Known(token)' /\ Known(NoToken)'
    BY DEF Known, Live
  <2>3. ASSUME NEW u \in Tabs PROVE (Known(tab[u].presented) /\ Known(tab[u].issued))'
    <3>1. /\ tab'[u].presented = tab[u].presented
          /\ tab'[u].issued \in {tab[u].issued, token, NoToken}
      BY <1>3
    <3>2. Known(tab[u].presented)'
      BY <1>2, <1>5, <2>1, <3>1 DEF Known
    <3>3. Known(tab[u].issued)'
      BY <1>2, <1>5, <2>1, <2>2, <3>1 DEF Known
    <3> QED
      BY <3>2, <3>3
  <2>4. ASSUME NEW b \in Browsers PROVE Known(cookie[b])'
    BY <1>2, <1>5, <2>1 DEF Known
  <2> QED
    BY <2>3, <2>4 DEF KnownInv
<1>7. OneHome'
  <2>1. ASSUME NEW b \in Browsers, NEW h \in Families \ {f}, HeldIn(b, h)' PROVE HeldIn(b, h)
    BY <1>1, <1>3, <2>1, Constants DEF HeldIn, OfFamily
  <2>2. ASSUME NEW b \in Browsers, HeldIn(b, f)' PROVE b = Jar[t]
    BY <1>2, <1>3, <2>2, Constants DEF HeldIn, OfFamily
  <2> QED
    BY <2>1, <2>2 DEF IInv, OneHome
<1>8. ASSUME NEW u \in Tabs PROVE IssuedInv(u)'
  <2>1. \A v \in Tabs : tab'[v].presented = tab[v].presented
    BY <1>3
  <2>2. CASE u = t
    <3>1. ASSUME tab'[t].issued = token PROVE IssuedInv(t)'
      <4>1. \A b \in Browsers : cookie'[b] # token
        BY <1>2, <1>5, Constants DEF OfFamily
      <4>2. \A v \in Tabs : tab'[v].presented # token
        BY <1>2, <1>5, <2>1, Constants DEF OfFamily
      <4>3. \A v \in Tabs \ {t} : ~OfFamily(tab'[v].issued, f)
        BY <1>2, <1>3
      <4> QED
        BY <3>1, <4>1, <4>2, <4>3 DEF IssuedInv, OfFamily
    <3>2. ASSUME tab'[t].issued = NoToken PROVE IssuedInv(t)'
      BY <3>2 DEF IssuedInv
    <3> QED
      BY <2>2, <3>1, <3>2
  <2>3. ASSUME u # t, tab[u].issued # NoToken, Live(tab[u].issued.family)
        PROVE  IssuedInv(u)'
    <3> DEFINE h == tab[u].issued.family
    <3>1. tab'[u] = tab[u] /\ IssuedInv(u) /\ h \in Families /\ h # f
      BY <1>2, <1>3, <1>5, <2>3, Constants DEF IInv, OfFamily
    <3>2. \A v \in Tabs \ {u} : ~OfFamily(tab[v].issued, h)
      BY <2>3, <3>1 DEF IssuedInv
    <3>3. \A v \in Tabs \ {u} : ~OfFamily(tab'[v].issued, h)
      BY <1>3, <3>1, <3>2 DEF OfFamily
    <3>4. \A v \in Tabs : tab'[v].presented # tab[u].issued
      BY <2>1, <2>3, <3>1 DEF IssuedInv
    <3>5. /\ tab[u].issued.generation = families'[h].generation
          /\ \A b \in Browsers : cookie'[b] # tab[u].issued
      BY <1>3, <2>3, <3>1 DEF IssuedInv
    <3> QED
      BY <3>1, <3>3, <3>4, <3>5 DEF IssuedInv, OfFamily
  <2>4. ASSUME u # t, tab[u].issued = NoToken \/ ~Live(tab[u].issued.family)
        PROVE  IssuedInv(u)'
    BY <1>2, <1>3, <1>5, <2>4, Constants DEF IssuedInv, Live, OfFamily
  <2> QED
    BY <2>2, <2>3, <2>4
<1>9. CookieIsCurrent'
  <2> SUFFICES ASSUME NoFaultSoFar', NEW b \in Browsers, cookie[b] # NoToken,
                      families'[cookie[b].family].state = "live"
               PROVE  \/ cookie[b].generation = families'[cookie[b].family].generation
                      \/ /\ cookie[b].generation + 1 = families'[cookie[b].family].generation
                         /\ \E u \in Tabs : Jar[u] = b /\ Carries(u, Successor(cookie[b]))'
    BY DEF CookieIsCurrent, Successor, Carries, Live, NoFaultSoFar
  <2>1. /\ cookie[b] \in Token /\ cookie[b].family \in Families
        /\ families'[cookie[b].family].state = families[cookie[b].family].state
        /\ families'[cookie[b].family].generation = families[cookie[b].family].generation
    BY <1>2, <1>3, <1>5, Constants DEF OfFamily
  <2>2. ASSUME NEW u \in Tabs, Carries(u, Successor(cookie[b])),
               Successor(cookie[b]) \in Token
        PROVE  Carries(u, Successor(cookie[b]))'
    <3>1. u # t
      BY <1>1, <2>2, Constants DEF Carries
    <3> QED
      BY <1>3, <2>2, <3>1 DEF Carries, Successor
  <2>3. ASSUME cookie[b].generation + 1 = families[cookie[b].family].generation
        PROVE  Successor(cookie[b]) \in Token
    <3>1. families[cookie[b].family].generation \in 0..MaxGeneration
      BY <1>1, <2>1 DEF TypeOK, Family
    <3> QED
      BY <2>1, <2>3, <3>1, Constants DEF Successor, Token
  <2> QED
    BY <2>1, <2>2, <2>3 DEF IInv, CookieIsCurrent, Live
<1>10. ASSUME NEW u \in Tabs PROVE RequestInv(u)'
  <2>1. CASE u = t
    BY <2>1 DEF RequestInv
  <2>2. CASE u # t
    <3>1. tab'[u] = tab[u] /\ RequestInv(u)
      BY <1>3, <2>2 DEF IInv
    <3>2. tab[u].pc = "forget" => families'[Presented(u)].state = families[Presented(u)].state
      BY <1>3, <1>5, <3>1, Constants DEF RequestInv, Presented
    <3>3. tab[u].pc = "revoke" =>
            \A g \in Families \ tab[u].found : Live(g)' => Missed(g)'
      <4> SUFFICES ASSUME tab[u].pc = "revoke", NEW g \in Families \ tab[u].found, Live(g)'
                   PROVE  Missed(g)'
        OBVIOUS
      <4>1. CASE g = f
        BY <4>1 DEF Overtaken, Missed
      <4>2. CASE g # f
        BY <1>3, <3>1, <4>2 DEF RequestInv, Live
      <4> QED
        BY <4>1, <4>2
    <3> QED
      BY <3>1, <3>2, <3>3 DEF RequestInv, Presented, Live
  <2> QED
    BY <2>1, <2>2
<1>11. OldSessionsEnd'
  <2> SUFFICES ASSUME NEW g \in Families, Live(g)', ~Missed(g)'
               PROVE  /\ g \in index'
                      /\ NoFaultSoFar' /\ (\A u \in Tabs : tab'[u].pc \notin {"members", "revoke"})
                           => families'[g].opened = password'
    BY DEF OldSessionsEnd
  <2>1. (\A u \in Tabs : tab'[u].pc \notin {"members", "revoke"}) =>
           \A u \in Tabs : tab[u].pc \notin {"members", "revoke"}
    BY <1>3
  <2>2. CASE g = f
    BY <2>2 DEF Overtaken, Missed
  <2>3. CASE g # f
    BY <1>3, <2>1, <2>3 DEF IInv, OldSessionsEnd, Live
  <2> QED
    BY <2>2, <2>3
<1> QED
  BY <1>4, <1>6, <1>7, <1>8, <1>9, <1>10, <1>11 DEF IInv

\* A login ends with a family and its token, with a family alone, or with
\* neither.
LEMMA IssueStep == ASSUME IInv, NEW t \in Tabs, Issue(t) PROVE IInv'
<1>1. /\ TypeOK /\ RequestInv(t) /\ tab[t].pc = "issue" /\ tab[t].issued = NoToken
      /\ tab[t].seen \in 0..MaxChanges /\ index \subseteq Families
      /\ UNCHANGED <<password, cookie>>
  BY TabFields DEF IInv, Issue, RequestInv, TypeOK
<1> DEFINE new == [state |-> "live", generation |-> 1, inGrace |-> FALSE,
                   window |-> "kept", opened |-> tab[t].seen, raced |-> Overtaken(t)]
           opened(f) == [g \in Families |->
              IF g # f THEN [families[g] EXCEPT !.window = Covered(g)] ELSE new]
<1>2. PICK f \in Families :
         /\ families[f].state = "none"
         /\ \/ /\ families' = opened(f) /\ index' = IndexWith(f)
               /\ \/ Reply(t, [family |-> f, generation |-> 1], FALSE) /\ NoFault
                  \/ Reply(t, NoToken, FALSE) /\ CallFails
            \/ families' = families /\ index' = index /\ Reply(t, NoToken, FALSE) /\ CallFails
  BY DEF Issue
<1>3. CASE families' = families /\ index' = index /\ Reply(t, NoToken, FALSE) /\ CallFails
  BY <1>1, <1>3, SameFamilies, ReplyStep
<1>4. ASSUME families' = opened(f), index' = IndexWith(f),
             \/ Reply(t, [family |-> f, generation |-> 1], FALSE) /\ NoFault
             \/ Reply(t, NoToken, FALSE) /\ CallFails
      PROVE  IInv'
  <2>1. /\ new \in Family /\ new.state = "live" /\ new.generation = 1
        /\ new.opened = tab[t].seen /\ new.raced = Overtaken(t)
    BY <1>1, Constants, ConstantsAssumption DEF Family, Overtaken
  <2> HIDE DEF new
  <2>2. OpensOnly(f) /\ families'[f] = new
    <3>1. ASSUME NEW g \in Families \ {f}
          PROVE  /\ families'[g] \in Family
                 /\ families'[g].state = families[g].state
                 /\ families'[g].generation = families[g].generation
                 /\ families'[g].opened = families[g].opened
                 /\ Missed(g) <=> Missed(g)'
      <4> DEFINE other == [families[g] EXCEPT !.window = Covered(g)]
      <4>1. families[g] \in Family /\ Covered(g) \in {"kept", "extended", "lapsed"}
            /\ (Covered(g) = "lapsed" <=> families[g].window = "lapsed")
        BY <1>1 DEF TypeOK, Family, Covered
      <4>2. /\ other \in Family /\ other.state = families[g].state
            /\ other.generation = families[g].generation
            /\ other.opened = families[g].opened
            /\ other.raced = families[g].raced /\ other.window = Covered(g)
        BY <4>1 DEF Family
      <4>3. families'[g] = other
        BY <1>4
      <4> HIDE DEF other
      <4> QED
        BY <4>1, <4>2, <4>3 DEF Missed
    <3>2. families'[f] = new /\ families' = [g \in Families |-> families'[g]]
      BY <1>4
    <3> HIDE DEF opened
    <3>3. families' \in [Families -> Family]
      BY <2>1, <3>1, <3>2
    <3> QED
      BY <3>1, <3>2, <3>3 DEF OpensOnly
  <2> HIDE DEF opened
  <2>3. PICK token \in Token : token.family = f /\ token.generation = 1
                                 /\ token = [family |-> f, generation |-> 1]
    <3>1. 1 \in 1..MaxGeneration
      BY ConstantsAssumption
    <3>2. [family |-> f, generation |-> 1] \in Token
      BY <3>1, TokenOf
    <3> QED
      BY <3>2
  <2>4. \/ Reply(t, token, FALSE) /\ NoFault
        \/ Reply(t, NoToken, FALSE) /\ CallFails
    BY <1>4, <2>3
  <2>5. faults' \in 0..MaxFaults /\ (NoFaultSoFar' => NoFaultSoFar)
    BY <1>1, <2>4, Faults
  <2>6. /\ OnlyTab(t) /\ tab'[t].pc = "reply" /\ tab'[t].presented = tab[t].presented
        /\ tab'[t].issued \in {token, NoToken}
    BY <1>1, <2>4, ReplyEffect
  <2>7. Live(f)' /\ (Overtaken(t) => families'[f].raced)
    BY <2>1, <2>2 DEF Live
  <2>8. index' = index \cup {f}
    BY <1>4 DEF IndexWith
  <2> QED
    BY <1>1, <1>2, <2>1, <2>2, <2>3, <2>5, <2>6, <2>7, <2>8, OpenedStep
<1> QED
  BY <1>2, <1>3, <1>4

-----------------------------------------------------------------------------
(* The theorems.                                                           *)

\* Nobody is logged in at first.
LEMMA InitialState == ASSUME Init PROVE IInv
<1>1. TypeOK
  BY Constants, IdleEffect DEF Init, TypeOK, Family
<1>2. \A t \in Tabs : RequestInv(t) /\ IssuedInv(t)
  BY IdleEffect DEF Init, RequestInv, IssuedInv
<1>3. KnownInv /\ OneHome
  BY IdleEffect DEF Init, KnownInv, Known, OneHome, HeldIn, OfFamily
<1>4. CookieIsCurrent /\ OldSessionsEnd
  BY DEF Init, CookieIsCurrent, OldSessionsEnd, Live
<1> QED
  BY <1>1, <1>2, <1>3, <1>4 DEF IInv

\* Every step preserves the inductive invariant.
LEMMA InductiveStep == ASSUME IInv, [Next]_vars PROVE IInv'
<1>1. ASSUME NEW t \in Tabs,
             \/ Refresh(t) \/ Rotate(t) \/ Forget(t) \/ Lookup(t)
             \/ Login(t) \/ Issue(t)
             \/ Logout(t) \/ GetFamily(t) \/ ExecRevoke(t)
             \/ ChangePassword(t) \/ UpdateHash(t) \/ ReadIndex(t) \/ RevokeAll(t)
             \/ Deliver(t) \/ Lose(t)
      PROVE  IInv'
  BY <1>1, BeginSteps, RotateStep, ForgetStep, LookupStep, IssueStep, GetFamilyStep,
     ExecRevokeStep, UpdateHashStep, ReadIndexStep, RevokeAllStep, DeliverStep, LoseStep
<1>2. ASSUME NEW f \in Families, GraceEnds(f) \/ FamilyExpires(f) PROVE IInv'
  BY <1>2, ClockStep
<1>3. CASE UNCHANGED vars
  BY <1>3 DEF vars, IInv, TypeOK, RequestInv, KnownInv, Known, OneHome, HeldIn, OfFamily,
     IssuedInv, CookieIsCurrent, OldSessionsEnd, Live, Missed, Presented, NoFaultSoFar,
     Carries, Successor
<1> QED
  BY <1>1, <1>2, <1>3, IndexExpiresStep DEF Next

\* The inductive invariant holds in every reachable state, for any number of
\* tabs, browsers and families and any bounds.
THEOREM Inductive == Spec => []IInv
  BY InitialState, InductiveStep, PTL DEF Spec

\* The cookie that the tabs of a browser share never falls behind its family
\* by more than a reply on its way (ROTATE_SCRIPT, auth.controller.ts refresh).
THEOREM CookieStaysCurrent == Spec => []CookieIsCurrent
<1>1. IInv => CookieIsCurrent
  BY DEF IInv
<1> QED
  BY <1>1, Inductive, PTL

\* A change of password that ran to its end ended every session opened with an
\* earlier one, save those whose login it overtook and those that were refreshed
\* past the end of the index (issue, ROTATE_SCRIPT, revokeAllForUser).
THEOREM PasswordChangeEndsSessions == Spec => []OldSessionsEnd
<1>1. IInv => OldSessionsEnd
  BY DEF IInv
<1> QED
  BY <1>1, Inductive, PTL

\* No step revives a family that is gone: the script writes a family only
\* when it found it, and login only one that was never used.
LEMMA GoneStep ==
    ASSUME IInv, Next, NEW f \in Families, families[f].state = "gone"
    PROVE  families'[f].state = "gone"
<1> DEFINE stays == families'[f] = families[f]
<1>1. TypeOK /\ families[f] \in Family
  BY DEF IInv, TypeOK
<1>2. ASSUME NEW g \in Families, families' = [families EXCEPT ![g] = Gone(g)]
      PROVE  families'[f].state = "gone"
  BY <1>1, <1>2, GoneEffect DEF TypeOK
<1>3. ASSUME NEW fs, families' = Deleted(fs) PROVE stays
  BY <1>3 DEF Deleted, Live
<1>4. ASSUME NEW t \in Tabs, Rotate(t) PROVE families'[f].state = "gone"
  <2>1. Presented(t) \in Families
    BY <1>1, <1>4, TabFields, Constants DEF IInv, RequestInv, Rotate, Presented
  <2>2. PICK window : families' = families \/ families' = AfterScript(t, window)
    BY <1>4 DEF Rotate
  <2>3. CASE families' = AfterScript(t, window) /\ Outcome(t) = "rotated"
    <3>1. Presented(t) # f
      BY <2>3 DEF Outcome, Presented
    <3>2. families' = [families EXCEPT ![Presented(t)] =
                          Rotated(families[Presented(t)], families[Presented(t)].generation + 1,
                                  window)]
      BY <1>1, <2>1, <2>3 DEF AfterScript, Rotated, TypeOK
    <3> QED
      BY <1>1, <3>1, <3>2 DEF TypeOK
  <2>4. CASE families' = AfterScript(t, window) /\ Outcome(t) = "reused"
    BY <1>2, <2>1, <2>4 DEF AfterScript
  <2>5. CASE families' = families
    BY <2>5
  <2>6. CASE families' = AfterScript(t, window) /\ Outcome(t) \notin {"rotated", "reused"}
    BY <2>6 DEF AfterScript
  <2> QED
    BY <2>2, <2>3, <2>4, <2>5, <2>6
<1>5. ASSUME NEW t \in Tabs, Issue(t) PROVE families'[f].state = "gone"
  <2>1. \/ families' = families
        \/ families'[f] = [families[f] EXCEPT !.window = Covered(f)]
    BY <1>5 DEF Issue
  <2> QED
    BY <1>1, <2>1 DEF Family
<1>6. ASSUME NEW g \in Families, GraceEnds(g) PROVE families'[f].state = "gone"
  BY <1>1, <1>6 DEF GraceEnds, TypeOK, Family
<1>7. ASSUME NEW g \in Families, FamilyExpires(g) PROVE families'[f].state = "gone"
  BY <1>2, <1>7 DEF FamilyExpires
<1>8. ASSUME NEW t \in Tabs, ExecRevoke(t) PROVE stays
  BY <1>3, <1>8 DEF ExecRevoke
<1>9. ASSUME NEW t \in Tabs, RevokeAll(t) PROVE stays
  BY <1>3, <1>9 DEF RevokeAll, FamiliesAfterRevoke
<1>10. ASSUME NEW t \in Tabs,
              \/ Refresh(t) \/ Forget(t) \/ Lookup(t) \/ Login(t) \/ Logout(t)
              \/ GetFamily(t) \/ ChangePassword(t) \/ UpdateHash(t) \/ ReadIndex(t)
              \/ Deliver(t) \/ Lose(t)
       PROVE  stays
  BY <1>10 DEF Refresh, Forget, Lookup, Login, Logout, GetFamily, ChangePassword,
     UpdateHash, ReadIndex, Deliver, Lose
<1>11. ASSUME IndexExpires PROVE stays
  BY <1>11 DEF IndexExpires, Live
<1> QED
  BY <1>4, <1>5, <1>6, <1>7, <1>8, <1>9, <1>10, <1>11 DEF Next

\* A revoked, logged out or expired family never lives again (ROTATE_SCRIPT).
THEOREM GoneIsFinal == Spec => GoneStaysGone
<1>1. IInv /\ [Next]_vars =>
        [\A f \in Families : families[f].state = "gone" => families'[f].state = "gone"]_vars
  BY GoneStep
<1> QED
  BY <1>1, Inductive, PTL DEF Spec, GoneStaysGone
=============================================================================
