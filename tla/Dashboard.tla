------------------------------ MODULE Dashboard ------------------------------
(***************************************************************************)
(* One tab of the dashboard: the access token that only the module scope   *)
(* of lib/api.ts holds, the exchange of the refresh cookie its callers     *)
(* share, the signed-in user of auth-provider.tsx, the sign-in form, and   *)
(* the playground, whose previews are abandoned as their input changes.    *)
(*                                                                         *)
(* What the api does with the cookie is Sessions: here an exchange works   *)
(* or fails.  Access tokens are numbered in the order they arrive, and     *)
(* expire in that order.  The tab has one thread: what awaits a settled    *)
(* promise runs before the next task.                                      *)
(***************************************************************************)
EXTENDS Naturals

CONSTANTS
    Calls,         \* requests of the tab
    NoCall,
    MaxExchanges,  \* bound on uses of the cookie
    MaxTokens,     \* bound on access tokens issued
    MaxInputs      \* bound on the inputs of the playground

ASSUME ConstantsAssumption ==
    /\ NoCall \notin Calls
    /\ {MaxExchanges, MaxTokens, MaxInputs} \subseteq Nat \ {0}

VARIABLES
    issued,       \* access tokens that have arrived
    expired,      \* and how many of them are past their 15 minutes
    accessToken,  \* the module's variable, 0 for null
    exchange,     \* every use of the cookie
    inFlight,     \* inFlightRefresh: the exchange callers join, 0 for null
    signedIn,     \* user is not null
    loading,
    call,         \* every request, with the caller that awaits it
    pane          \* the playground

session == <<issued, expired, accessToken>>
vars == <<session, exchange, inFlight, signedIn, loading, call, pane>>

Blank == 0
Exchanges == 1..MaxExchanges

\* carried and refused are the tokens of the last and of the first attempt.
Call == [pc : {"idle", "sent", "waiting", "again", "done"},
         kind : {"none", "login", "logout", "preview", "seed", "save"},
         carried : 0..MaxTokens, refused : 0..MaxTokens, joined : 0..MaxExchanges,
         input : 0..MaxInputs, aborted : BOOLEAN]

\* The values html, options and watermark take together are numbered, with 0
\* for an empty editor.  request is the preview whose controller is in use.
Pane == [mounted : BOOLEAN, input : 0..MaxInputs, inputs : 0..MaxInputs, timer : BOOLEAN,
         request : Calls \cup {NoCall}, rendering : BOOLEAN,
         preview : 0..MaxInputs, failed : BOOLEAN, saving : BOOLEAN]

TypeOK ==
    /\ issued \in 0..MaxTokens /\ expired \in 0..issued /\ accessToken \in 0..issued
    /\ exchange \in [Exchanges -> {"none", "sent", "ok", "refused", "lost"}]
    /\ inFlight \in {0} \cup Exchanges
    /\ {signedIn, loading} \subseteq BOOLEAN
    /\ call \in [Calls -> Call]
    /\ pane \in Pane

NewCall == [pc |-> "idle", kind |-> "none", carried |-> 0, refused |-> 0, joined |-> 0,
            input |-> Blank, aborted |-> FALSE]
DoneCall == [NewCall EXCEPT !.pc = "done"]

NoPane == [mounted |-> FALSE, input |-> Blank, inputs |-> 0, timer |-> FALSE,
           request |-> NoCall, rendering |-> FALSE, preview |-> Blank, failed |-> FALSE,
           saving |-> FALSE]

\* The tab has been loaded: memory is empty, and AuthProvider's effect has
\* used the cookie.
Init ==
    /\ issued = 0 /\ expired = 0 /\ accessToken = 0
    /\ exchange = [n \in Exchanges |-> IF n = 1 THEN "sent" ELSE "none"]
    /\ inFlight = 1
    /\ signedIn = FALSE /\ loading = TRUE
    /\ call = [k \in Calls |-> NewCall]
    /\ pane = NoPane

-----------------------------------------------------------------------------
Open(k) == call[k].pc \in {"sent", "waiting", "again"}
Busy(kind) == \E k \in Calls : Open(k) /\ call[k].kind = kind

\* What awaits a settled promise.
Resumable(k) == call[k].pc = "waiting" /\ exchange[call[k].joined] # "sent"
Settled == \A k \in Calls : ~Resumable(k)

Sent(kind, input) ==
    [NewCall EXCEPT !.pc = "sent", !.kind = kind, !.carried = accessToken, !.input = input]

\* The fetch of an aborted controller rejects, unless it waits for an
\* exchange: its retry does then.
Abandoned(calls) ==
    [k \in Calls |->
       IF k # pane.request THEN calls[k]
       ELSE IF calls[k].pc = "waiting" THEN [calls[k] EXCEPT !.aborted = TRUE]
       ELSE DoneCall]

\* What a page leaves behind goes on, and is ignored.
Unmounted(calls) ==
    [k \in Calls |->
       IF calls[k].kind \in {"seed", "save"} THEN [calls[k] EXCEPT !.aborted = TRUE]
       ELSE Abandoned(calls)[k]]

\* Without a user the shell unmounts the page.
SignOut(calls) ==
    /\ signedIn' = FALSE
    /\ pane' = NoPane
    /\ call' = Unmounted(calls)

TokenExpires ==
    /\ expired < issued
    /\ expired' = expired + 1
    /\ UNCHANGED <<issued, accessToken, exchange, inFlight, signedIn, loading, call, pane>>

-----------------------------------------------------------------------------
(* auth-form.tsx, auth-provider.tsx and the shell's button.                *)

\* The form is there while nobody is signed in, also while the first exchange
\* is in flight; it is disabled while it is pending.
SubmitLogin(k) ==
    /\ call[k].pc = "idle" /\ ~signedIn /\ ~Busy("login")
    /\ call' = [call EXCEPT ![k] = Sent("login", Blank)]
    /\ UNCHANGED <<session, exchange, inFlight, signedIn, loading, pane>>

Logout(k) ==
    /\ call[k].pc = "idle" /\ signedIn /\ ~loading
    /\ call' = [call EXCEPT ![k] = Sent("logout", Blank)]
    /\ UNCHANGED <<session, exchange, inFlight, signedIn, loading, pane>>

-----------------------------------------------------------------------------
(* playground/page.tsx.                                                    *)

\* The first effects: a debounced preview, and the settings of a document.
OpenPlayground(k) ==
    /\ signedIn /\ ~loading /\ ~pane.mounted /\ call[k].pc = "idle"
    /\ pane' = [NoPane EXCEPT !.mounted = TRUE, !.input = 1, !.inputs = 1, !.timer = TRUE]
    /\ \/ call' = [call EXCEPT ![k] = Sent("seed", Blank)]
       \/ UNCHANGED call
    /\ UNCHANGED <<session, exchange, inFlight, signedIn, loading>>

ClosePlayground ==
    /\ pane.mounted
    /\ pane' = NoPane
    /\ call' = Unmounted(call)
    /\ UNCHANGED <<session, exchange, inFlight, signedIn, loading>>

\* Mutant: the preview in flight is left alone.
KeepsRequest(calls) == calls

\* The cleanup of the last effect.
Cleanup(calls) == Abandoned(calls)

\* The effect of a new input: a timer, unless the editor is empty.
WithInput(p, input) ==
    [p EXCEPT !.input = input, !.inputs = @ + 1, !.timer = input # Blank, !.request = NoCall]

Edit ==
    \E input \in {Blank, pane.inputs + 1} :
      /\ pane.mounted /\ pane.inputs < MaxInputs /\ input # pane.input
      /\ pane' = WithInput(pane, input)
      /\ call' = Cleanup(call)
      /\ UNCHANGED <<session, exchange, inFlight, signedIn, loading>>

\* DEBOUNCE_MS later.
Preview(k) ==
    /\ pane.timer /\ call[k].pc = "idle"
    /\ call' = [call EXCEPT ![k] = Sent("preview", pane.input)]
    /\ pane' = [pane EXCEPT !.timer = FALSE, !.request = k, !.rendering = TRUE, !.failed = FALSE]
    /\ UNCHANGED <<session, exchange, inFlight, signedIn, loading>>

Save(k) ==
    /\ pane.mounted /\ ~pane.saving /\ pane.input # Blank /\ call[k].pc = "idle"
    /\ call' = [call EXCEPT ![k] = Sent("save", Blank)]
    /\ pane' = [pane EXCEPT !.saving = TRUE, !.failed = FALSE]
    /\ UNCHANGED <<session, exchange, inFlight, signedIn, loading>>

-----------------------------------------------------------------------------
(* What becomes of an answer: adopt, logout, and the page's handlers.      *)

Finished(k) == [call EXCEPT ![k] = DoneCall]
PaneOnly == UNCHANGED <<issued, accessToken, signedIn>>

LoginAnswers(k, ok) ==
    IF ok
    THEN /\ issued < MaxTokens
         /\ issued' = issued + 1 /\ accessToken' = issued + 1
         /\ signedIn' = TRUE
         /\ call' = Finished(k) /\ UNCHANGED pane
    ELSE PaneOnly /\ call' = Finished(k) /\ UNCHANGED pane

\* logout swallows an error.
LogoutAnswers(k) ==
    /\ accessToken' = 0
    /\ SignOut(Finished(k))
    /\ UNCHANGED issued

PreviewAnswers(k, ok) ==
    /\ PaneOnly
    /\ call' = Finished(k)
    /\ LET answered == [pane EXCEPT !.rendering = FALSE,
                                   !.request = IF @ = k THEN NoCall ELSE @]
       IN  pane' = IF call[k].aborted THEN pane
                   ELSE IF ok THEN [answered EXCEPT !.preview = call[k].input]
                   ELSE [answered EXCEPT !.failed = TRUE]

\* The settings of the document replace those on the page, or nothing happens.
SeedAnswers(k, ok) ==
    /\ PaneOnly
    /\ IF ok /\ ~call[k].aborted
       THEN /\ pane.inputs < MaxInputs
            /\ pane' = WithInput(pane, IF pane.input = Blank THEN Blank ELSE pane.inputs + 1)
            /\ call' = Cleanup(Finished(k))
       ELSE call' = Finished(k) /\ UNCHANGED pane

\* A saved document is opened.
SaveAnswers(k, ok) ==
    /\ PaneOnly
    /\ IF call[k].aborted THEN call' = Finished(k) /\ UNCHANGED pane
       ELSE IF ok THEN pane' = NoPane /\ call' = Unmounted(Finished(k))
       ELSE /\ pane' = [pane EXCEPT !.saving = FALSE, !.failed = TRUE]
            /\ call' = Finished(k)

Answers(k, ok) ==
    /\ \/ call[k].kind = "login" /\ LoginAnswers(k, ok)
       \/ call[k].kind = "logout" /\ LogoutAnswers(k)
       \/ call[k].kind = "preview" /\ PreviewAnswers(k, ok)
       \/ call[k].kind = "seed" /\ SeedAnswers(k, ok)
       \/ call[k].kind = "save" /\ SaveAnswers(k, ok)
    /\ UNCHANGED <<expired, loading>>

-----------------------------------------------------------------------------
(* authedFetch and refreshSession.                                         *)

\* The routes of auth/ look at no token; login answers 401 to a password.
Public(k) == call[k].kind \in {"login", "logout"}
Accepted(k) == Public(k) \/ call[k].carried > expired
MayRefuse(k) == call[k].kind = "login" \/ ~Accepted(k)

\* Answered, whatever the attempt; or an error that is not a 401.
Answer(k) ==
    /\ call[k].pc \in {"sent", "again"}
    /\ \/ Accepted(k) /\ Answers(k, TRUE)
       \/ Answers(k, FALSE)
    /\ UNCHANGED <<exchange, inFlight>>

\* Mutant: every caller uses the cookie itself.
NeverJoins == FALSE

\* There is one in flight to join.
Joins == inFlight # 0

\* A 401, and this module has a token: refreshSession, once.
Refuse(k) ==
    /\ call[k].pc = "sent" /\ MayRefuse(k) /\ accessToken # 0
    /\ \E n \in Exchanges :
         /\ IF Joins THEN n = inFlight /\ UNCHANGED <<exchange, inFlight>>
            ELSE /\ exchange[n] = "none" /\ \A m \in Exchanges : m < n => exchange[m] # "none"
                 /\ exchange' = [exchange EXCEPT ![n] = "sent"]
                 /\ inFlight' = n
         /\ call' = [call EXCEPT ![k] = [@ EXCEPT !.pc = "waiting", !.joined = n]]
    /\ UNCHANGED <<session, signedIn, loading, pane>>

\* Mutant: inFlightRefresh is not reset.
StaysInFlight(n) == inFlight

\* The finally.
InFlightAfter(n) == IF inFlight = n THEN 0 ELSE inFlight

\* exchangeRefreshCookie: a session, a refusal, or a rejection.  AuthProvider
\* awaits the first one.
Settle(n) ==
    /\ exchange[n] = "sent"
    /\ inFlight' = InFlightAfter(n)
    /\ loading' = (loading /\ n # 1)
    /\ UNCHANGED expired
    /\ \/ /\ issued < MaxTokens
          /\ exchange' = [exchange EXCEPT ![n] = "ok"]
          /\ issued' = issued + 1 /\ accessToken' = issued + 1
          /\ signedIn' = (signedIn \/ n = 1)
          /\ UNCHANGED <<call, pane>>
       \/ /\ exchange' = [exchange EXCEPT ![n] = "refused"]
          /\ accessToken' = 0
          /\ IF n = 1 THEN SignOut(call) ELSE UNCHANGED <<signedIn, call, pane>>
          /\ UNCHANGED issued
       \/ /\ exchange' = [exchange EXCEPT ![n] = "lost"]
          /\ UNCHANGED <<issued, accessToken, signedIn, call, pane>>

\* The caller sends its request again, or hears of the 401.
Resume(k) ==
    /\ Resumable(k)
    /\ IF exchange[call[k].joined] = "ok" /\ ~(call[k].kind = "preview" /\ call[k].aborted)
       THEN /\ call' = [call EXCEPT ![k] = [@ EXCEPT !.pc = "again", !.refused = call[k].carried,
                                                    !.carried = accessToken]]
            /\ UNCHANGED <<session, signedIn, loading, pane>>
       ELSE Answers(k, FALSE)
    /\ UNCHANGED <<exchange, inFlight>>

-----------------------------------------------------------------------------
Task ==
    \/ \E k \in Calls : \/ SubmitLogin(k) \/ Logout(k) \/ OpenPlayground(k) \/ Preview(k)
                       \/ Save(k) \/ Answer(k) \/ Refuse(k)
    \/ \E n \in Exchanges : Settle(n)
    \/ ClosePlayground \/ Edit \/ TokenExpires

Next == (Settled /\ Task) \/ \E k \in Calls : Resume(k)

Spec == Init /\ [][Next]_vars

-----------------------------------------------------------------------------
\* A tab never has two exchanges of its cookie in flight, however a mount
\* effect, a sign-in and several refused requests overlap: the api would take
\* the second for a replayed token (lib/api.ts:77-85).
ExchangesDoNotOverlap ==
    \A n, m \in Exchanges : exchange[n] = "sent" /\ exchange[m] = "sent" => n = m

\* A request that was refused is sent again with another token, so the retry
\* of an expired session cannot be refused for the same reason.
RetryCarriesNewToken ==
    \A k \in Calls : call[k].pc = "again" => call[k].carried # call[k].refused

\* When the playground rests (no timer, no request, no error shown and no save
\* that hid one) and its editor holds something, the preview is of what it holds
\* and nothing spins, although answers arrive in any order and settings are
\* replaced meanwhile.  An editor that was emptied is the exception: the effect
\* returns before it asks for anything (page.tsx:140), so the old preview stays.
PreviewIsOfTheInput ==
    pane.mounted /\ pane.input # Blank /\ ~pane.timer /\ pane.request = NoCall
      /\ ~pane.failed /\ ~pane.saving
    => pane.preview = pane.input /\ ~pane.rendering

\* What one would expect of that exception, and a run refutes: emptying the
\* editor while a preview is on its way aborts it, and only an abort that is
\* followed by another preview ends the spinner (page.tsx:140, 162).
EmptiedEditorRests ==
    pane.mounted /\ pane.input = Blank /\ pane.request = NoCall /\ ~pane.saving
    => ~pane.rendering

-----------------------------------------------------------------------------
(* What makes the first two inductive (DashboardProofs).                   *)

ExchangeStates == {"none", "sent", "ok", "refused", "lost"}

\* inFlightRefresh is the exchange in flight, if there is one.
ShareInv ==
    /\ exchange \in [Exchanges -> ExchangeStates]
    /\ inFlight \in {0} \cup Exchanges
    /\ \A n \in Exchanges : exchange[n] = "sent" => n = inFlight

\* inFlightRefresh is dropped when its exchange has settled.
FlightInv == inFlight # 0 => exchange[inFlight] = "sent"

CallFields == DOMAIN NewCall

\* Records with the fields of NewCall, read as functions.
CallsShape(calls) ==
    /\ calls = [k \in Calls |-> calls[k]]
    /\ \A k \in Calls : calls[k] = [f \in CallFields |-> calls[k][f]]

\* A caller that waits carries an older token than the exchange it joined
\* brings; logout, whose route looks at no token, never waits.
RetryInv(k) ==
    /\ Open(k) => call[k].carried \in 0..issued
    /\ call[k].pc = "waiting" =>
         /\ call[k].kind # "logout" /\ call[k].joined \in Exchanges
         /\ exchange[call[k].joined] = "ok" => call[k].carried < accessToken
    /\ call[k].pc = "again" => call[k].carried # call[k].refused

IInv ==
    /\ ShareInv /\ FlightInv
    /\ issued \in Nat /\ accessToken \in 0..issued
    /\ CallsShape(call) /\ \A k \in Calls : RetryInv(k)

-----------------------------------------------------------------------------
(* What makes PreviewIsOfTheInput inductive (DashboardProofs).             *)

PaneFields == DOMAIN NoPane

\* A preview whose answer the playground will show.
Awaited(calls, k) ==
    calls[k].pc \in {"sent", "waiting", "again"} /\ calls[k].kind = "preview"
      /\ ~calls[k].aborted

\* Settings of a document the playground will take over.
Seeding(calls, k) ==
    calls[k].pc \in {"sent", "waiting", "again"} /\ calls[k].kind = "seed"
      /\ ~calls[k].aborted

\* One preview at most is awaited, the newest, and it is of the input; no timer
\* runs beside it.  Nothing is awaited by a page that was left.
PaneInv ==
    /\ pane = [f \in PaneFields |-> pane[f]]
    /\ pane.timer => pane.request = NoCall
    /\ ~pane.mounted => ~pane.timer /\ pane.request = NoCall
    /\ \A k \in Calls : Seeding(call, k) => pane.mounted
    /\ \A k \in Calls : Awaited(call, k) => k = pane.request /\ call[k].input = pane.input
    /\ PreviewIsOfTheInput

=============================================================================
