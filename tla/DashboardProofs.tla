--------------------------- MODULE DashboardProofs ---------------------------
(***************************************************************************)
(* Theorems about Dashboard, for every number of requests, exchanges,      *)
(* tokens and inputs of a tab; and about Smtp, whose configurations the    *)
(* dashboard edits, for every number of requests, configurations and       *)
(* instances of the api.                                                   *)
(***************************************************************************)
EXTENDS Dashboard, Smtp, TLAPS

\* The handlers of answers, which use no cookie.
LEMMA AnswersKeepExchanges ==
    ASSUME NEW k \in Calls, Answer(k) \/ Resume(k)
    PROVE  UNCHANGED <<exchange, inFlight>>
  BY DEF Answer, Resume

\* A new exchange starts only when none is in flight, and the promise is
\* dropped with the exchange it stands for.
LEMMA ShareStep == ShareInv /\ [Next]_vars => ShareInv'
<1> SUFFICES ASSUME ShareInv, [Next]_vars
             PROVE ShareInv'
  OBVIOUS
<1> USE DEF ShareInv, Exchanges, ExchangeStates
<1>1. ASSUME NEW k \in Calls, Refuse(k) PROVE ShareInv'
  BY <1>1, ConstantsAssumption DEF Refuse, Joins
<1>2. ASSUME NEW n \in Exchanges, Settle(n) PROVE ShareInv'
  BY <1>2 DEF Settle, InFlightAfter
<1>3. ASSUME UNCHANGED <<exchange, inFlight>> PROVE ShareInv'
  BY <1>3
<1>4. ASSUME NEW k \in Calls,
             SubmitLogin(k) \/ Logout(k) \/ OpenPlayground(k) \/ Preview(k) \/ Save(k)
      PROVE  UNCHANGED <<exchange, inFlight>>
  BY <1>4 DEF SubmitLogin, Logout, OpenPlayground, Preview, Save
<1>5. ASSUME ClosePlayground \/ Edit \/ TokenExpires \/ UNCHANGED vars
      PROVE  UNCHANGED <<exchange, inFlight>>
  BY <1>5 DEF ClosePlayground, Edit, TokenExpires, vars
<1> QED
  BY <1>1, <1>2, <1>3, <1>4, <1>5, AnswersKeepExchanges DEF Next, Task

\* A tab never uses the cookie twice at once (lib/api.ts, refreshSession).
THEOREM OneExchangeAtATime == Spec => []ExchangesDoNotOverlap
<1>1. Init => ShareInv
  BY ConstantsAssumption DEF Init, ShareInv, Exchanges, ExchangeStates
<1>2. ShareInv /\ [Next]_vars => ShareInv'
  BY ShareStep
<1>3. ShareInv => ExchangesDoNotOverlap
  BY DEF ShareInv, ExchangesDoNotOverlap, Exchanges
<1> QED
  BY <1>1, <1>2, <1>3, PTL DEF Spec

-----------------------------------------------------------------------------
\* What a page abandons or a handler finishes is done, or goes on as it was.
Follows(calls, next) ==
    /\ CallsShape(next)
    /\ \A k \in Calls :
         \/ next[k].pc = "done"
         \/ /\ next[k].pc = calls[k].pc /\ next[k].kind = calls[k].kind
            /\ next[k].carried = calls[k].carried /\ next[k].refused = calls[k].refused
            /\ next[k].joined = calls[k].joined

\* The fields of a request.
LEMMA Fields ==
    /\ CallFields = {"pc", "kind", "carried", "refused", "joined", "input", "aborted"}
    /\ DoneCall = [f \in CallFields |-> DoneCall[f]] /\ DoneCall.pc = "done"
  BY DEF CallFields, NewCall, DoneCall

\* Following is transitive.
LEMMA FollowsOn ==
    ASSUME NEW a, NEW b, NEW c, Follows(a, b), Follows(b, c)
    PROVE  Follows(a, c)
  BY DEF Follows

\* A request that is answered is done.
LEMMA FinishedFollows ==
    ASSUME CallsShape(call), NEW k \in Calls
    PROVE  Follows(call, Finished(k))
<1>1. CallsShape(Finished(k))
  BY Fields DEF Finished, CallsShape
<1> QED
  BY <1>1, Fields DEF Follows, Finished, CallsShape

\* An aborted request that waits goes on waiting, any other is done.
LEMMA AbandonedFollows ==
    ASSUME NEW calls, CallsShape(calls)
    PROVE  Follows(calls, Abandoned(calls))
<1> DEFINE aborted(k) == [calls[k] EXCEPT !.aborted = TRUE]
<1>1. ASSUME NEW k \in Calls
      PROVE  /\ aborted(k) = [f \in CallFields |-> aborted(k)[f]]
             /\ aborted(k).pc = calls[k].pc /\ aborted(k).kind = calls[k].kind
             /\ aborted(k).carried = calls[k].carried /\ aborted(k).refused = calls[k].refused
             /\ aborted(k).joined = calls[k].joined
  BY Fields DEF CallsShape
<1>2. \A k \in Calls : Abandoned(calls)[k] \in {calls[k], aborted(k), DoneCall}
  BY DEF Abandoned
<1>3. Abandoned(calls) = [k \in Calls |-> Abandoned(calls)[k]]
  BY DEF Abandoned
<1> HIDE DEF aborted
<1>4. CallsShape(Abandoned(calls))
  <2>1. ASSUME NEW k \in Calls, NEW new \in {calls[k], aborted(k), DoneCall}
        PROVE  new = [f \in CallFields |-> new[f]]
    BY <1>1, Fields DEF CallsShape
  <2> QED
    BY <1>2, <1>3, <2>1 DEF CallsShape
<1> QED
  BY <1>1, <1>2, <1>4, Fields DEF Follows

\* A page that is left aborts what it has in flight.
LEMMA UnmountedFollows ==
    ASSUME NEW calls, CallsShape(calls)
    PROVE  Follows(calls, Unmounted(calls))
<1> DEFINE aborted(k) == [calls[k] EXCEPT !.aborted = TRUE]
<1>1. ASSUME NEW k \in Calls
      PROVE  /\ aborted(k) = [f \in CallFields |-> aborted(k)[f]]
             /\ aborted(k).pc = calls[k].pc /\ aborted(k).kind = calls[k].kind
             /\ aborted(k).carried = calls[k].carried /\ aborted(k).refused = calls[k].refused
             /\ aborted(k).joined = calls[k].joined
  BY Fields DEF CallsShape
<1>2. \A k \in Calls : Unmounted(calls)[k] \in {aborted(k), Abandoned(calls)[k]}
  BY DEF Unmounted
<1>3. Unmounted(calls) = [k \in Calls |-> Unmounted(calls)[k]]
  BY DEF Unmounted
<1>4. Follows(calls, Abandoned(calls))
  BY AbandonedFollows
<1> HIDE DEF aborted
<1>5. CallsShape(Unmounted(calls))
  <2>1. ASSUME NEW k \in Calls, NEW new \in {aborted(k), Abandoned(calls)[k]}
        PROVE  new = [f \in CallFields |-> new[f]]
    BY <1>1, <1>4 DEF CallsShape, Follows
  <2> QED
    BY <1>2, <1>3, <2>1 DEF CallsShape
<1> QED
  BY <1>1, <1>2, <1>4, <1>5 DEF Follows

\* Nothing changes for a request nobody touches.
LEMMA SameFollows == ASSUME CallsShape(call) PROVE Follows(call, call)
  BY DEF Follows

\* An answer finishes its request, and only a sign-in brings a token.
LEMMA AnswersFollow ==
    ASSUME IInv, NEW k \in Calls, NEW ok \in BOOLEAN, Answers(k, ok)
    PROVE  /\ Follows(call, call')
           /\ issued' \in Nat /\ issued' >= issued /\ accessToken' \in 0..issued'
           /\ ok \/ call[k].kind = "logout" \/ UNCHANGED <<issued, accessToken>>
<1>1. Follows(call, Finished(k)) /\ CallsShape(Finished(k))
  BY FinishedFollows DEF IInv, Follows
<1>2. /\ Follows(call, Unmounted(Finished(k))) /\ Follows(call, Abandoned(Finished(k)))
  BY <1>1, UnmountedFollows, AbandonedFollows, FollowsOn
<1>3. issued \in Nat /\ accessToken \in 0..issued
  BY DEF IInv
<1>4. CASE call[k].kind = "login" /\ LoginAnswers(k, ok)
  BY <1>1, <1>3, <1>4 DEF LoginAnswers, PaneOnly
<1>5. CASE call[k].kind = "logout" /\ LogoutAnswers(k)
  BY <1>2, <1>3, <1>5 DEF LogoutAnswers, SignOut
<1>6. CASE call[k].kind = "preview" /\ PreviewAnswers(k, ok)
  BY <1>1, <1>3, <1>6 DEF PreviewAnswers, PaneOnly
<1>7. CASE call[k].kind = "seed" /\ SeedAnswers(k, ok)
  BY <1>1, <1>2, <1>3, <1>7 DEF SeedAnswers, PaneOnly, Cleanup
<1>8. CASE call[k].kind = "save" /\ SaveAnswers(k, ok)
  BY <1>1, <1>2, <1>3, <1>8 DEF SaveAnswers, PaneOnly
<1> QED
  BY <1>4, <1>5, <1>6, <1>7, <1>8 DEF Answers

\* What is left of RetryInv when requests only follow.
LEMMA FollowingRetries ==
    ASSUME IInv, Follows(call, call'), issued' \in Nat, issued' >= issued,
           NEW k \in Calls,
           call[k].pc = "waiting" /\ call'[k].pc = "waiting"
             /\ exchange'[call[k].joined] = "ok" => call[k].carried < accessToken'
    PROVE  RetryInv(k)'
<1>1. RetryInv(k) /\ issued \in Nat
  BY DEF IInv
<1>2. CASE call'[k].pc = "done"
  BY <1>2 DEF RetryInv, Open
<1>3. CASE /\ call'[k].pc = call[k].pc /\ call'[k].kind = call[k].kind
           /\ call'[k].carried = call[k].carried /\ call'[k].refused = call[k].refused
           /\ call'[k].joined = call[k].joined
  BY <1>1, <1>3 DEF RetryInv, Open
<1> QED
  BY <1>2, <1>3 DEF Follows

\* A request that is sent carries the token of the moment.
LEMMA SentFollows ==
    ASSUME IInv, NEW k \in Calls, NEW kind, NEW input,
           call' = [call EXCEPT ![k] = Sent(kind, input)],
           UNCHANGED <<issued, accessToken, exchange>>
    PROVE  CallsShape(call)' /\ \A m \in Calls : RetryInv(m)'
<1>1. /\ Sent(kind, input) = [f \in CallFields |-> Sent(kind, input)[f]]
      /\ Sent(kind, input).pc = "sent" /\ Sent(kind, input).carried = accessToken
  BY DEF Sent, CallFields, NewCall
<1>2. call'[k] = Sent(kind, input) /\ \A m \in Calls \ {k} : call'[m] = call[m]
  BY DEF IInv, CallsShape
<1>3. CallsShape(call)'
  BY <1>1, <1>2 DEF IInv, CallsShape
<1>4. RetryInv(k)'
  BY <1>1, <1>2 DEF IInv, RetryInv, Open
<1>5. ASSUME NEW m \in Calls \ {k} PROVE RetryInv(m)'
  BY <1>2 DEF IInv, RetryInv, Open
<1> QED
  BY <1>3, <1>4, <1>5

\* Callers wait only for an exchange in flight when a task begins.
LEMMA AnswerStep ==
    ASSUME IInv, Settled, NEW k \in Calls, Answer(k)
    PROVE  /\ issued' \in Nat /\ accessToken' \in 0..issued'
           /\ CallsShape(call)' /\ \A m \in Calls : RetryInv(m)'
<1>1. PICK ok \in BOOLEAN : Answers(k, ok)
  BY DEF Answer
<1>2. /\ Follows(call, call') /\ issued' \in Nat /\ issued' >= issued
      /\ accessToken' \in 0..issued'
  BY <1>1, AnswersFollow
<1>3. ASSUME NEW m \in Calls PROVE RetryInv(m)'
  <2>1. call[m].pc = "waiting" => exchange'[call[m].joined] = "sent"
    BY DEF Settled, Resumable, Answer
  <2> QED
    BY <1>2, <2>1, FollowingRetries
<1> QED
  BY <1>2, <1>3 DEF Follows

\* A refused request joins an exchange that is in flight.
LEMMA RefuseStep ==
    ASSUME IInv, NEW k \in Calls, Refuse(k), Settled
    PROVE  /\ UNCHANGED <<issued, accessToken>>
           /\ CallsShape(call)' /\ \A m \in Calls : RetryInv(m)'
<1>1. PICK n \in Exchanges :
        /\ exchange'[n] = "sent"
        /\ call' = [call EXCEPT ![k] = [@ EXCEPT !.pc = "waiting", !.joined = n]]
        /\ \A m \in Exchanges \ {n} : exchange'[m] = exchange[m]
  BY DEF IInv, ShareInv, FlightInv, Refuse, Joins, Exchanges
<1> DEFINE new == [call[k] EXCEPT !.pc = "waiting", !.joined = n]
<1>2. /\ call[k].pc = "sent" /\ call[k].kind # "logout"
      /\ UNCHANGED <<issued, accessToken>>
  BY DEF Refuse, MayRefuse, Accepted, Public, session
<1>3. call[k] = [f \in CallFields |-> call[k][f]]
  BY DEF IInv, CallsShape
<1>4. /\ new = [f \in CallFields |-> new[f]] /\ new.pc = "waiting" /\ new.joined = n
      /\ new.kind = call[k].kind /\ new.carried = call[k].carried
  BY <1>3, Fields
<1>5. call'[k] = new /\ \A m \in Calls \ {k} : call'[m] = call[m]
  BY <1>1 DEF IInv, CallsShape
<1> HIDE DEF new
<1>6. CallsShape(call)'
  BY <1>1, <1>4, <1>5 DEF IInv, CallsShape
<1>7. RetryInv(k)'
  BY <1>1, <1>2, <1>4, <1>5 DEF IInv, RetryInv, Open
<1>8. ASSUME NEW m \in Calls \ {k} PROVE RetryInv(m)'
  <2>1. call[m].pc = "waiting" => exchange'[call[m].joined] = "sent"
    BY <1>1 DEF IInv, RetryInv, Settled, Resumable
  <2> QED
    BY <1>2, <1>5, <2>1 DEF IInv, RetryInv, Open
<1> QED
  BY <1>2, <1>6, <1>7, <1>8

\* A token that arrives is newer than all that requests carry.
LEMMA SettleStep ==
    ASSUME IInv, Settled, NEW n \in Exchanges, Settle(n)
    PROVE  /\ issued' \in Nat /\ accessToken' \in 0..issued'
           /\ CallsShape(call)' /\ \A m \in Calls : RetryInv(m)'
<1>1. CallsShape(call) /\ issued \in Nat /\ accessToken \in 0..issued
  BY DEF IInv
<1>2. Follows(call, call')
  BY <1>1, SameFollows, UnmountedFollows DEF Settle, SignOut
<1>3. /\ issued' \in Nat /\ issued' >= issued /\ accessToken' \in 0..issued'
      /\ exchange'[n] = "ok" => accessToken' = issued + 1
      /\ \A m \in Exchanges \ {n} : exchange'[m] = exchange[m]
  BY <1>1 DEF Settle, IInv, ShareInv
<1>4. ASSUME NEW m \in Calls PROVE RetryInv(m)'
  <2>1. call[m].pc = "waiting" =>
          /\ call[m].joined \in Exchanges /\ exchange[call[m].joined] = "sent"
          /\ call[m].carried \in 0..issued
    BY DEF IInv, RetryInv, Open, Settled, Resumable
  <2> QED
    BY <1>1, <1>2, <1>3, <2>1, FollowingRetries
<1> QED
  BY <1>2, <1>3, <1>4 DEF Follows

\* The retry carries the token the exchange brought.
LEMMA ResumeStep ==
    ASSUME IInv, NEW k \in Calls, Resume(k)
    PROVE  /\ issued' \in Nat /\ accessToken' \in 0..issued'
           /\ CallsShape(call)' /\ \A m \in Calls : RetryInv(m)'
<1>1. /\ CallsShape(call) /\ issued \in Nat /\ accessToken \in 0..issued
      /\ RetryInv(k) /\ call[k].pc = "waiting" /\ UNCHANGED exchange
  BY DEF IInv, Resume, Resumable
<1>2. CASE Answers(k, FALSE)
  <2>1. /\ Follows(call, call') /\ issued' \in Nat /\ issued' >= issued
        /\ UNCHANGED accessToken /\ accessToken' \in 0..issued'
    BY <1>1, <1>2, AnswersFollow DEF RetryInv
  <2>2. ASSUME NEW m \in Calls PROVE RetryInv(m)'
    BY <1>1, <2>1, FollowingRetries DEF IInv, RetryInv
  <2> QED
    BY <2>1, <2>2 DEF Follows
<1>3. CASE /\ exchange[call[k].joined] = "ok"
           /\ call' = [call EXCEPT ![k] = [@ EXCEPT !.pc = "again", !.refused = call[k].carried,
                                                    !.carried = accessToken]]
           /\ UNCHANGED <<issued, accessToken>>
  <2> DEFINE new == [call[k] EXCEPT !.pc = "again", !.refused = call[k].carried,
                                    !.carried = accessToken]
  <2>1. call[k] = [f \in CallFields |-> call[k][f]]
    BY <1>1 DEF CallsShape
  <2>2. /\ new = [f \in CallFields |-> new[f]] /\ new.pc = "again"
        /\ new.refused = call[k].carried /\ new.carried = accessToken
    BY <2>1, Fields
  <2>3. call'[k] = new /\ \A m \in Calls \ {k} : call'[m] = call[m]
    BY <1>1, <1>3 DEF CallsShape
  <2> HIDE DEF new
  <2>4. CallsShape(call)'
    BY <1>1, <1>3, <2>2, <2>3 DEF CallsShape
  <2>5. RetryInv(k)'
    BY <1>1, <1>3, <2>2, <2>3 DEF RetryInv, Open
  <2>6. ASSUME NEW m \in Calls \ {k} PROVE RetryInv(m)'
    BY <1>1, <1>3, <2>3 DEF IInv, RetryInv, Open
  <2> QED
    BY <1>1, <1>3, <2>4, <2>5, <2>6
<1> QED
  BY <1>2, <1>3 DEF Resume, session

\* inFlightRefresh stands for an exchange in flight, or for none.
LEMMA FlightStep == ShareInv /\ FlightInv /\ [Next]_vars => FlightInv'
<1> SUFFICES ASSUME ShareInv, FlightInv, [Next]_vars
             PROVE FlightInv'
  OBVIOUS
<1> USE DEF ShareInv, FlightInv, Exchanges
<1>1. ASSUME NEW k \in Calls, Refuse(k) PROVE FlightInv'
  BY <1>1, ConstantsAssumption DEF Refuse, Joins
<1>2. ASSUME NEW n \in Exchanges, Settle(n) PROVE FlightInv'
  BY <1>2 DEF Settle, InFlightAfter
<1>3. ASSUME UNCHANGED <<exchange, inFlight>> PROVE FlightInv'
  BY <1>3
<1>4. ASSUME NEW k \in Calls,
             SubmitLogin(k) \/ Logout(k) \/ OpenPlayground(k) \/ Preview(k) \/ Save(k)
      PROVE  UNCHANGED <<exchange, inFlight>>
  BY <1>4 DEF SubmitLogin, Logout, OpenPlayground, Preview, Save
<1>5. ASSUME ClosePlayground \/ Edit \/ TokenExpires \/ UNCHANGED vars
      PROVE  UNCHANGED <<exchange, inFlight>>
  BY <1>5 DEF ClosePlayground, Edit, TokenExpires, vars
<1> QED
  BY <1>1, <1>2, <1>3, <1>4, <1>5, AnswersKeepExchanges DEF Next, Task

\* IInv is inductive.
LEMMA InductiveStep == IInv /\ [Next]_vars => IInv'
<1> SUFFICES ASSUME IInv, [Next]_vars
             PROVE IInv'
  OBVIOUS
<1> DEFINE Goal == /\ issued' \in Nat /\ accessToken' \in 0..issued'
                   /\ CallsShape(call)' /\ \A m \in Calls : RetryInv(m)'
<1>1. Follows(call, call) /\ issued \in Nat /\ accessToken \in 0..issued /\ issued >= issued
  BY SameFollows DEF IInv
<1>2. ASSUME Follows(call, call'), UNCHANGED <<issued, accessToken, exchange>> PROVE Goal
  <2>1. ASSUME NEW m \in Calls PROVE RetryInv(m)'
    BY <1>1, <1>2, FollowingRetries DEF IInv, RetryInv
  <2> QED
    BY <1>1, <1>2, <2>1 DEF Follows
<1>3. ASSUME NEW k \in Calls,
             SubmitLogin(k) \/ Logout(k) \/ OpenPlayground(k) \/ Preview(k) \/ Save(k)
      PROVE  Goal
  <2>1. UNCHANGED <<issued, accessToken, exchange>>
    BY <1>3 DEF SubmitLogin, Logout, OpenPlayground, Preview, Save, session
  <2>2. \/ \E kind, input : call' = [call EXCEPT ![k] = Sent(kind, input)]
        \/ UNCHANGED call
    BY <1>3 DEF SubmitLogin, Logout, OpenPlayground, Preview, Save
  <2> QED
    BY <1>1, <1>2, <2>1, <2>2, SentFollows
<1>4. ASSUME ClosePlayground \/ Edit PROVE Goal
  <2>1. UNCHANGED <<issued, accessToken, exchange>>
    BY <1>4 DEF ClosePlayground, Edit, session
  <2>2. Follows(call, call')
    BY <1>4, UnmountedFollows, AbandonedFollows DEF IInv, ClosePlayground, Edit, Cleanup
  <2> QED
    BY <1>2, <2>1, <2>2
<1>5. ASSUME TokenExpires \/ UNCHANGED vars PROVE Goal
  <2>1. UNCHANGED <<issued, accessToken, exchange, call>>
    BY <1>5 DEF TokenExpires, vars, session
  <2> QED
    BY <1>1, <1>2, <2>1
<1>6. ASSUME Settled, Task PROVE Goal
  <2>1. ASSUME NEW k \in Calls, Answer(k) PROVE Goal
    BY <1>6, <2>1, AnswerStep
  <2>2. ASSUME NEW k \in Calls, Refuse(k) PROVE Goal
    BY <1>1, <1>6, <2>2, RefuseStep
  <2>3. ASSUME NEW n \in Exchanges, Settle(n) PROVE Goal
    BY <1>6, <2>3, SettleStep
  <2> HIDE DEF Goal
  <2> QED
    BY <1>3, <1>4, <1>5, <1>6, <2>1, <2>2, <2>3 DEF Task
<1>7. ASSUME NEW k \in Calls, Resume(k) PROVE Goal
  BY <1>7, ResumeStep
<1>8. Goal
  BY <1>5, <1>6, <1>7 DEF Next
<1>9. ShareInv' /\ FlightInv'
  BY ShareStep, FlightStep DEF IInv
<1> QED
  BY <1>8, <1>9 DEF IInv

LEMMA InitIInv == Init => IInv
<1> SUFFICES ASSUME Init PROVE IInv
  OBVIOUS
<1>1. ShareInv /\ FlightInv
  BY ConstantsAssumption DEF Init, ShareInv, FlightInv, Exchanges, ExchangeStates
<1>2. CallsShape(call) /\ \A k \in Calls : call[k].pc = "idle"
  BY DEF Init, CallsShape, CallFields, NewCall
<1>3. \A k \in Calls : RetryInv(k)
  BY <1>2 DEF RetryInv, Open
<1> QED
  BY <1>1, <1>2, <1>3 DEF Init, IInv

\* A refused request is sent again with another token, whichever caller began
\* the exchange, and whatever the page and the session did meanwhile
\* (lib/api.ts, authedFetch).
THEOREM RetriesDiffer == Spec => []RetryCarriesNewToken
<1>1. Init => IInv
  BY InitIInv
<1>2. IInv /\ [Next]_vars => IInv'
  BY InductiveStep
<1>3. IInv => RetryCarriesNewToken
  BY DEF IInv, RetryInv, RetryCarriesNewToken
<1> QED
  BY <1>1, <1>2, <1>3, PTL DEF Spec

-----------------------------------------------------------------------------
\* The fields of the playground.
LEMMA PaneFieldsAre ==
    /\ PaneFields = {"mounted", "input", "inputs", "timer", "request", "rendering",
                     "preview", "failed", "saving"}
    /\ NoPane = [f \in PaneFields |-> NoPane[f]]
  BY DEF PaneFields, NoPane

\* What is awaited before is aborted or done: nothing is awaited after.
LEMMA AbandonedUnawaited ==
    ASSUME NEW calls, CallsShape(calls),
           \A k \in Calls : Awaited(calls, k) => k = pane.request
    PROVE  \A k \in Calls : ~Awaited(Abandoned(calls), k)
<1> SUFFICES ASSUME NEW k \in Calls PROVE ~Awaited(Abandoned(calls), k)
  OBVIOUS
<1>1. CASE k # pane.request
  BY <1>1 DEF Abandoned, Awaited
<1>2. CASE k = pane.request /\ calls[k].pc = "waiting"
  <2>1. Abandoned(calls)[k] = [calls[k] EXCEPT !.aborted = TRUE]
    BY <1>2 DEF Abandoned
  <2>2. calls[k] = [f \in CallFields |-> calls[k][f]]
    BY DEF CallsShape
  <2>3. Abandoned(calls)[k].aborted
    BY <2>1, <2>2, Fields
  <2> QED
    BY <2>3 DEF Awaited
<1>3. CASE k = pane.request /\ calls[k].pc # "waiting"
  BY <1>3, Fields DEF Abandoned, Awaited
<1> QED
  BY <1>1, <1>2, <1>3

\* Replacing the input leaves the seed alone.
LEMMA AbandonedSeeding ==
    ASSUME NEW calls, CallsShape(calls)
    PROVE  \A k \in Calls : Seeding(Abandoned(calls), k) => Seeding(calls, k)
<1> SUFFICES ASSUME NEW k \in Calls, Seeding(Abandoned(calls), k) PROVE Seeding(calls, k)
  OBVIOUS
<1>1. CASE k # pane.request
  BY <1>1 DEF Abandoned, Seeding
<1>2. CASE k = pane.request /\ calls[k].pc = "waiting"
  <2>1. Abandoned(calls)[k] = [calls[k] EXCEPT !.aborted = TRUE]
    BY <1>2 DEF Abandoned
  <2>2. calls[k] = [f \in CallFields |-> calls[k][f]]
    BY DEF CallsShape
  <2>3. Abandoned(calls)[k].aborted
    BY <2>1, <2>2, Fields
  <2> QED
    BY <2>3 DEF Seeding
<1>3. CASE k = pane.request /\ calls[k].pc # "waiting"
  BY <1>3, Fields DEF Abandoned, Seeding
<1> QED
  BY <1>1, <1>2, <1>3

\* A page that was left awaits neither previews nor settings.
LEMMA UnmountedUnawaited ==
    ASSUME NEW calls, CallsShape(calls),
           \A k \in Calls : Awaited(calls, k) => k = pane.request
    PROVE  \A k \in Calls : ~Awaited(Unmounted(calls), k) /\ ~Seeding(Unmounted(calls), k)
<1> SUFFICES ASSUME NEW k \in Calls
             PROVE  ~Awaited(Unmounted(calls), k) /\ ~Seeding(Unmounted(calls), k)
  OBVIOUS
<1>1. CASE calls[k].kind \in {"seed", "save"}
  <2>1. Unmounted(calls)[k] = [calls[k] EXCEPT !.aborted = TRUE]
    BY <1>1 DEF Unmounted
  <2>2. calls[k] = [f \in CallFields |-> calls[k][f]]
    BY DEF CallsShape
  <2>3. Unmounted(calls)[k].aborted
    BY <2>1, <2>2, Fields
  <2> QED
    BY <2>3 DEF Awaited, Seeding
<1>2. CASE calls[k].kind \notin {"seed", "save"}
  <2>1. Unmounted(calls)[k] = Abandoned(calls)[k]
    BY <1>2 DEF Unmounted
  <2> QED
    BY <1>2, <2>1, AbandonedUnawaited, AbandonedSeeding DEF Awaited, Seeding
<1> QED
  BY <1>1, <1>2

\* What is answered is awaited no more.
LEMMA FinishedAwaited ==
    ASSUME CallsShape(call), NEW k \in Calls
    PROVE  /\ \A m \in Calls : Awaited(Finished(k), m) =>
                m # k /\ Awaited(call, m) /\ Finished(k)[m] = call[m]
           /\ \A m \in Calls : Seeding(Finished(k), m) => Seeding(call, m)
  BY Fields DEF CallsShape, Finished, Awaited, Seeding

\* A playground that has just been left, or has new input, waits for nothing.
LEMMA FreshPane ==
    ASSUME \A k \in Calls : ~Awaited(call', k), PaneInv,
           \/ pane' = NoPane /\ \A k \in Calls : ~Seeding(call', k)
           \/ /\ \E input : pane' = WithInput(pane, input)
              /\ pane.mounted
    PROVE  PaneInv'
<1>1. CASE pane' = NoPane /\ \A k \in Calls : ~Seeding(call', k)
  <2>1. ~pane'.mounted /\ ~pane'.timer /\ pane'.request = NoCall
    BY <1>1 DEF NoPane
  <2> QED
    BY <1>1, <2>1, PaneFieldsAre DEF PaneInv, PreviewIsOfTheInput
<1>2. ASSUME NEW input, pane' = WithInput(pane, input), pane.mounted PROVE PaneInv'
  <2>1. pane = [f \in PaneFields |-> pane[f]]
    BY DEF PaneInv
  <2>2. /\ pane' = [f \in PaneFields |-> pane'[f]]
        /\ pane'.input = input /\ pane'.timer = (input # Blank) /\ pane'.request = NoCall
        /\ pane'.mounted
    BY <1>2, <2>1, PaneFieldsAre DEF WithInput
  <2> QED
    BY <2>2 DEF PaneInv, PreviewIsOfTheInput
<1> QED
  BY <1>1, <1>2

\* The page's handlers: a preview that is shown is the one that was awaited.
LEMMA AnswersPane ==
    ASSUME IInv, PaneInv, NEW k \in Calls, NEW ok \in BOOLEAN, Answers(k, ok), Open(k)
    PROVE  PaneInv'
<1>1. /\ CallsShape(call) /\ pane = [f \in PaneFields |-> pane[f]]
      /\ pane.timer => pane.request = NoCall
      /\ \A m \in Calls : Awaited(call, m) => m = pane.request /\ call[m].input = pane.input
      /\ ~pane.mounted => ~pane.timer /\ pane.request = NoCall
      /\ \A m \in Calls : Seeding(call, m) => pane.mounted
      /\ PreviewIsOfTheInput
  BY DEF IInv, PaneInv
<1>2. \A m \in Calls : Awaited(Finished(k), m) =>
          m # k /\ Awaited(call, m) /\ Finished(k)[m] = call[m]
  BY <1>1, FinishedAwaited
<1>11. \A m \in Calls : Seeding(Finished(k), m) => pane.mounted
  BY <1>1, FinishedAwaited
<1>3. CallsShape(Finished(k))
  BY <1>1, FinishedFollows DEF Follows
<1>4. /\ \A m \in Calls : ~Awaited(Unmounted(Finished(k)), m) /\ ~Seeding(Unmounted(Finished(k)), m)
      /\ \A m \in Calls : ~Awaited(Abandoned(Finished(k)), m)
  BY <1>1, <1>2, <1>3, UnmountedUnawaited, AbandonedUnawaited
<1>5. ASSUME call' = Finished(k), UNCHANGED pane PROVE PaneInv'
  BY <1>1, <1>2, <1>5, <1>11 DEF PaneInv, PreviewIsOfTheInput
<1>6. CASE call[k].kind = "login" /\ LoginAnswers(k, ok)
  BY <1>5, <1>6 DEF LoginAnswers
<1>7. CASE call[k].kind = "logout" /\ LogoutAnswers(k)
  BY <1>4, <1>7, FreshPane DEF LogoutAnswers, SignOut
<1>8. CASE call[k].kind = "preview" /\ PreviewAnswers(k, ok)
  <2>1. CASE call[k].aborted
    BY <1>5, <1>8, <2>1 DEF PreviewAnswers
  <2>2. CASE ~call[k].aborted
    <3>1. /\ pane.request = k /\ call[k].input = pane.input /\ ~pane.timer
          /\ \A m \in Calls : Awaited(call, m) => m = k
      BY <1>1, <1>8, <2>2, ConstantsAssumption DEF Open, Awaited
    <3>2. \A m \in Calls : ~Awaited(call', m)
      BY <1>2, <1>8, <3>1 DEF PreviewAnswers
    <3>3. /\ pane' = [f \in PaneFields |-> pane'[f]]
          /\ pane'.input = pane.input /\ pane'.timer = pane.timer /\ pane'.mounted = pane.mounted
          /\ ~pane'.rendering /\ pane'.request = NoCall
          /\ pane'.failed \/ pane'.preview = call[k].input
      BY <1>1, <1>8, <2>2, <3>1, PaneFieldsAre DEF PreviewAnswers
    <3> QED
      BY <1>8, <1>11, <3>1, <3>2, <3>3 DEF PaneInv, PreviewIsOfTheInput, PreviewAnswers
  <2> QED
    BY <2>1, <2>2
<1>9. CASE call[k].kind = "seed" /\ SeedAnswers(k, ok)
  <2>1. CASE ok /\ ~call[k].aborted
    <3>1. pane.mounted
      BY <1>1, <1>9, <2>1 DEF Open, Seeding
    <3> QED
      BY <1>4, <1>9, <2>1, <3>1, FreshPane DEF SeedAnswers, Cleanup
  <2>2. CASE ~(ok /\ ~call[k].aborted)
    BY <1>5, <1>9, <2>2 DEF SeedAnswers
  <2> QED
    BY <2>1, <2>2
<1>10. CASE call[k].kind = "save" /\ SaveAnswers(k, ok)
  <2>1. CASE call[k].aborted
    BY <1>5, <1>10, <2>1 DEF SaveAnswers
  <2>2. CASE ~call[k].aborted /\ ok
    BY <1>4, <1>10, <2>2, FreshPane DEF SaveAnswers
  <2>3. CASE ~call[k].aborted /\ ~ok
    <3>1. /\ pane' = [f \in PaneFields |-> pane'[f]]
          /\ pane'.input = pane.input /\ pane'.timer = pane.timer
          /\ pane'.request = pane.request /\ pane'.failed /\ pane'.mounted = pane.mounted
      BY <1>1, <1>10, <2>3, PaneFieldsAre DEF SaveAnswers
    <3> QED
      BY <1>1, <1>2, <1>10, <1>11, <2>3, <3>1 DEF PaneInv, PreviewIsOfTheInput, SaveAnswers
  <2> QED
    BY <2>1, <2>2, <2>3
<1> QED
  BY <1>6, <1>7, <1>8, <1>9, <1>10 DEF Answers

\* A request that is sent is awaited only when it is the playground's preview.
LEMMA SentAwaited ==
    ASSUME IInv, NEW k \in Calls, NEW kind, NEW input,
           call' = [call EXCEPT ![k] = Sent(kind, input)]
    PROVE  /\ \A m \in Calls : Awaited(call', m) =>
             \/ m # k /\ Awaited(call, m) /\ call'[m] = call[m]
             \/ m = k /\ kind = "preview" /\ call'[m].input = input
           /\ \A m \in Calls : Seeding(call', m) => kind = "seed" \/ Seeding(call, m)
<1>1. /\ call'[k] = Sent(kind, input)
      /\ \A m \in Calls \ {k} : call'[m] = call[m]
  BY DEF IInv, CallsShape
<1>2. Sent(kind, input).kind = kind /\ Sent(kind, input).input = input
  BY DEF Sent, NewCall
<1> QED
  BY <1>1, <1>2 DEF Awaited, Seeding

\* The timer and the newest preview take turns, and a new input drops both.
LEMMA PaneStep == IInv /\ PaneInv /\ [Next]_vars => PaneInv'
<1> SUFFICES ASSUME IInv, PaneInv, [Next]_vars PROVE PaneInv'
  OBVIOUS
<1>1. /\ CallsShape(call) /\ pane = [f \in PaneFields |-> pane[f]]
      /\ pane.timer => pane.request = NoCall
      /\ \A m \in Calls : Awaited(call, m) => m = pane.request /\ call[m].input = pane.input
      /\ ~pane.mounted => ~pane.timer /\ pane.request = NoCall
      /\ \A m \in Calls : Seeding(call, m) => pane.mounted
      /\ PreviewIsOfTheInput
  BY DEF IInv, PaneInv
<1>2. /\ \A m \in Calls : ~Awaited(Unmounted(call), m) /\ ~Seeding(Unmounted(call), m)
      /\ \A m \in Calls : ~Awaited(Abandoned(call), m)
  BY <1>1, UnmountedUnawaited, AbandonedUnawaited
<1>3. ASSUME \A m \in Calls : Awaited(call', m) => Awaited(call, m) /\ call'[m].input = call[m].input,
             \A m \in Calls : Seeding(call', m) => Seeding(call, m), UNCHANGED pane
      PROVE PaneInv'
  BY <1>1, <1>3 DEF PaneInv, PreviewIsOfTheInput
<1>4. ASSUME NEW k \in Calls, SubmitLogin(k) \/ Logout(k) PROVE PaneInv'
  <2>1. \E kind \in {"login", "logout"} : call' = [call EXCEPT ![k] = Sent(kind, Blank)]
    BY <1>4 DEF SubmitLogin, Logout
  <2>2. UNCHANGED pane
    BY <1>4 DEF SubmitLogin, Logout
  <2> QED
    BY <1>3, <2>1, <2>2, SentAwaited, ZenonT(60)
<1>5. ASSUME NEW k \in Calls, OpenPlayground(k) PROVE PaneInv'
  <2>1. /\ pane' = [f \in PaneFields |-> pane'[f]]
        /\ pane'.timer /\ pane'.request = NoCall /\ pane'.mounted
    BY <1>5, PaneFieldsAre DEF OpenPlayground, NoPane
  <2>2. ~pane.mounted /\ \A m \in Calls : ~Awaited(call, m)
    BY <1>1, <1>5, ConstantsAssumption DEF OpenPlayground
  <2>3. \A m \in Calls : ~Awaited(call', m)
    BY <1>5, <2>2, SentAwaited DEF OpenPlayground
  <2> QED
    BY <2>1, <2>3 DEF PaneInv, PreviewIsOfTheInput
<1>6. ASSUME NEW k \in Calls, Preview(k) PROVE PaneInv'
  <2>1. /\ pane' = [f \in PaneFields |-> pane'[f]]
        /\ ~pane'.timer /\ pane'.request = k /\ pane'.input = pane.input /\ pane'.mounted
    BY <1>1, <1>6, PaneFieldsAre DEF Preview
  <2>2. \A m \in Calls : ~Awaited(call, m)
    BY <1>1, <1>6, ConstantsAssumption DEF Preview
  <2>3. \A m \in Calls : Awaited(call', m) => m = k /\ call'[m].input = pane.input
    BY <1>6, <2>2, SentAwaited, ZenonT(60) DEF Preview
  <2> QED
    BY <2>1, <2>3, ConstantsAssumption DEF PaneInv, PreviewIsOfTheInput
<1>7. ASSUME NEW k \in Calls, Save(k) PROVE PaneInv'
  <2>1. /\ pane' = [f \in PaneFields |-> pane'[f]] /\ pane'.saving
        /\ pane'.timer = pane.timer /\ pane'.request = pane.request /\ pane'.input = pane.input
        /\ pane'.mounted = pane.mounted
    BY <1>1, <1>7, PaneFieldsAre DEF Save
  <2>2. /\ \A m \in Calls : Awaited(call', m) => Awaited(call, m) /\ call'[m].input = call[m].input
        /\ \A m \in Calls : Seeding(call', m) => Seeding(call, m)
    <3>1. PICK kind \in {"save"} : call' = [call EXCEPT ![k] = Sent(kind, Blank)]
      BY <1>7 DEF Save
    <3>2. kind # "preview" /\ kind # "seed"
      OBVIOUS
    <3> QED
      BY <3>1, <3>2, SentAwaited
  <2> QED
    BY <1>1, <2>1, <2>2 DEF PaneInv, PreviewIsOfTheInput
<1>8. ASSUME ClosePlayground \/ Edit PROVE PaneInv'
  BY <1>1, <1>2, <1>8, FreshPane DEF ClosePlayground, Edit, Cleanup
<1>9. ASSUME TokenExpires \/ UNCHANGED vars PROVE PaneInv'
  BY <1>3, <1>9 DEF TokenExpires, vars
<1>10. ASSUME NEW k \in Calls, Answer(k) PROVE PaneInv'
  BY <1>10, AnswersPane DEF Answer, Open
<1>11. ASSUME NEW k \in Calls, Refuse(k) PROVE PaneInv'
  <2>1. PICK n \in Exchanges :
          call' = [call EXCEPT ![k] = [@ EXCEPT !.pc = "waiting", !.joined = n]]
    BY <1>11 DEF Refuse
  <2>2. call[k] = [f \in CallFields |-> call[k][f]]
    BY <1>1 DEF CallsShape
  <2>3. /\ call'[k] = [call[k] EXCEPT !.pc = "waiting", !.joined = n]
        /\ \A m \in Calls \ {k} : call'[m] = call[m]
    BY <1>1, <2>1 DEF CallsShape
  <2>4. /\ call'[k].kind = call[k].kind /\ call'[k].aborted = call[k].aborted
        /\ call'[k].input = call[k].input
    BY <2>2, <2>3, Fields
  <2> QED
    BY <1>3, <1>11, <2>3, <2>4 DEF Refuse, Awaited, Seeding
<1>12. ASSUME NEW n \in Exchanges, Settle(n) PROVE PaneInv'
  BY <1>2, <1>3, <1>12, FreshPane DEF Settle, SignOut
<1>13. ASSUME NEW k \in Calls, Resume(k) PROVE PaneInv'
  <2>1. CASE Answers(k, FALSE)
    BY <1>13, <2>1, AnswersPane DEF Resume, Resumable, Open
  <2>2. CASE ~Answers(k, FALSE)
    <3>1. /\ call' = [call EXCEPT ![k] = [@ EXCEPT !.pc = "again", !.refused = call[k].carried,
                                                    !.carried = accessToken]]
          /\ call[k].pc = "waiting" /\ UNCHANGED pane
      BY <1>13, <2>2 DEF Resume, Resumable
    <3>2. call[k] = [f \in CallFields |-> call[k][f]]
      BY <1>1 DEF CallsShape
    <3>3. /\ call'[k] = [call[k] EXCEPT !.pc = "again", !.refused = call[k].carried,
                                        !.carried = accessToken]
          /\ \A m \in Calls \ {k} : call'[m] = call[m]
      BY <1>1, <3>1 DEF CallsShape
    <3>4. /\ call'[k].kind = call[k].kind /\ call'[k].aborted = call[k].aborted
          /\ call'[k].input = call[k].input
      BY <3>2, <3>3, Fields
    <3> QED
      BY <1>3, <3>1, <3>3, <3>4 DEF Awaited, Seeding
  <2> QED
    BY <2>1, <2>2
<1> QED
  BY <1>4, <1>5, <1>6, <1>7, <1>8, <1>9, <1>10, <1>11, <1>12, <1>13 DEF Next, Task

\* At rest the playground shows the preview of what its editor holds, unless it
\* was emptied, whatever the order in which answers, edits, seeds and sign-outs
\* came (playground/page.tsx).
THEOREM PreviewsAreCurrent == Spec => []PreviewIsOfTheInput
<1>1. Init => PaneInv
  <2> SUFFICES ASSUME Init PROVE PaneInv
    OBVIOUS
  <2>1. \A k \in Calls : call[k].pc = "idle"
    BY DEF Init, NewCall
  <2>2. ~pane.mounted /\ ~pane.timer /\ pane.request = NoCall
    BY DEF Init, NoPane
  <2>3. pane = [f \in PaneFields |-> pane[f]]
    BY PaneFieldsAre DEF Init
  <2> QED
    BY <2>1, <2>2, <2>3 DEF PaneInv, PreviewIsOfTheInput, Awaited, Seeding
<1>2. PaneInv => PreviewIsOfTheInput
  BY DEF PaneInv
<1> QED
  BY InitIInv, InductiveStep, <1>1, PaneStep, <1>2, PTL DEF Spec

-----------------------------------------------------------------------------
(* SMTP configurations (Smtp).                                              *)

\* The invariant, its definitions expanded.
LEMMA SmtpFacts ==
    ASSUME SmtpInv
    PROVE  /\ rows \in [Configs -> Row] /\ cache \in [Instances -> [Configs -> Nat]]
           /\ op \in [Ops -> Op] /\ latest \in Nat /\ raced \subseteq Instances \X Configs
           /\ \A o \in Ops : Reads(o) /\ Clears(o) /\ Locks(o)
           /\ Apart /\ OneDefault /\ IndexInv /\ CacheInv /\ VerifiedMeansTested
           /\ NoConfig \notin Configs
  BY SmtpAssumption DEF SmtpInv, SmtpTypeOK

\* Every other request stays where it is.
OthersStay(o) == op' \in [Ops -> Op] /\ \A p \in Ops \ {o} : op'[p] = op[p]

LEMMA OneMoves ==
    ASSUME op \in [Ops -> Op], NEW o \in Ops, NEW next \in Op,
           op' = [op EXCEPT ![o] = next]
    PROVE  OthersStay(o) /\ op'[o] = next
  BY DEF OthersStay

PCs == {"idle", "require", "snapshot", "lock", "count", "write", "index", "commit",
        "delete", "invalidate", "default", "fetch", "store", "verify", "mark", "send", "done"}

\* A request at another point of its code.
LEMMA PcWritten ==
    \A r \in Op, pc \in PCs :
        LET next == [r EXCEPT !.pc = pc]
        IN /\ next \in Op /\ next.pc = pc
           /\ next.kind = r.kind /\ next.instance = r.instance /\ next.config = r.config
           /\ next.asked = r.asked /\ next.first = r.first /\ next.target = r.target
           /\ next.cleared = r.cleared /\ next.got = r.got
           /\ next.overlapped = r.overlapped /\ next.outcome = r.outcome
  BY DEF Op, PCs

LEMMA MovesIs ==
    ASSUME op \in [Ops -> Op], NEW o \in Ops, NEW pc \in PCs, Moves(o, pc)
    PROVE  /\ OthersStay(o) /\ op'[o].pc = pc
           /\ op'[o].kind = op[o].kind /\ op'[o].instance = op[o].instance
           /\ op'[o].config = op[o].config /\ op'[o].asked = op[o].asked
           /\ op'[o].first = op[o].first /\ op'[o].target = op[o].target
           /\ op'[o].cleared = op[o].cleared /\ op'[o].got = op[o].got
           /\ op'[o].overlapped = op[o].overlapped /\ op'[o].outcome = op[o].outcome
<1> DEFINE next == [op[o] EXCEPT !.pc = pc]
<1>1. op' = [op EXCEPT ![o] = next] /\ op[o] \in Op
  BY DEF Moves
<1>2. /\ next \in Op /\ next.pc = pc
      /\ next.kind = op[o].kind /\ next.instance = op[o].instance
      /\ next.config = op[o].config /\ next.asked = op[o].asked
      /\ next.first = op[o].first /\ next.target = op[o].target
      /\ next.cleared = op[o].cleared /\ next.got = op[o].got
      /\ next.overlapped = op[o].overlapped /\ next.outcome = op[o].outcome
  BY <1>1, PcWritten
<1> HIDE DEF next
<1> QED
  BY <1>1, <1>2, OneMoves

Outcomes == {"ok", "error", "conflict", "dropped"}

LEMMA EndsIs ==
    ASSUME op \in [Ops -> Op], NEW o \in Ops, NEW outcome \in Outcomes, Ends(o, outcome)
    PROVE  /\ OthersStay(o) /\ op'[o].pc = "done" /\ op'[o].outcome = outcome
           /\ op'[o].config = op[o].config /\ op'[o].cleared = {}
           /\ op'[o].overlapped = op[o].overlapped
<1> DEFINE a == [op[o] EXCEPT !.pc = "done", !.cleared = {}]
           b == [a EXCEPT !.target = {}, !.asked = "absent"]
           next == [b EXCEPT !.first = FALSE, !.outcome = outcome]
<1>1. op[o] \in Op
  OBVIOUS
<1>2. a \in Op /\ a.pc = "done" /\ a.cleared = {} /\ a.config = op[o].config
      /\ a.overlapped = op[o].overlapped
  BY <1>1 DEF Op
<1> HIDE DEF a
<1>3. b \in Op /\ b.pc = a.pc /\ b.cleared = a.cleared /\ b.config = a.config
      /\ b.overlapped = a.overlapped
  BY <1>2 DEF Op
<1> HIDE DEF b
<1>4. next \in Op /\ next.pc = b.pc /\ next.cleared = b.cleared /\ next.config = b.config
      /\ next.overlapped = b.overlapped /\ next.outcome = outcome
  BY <1>3, ZenonT(60) DEF Op, Outcomes
<1>5. op' = [op EXCEPT ![o] = next]
  BY DEF Ends, next, a, b
<1> HIDE DEF next
<1> QED
  BY <1>2, <1>3, <1>4, <1>5, OneMoves

\* Nothing of the rows changes that the requests rely on.
SameRows ==
    /\ rows' \in [Configs -> Row]
    /\ \A c \in Configs :
         /\ rows'[c].state = rows[c].state /\ rows'[c].version = rows[c].version
         /\ rows'[c].isDefault = rows[c].isDefault

\* A request that is in the index as the next default is there alone, and
\* holds the present one.
AloneInIndex(o) ==
    Pending(o) => /\ Defaults \subseteq Held(o)
                  /\ \A p \in Ops \ {o} : ~Pending(p)

\* A request that moves and leaves those rows alone.
LEMMA RowsKept ==
    ASSUME SmtpInv, NEW o \in Ops, OthersStay(o), SameRows,
           Reads(o)', Clears(o)', Locks(o)', AloneInIndex(o)',
           \A p \in Ops \ {o} : Held(o)' \cap Held(p) = {},
           op'[o].config = op[o].config
             \/ \A p \in Ops \ {o} : op'[o].config \in Configs /\ op'[o].config = op[p].config
                                       => rows[op'[o].config].state # "absent"
    PROVE  /\ \A p \in Ops : (Reads(p) /\ Clears(p) /\ Locks(p))'
           /\ Apart' /\ OneDefault' /\ IndexInv'
<1>1. /\ op \in [Ops -> Op] /\ \A p \in Ops : Reads(p) /\ Clears(p) /\ Locks(p)
      /\ Apart /\ OneDefault /\ IndexInv
  BY SmtpFacts
<1>2. /\ op' \in [Ops -> Op] /\ \A p \in Ops \ {o} : op'[p] = op[p]
      /\ \A c \in Configs : /\ rows'[c].state = rows[c].state
                             /\ rows'[c].version = rows[c].version
                             /\ rows'[c].isDefault = rows[c].isDefault
  BY DEF SameRows, OthersStay
<1>4. Defaults' = Defaults
  BY <1>2 DEF Defaults, Present
<1>8. ASSUME NEW p \in Ops \ {o}
      PROVE  /\ Held(p)' = Held(p)
             /\ op[p].pc \in Changing => (BecomesDefault(p)' <=> BecomesDefault(p))
             /\ Pending(p)' <=> Pending(p)
  <2>1. op'[p] = op[p]
    BY <1>2
  <2>2. Held(p)' = Held(p)
    BY <2>1 DEF Held
  <2>3. op[p].pc \in Changing => (BecomesDefault(p)' <=> BecomesDefault(p))
    BY <1>1, <1>2, <2>1 DEF BecomesDefault, Reads, Changing
  <2> QED
    BY <2>1, <2>2, <2>3 DEF Pending, Changing
<1>5. ASSUME NEW p \in Ops
      PROVE  (Reads(p) /\ Clears(p) /\ Locks(p))'
  <2>1. CASE p = o
    BY <2>1
  <2>2. CASE p # o
    <3>1. op'[p] = op[p]
      BY <1>2, <2>2
    <3>2. Reads(p)'
      BY <1>1, <1>2, <3>1 DEF Reads, Changing
    <3>3. ToClear(p)' = ToClear(p)
      BY <1>4, <3>1 DEF ToClear, Matching
    <3>4. Clears(p)'
      BY <1>1, <1>4, <3>1, <3>3 DEF Clears
    <3>5. Locks(p)'
      BY <1>1, <1>2, <1>4, <1>8, <2>2, <3>1 DEF Locks, Present, Changing
    <3> QED
      BY <3>2, <3>4, <3>5
  <2> QED
    BY <2>1, <2>2
<1>6. Apart'
  <2> SUFFICES ASSUME NEW p \in Ops, NEW q \in Ops, p # q
               PROVE  /\ Held(p)' \cap Held(q)' = {}
                      /\ op'[p].config \in Configs /\ op'[p].config = op'[q].config
                         => rows'[op'[p].config].state # "absent"
    BY DEF Apart
  <2>1. CASE p # o /\ q # o
    BY <1>1, <1>2, <1>8, <2>1 DEF Apart
  <2>2. CASE p = o
    BY <1>1, <1>2, <1>8, <2>2 DEF Apart
  <2>3. CASE q = o
    BY <1>1, <1>2, <1>8, <2>3 DEF Apart
  <2> QED
    BY <2>1, <2>2, <2>3
<1>7. OneDefault'
  BY <1>1, <1>4 DEF OneDefault
<1>9. IndexInv'
  BY <1>1, <1>4, <1>8 DEF IndexInv, AloneInIndex
<1> QED
  BY <1>5, <1>6, <1>7, <1>9

\* And the transports with them.
LEMMA TransportsKept ==
    ASSUME SmtpInv, NEW o \in Ops, OthersStay(o), SameRows, cache' = cache, raced' = raced,
           op[o].pc # "invalidate",
           op'[o].pc = "store" => op'[o].got = rows[op'[o].config].version /\ Reads(o)'
    PROVE  CacheInv'
<1>1. /\ op \in [Ops -> Op] /\ \A p \in Ops : Reads(p) /\ CacheInv
  BY SmtpFacts
<1>2. /\ op' \in [Ops -> Op] /\ \A p \in Ops \ {o} : op'[p] = op[p]
      /\ \A c \in Configs : /\ rows'[c].state = rows[c].state
                             /\ rows'[c].version = rows[c].version
  BY DEF SameRows, OthersStay
<1>3. \A i \in Instances, c \in Configs :
         (\E p \in Ops : op[p].pc = "invalidate" /\ op[p].instance = i /\ op[p].config = c)
         => (\E p \in Ops : op'[p].pc = "invalidate" /\ op'[p].instance = i /\ op'[p].config = c)
  BY <1>2
<1>4. TransportIsCurrent'
  BY <1>1, <1>2, <1>3 DEF CacheInv, TransportIsCurrent
<1>5. \A i \in Instances, c \in Configs : rows'[c].state = "absent" => cache'[i][c] = 0
  BY <1>1, <1>2 DEF CacheInv
<1>6. ASSUME NEW p \in Ops, op'[p].pc = "store",
             op'[p].got # rows'[op'[p].config].version
      PROVE  Untrusted(op[p].instance, op[p].config)'
  <2>1. op'[p] = op[p]
    BY <1>2, <1>6 DEF Reads
  <2>2. op[p].instance \in Instances /\ op[p].config \in Configs
    BY <1>1, <1>6, <2>1 DEF Op, Reads
  <2>3. Untrusted(op[p].instance, op[p].config)
    BY <1>1, <1>2, <1>6, <2>1, <2>2 DEF CacheInv
  <2> QED
    BY <1>3, <2>1, <2>2, <2>3 DEF Untrusted
<1> QED
  BY <1>4, <1>5, <1>6 DEF CacheInv

\* A request that moves and touches nothing the others see, with the rows it
\* then holds.
LEMMA HoldingStep ==
    ASSUME SmtpInv, NEW o \in Ops, OthersStay(o), UNCHANGED storeVars,
           op[o].pc # "invalidate",
           Reads(o)', Clears(o)', Locks(o)', AloneInIndex(o)',
           \A p \in Ops \ {o} : Held(o)' \cap Held(p) = {},
           op'[o].config = op[o].config
             \/ \A p \in Ops \ {o} : op'[o].config \in Configs /\ op'[o].config = op[p].config
                                       => rows[op'[o].config].state # "absent",
           op'[o].pc = "store" => op'[o].got = rows[op'[o].config].version
    PROVE  SmtpInv'
<1>1. /\ rows' = rows /\ cache' = cache /\ latest' = latest /\ raced' = raced
      /\ SmtpTypeOK /\ VerifiedMeansTested
  BY DEF storeVars, SmtpInv
<1>2. SameRows
  BY <1>1 DEF SameRows, SmtpTypeOK
<1>3. SmtpTypeOK' /\ VerifiedMeansTested'
  BY <1>1 DEF SmtpTypeOK, OthersStay, VerifiedMeansTested
<1>4. /\ \A p \in Ops : (Reads(p) /\ Clears(p) /\ Locks(p))'
      /\ Apart' /\ OneDefault' /\ IndexInv'
  BY <1>2, RowsKept
<1>5. CacheInv'
  BY <1>1, <1>2, TransportsKept
<1> QED
  BY <1>3, <1>4, <1>5 DEF SmtpInv

\* Before its last statement, and after its end, a request holds what it has
\* cleared and is in no index.
LEMMA LocalStep ==
    ASSUME SmtpInv, NEW o \in Ops, OthersStay(o), UNCHANGED storeVars,
           op[o].pc # "invalidate", op'[o].pc \notin {"index", "commit"},
           Reads(o)', Clears(o)', Locks(o)',
           \A p \in Ops \ {o} : op'[o].cleared \cap Held(p) = {},
           op'[o].config = op[o].config
             \/ \A p \in Ops \ {o} : op'[o].config \in Configs /\ op'[o].config = op[p].config
                                       => rows[op'[o].config].state # "absent",
           op'[o].pc = "store" => op'[o].got = rows[op'[o].config].version
    PROVE  SmtpInv'
<1>1. Held(o)' = op'[o].cleared /\ AloneInIndex(o)'
  BY DEF Held, AloneInIndex, Pending
<1> QED
  BY <1>1, HoldingStep

\* A request that ends, whatever its transaction held is free.
LEMMA EndsStep ==
    ASSUME SmtpInv, NEW o \in Ops, NEW outcome \in Outcomes, Ends(o, outcome),
           UNCHANGED storeVars, op[o].pc # "invalidate",
           outcome = "conflict" => op[o].overlapped
    PROVE  SmtpInv'
<1>1. op \in [Ops -> Op]
  BY SmtpFacts
<1>2. /\ OthersStay(o) /\ op'[o].pc = "done" /\ op'[o].outcome = outcome
      /\ op'[o].config = op[o].config /\ op'[o].cleared = {}
      /\ op'[o].overlapped = op[o].overlapped
  BY <1>1, EndsIs
<1>3. Reads(o)' /\ Clears(o)' /\ Locks(o)'
  BY <1>2 DEF Reads, Clears, Locks, Changing
<1> QED
  BY <1>2, <1>3, LocalStep

\* require, and transportForOrg's row: a transport the instance has, or a query.
LEMMA ConnectsIs ==
    ASSUME SmtpInv, NEW o \in Ops, NEW c \in Configs, Connects(o, c, "fetch")
    PROVE  /\ OthersStay(o) /\ op'[o].pc \in {"fetch", "verify", "send"}
           /\ op'[o].config = c /\ op'[o].cleared = op[o].cleared
           /\ op'[o].outcome = op[o].outcome
           /\ op[o].overlapped => op'[o].overlapped
           /\ op'[o].pc # "fetch" /\ ~op'[o].overlapped => op'[o].got = rows[c].version
<1> DEFINE version == cache[op[o].instance][c]
           a == [op[o] EXCEPT !.config = c, !.got = version]
           b == [a EXCEPT !.overlapped = op[o].overlapped \/ version \notin {0, rows[c].version}]
           pc == IF version = 0 THEN "fetch"
                 ELSE IF op[o].kind = "test" THEN "verify" ELSE "send"
           next == [b EXCEPT !.pc = pc]
<1>1. op \in [Ops -> Op] /\ op[o] \in Op /\ version \in Nat
  BY SmtpFacts DEF Op
<1>2. pc \in PCs /\ pc \in {"fetch", "verify", "send"} /\ (pc # "fetch" => version # 0)
  BY DEF PCs
<1>3. op' = [op EXCEPT ![o] = next]
  BY DEF Connects
<1> HIDE DEF version, pc
<1>4. a \in Op /\ a.config = c /\ a.got = version /\ a.cleared = op[o].cleared
      /\ a.outcome = op[o].outcome /\ a.overlapped = op[o].overlapped
  BY <1>1 DEF Op
<1> HIDE DEF a
<1>5. b \in Op /\ b.config = a.config /\ b.got = a.got /\ b.cleared = a.cleared
      /\ b.outcome = a.outcome
      /\ (b.overlapped <=> op[o].overlapped \/ version \notin {0, rows[c].version})
  BY <1>4 DEF Op
<1> HIDE DEF b
<1>6. next \in Op /\ next.pc = pc /\ next.config = b.config /\ next.got = b.got
      /\ next.cleared = b.cleared /\ next.outcome = b.outcome
      /\ next.overlapped = b.overlapped
  BY <1>2, <1>5, PcWritten
<1> HIDE DEF next
<1>7. OthersStay(o) /\ op'[o] = next
  BY <1>1, <1>3, <1>6, OneMoves
<1> QED
  BY <1>2, <1>4, <1>5, <1>6, <1>7

LEMMA ConnectsStep ==
    ASSUME SmtpInv, NEW o \in Ops, NEW c \in Configs, Connects(o, c, "fetch"),
           UNCHANGED storeVars, op[o].pc \in {"require", "default"}, Present(c)
    PROVE  SmtpInv'
<1>1. op \in [Ops -> Op] /\ Reads(o) /\ Clears(o) /\ Locks(o)
  BY SmtpFacts
<1>2. /\ OthersStay(o) /\ op'[o].pc \in {"fetch", "verify", "send"}
      /\ op'[o].config = c /\ op'[o].cleared = op[o].cleared
      /\ op'[o].outcome = op[o].outcome
      /\ op[o].overlapped => op'[o].overlapped
      /\ op'[o].pc # "fetch" /\ ~op'[o].overlapped => op'[o].got = rows[c].version
  BY ConnectsIs
<1>3. rows' = rows /\ rows[c].state = "present" /\ op[o].cleared = {}
  BY <1>1 DEF storeVars, Present, Locks
<1>4. Reads(o)'
  BY <1>2, <1>3 DEF Reads, Changing
<1>5. Clears(o)' /\ Locks(o)'
  BY <1>1, <1>2, <1>3 DEF Clears, Locks
<1> QED
  BY <1>1, <1>2, <1>3, <1>4, <1>5, LocalStep

LEMMA BeginStep ==
    ASSUME SmtpInv, NEW o \in Ops, Begin(o)
    PROVE  SmtpInv'
<1>1. op \in [Ops -> Op] /\ op[o] \in Op /\ Clears(o) /\ Locks(o) /\ NoConfig \notin Configs
      /\ rows \in [Configs -> Row] /\ SmtpAssumption
  BY SmtpFacts, SmtpAssumption
<1>2. PICK kind \in KindsOf[o], asked \in {"absent", "yes", "no"}, c \in Configs \cup {NoConfig} :
        /\ op[o].pc = "idle"
        /\ kind \in {"create", "update"} \/ asked = "absent"
        /\ IF kind = "mail" THEN c = NoConfig
           ELSE IF kind = "create" THEN c \in Configs /\ rows[c].state = "absent"
                                        /\ \A p \in Ops : op[p].config # c
           ELSE c \in Configs /\ rows[c].state # "absent"
        /\ op' = [op EXCEPT ![o] =
             [@ EXCEPT !.kind = kind, !.asked = asked, !.config = c,
                       !.pc = IF kind = "mail" THEN "default"
                              ELSE IF kind # "create" THEN "require"
                              ELSE IF asked = "yes" THEN "snapshot" ELSE "count",
                       !.since = AnsweredDefault]]
        /\ UNCHANGED storeVars
  BY DEF Begin
<1>3. kind \in Kinds
  BY <1>1 DEF SmtpAssumption
<1> DEFINE pc == IF kind = "mail" THEN "default"
                 ELSE IF kind # "create" THEN "require"
                 ELSE IF asked = "yes" THEN "snapshot" ELSE "count"
           a == [op[o] EXCEPT !.kind = kind, !.asked = asked]
           b == [a EXCEPT !.config = c, !.pc = pc]
           next == [b EXCEPT !.since = AnsweredDefault]
<1>4. pc \in PCs
  BY DEF PCs
<1>5. op' = [op EXCEPT ![o] = next]
  BY <1>2
<1>6. AnsweredDefault \in Nat
  <2> DEFINE versions == {rows[d].version : d \in Defaults}
  <2>1. versions \subseteq Nat
    BY <1>1 DEF Row, Defaults
  <2>2. ASSUME NEW p \in Ops, op[p].config \in Defaults
        PROVE  (CHOOSE v \in versions : TRUE) \in versions
    <3>1. rows[op[p].config].version \in versions
      BY <2>2
    <3> QED
      BY <3>1
  <2> QED
    BY <2>1, <2>2 DEF AnsweredDefault
<1>7. a \in Op /\ a.kind = kind /\ a.asked = asked /\ a.cleared = op[o].cleared
      /\ a.outcome = op[o].outcome /\ a.overlapped = op[o].overlapped
  BY <1>1, <1>3 DEF Op
<1> HIDE DEF a, pc
<1>8. b \in Op /\ b.kind = kind /\ b.asked = asked /\ b.cleared = op[o].cleared
      /\ b.outcome = op[o].outcome /\ b.overlapped = op[o].overlapped
      /\ b.pc = pc /\ b.config = c
  BY <1>4, <1>7, ZenonT(60) DEF Op, PCs
<1> HIDE DEF b
<1>9. next \in Op /\ next.kind = kind /\ next.asked = asked /\ next.cleared = op[o].cleared
      /\ next.outcome = op[o].outcome /\ next.overlapped = op[o].overlapped
      /\ next.pc = pc /\ next.config = c
  BY <1>6, <1>8 DEF Op
<1> HIDE DEF next
<1>10. OthersStay(o) /\ op'[o] = next
  BY <1>1, <1>5, <1>9, OneMoves
<1>11. rows' = rows /\ op[o].cleared = {}
  BY <1>1, <1>2 DEF storeVars, Locks
<1>12. Reads(o)'
  BY <1>2, <1>9, <1>10, <1>11 DEF Reads, Changing, pc
<1>13. Clears(o)'
  BY <1>1, <1>2, <1>3, <1>9, <1>10 DEF Clears, pc, Kinds
<1>14. Locks(o)'
  BY <1>9, <1>10, <1>11 DEF Locks, pc
<1>15. \A p \in Ops \ {o} : c \in Configs /\ c = op[p].config => rows[c].state # "absent"
  BY <1>1, <1>2
<1>16. pc # "store"
  BY DEF pc
<1> QED
  BY <1>2, <1>9, <1>10, <1>11, <1>12, <1>13, <1>14, <1>15, <1>16, LocalStep

LEMMA RequireStep ==
    ASSUME SmtpInv, NEW o \in Ops, Require(o)
    PROVE  SmtpInv'
<1>1. op \in [Ops -> Op] /\ Reads(o) /\ Clears(o) /\ Locks(o) /\ rows \in [Configs -> Row]
  BY SmtpFacts
<1>2. op[o].pc = "require" /\ UNCHANGED storeVars /\ rows' = rows
      /\ op[o].kind \in {"update", "remove", "test"} /\ op[o].config \in Configs
      /\ rows[op[o].config].state # "absent" /\ op[o].cleared = {}
  BY <1>1 DEF Require, storeVars, Clears, Reads, Locks
<1>3. CASE Ends(o, "error")
  BY <1>2, <1>3, EndsStep DEF Outcomes
<1>4. CASE Present(op[o].config) /\ Connects(o, op[o].config, "fetch")
  BY <1>2, <1>4, ConnectsStep
<1>5. CASE op[o].kind # "test" /\ Moves(o, AfterRequire(op[o].kind, op[o].asked))
  <2> DEFINE pc == AfterRequire(op[o].kind, op[o].asked)
  <2>1. /\ pc \in {"delete", "snapshot", "write"} /\ pc \in PCs
        /\ pc = "snapshot" => op[o].kind = "update" /\ op[o].asked = "yes"
        /\ pc = "write" => op[o].kind = "update" /\ op[o].asked # "yes"
    BY <1>2, <1>5 DEF AfterRequire, PCs
  <2> HIDE DEF pc
  <2>2. /\ OthersStay(o) /\ op'[o].pc = pc
        /\ op'[o].kind = op[o].kind /\ op'[o].instance = op[o].instance
        /\ op'[o].config = op[o].config /\ op'[o].asked = op[o].asked
        /\ op'[o].cleared = op[o].cleared
        /\ op'[o].overlapped = op[o].overlapped /\ op'[o].outcome = op[o].outcome
    BY <1>1, <1>5, <2>1, MovesIs DEF pc
  <2>3. Reads(o)'
    BY <1>2, <2>1, <2>2 DEF Reads, Changing
  <2>4. Clears(o)'
    BY <1>1, <1>2, <2>1, <2>2 DEF Clears
  <2>5. Locks(o)'
    BY <1>2, <2>1, <2>2 DEF Locks
  <2>6. \A p \in Ops \ {o} : op'[o].cleared \cap Held(p) = {}
    BY <1>2, <2>2
  <2> QED
    BY <1>2, <2>1, <2>2, <2>3, <2>4, <2>5, <2>6, LocalStep
<1> QED
  BY <1>2, <1>3, <1>4, <1>5 DEF Require

\* updateMany: what it finds, and what it then locks.
LEMMA SnapshotStep ==
    ASSUME SmtpInv, NEW o \in Ops, Snapshot(o)
    PROVE  SmtpInv'
<1>1. op \in [Ops -> Op] /\ op[o] \in Op /\ Reads(o) /\ Clears(o) /\ Locks(o)
  BY SmtpFacts
<1>2. op[o].pc = "snapshot" /\ UNCHANGED storeVars /\ rows' = rows /\ op[o].cleared = {}
      /\ ToClear(o) \in SUBSET Configs
  BY <1>1 DEF Snapshot, storeVars, Locks, ToClear, Matching, Defaults
<1> DEFINE next == [op[o] EXCEPT !.pc = "lock", !.target = ToClear(o)]
<1>3. op' = [op EXCEPT ![o] = next]
  BY DEF Snapshot
<1>4. /\ next \in Op /\ next.pc = "lock" /\ next.target = ToClear(o)
      /\ next.kind = op[o].kind /\ next.config = op[o].config /\ next.asked = op[o].asked
      /\ next.cleared = {} /\ next.outcome = op[o].outcome
      /\ next.overlapped = op[o].overlapped
  BY <1>1, <1>2 DEF Op
<1> HIDE DEF next
<1>5. OthersStay(o) /\ op'[o] = next
  BY <1>1, <1>3, <1>4, OneMoves
<1>6. Reads(o)'
  BY <1>1, <1>2, <1>4, <1>5 DEF Reads, Changing
<1>7. ToClear(o)' = ToClear(o)
  BY <1>2, <1>4, <1>5 DEF ToClear, Matching, Defaults, Present
<1>8. Clears(o)'
  BY <1>1, <1>2, <1>4, <1>5, <1>7 DEF Clears
<1>9. Locks(o)'
  BY <1>4, <1>5 DEF Locks
<1> QED
  BY <1>2, <1>4, <1>5, <1>6, <1>8, <1>9, LocalStep

LEMMA LockStep ==
    ASSUME SmtpInv, NEW o \in Ops, Lock(o)
    PROVE  SmtpInv'
<1>1. op \in [Ops -> Op] /\ op[o] \in Op /\ Reads(o) /\ Clears(o)
  BY SmtpFacts
<1> DEFINE cleared == op[o].target \cap Defaults
           pc == IF op[o].kind = "create" THEN "count" ELSE "write"
           next == [op[o] EXCEPT !.pc = pc, !.cleared = cleared]
<1>2. op[o].pc = "lock" /\ UNCHANGED storeVars /\ rows' = rows
      /\ cleared \in SUBSET Configs /\ cleared \subseteq Defaults /\ cleared \subseteq op[o].target
      /\ \A p \in Ops \ {o} : cleared \cap Held(p) = {}
  BY <1>1 DEF Lock, storeVars, Defaults, LockedByOther
<1>3. op' = [op EXCEPT ![o] = next]
  BY DEF Lock, Matching
<1> HIDE DEF cleared
<1>4. pc \in {"count", "write"} /\ (pc = "count" <=> op[o].kind = "create")
  OBVIOUS
<1> HIDE DEF pc
<1>5. /\ next \in Op /\ next.pc = pc /\ next.cleared = cleared
      /\ next.kind = op[o].kind /\ next.config = op[o].config /\ next.asked = op[o].asked
      /\ next.outcome = op[o].outcome /\ next.overlapped = op[o].overlapped
  BY <1>1, <1>2, <1>4 DEF Op
<1> HIDE DEF next
<1>6. OthersStay(o) /\ op'[o] = next
  BY <1>1, <1>3, <1>5, OneMoves
<1>7. Reads(o)'
  BY <1>1, <1>2, <1>4, <1>5, <1>6 DEF Reads, Changing
<1>8. ToClear(o)' = ToClear(o) /\ Defaults' = Defaults
  BY <1>2, <1>5, <1>6 DEF ToClear, Matching, Defaults, Present
<1>9. ~op[o].overlapped => ToClear(o) \subseteq cleared
  BY <1>1, <1>2 DEF Clears, cleared, ToClear, Matching
<1>10. Clears(o)'
  BY <1>1, <1>2, <1>4, <1>5, <1>6, <1>8, <1>9 DEF Clears
<1>11. Locks(o)'
  BY <1>2, <1>4, <1>5, <1>6, <1>8 DEF Locks
<1> QED
  BY <1>2, <1>4, <1>5, <1>6, <1>7, <1>10, <1>11, LocalStep

LEMMA CountStep ==
    ASSUME SmtpInv, NEW o \in Ops, Count(o)
    PROVE  SmtpInv'
<1>1. op \in [Ops -> Op] /\ op[o] \in Op /\ Reads(o) /\ Clears(o) /\ Locks(o) /\ Apart
  BY SmtpFacts
<1>2. op[o].pc = "count" /\ UNCHANGED storeVars /\ rows' = rows
  BY DEF Count, storeVars
<1> DEFINE first == \A c \in Configs : ~Present(c)
           a == [op[o] EXCEPT !.pc = "write"]
           next == [a EXCEPT !.first = first]
<1>3. op' = [op EXCEPT ![o] = next]
  BY DEF Count
<1>4. first \in BOOLEAN /\ (first => Defaults = {})
  BY DEF Defaults
<1> HIDE DEF first
<1>5. /\ a \in Op /\ a.pc = "write" /\ a.cleared = op[o].cleared
      /\ a.kind = op[o].kind /\ a.config = op[o].config /\ a.asked = op[o].asked
      /\ a.outcome = op[o].outcome /\ a.overlapped = op[o].overlapped
  BY <1>1 DEF Op
<1> HIDE DEF a
<1>6. /\ next \in Op /\ next.pc = "write" /\ next.cleared = op[o].cleared /\ next.first = first
      /\ next.kind = op[o].kind /\ next.config = op[o].config /\ next.asked = op[o].asked
      /\ next.outcome = op[o].outcome /\ next.overlapped = op[o].overlapped
  BY <1>4, <1>5 DEF Op
<1> HIDE DEF next
<1>7. OthersStay(o) /\ op'[o] = next
  BY <1>1, <1>3, <1>6, OneMoves
<1>8. Reads(o)'
  BY <1>1, <1>2, <1>6, <1>7 DEF Reads, Changing
<1>9. ToClear(o)' = ToClear(o) /\ Defaults' = Defaults
  BY <1>2, <1>6, <1>7 DEF ToClear, Matching, Defaults, Present
<1>10. Clears(o)'
  BY <1>1, <1>2, <1>4, <1>6, <1>7, <1>9 DEF Clears
<1>11. Locks(o)'
  BY <1>1, <1>2, <1>6, <1>7, <1>9 DEF Locks
<1>12. \A p \in Ops \ {o} : op'[o].cleared \cap Held(p) = {}
  BY <1>1, <1>6, <1>7 DEF Apart, Held
<1> QED
  BY <1>2, <1>6, <1>7, <1>8, <1>10, <1>11, <1>12, LocalStep

LEMMA MailStep ==
    ASSUME SmtpInv, NEW o \in Ops, FindDefault(o) \/ Verify(o) \/ Send(o) \/ Rollback(o)
    PROVE  SmtpInv'
<1>1. op \in [Ops -> Op] /\ Reads(o) /\ Clears(o) /\ Locks(o)
  BY SmtpFacts
<1>2. /\ UNCHANGED storeVars /\ op[o].pc # "invalidate"
      /\ \/ \E outcome \in Outcomes : outcome # "conflict" /\ Ends(o, outcome)
         \/ op[o].pc = "default" /\ \E c \in Defaults : Connects(o, c, "fetch")
         \/ op[o].pc = "verify" /\ Moves(o, "mark")
  BY DEF FindDefault, Verify, Send, Rollback, Outcomes
<1>3. ASSUME NEW outcome \in Outcomes, outcome # "conflict", Ends(o, outcome)
      PROVE  SmtpInv'
  BY <1>2, <1>3, EndsStep
<1>4. ASSUME op[o].pc = "default", NEW c \in Defaults, Connects(o, c, "fetch")
      PROVE  SmtpInv'
  BY <1>2, <1>4, ConnectsStep DEF Defaults
<1>5. CASE op[o].pc = "verify" /\ Moves(o, "mark")
  <2>1. /\ OthersStay(o) /\ op'[o].pc = "mark"
        /\ op'[o].kind = op[o].kind /\ op'[o].config = op[o].config
        /\ op'[o].cleared = op[o].cleared /\ op'[o].got = op[o].got
        /\ op'[o].overlapped = op[o].overlapped /\ op'[o].outcome = op[o].outcome
    BY <1>1, <1>5, MovesIs DEF PCs
  <2>2. rows' = rows /\ op[o].cleared = {}
    BY <1>1, <1>2, <1>5 DEF storeVars, Locks
  <2>3. Reads(o)'
    BY <1>1, <1>5, <2>1, <2>2 DEF Reads, Changing
  <2>4. Clears(o)' /\ Locks(o)'
    BY <1>1, <1>5, <2>1, <2>2 DEF Clears, Locks
  <2> QED
    BY <1>2, <2>1, <2>2, <2>3, <2>4, LocalStep
<1> QED
  BY <1>2, <1>3, <1>4, <1>5

\* transportFor reads the row.
LEMMA FetchStep ==
    ASSUME SmtpInv, NEW o \in Ops, Fetch(o)
    PROVE  SmtpInv'
<1>1. op \in [Ops -> Op] /\ op[o] \in Op /\ Reads(o) /\ Clears(o) /\ Locks(o)
      /\ rows \in [Configs -> Row]
  BY SmtpFacts
<1> DEFINE c == op[o].config
<1>2. op[o].pc = "fetch" /\ UNCHANGED storeVars /\ rows' = rows /\ op[o].cleared = {}
      /\ c \in Configs
  BY <1>1 DEF Fetch, storeVars, Locks, Reads
<1>3. CASE \E outcome \in {"dropped", "error"} : Ends(o, outcome)
  BY <1>2, <1>3, EndsStep DEF Outcomes
<1>4. CASE /\ Present(c)
           /\ op' = [op EXCEPT ![o] = [@ EXCEPT !.pc = "store", !.got = rows[c].version]]
  <2> DEFINE next == [op[o] EXCEPT !.pc = "store", !.got = rows[c].version]
  <2>1. rows[c].version \in Nat /\ rows[c].state = "present"
    BY <1>1, <1>2, <1>4 DEF Row, Present
  <2>2. op' = [op EXCEPT ![o] = next]
    BY <1>4
  <2>3. /\ next \in Op /\ next.pc = "store" /\ next.got = rows[c].version
        /\ next.config = c /\ next.cleared = {}
        /\ next.outcome = op[o].outcome /\ next.overlapped = op[o].overlapped
    BY <1>1, <1>2, <2>1 DEF Op
  <2> HIDE DEF next
  <2>4. OthersStay(o) /\ op'[o] = next
    BY <1>1, <2>2, <2>3, OneMoves
  <2>5. Reads(o)'
    BY <1>2, <2>1, <2>3, <2>4 DEF Reads, Changing
  <2>6. Clears(o)' /\ Locks(o)'
    BY <1>1, <2>3, <2>4 DEF Clears, Locks
  <2> QED
    BY <1>2, <2>3, <2>4, <2>5, <2>6, LocalStep
<1> QED
  BY <1>3, <1>4 DEF Fetch

\* A transport is kept of what the row was.
LEMMA StoreStep ==
    ASSUME SmtpInv, NEW o \in Ops, Store(o)
    PROVE  SmtpInv'
<1>1. /\ rows \in [Configs -> Row] /\ cache \in [Instances -> [Configs -> Nat]]
      /\ op \in [Ops -> Op] /\ op[o] \in Op /\ latest \in Nat
      /\ raced \subseteq Instances \X Configs
      /\ \A p \in Ops : Reads(p) /\ Clears(p) /\ Locks(p)
      /\ CacheInv /\ VerifiedMeansTested
  BY SmtpFacts
<1> DEFINE i == op[o].instance
           c == op[o].config
           pc == IF op[o].kind = "test" THEN "verify" ELSE "send"
<1>2. /\ op[o].pc = "store" /\ rows' = rows /\ latest' = latest /\ raced' = raced
      /\ i \in Instances /\ c \in Configs /\ op[o].got \in Nat /\ op[o].cleared = {}
      /\ rows[c].state # "absent"
  BY <1>1 DEF Store, Reads, Locks, Op, Changing
<1>3. pc \in PCs /\ pc \in {"verify", "send"}
  BY DEF PCs
<1>4. Moves(o, pc)
  BY DEF Store
<1> HIDE DEF pc
<1>5. /\ OthersStay(o) /\ op'[o].pc = pc /\ op'[o].config = c
      /\ op'[o].cleared = {} /\ op'[o].got = op[o].got
      /\ op'[o].overlapped = op[o].overlapped /\ op'[o].outcome = op[o].outcome
  BY <1>1, <1>2, <1>3, <1>4, MovesIs
<1>6. cache' = [cache EXCEPT ![i] = [cache[i] EXCEPT ![c] = op[o].got]]
  BY DEF Store
<1>7. /\ cache' \in [Instances -> [Configs -> Nat]]
      /\ \A j \in Instances, d \in Configs :
           cache'[j][d] = IF j = i /\ d = c THEN op[o].got ELSE cache[j][d]
  BY <1>1, <1>2, <1>6
<1> HIDE DEF i, c
<1>8. SameRows
  BY <1>1, <1>2 DEF SameRows
<1>9. Reads(o)' /\ Clears(o)' /\ Locks(o)'
  BY <1>1, <1>2, <1>3, <1>5 DEF Reads, Clears, Locks, Changing, c
<1>18. Held(o)' = {} /\ AloneInIndex(o)'
  BY <1>3, <1>5 DEF Held, AloneInIndex, Pending
<1>10. /\ \A p \in Ops : (Reads(p) /\ Clears(p) /\ Locks(p))'
       /\ Apart' /\ OneDefault' /\ IndexInv'
  BY <1>5, <1>8, <1>9, <1>18, RowsKept DEF c
<1>11. SmtpTypeOK' /\ VerifiedMeansTested'
  BY <1>1, <1>2, <1>5, <1>7 DEF SmtpTypeOK, OthersStay, VerifiedMeansTested
<1>12. \A j \in Instances, d \in Configs :
         (\E p \in Ops : op[p].pc = "invalidate" /\ op[p].instance = j /\ op[p].config = d)
         => (\E p \in Ops : op'[p].pc = "invalidate" /\ op'[p].instance = j /\ op'[p].config = d)
  BY <1>2, <1>5 DEF OthersStay
<1>13. op[o].got # rows[c].version => Untrusted(i, c)
  BY <1>1, <1>2 DEF CacheInv, i, c
<1>14. TransportIsCurrent'
  <2> SUFFICES ASSUME NEW j \in Instances, NEW d \in Configs,
                      cache'[j][d] # 0, cache'[j][d] # rows'[d].version
               PROVE  \/ <<j, d>> \in raced'
                      \/ \E p \in Ops : /\ op'[p].pc = "invalidate"
                                        /\ op'[p].instance = j /\ op'[p].config = d
    BY DEF TransportIsCurrent
  <2>1. Untrusted(j, d)
    <3>1. CASE j = i /\ d = c
      <4>1. op[o].got # rows[c].version
        BY <1>2, <1>7, <3>1
      <4> QED
        BY <1>13, <3>1, <4>1
    <3>2. CASE ~(j = i /\ d = c)
      <4>1. cache[j][d] # 0 /\ cache[j][d] # rows[d].version
        BY <1>2, <1>7, <3>2
      <4> QED
        BY <1>1, <4>1 DEF CacheInv, TransportIsCurrent, Untrusted
    <3> QED
      BY <3>1, <3>2
  <2> QED
    BY <1>2, <1>12, <2>1 DEF Untrusted
<1>15. \A j \in Instances, d \in Configs : rows'[d].state = "absent" => cache'[j][d] = 0
  BY <1>1, <1>2, <1>7 DEF CacheInv
<1>16. ASSUME NEW p \in Ops, op'[p].pc = "store",
              op'[p].got # rows'[op'[p].config].version
       PROVE  Untrusted(op[p].instance, op[p].config)' /\ op'[p] = op[p]
  <2>1. op'[p] = op[p]
    BY <1>3, <1>5, <1>16 DEF OthersStay
  <2>2. op[p].instance \in Instances /\ op[p].config \in Configs
    BY <1>1, <1>16, <2>1 DEF Op, Reads
  <2>3. Untrusted(op[p].instance, op[p].config)
    BY <1>1, <1>2, <1>16, <2>1, <2>2 DEF CacheInv
  <2> QED
    BY <1>2, <1>12, <2>1, <2>2, <2>3 DEF Untrusted
<1>17. CacheInv'
  BY <1>14, <1>15, <1>16 DEF CacheInv
<1> QED
  BY <1>10, <1>11, <1>17 DEF SmtpInv

\* verifiedAt is written: the settings stay.
LEMMA MarkStep ==
    ASSUME SmtpInv, NEW o \in Ops, Mark(o)
    PROVE  SmtpInv'
<1>1. /\ rows \in [Configs -> Row] /\ cache \in [Instances -> [Configs -> Nat]]
      /\ op \in [Ops -> Op] /\ op[o] \in Op /\ latest \in Nat
      /\ raced \subseteq Instances \X Configs
      /\ Reads(o) /\ Clears(o) /\ Locks(o) /\ VerifiedMeansTested
  BY SmtpFacts
<1> DEFINE c == op[o].config
<1>2. /\ op[o].pc = "mark" /\ cache' = cache /\ latest' = latest /\ raced' = raced
      /\ c \in Configs /\ op[o].got \in Nat /\ op[o].overlapped \in BOOLEAN
      /\ ~op[o].overlapped => op[o].got = rows[c].version
  BY <1>1 DEF Mark, Reads, Op
<1>3. CASE Ends(o, "error") /\ UNCHANGED rows
  BY <1>2, <1>3, EndsStep DEF Outcomes, storeVars
<1>4. CASE /\ rows' = [rows EXCEPT ![c] =
                         [@ EXCEPT !.verified = op[o].got, !.suspect = op[o].overlapped]]
           /\ Ends(o, "ok") \/ Ends(o, "error")
  <2> DEFINE a == [rows[c] EXCEPT !.verified = op[o].got]
             row == [a EXCEPT !.suspect = op[o].overlapped]
  <2>1. rows' = [rows EXCEPT ![c] = row]
    BY <1>4
  <2>2. a \in Row /\ a.state = rows[c].state /\ a.version = rows[c].version
        /\ a.isDefault = rows[c].isDefault /\ a.verified = op[o].got
    BY <1>1, <1>2 DEF Row
  <2> HIDE DEF a
  <2>3. row \in Row /\ row.state = rows[c].state /\ row.version = rows[c].version
        /\ row.isDefault = rows[c].isDefault /\ row.verified = op[o].got
        /\ row.suspect = op[o].overlapped
    BY <1>2, <2>2 DEF Row
  <2> HIDE DEF row
  <2>4. rows'[c] = row /\ (\A d \in Configs \ {c} : rows'[d] = rows[d])
        /\ rows' \in [Configs -> Row]
    BY <1>1, <1>2, <2>1, <2>3
  <2>5. SameRows
    BY <2>3, <2>4 DEF SameRows
  <2>6. VerifiedMeansTested'
    BY <1>1, <1>2, <2>3, <2>4 DEF VerifiedMeansTested
  <2>7. /\ OthersStay(o) /\ op'[o].pc = "done" /\ op'[o].outcome \in {"ok", "error"}
        /\ op'[o].config = c /\ op'[o].cleared = {}
    BY <1>1, <1>4, EndsIs DEF Outcomes
  <2>8. Reads(o)' /\ Clears(o)' /\ Locks(o)'
    BY <2>7 DEF Reads, Clears, Locks, Changing
  <2>12. Held(o)' = {} /\ AloneInIndex(o)'
    BY <2>7 DEF Held, AloneInIndex, Pending
  <2>9. /\ \A p \in Ops : (Reads(p) /\ Clears(p) /\ Locks(p))'
        /\ Apart' /\ OneDefault' /\ IndexInv'
    BY <2>5, <2>7, <2>8, <2>12, RowsKept
  <2>10. CacheInv'
    BY <1>2, <2>5, <2>7, TransportsKept
  <2>11. SmtpTypeOK'
    BY <1>1, <1>2, <2>4, <2>7 DEF SmtpTypeOK, OthersStay
  <2> QED
    BY <2>6, <2>9, <2>10, <2>11 DEF SmtpInv
<1> QED
  BY <1>2, <1>3, <1>4 DEF Mark

\* Whoever is on its way has been overtaken.
Overtaken(o) ==
    /\ op' \in [Ops -> Op]
    /\ \A p \in Ops \ {o} :
         /\ op'[p].pc = op[p].pc /\ op'[p].kind = op[p].kind /\ op'[p].config = op[p].config
         /\ op'[p].instance = op[p].instance /\ op'[p].got = op[p].got
         /\ op'[p].asked = op[p].asked /\ op'[p].first = op[p].first
         /\ op'[p].cleared = op[p].cleared /\ op'[p].outcome = op[p].outcome
         /\ op[p].overlapped => op'[p].overlapped
         /\ op[p].pc \notin {"idle", "done"} => op'[p].overlapped

LEMMA OvertakeIs ==
    ASSUME op \in [Ops -> Op], NEW o \in Ops, NEW next \in Op, Overtake(o, next)
    PROVE  Overtaken(o) /\ op'[o] = next
<1>1. op' = [p \in Ops |->
               IF p = o THEN next
               ELSE IF op[p].pc \in {"idle", "done"} THEN op[p]
               ELSE [op[p] EXCEPT !.overlapped = TRUE]]
  BY DEF Overtake
<1>2. \A r \in Op :
        LET late == [r EXCEPT !.overlapped = TRUE]
        IN /\ late \in Op /\ late.overlapped /\ late.pc = r.pc /\ late.kind = r.kind
           /\ late.config = r.config /\ late.instance = r.instance /\ late.got = r.got
           /\ late.asked = r.asked /\ late.first = r.first /\ late.cleared = r.cleared /\ late.outcome = r.outcome
  BY DEF Op
<1>3. ASSUME NEW p \in Ops \ {o}
      PROVE  /\ op'[p] \in Op
             /\ op'[p].pc = op[p].pc /\ op'[p].kind = op[p].kind
             /\ op'[p].config = op[p].config /\ op'[p].instance = op[p].instance
             /\ op'[p].got = op[p].got /\ op'[p].asked = op[p].asked
             /\ op'[p].first = op[p].first /\ op'[p].cleared = op[p].cleared /\ op'[p].outcome = op[p].outcome
             /\ op[p].overlapped => op'[p].overlapped
             /\ op[p].pc \notin {"idle", "done"} => op'[p].overlapped
  <2>1. CASE op[p].pc \in {"idle", "done"}
    BY <1>1, <2>1
  <2>2. CASE op[p].pc \notin {"idle", "done"}
    <3>1. op'[p] = [op[p] EXCEPT !.overlapped = TRUE] /\ op[p] \in Op
      BY <1>1, <2>2
    <3> QED
      BY <1>2, <3>1
  <2> QED
    BY <2>1, <2>2
<1>4. op'[o] = next /\ DOMAIN op' = Ops
  BY <1>1
<1>5. op' \in [Ops -> Op]
  BY <1>1, <1>3, <1>4
<1> QED
  BY <1>3, <1>4, <1>5 DEF Overtaken

\* What a commit does to the rows: its own is another, whoever held the
\* default has released it.
Committed(o, c) ==
    /\ rows' \in [Configs -> Row] /\ rows'[c].state # "absent" /\ rows'[c].verified = 0
    /\ \A d \in Configs \ {c} :
         /\ rows'[d].state = rows[d].state /\ rows'[d].version = rows[d].version
         /\ rows'[d].verified = rows[d].verified /\ rows'[d].suspect = rows[d].suspect
         /\ rows'[d].isDefault <=> rows[d].isDefault /\ d \notin op[o].cleared

\* A commit, with the requests it overtakes and the transports it leaves stale.
LEMMA CommittedStep ==
    ASSUME SmtpInv, NEW o \in Ops, NEW c \in Configs, c = op[o].config, NEW told \in BOOLEAN,
           op[o].pc \in {"commit", "delete"}, \A p \in Ops \ {o} : c \notin Held(p),
           Committed(o, c), OneDefault',
           Defaults' \subseteq Defaults \/ \A p \in Ops \ {o} : ~Pending(p),
           cache' = cache, latest' \in Nat,
           raced' = raced \cup (Untold(o, c, told) \X {c}), Overtaken(o),
           op'[o].pc \in {"done", "invalidate"},
           told /\ rows[c].state # "absent" => op'[o].pc = "invalidate",
           op'[o].config = c, op'[o].instance = op[o].instance,
           op'[o].cleared = {}, op'[o].outcome = "conflict" => op'[o].overlapped
    PROVE  SmtpInv'
<1>1. /\ rows \in [Configs -> Row] /\ cache \in [Instances -> [Configs -> Nat]]
      /\ op \in [Ops -> Op] /\ latest \in Nat /\ raced \subseteq Instances \X Configs
      /\ \A p \in Ops : Reads(p) /\ Clears(p) /\ Locks(p)
      /\ Apart /\ OneDefault /\ IndexInv /\ CacheInv /\ VerifiedMeansTested
  BY SmtpFacts
<1> DEFINE i == op[o].instance
<1>2. i \in Instances
  BY <1>1 DEF Op
<1>3. SmtpTypeOK'
  BY <1>1 DEF SmtpTypeOK, Committed, Overtaken, Untold
<1>4. VerifiedMeansTested'
  BY <1>1 DEF VerifiedMeansTested, Committed
<1>5. ASSUME NEW p \in Ops \ {o}
      PROVE  /\ op[p].pc \notin {"idle", "default", "done"} => op[p].config \in Configs
             /\ op[p].config \in Configs =>
                  (rows'[op[p].config].state = "absent" <=> rows[op[p].config].state = "absent")
  <2>1. op[p].config = c => rows[c].state # "absent"
    BY <1>1 DEF Apart
  <2> QED
    BY <1>1, <2>1 DEF Reads, Committed
<1>14. ASSUME NEW p \in Ops \ {o}
       PROVE  /\ Held(p)' = Held(p) /\ Held(p) \cap op[o].cleared = {}
              /\ op[p].pc \in {"index", "commit"} =>
                   /\ op[p].config \in Configs \ {c}
                   /\ BecomesDefault(p)' <=> BecomesDefault(p)
              /\ Pending(p)' <=> Pending(p)
  <2>1. /\ op'[p].pc = op[p].pc /\ op'[p].kind = op[p].kind /\ op'[p].config = op[p].config
        /\ op'[p].asked = op[p].asked /\ op'[p].first = op[p].first
        /\ op'[p].cleared = op[p].cleared
    BY DEF Overtaken
  <2>2. Held(p)' = Held(p)
    BY <2>1 DEF Held
  <2>3. Held(p) \cap op[o].cleared = {}
    BY <1>1 DEF Apart, Held
  <2>4. ASSUME op[p].pc \in {"index", "commit"}
        PROVE  /\ op[p].config \in Configs \ {c}
               /\ BecomesDefault(p)' <=> BecomesDefault(p)
    <3>1. op[p].config \in Held(p) /\ op[p].config \in Configs
      BY <1>1, <2>4 DEF Held, Reads
    <3>2. op[p].config # c /\ op[p].config \notin op[o].cleared
      BY <2>3, <3>1
    <3>3. rows'[op[p].config].isDefault <=> rows[op[p].config].isDefault
      BY <3>1, <3>2 DEF Committed
    <3> QED
      BY <2>1, <3>1, <3>2, <3>3 DEF BecomesDefault
  <2> QED
    BY <2>1, <2>2, <2>3, <2>4 DEF Pending
<1>6. ASSUME NEW p \in Ops
      PROVE  (Reads(p) /\ Clears(p) /\ Locks(p))'
  <2>1. CASE p = o
    BY <2>1 DEF Reads, Clears, Locks, Changing, Committed
  <2>2. CASE p # o
    <3>1. /\ op'[p].pc = op[p].pc /\ op'[p].kind = op[p].kind /\ op'[p].config = op[p].config
          /\ op'[p].asked = op[p].asked
          /\ op'[p].cleared = op[p].cleared /\ op'[p].outcome = op[p].outcome
          /\ op[p].overlapped => op'[p].overlapped
          /\ op[p].pc \notin {"idle", "done"} => op'[p].overlapped
      BY <2>2 DEF Overtaken
    <3>2. Reads(p)'
      BY <1>1, <1>5, <2>2, <3>1 DEF Reads, Changing
    <3>3. Clears(p)'
      BY <1>1, <3>1 DEF Clears
    <3>4. op[p].cleared \subseteq Defaults /\ c \notin op[p].cleared
          /\ op[p].cleared \cap op[o].cleared = {}
      BY <1>1, <1>14, <2>2 DEF Locks, Held
    <3>5. op[p].cleared \subseteq Defaults'
      BY <3>4 DEF Defaults, Present, Committed
    <3>6. op[p].pc \in {"index", "commit"} /\ op[p].kind = "update" => Present(op[p].config)'
      <4> SUFFICES ASSUME op[p].pc \in {"index", "commit"}, op[p].kind = "update"
                   PROVE  Present(op[p].config)'
        OBVIOUS
      <4>1. Present(op[p].config) /\ op[p].config \in Configs \ {c}
        BY <1>1, <1>14, <2>2 DEF Locks
      <4> QED
        BY <3>1, <4>1 DEF Present, Committed
    <3>7. op[p].pc = "index" => BecomesDefault(p)'
      BY <1>1, <1>14, <2>2 DEF Locks
    <3>8. Locks(p)'
      BY <1>1, <3>1, <3>5, <3>6, <3>7 DEF Locks
    <3> QED
      BY <3>2, <3>3, <3>8
  <2> QED
    BY <2>1, <2>2
<1>15. Held(o)' = {} /\ ~Pending(o)'
  BY DEF Held, Pending
<1>7. Apart'
  <2> SUFFICES ASSUME NEW p \in Ops, NEW q \in Ops, p # q
               PROVE  /\ Held(p)' \cap Held(q)' = {}
                      /\ op'[p].config \in Configs /\ op'[p].config = op'[q].config
                         => rows'[op'[p].config].state # "absent"
    BY DEF Apart
  <2>1. CASE p # o /\ q # o
    BY <1>1, <1>5, <1>14, <2>1 DEF Apart, Overtaken
  <2>2. CASE p = o
    BY <1>15, <2>2 DEF Committed
  <2>3. CASE q = o
    BY <1>15, <2>3 DEF Committed
  <2> QED
    BY <2>1, <2>2, <2>3
<1>16. IndexInv'
  <2> SUFFICES ASSUME NEW p \in Ops, Pending(p)'
               PROVE  /\ Defaults' \subseteq Held(p)'
                      /\ \A q \in Ops : Pending(q)' => q = p
    BY DEF IndexInv
  <2>1. p # o /\ Pending(p) /\ Defaults' \subseteq Defaults
    BY <1>14, <1>15
  <2> QED
    BY <1>1, <1>14, <1>15, <2>1 DEF IndexInv
<1>8. ASSUME NEW j \in Instances, NEW d \in Configs, d # c, Untrusted(j, d)
      PROVE  Untrusted(j, d)'
  <2>1. CASE <<j, d>> \in raced
    BY <2>1 DEF Untrusted
  <2>2. ASSUME NEW p \in Ops, op[p].pc = "invalidate", op[p].instance = j, op[p].config = d
        PROVE  Untrusted(j, d)'
    <3>1. op'[p].pc = "invalidate" /\ op'[p].instance = j /\ op'[p].config = d
      BY <1>8, <2>2 DEF Overtaken
    <3> QED
      BY <3>1 DEF Untrusted
  <2> QED
    BY <1>8, <2>1, <2>2 DEF Untrusted
<1>9. ASSUME NEW j \in Instances, rows[c].state # "absent",
             \/ cache[j][c] # 0
             \/ \E p \in Ops : op[p].pc = "store" /\ op[p].config = c /\ op[p].instance = j
      PROVE  Untrusted(j, c)'
  <2>1. CASE j = i /\ told
    BY <1>9, <2>1 DEF Untrusted
  <2>2. CASE j # i \/ ~told
    <3>1. <<j, c>> \in raced'
      BY <1>9, <2>2 DEF Untold
    <3> QED
      BY <3>1 DEF Untrusted
  <2> QED
    BY <2>1, <2>2
<1>10. TransportIsCurrent'
  <2> SUFFICES ASSUME NEW j \in Instances, NEW d \in Configs,
                      cache'[j][d] # 0, cache'[j][d] # rows'[d].version
               PROVE  Untrusted(j, d)'
    BY DEF TransportIsCurrent, Untrusted
  <2>1. CASE d = c
    BY <1>1, <1>9, <2>1 DEF CacheInv
  <2>2. CASE d # c
    <3>1. Untrusted(j, d)
      BY <1>1, <2>2 DEF CacheInv, TransportIsCurrent, Untrusted, Committed
    <3> QED
      BY <1>8, <2>2, <3>1
  <2> QED
    BY <2>1, <2>2
<1>11. \A j \in Instances, d \in Configs : rows'[d].state = "absent" => cache'[j][d] = 0
  BY <1>1 DEF CacheInv, Committed
<1>12. ASSUME NEW p \in Ops, op'[p].pc = "store",
              op'[p].got # rows'[op'[p].config].version
       PROVE  Untrusted(op[p].instance, op[p].config)' /\ op'[p].instance = op[p].instance
              /\ op'[p].config = op[p].config
  <2>1. p # o
    BY <1>12
  <2>2. op'[p].pc = op[p].pc /\ op'[p].got = op[p].got /\ op'[p].config = op[p].config
        /\ op'[p].instance = op[p].instance
    BY <2>1 DEF Overtaken
  <2>3. op[p].instance \in Instances /\ op[p].config \in Configs
        /\ rows[op[p].config].state # "absent"
    BY <1>1, <1>12, <2>2 DEF Op, Reads, Changing
  <2>4. CASE op[p].config = c
    BY <1>9, <1>12, <2>2, <2>3, <2>4
  <2>5. CASE op[p].config # c
    <3>1. Untrusted(op[p].instance, op[p].config)
      BY <1>1, <1>12, <2>2, <2>3, <2>5 DEF CacheInv, Committed
    <3> QED
      BY <1>8, <2>2, <2>3, <2>5, <3>1
  <2> QED
    BY <2>2, <2>4, <2>5
<1>13. CacheInv'
  BY <1>10, <1>11, <1>12 DEF CacheInv
<1> QED
  BY <1>3, <1>4, <1>6, <1>7, <1>13, <1>16 DEF SmtpInv

\* Alone, a change that makes its row the default finds no other.
LEMMA AloneNoConflict ==
    ASSUME SmtpInv, NEW o \in Ops, op[o].pc = "index", ~op[o].overlapped
    PROVE  Defaults \ Held(o) = {}
<1>1. Reads(o) /\ Clears(o) /\ Locks(o) /\ OneDefault
  BY SmtpFacts
<1>2. Held(o) = op[o].cleared \cup {op[o].config} /\ BecomesDefault(o)
  BY <1>1 DEF Held, Locks
<1>3. CASE op[o].asked = "yes"
  BY <1>1, <1>2, <1>3 DEF Clears, ToClear, Matching
<1>4. CASE op[o].kind = "create" /\ op[o].first
  BY <1>1, <1>4 DEF Clears
<1>5. CASE op[o].kind = "update" /\ rows[op[o].config].isDefault
  <2>1. op[o].config \in Defaults
    BY <1>1, <1>5 DEF Defaults, Present, Locks
  <2> QED
    BY <1>1, <1>2, <2>1 DEF OneDefault
<1> QED
  BY <1>2, <1>3, <1>4, <1>5 DEF BecomesDefault

\* The last statement: the row it writes is held by nobody else.
LEMMA WriteStep ==
    ASSUME SmtpInv, NEW o \in Ops, Write(o)
    PROVE  SmtpInv'
<1>1. /\ op \in [Ops -> Op] /\ Reads(o) /\ Clears(o) /\ Locks(o) /\ Apart
      /\ rows \in [Configs -> Row]
  BY SmtpFacts
<1> DEFINE c == op[o].config
           pc == IF BecomesDefault(o) THEN "index" ELSE "commit"
<1>2. /\ op[o].pc = "write" /\ ~LockedByOther(o, c) /\ c \in Configs
      /\ UNCHANGED storeVars /\ rows' = rows
      /\ op[o].kind = IF rows[c].state = "absent" THEN "create" ELSE "update"
  BY <1>1 DEF Write, Reads, Changing, storeVars
<1>3. CASE Ends(o, "error")
  BY <1>2, <1>3, EndsStep DEF Outcomes
<1>4. CASE (op[o].kind = "create" \/ Present(c)) /\ Moves(o, pc)
  <2>1. pc \in PCs /\ pc \in {"index", "commit"} /\ (pc = "index" <=> BecomesDefault(o))
    BY DEF PCs
  <2> HIDE DEF pc
  <2>2. /\ OthersStay(o) /\ op'[o].pc = pc
        /\ op'[o].kind = op[o].kind /\ op'[o].config = c /\ op'[o].asked = op[o].asked
        /\ op'[o].first = op[o].first /\ op'[o].cleared = op[o].cleared
        /\ op'[o].overlapped = op[o].overlapped /\ op'[o].outcome = op[o].outcome
    BY <1>1, <1>4, <2>1, MovesIs
  <2>3. /\ ToClear(o)' = ToClear(o) /\ Defaults' = Defaults
        /\ BecomesDefault(o)' <=> BecomesDefault(o)
    BY <1>2, <2>2 DEF ToClear, Matching, Defaults, Present, BecomesDefault
  <2>4. Reads(o)'
    BY <1>1, <1>2, <2>1, <2>2 DEF Reads, Changing
  <2>5. Clears(o)'
    BY <1>1, <1>2, <2>1, <2>2, <2>3 DEF Clears
  <2>6. Locks(o)'
    BY <1>1, <1>2, <1>4, <2>1, <2>2, <2>3 DEF Locks, Present
  <2>7. \A p \in Ops \ {o} : Held(o)' \cap Held(p) = {}
    <3>1. Held(o)' = op[o].cleared \cup {c}
      BY <2>1, <2>2 DEF Held
    <3> QED
      BY <1>1, <1>2, <3>1 DEF Apart, Held, LockedByOther
  <2>8. AloneInIndex(o)'
    BY <2>1, <2>2, <2>3 DEF AloneInIndex, Pending
  <2> QED
    BY <1>2, <2>1, <2>2, <2>4, <2>5, <2>6, <2>7, <2>8, HoldingStep
<1> QED
  BY <1>3, <1>4 DEF Write

\* The unique index: no other default is left, committed or not.
LEMMA CheckIndexStep ==
    ASSUME SmtpInv, NEW o \in Ops, CheckIndex(o)
    PROVE  SmtpInv'
<1>1. /\ op \in [Ops -> Op] /\ Reads(o) /\ Clears(o) /\ Locks(o) /\ Apart
      /\ rows \in [Configs -> Row]
  BY SmtpFacts
<1>2. /\ op[o].pc = "index" /\ UNCHANGED storeVars /\ rows' = rows
      /\ \A p \in Ops \ {o} : ~Pending(p)
  BY DEF CheckIndex, storeVars
<1>3. CASE Defaults \ Held(o) # {} /\ Ends(o, "conflict")
  <2>1. op[o].overlapped
    BY <1>2, <1>3, AloneNoConflict
  <2> QED
    BY <1>2, <1>3, <2>1, EndsStep DEF Outcomes
<1>4. CASE Defaults \ Held(o) = {} /\ Moves(o, "commit")
  <2>1. /\ OthersStay(o) /\ op'[o].pc = "commit"
        /\ op'[o].kind = op[o].kind /\ op'[o].config = op[o].config
        /\ op'[o].cleared = op[o].cleared
        /\ op'[o].overlapped = op[o].overlapped /\ op'[o].outcome = op[o].outcome
    BY <1>1, <1>4, MovesIs DEF PCs
  <2>2. Defaults' = Defaults /\ Held(o)' = Held(o)
    BY <1>2, <2>1 DEF Defaults, Present, Held
  <2>3. Reads(o)'
    BY <1>1, <1>2, <2>1 DEF Reads, Changing
  <2>4. Clears(o)'
    BY <1>1, <2>1 DEF Clears
  <2>5. Locks(o)'
    BY <1>1, <1>2, <2>1, <2>2 DEF Locks, Present
  <2>6. \A p \in Ops \ {o} : Pending(p)' <=> Pending(p)
    BY <1>2, <2>1 DEF Pending, BecomesDefault, OthersStay
  <2>7. AloneInIndex(o)'
    BY <1>2, <1>4, <2>2, <2>6 DEF AloneInIndex
  <2>8. \A p \in Ops \ {o} : Held(o)' \cap Held(p) = {}
    BY <1>1, <2>2 DEF Apart
  <2> QED
    BY <1>2, <2>1, <2>3, <2>4, <2>5, <2>7, <2>8, HoldingStep
<1> QED
  BY <1>3, <1>4 DEF CheckIndex

LEMMA CommitStep ==
    ASSUME SmtpInv, NEW o \in Ops, Commit(o)
    PROVE  SmtpInv'
<1>1. /\ rows \in [Configs -> Row] /\ op \in [Ops -> Op] /\ op[o] \in Op /\ latest \in Nat
      /\ Reads(o) /\ Apart /\ OneDefault /\ IndexInv
  BY SmtpFacts
<1> DEFINE c == op[o].config
           becomes == BecomesDefault(o)
<1>2. /\ op[o].pc = "commit" /\ c \in Configs /\ \A p \in Ops \ {o} : c \notin Held(p)
      /\ op[o].kind = IF rows[c].state = "absent" THEN "create" ELSE "update"
  BY <1>1 DEF Commit, Reads, Changing, Apart, Held
<1>3. PICK told \in BOOLEAN :
        /\ Overtake(o, AfterCommit(o, told))
        /\ raced' = raced \cup (Untold(o, c, told) \X {c})
  BY DEF Commit
<1>5. /\ rows' = [d \in Configs |->
           IF d = c THEN RowAfter(o, c)
           ELSE IF d \in op[o].cleared THEN [rows[d] EXCEPT !.isDefault = FALSE]
           ELSE rows[d]]
      /\ latest' = latest + 1 /\ cache' = cache
  BY DEF Commit
<1>6. SmtpInv'
  <2> DEFINE pc == IF told /\ op[o].kind = "update" THEN "invalidate" ELSE "done"
             outcome == IF ~told THEN "error"
                        ELSE IF op[o].kind = "update" THEN "none" ELSE "ok"
             a == [op[o] EXCEPT !.cleared = {}, !.target = {}]
             b == [a EXCEPT !.got = latest + 1]
             e == [b EXCEPT !.pc = pc]
             next == [e EXCEPT !.outcome = outcome]
  <2>1. /\ pc \in PCs /\ pc \in {"done", "invalidate"}
        /\ told /\ rows[c].state # "absent" => pc = "invalidate"
        /\ outcome \in {"none", "ok", "error"}
    BY <1>2 DEF PCs
  <2>2. Overtake(o, next)
    BY <1>3 DEF AfterCommit
  <2> HIDE DEF pc, outcome
  <2>3. a \in Op /\ a.cleared = {} /\ a.config = c /\ a.instance = op[o].instance
    BY <1>1 DEF Op
  <2> HIDE DEF a
  <2>16. b \in Op /\ b.cleared = {} /\ b.config = c /\ b.instance = op[o].instance
    <3>1. latest + 1 \in Nat
      BY <1>1
    <3> QED
      BY <2>3, <3>1 DEF Op
  <2> HIDE DEF b
  <2>4. e \in Op /\ e.cleared = {} /\ e.config = c /\ e.instance = op[o].instance /\ e.pc = pc
    BY <2>1, <2>16, PcWritten
  <2> HIDE DEF e
  <2>5. next \in Op /\ next.cleared = {} /\ next.config = c /\ next.instance = op[o].instance
        /\ next.pc = pc /\ next.outcome = outcome
    BY <2>1, <2>4 DEF Op
  <2> HIDE DEF next
  <2>6. Overtaken(o) /\ op'[o] = next
    BY <1>1, <2>2, <2>5, OvertakeIs
  <2>7. becomes \in BOOLEAN
    BY DEF BecomesDefault
  <2>8. /\ RowAfter(o, c) \in Row /\ RowAfter(o, c).state = "present"
        /\ RowAfter(o, c).verified = 0 /\ (RowAfter(o, c).isDefault <=> becomes)
    BY <1>1, <2>7 DEF RowAfter, VerifiedAfter, Row
  <2>9. \A r \in Row :
          LET row == [r EXCEPT !.isDefault = FALSE]
          IN /\ row \in Row /\ row.state = r.state /\ row.version = r.version
             /\ row.verified = r.verified /\ row.suspect = r.suspect /\ ~row.isDefault
    BY DEF Row
  <2>10. ASSUME NEW d \in Configs, d # c
         PROVE  /\ rows'[d] \in Row
                /\ rows'[d].state = rows[d].state /\ rows'[d].version = rows[d].version
                /\ rows'[d].verified = rows[d].verified /\ rows'[d].suspect = rows[d].suspect
                /\ rows'[d].isDefault <=> rows[d].isDefault /\ d \notin op[o].cleared
    <3>1. rows[d] \in Row
      BY <1>1
    <3>2. CASE d \in op[o].cleared
      <4>1. rows'[d] = [rows[d] EXCEPT !.isDefault = FALSE]
        BY <1>5, <2>10, <3>2
      <4> QED
        BY <2>9, <3>1, <3>2, <4>1
    <3>3. CASE d \notin op[o].cleared
      <4>1. rows'[d] = rows[d]
        BY <1>5, <2>10, <3>3
      <4> QED
        BY <3>1, <3>3, <4>1
    <3> QED
      BY <3>2, <3>3
  <2>11. rows'[c] = RowAfter(o, c) /\ DOMAIN rows' = Configs
    BY <1>2, <1>5
  <2>12. rows' \in [Configs -> Row]
    <3>1. \A d \in Configs : rows'[d] \in Row
      BY <2>8, <2>10, <2>11
    <3>2. rows' = [d \in Configs |-> rows'[d]]
      BY <1>5
    <3> QED
      BY <3>1, <3>2
  <2>13. Committed(o, c)
    BY <2>8, <2>10, <2>11, <2>12 DEF Committed
  <2>14. OneDefault'
    <3>1. CASE becomes
      <4>1. Defaults' \subseteq {c}
        BY <1>1, <1>2, <2>10, <3>1 DEF Defaults, Present, IndexInv, Pending, Held
      <4> QED
        BY <4>1 DEF OneDefault
    <3>2. CASE ~becomes
      <4>1. Defaults' \subseteq Defaults
        BY <2>8, <2>10, <2>11, <3>2 DEF Defaults, Present
      <4> QED
        BY <1>1, <4>1 DEF OneDefault
    <3> QED
      BY <3>1, <3>2
  <2>15. latest' \in Nat
    BY <1>1, <1>5
  <2>17. Defaults' \subseteq Defaults \/ \A p \in Ops \ {o} : ~Pending(p)
    <3>1. CASE becomes
      BY <1>1, <1>2, <3>1 DEF IndexInv, Pending
    <3>2. CASE ~becomes
      BY <2>8, <2>10, <2>11, <3>2 DEF Defaults, Present
    <3> QED
      BY <3>1, <3>2
  <2> QED
    BY <1>2, <1>3, <1>5, <2>1, <2>5, <2>6, <2>13, <2>14, <2>15, <2>17, CommittedStep
<1> QED
  BY <1>6

LEMMA DeleteStep ==
    ASSUME SmtpInv, NEW o \in Ops, Delete(o)
    PROVE  SmtpInv'
<1>1. /\ rows \in [Configs -> Row] /\ op \in [Ops -> Op] /\ op[o] \in Op /\ latest \in Nat
      /\ Reads(o) /\ Clears(o) /\ Locks(o) /\ OneDefault
  BY SmtpFacts
<1> DEFINE c == op[o].config
<1>2. /\ op[o].pc = "delete" /\ (\A p \in Ops \ {o} : c \notin Held(p)) /\ c \in Configs /\ op[o].cleared = {}
      /\ rows[c].state # "absent"
      /\ op[o].outcome = "conflict" => op[o].overlapped
  BY <1>1 DEF Delete, Reads, Locks, Changing, Clears, LockedByOther
<1>3. CASE Ends(o, "error") /\ UNCHANGED storeVars
  BY <1>2, <1>3, EndsStep DEF Outcomes
<1>4. ASSUME NEW told \in BOOLEAN,
             rows' = [rows EXCEPT ![c] = [Absent EXCEPT !.state = "removed"]],
             Overtake(o, [op[o] EXCEPT !.pc = IF told THEN "invalidate" ELSE "done",
                                       !.outcome = IF told THEN "none" ELSE "error"]),
             raced' = raced \cup (Untold(o, c, told) \X {c}),
             UNCHANGED <<cache, latest>>
      PROVE  SmtpInv'
  <2> DEFINE row == [Absent EXCEPT !.state = "removed"]
             pc == IF told THEN "invalidate" ELSE "done"
             outcome == IF told THEN "none" ELSE "error"
             a == [op[o] EXCEPT !.pc = pc]
             next == [a EXCEPT !.outcome = outcome]
  <2>1. row \in Row /\ row.state = "removed" /\ row.verified = 0 /\ ~row.isDefault
    BY DEF Absent, Row
  <2>2. rows' = [rows EXCEPT ![c] = row]
    BY <1>4
  <2> HIDE DEF row
  <2>3. /\ pc \in PCs /\ pc \in {"invalidate", "done"} /\ (told => pc = "invalidate")
        /\ outcome \in {"none", "error"} /\ Overtake(o, next)
    BY <1>4 DEF PCs
  <2> HIDE DEF pc, outcome
  <2>7. a \in Op /\ a.pc = pc /\ a.cleared = {} /\ a.config = c /\ a.instance = op[o].instance
    BY <1>1, <1>2, <2>3, PcWritten
  <2> HIDE DEF a
  <2>8. next \in Op /\ next.pc = pc /\ next.cleared = {} /\ next.config = c
        /\ next.instance = op[o].instance /\ next.outcome = outcome
    BY <2>3, <2>7 DEF Op
  <2> HIDE DEF next
  <2>4. Overtaken(o) /\ op'[o] = next
    BY <1>1, <2>3, <2>8, OvertakeIs
  <2>5. Committed(o, c)
    BY <1>1, <1>2, <2>1, <2>2 DEF Committed
  <2>6. OneDefault' /\ Defaults' \subseteq Defaults
    <3>1. Defaults' \subseteq Defaults
      BY <1>1, <1>2, <2>1, <2>2 DEF Defaults, Present
    <3> QED
      BY <1>1, <3>1 DEF OneDefault
  <2> QED
    BY <1>1, <1>2, <1>4, <2>3, <2>4, <2>5, <2>6, <2>8, CommittedStep
<1> QED
  BY <1>3, <1>4 DEF Delete

\* The transport goes, and one that is about to be kept is no longer stale
\* unless raced says so.
LEMMA InvalidateStep ==
    ASSUME SmtpInv, NEW o \in Ops, Invalidate(o)
    PROVE  SmtpInv'
<1>1. /\ rows \in [Configs -> Row] /\ cache \in [Instances -> [Configs -> Nat]]
      /\ op \in [Ops -> Op] /\ op[o] \in Op /\ latest \in Nat
      /\ raced \subseteq Instances \X Configs
      /\ \A p \in Ops : Reads(p) /\ Clears(p) /\ Locks(p)
      /\ CacheInv /\ VerifiedMeansTested
  BY SmtpFacts
<1> DEFINE i == op[o].instance
           c == op[o].config
           stale == \E p \in Ops : /\ op[p].pc = "store"
                                  /\ op[p].instance = i /\ op[p].config = c
                                  /\ op[p].got # rows[c].version
<1>2. /\ op[o].pc = "invalidate" /\ rows' = rows /\ latest' = latest
      /\ i \in Instances /\ c \in Configs
      /\ cache' = [cache EXCEPT ![i] = [cache[i] EXCEPT ![c] = 0]]
      /\ raced' = IF stale THEN raced \cup {<<i, c>>} ELSE raced \ {<<i, c>>}
      /\ Ends(o, "ok")
  BY <1>1 DEF Invalidate, CacheWithout, Reads, Op
<1>3. /\ OthersStay(o) /\ op'[o].pc = "done" /\ op'[o].outcome = "ok"
      /\ op'[o].config = c /\ op'[o].cleared = {}
  BY <1>1, <1>2, EndsIs DEF Outcomes
<1>4. /\ cache' \in [Instances -> [Configs -> Nat]]
      /\ \A j \in Instances, d \in Configs :
           cache'[j][d] = IF j = i /\ d = c THEN 0 ELSE cache[j][d]
  BY <1>1, <1>2
<1>5. SameRows
  BY <1>1, <1>2 DEF SameRows
<1>6. Reads(o)' /\ Clears(o)' /\ Locks(o)'
  BY <1>3 DEF Reads, Clears, Locks, Changing
<1>15. Held(o)' = {} /\ AloneInIndex(o)'
  BY <1>3 DEF Held, AloneInIndex, Pending
<1>7. /\ \A p \in Ops : (Reads(p) /\ Clears(p) /\ Locks(p))'
      /\ Apart' /\ OneDefault' /\ IndexInv'
  BY <1>3, <1>5, <1>6, <1>15, RowsKept
<1>8. raced' \subseteq Instances \X Configs
  BY <1>1, <1>2
<1> HIDE DEF i, c, stale
<1>9. SmtpTypeOK' /\ VerifiedMeansTested'
  BY <1>1, <1>2, <1>3, <1>4, <1>8 DEF SmtpTypeOK, OthersStay, VerifiedMeansTested
<1>10. ASSUME NEW j \in Instances, NEW d \in Configs, ~(j = i /\ d = c), Untrusted(j, d)
       PROVE  Untrusted(j, d)'
  <2>1. CASE <<j, d>> \in raced
    <3>1. <<j, d>> # <<i, c>>
      BY <1>10
    <3>2. <<j, d>> \in raced'
      BY <1>2, <2>1, <3>1
    <3> QED
      BY <3>2 DEF Untrusted
  <2>2. ASSUME NEW p \in Ops, op[p].pc = "invalidate", op[p].instance = j, op[p].config = d
        PROVE  Untrusted(j, d)'
    <3>1. p # o
      BY <1>10, <2>2 DEF i, c
    <3>2. op'[p] = op[p]
      BY <1>3, <3>1 DEF OthersStay
    <3> QED
      BY <2>2, <3>2 DEF Untrusted
  <2> QED
    BY <1>10, <2>1, <2>2 DEF Untrusted
<1>11. TransportIsCurrent'
  <2> SUFFICES ASSUME NEW j \in Instances, NEW d \in Configs,
                      cache'[j][d] # 0, cache'[j][d] # rows'[d].version
               PROVE  Untrusted(j, d)'
    BY DEF TransportIsCurrent, Untrusted
  <2>1. ~(j = i /\ d = c) /\ cache'[j][d] = cache[j][d]
    BY <1>4
  <2>2. Untrusted(j, d)
    BY <1>1, <1>2, <2>1 DEF CacheInv, TransportIsCurrent, Untrusted
  <2> QED
    BY <1>10, <2>1, <2>2
<1>12. \A j \in Instances, d \in Configs : rows'[d].state = "absent" => cache'[j][d] = 0
  BY <1>1, <1>2, <1>4 DEF CacheInv
<1>13. ASSUME NEW p \in Ops, op'[p].pc = "store",
              op'[p].got # rows'[op'[p].config].version
       PROVE  Untrusted(op[p].instance, op[p].config)' /\ op'[p] = op[p]
  <2>1. op'[p] = op[p]
    BY <1>3, <1>13 DEF OthersStay
  <2>2. op[p].instance \in Instances /\ op[p].config \in Configs
    BY <1>1, <1>13, <2>1 DEF Op, Reads
  <2>3. CASE op[p].instance = i /\ op[p].config = c
    <3>1. stale
      BY <1>2, <1>13, <2>1, <2>3 DEF stale
    <3>2. <<i, c>> \in raced'
      BY <1>2, <3>1
    <3> QED
      BY <2>1, <2>3, <3>2 DEF Untrusted
  <2>4. CASE ~(op[p].instance = i /\ op[p].config = c)
    <3>1. Untrusted(op[p].instance, op[p].config)
      BY <1>1, <1>2, <1>13, <2>1 DEF CacheInv
    <3> QED
      BY <1>10, <2>1, <2>2, <2>4, <3>1
  <2> QED
    BY <2>3, <2>4
<1>14. CacheInv'
  BY <1>11, <1>12, <1>13 DEF CacheInv
<1> QED
  BY <1>7, <1>9, <1>14 DEF SmtpInv

LEMMA SmtpInvHolds == SmtpSpec => []SmtpInv
<1>1. SmtpInit => SmtpInv
  <2> SUFFICES ASSUME SmtpInit PROVE SmtpInv
    OBVIOUS
  <2>1. /\ op \in [Ops -> Op]
        /\ \A o \in Ops : op[o].pc = "idle" /\ op[o].config = NoConfig /\ op[o].cleared = {}
                          /\ op[o].outcome = "none" /\ op[o].overlapped = FALSE
    <3>1. op \in [Ops -> {[pc |-> "idle", kind |-> "none", instance |-> i, config |-> NoConfig,
                        asked |-> "absent", first |-> FALSE, target |-> {}, cleared |-> {},
                        got |-> 0, overlapped |-> FALSE, since |-> 0, outcome |-> "none"]
                       : i \in Instances}]
      BY DEF SmtpInit
    <3>2. ASSUME NEW o \in Ops
          PROVE  /\ op[o] \in Op /\ op[o].pc = "idle" /\ op[o].config = NoConfig
                 /\ op[o].cleared = {} /\ op[o].outcome = "none" /\ op[o].overlapped = FALSE
      <4>1. PICK i \in Instances : op[o] =
              [pc |-> "idle", kind |-> "none", instance |-> i, config |-> NoConfig,
               asked |-> "absent", first |-> FALSE, target |-> {}, cleared |-> {},
               got |-> 0, overlapped |-> FALSE, since |-> 0, outcome |-> "none"]
        BY <3>1
      <4> QED
        BY <4>1 DEF Op, Kinds
    <3> QED
      BY <3>1, <3>2
  <2>2. /\ rows \in [Configs -> Row]
        /\ \A d \in Configs : rows[d].verified \in {0, rows[d].version}
        /\ \A d, e \in Configs : rows[d].isDefault /\ rows[e].isDefault => d = e
    <3>1. PICK c \in Configs, other \in {Absent, Kept(FALSE)} :
            rows \in {[d \in Configs |-> Absent],
                      [d \in Configs |-> IF d = c THEN Kept(TRUE) ELSE other]}
      BY DEF SmtpInit
    <3>2. /\ Absent \in Row /\ Kept(TRUE) \in Row /\ Kept(FALSE) \in Row
          /\ ~Absent.isDefault /\ ~Kept(FALSE).isDefault
          /\ Absent.verified = 0 /\ Kept(TRUE).verified = Kept(TRUE).version
          /\ Kept(FALSE).verified = Kept(FALSE).version
      BY DEF Absent, Kept, Row
    <3> QED
      BY <3>1, <3>2
  <2>3. /\ cache \in [Instances -> [Configs -> Nat]]
        /\ \A i \in Instances, c \in Configs : cache[i][c] = 0
        /\ latest \in Nat /\ raced = {}
    BY DEF SmtpInit
  <2>4. SmtpTypeOK
    BY <2>1, <2>2, <2>3 DEF SmtpTypeOK
  <2>5. ASSUME NEW o \in Ops
        PROVE  Reads(o) /\ Clears(o) /\ Locks(o)
    BY <2>1 DEF Reads, Clears, Locks, Changing
  <2>6. Apart /\ OneDefault /\ IndexInv
    BY <2>1, <2>2, SmtpAssumption
    DEF Apart, OneDefault, Defaults, Held, IndexInv, Pending
  <2>7. CacheInv /\ VerifiedMeansTested
    BY <2>1, <2>2, <2>3 DEF CacheInv, TransportIsCurrent, VerifiedMeansTested
  <2> QED
    BY <2>4, <2>5, <2>6, <2>7 DEF SmtpInv
<1>2. SmtpInv /\ [SmtpNext]_smtpVars => SmtpInv'
  <2> SUFFICES ASSUME SmtpInv, [SmtpNext]_smtpVars PROVE SmtpInv'
    OBVIOUS
  <2>1. ASSUME NEW o \in Ops, OpStep(o)
        PROVE  SmtpInv'
    BY <2>1, BeginStep, RequireStep, SnapshotStep, LockStep, CountStep, WriteStep,
       CheckIndexStep, CommitStep, DeleteStep, InvalidateStep, MailStep, FetchStep, StoreStep, MarkStep DEF OpStep
  <2>2. CASE UNCHANGED smtpVars
    BY <2>2 DEF smtpVars, SmtpInv, SmtpTypeOK, Reads, Clears, Locks, Apart, OneDefault,
       CacheInv, TransportIsCurrent, VerifiedMeansTested, Untrusted, Defaults, Present,
       ToClear, Matching, Held, IndexInv, Pending, BecomesDefault
  <2> QED
    BY <2>1, <2>2 DEF SmtpNext
<1> QED
  BY <1>1, <1>2, PTL DEF SmtpSpec

\* An instance connects with the settings of the row, but for the caches no
\* invalidation reaches (smtp.service.ts:49-54).
THEOREM TransportsAreCurrent == SmtpSpec => []TransportIsCurrent
<1>1. SmtpInv => TransportIsCurrent
  BY DEF SmtpInv, CacheInv
<1> QED
  BY <1>1, SmtpInvHolds, PTL

\* verifiedAt stands for settings a test connected with, unless a change
\* overtook the test (smtp.service.ts:137-138, 193).
THEOREM TestsCount == SmtpSpec => []VerifiedMeansTested
<1>1. SmtpInv => VerifiedMeansTested
  BY DEF SmtpInv
<1> QED
  BY <1>1, SmtpInvHolds, PTL

\* A request that runs alone never meets the unique index
\* (smtp.service.ts:75-82, 114-119).
THEOREM AloneIsNeverRefused == SmtpSpec => []ConflictNeedsOverlap
<1>1. SmtpInv => ConflictNeedsOverlap
  BY DEF SmtpInv, Clears, ConflictNeedsOverlap
<1> QED
  BY <1>1, SmtpInvHolds, PTL

\* A transaction that has cleared the old default, and one that holds it as
\* the row it writes, waits for nobody.
LEMMA HolderMoves ==
    ASSUME SmtpInv, NEW p \in Ops, Held(p) \cap Defaults # {},
           op[p].pc \in {"count", "index", "commit"}
    PROVE  WaitsFor(p) = {}
<1>1. /\ \A q \in Ops : Locks(q)
      /\ Apart /\ OneDefault /\ IndexInv
  BY SmtpFacts
<1>2. ASSUME NEW q \in Ops \ {p}
      PROVE  Held(q) \cap Defaults = {} /\ ~Pending(q)
  BY <1>1, <1>2 DEF Apart, OneDefault, IndexInv
<1> QED
  BY <1>2 DEF WaitsFor

\* Changes that take over the default wait for each other in chains of two at
\* most, whatever the number of requests (smtp.service.ts:74-103, 113-142).
THEOREM WaitsAreShort == SmtpSpec => []WaitsEnd
<1>1. SmtpInv => WaitsEnd
  <2> SUFFICES ASSUME SmtpInv, NEW o \in Ops, NEW p \in WaitsFor(o), NEW q \in WaitsFor(p),
                      ~Latecomer(p), ~Latecomer(q)
               PROVE  WaitsFor(q) = {}
    BY DEF WaitsEnd
  <2>1. p \in Ops /\ q \in Ops \ {p} /\ (Held(p) # {} \/ Pending(p)) /\ (Held(q) # {} \/ Pending(q))
    BY DEF WaitsFor
  <2>2. /\ \A r \in Ops : Locks(r) /\ Reads(r)
        /\ Apart /\ OneDefault /\ IndexInv
    BY SmtpFacts
  <2>3. /\ op[p].pc \in {"count", "write", "index", "commit"}
        /\ op[q].pc \in {"count", "write", "index", "commit"}
    BY <2>1, <2>2 DEF Locks, Held, Pending
  <2>4. CASE op[p].pc = "index"
    <3>1. Held(p) \cap Defaults # {}
      BY <2>4 DEF Latecomer
    <3> QED
      BY <2>1, <2>4, <3>1, HolderMoves
  <2>5. CASE op[p].pc \in {"count", "commit"}
    BY <2>5 DEF WaitsFor
  <2>6. CASE op[p].pc = "write"
    \* p has cleared the only default, and waits for its own row.
    <3>1. op[p].cleared # {} /\ op[p].cleared \subseteq Defaults /\ op[p].config \in Held(q)
      BY <2>1, <2>2, <2>6 DEF Held, Locks, Pending, WaitsFor
    <3>2. Held(q) \cap Defaults = {}
      <4>1. PICK d \in op[p].cleared : d \in Defaults /\ d \in Held(p)
        BY <3>1 DEF Held
      <4>2. \A e \in Defaults : e = d
        BY <2>2, <4>1 DEF OneDefault
      <4>3. d \notin Held(q)
        BY <2>1, <2>2, <4>1 DEF Apart
      <4> QED
        BY <4>2, <4>3
    <3>3. op[q].cleared = {}
      <4>1. op[q].cleared \subseteq Held(q) \cap Defaults
        BY <2>1, <2>2 DEF Locks, Held
      <4> QED
        BY <3>2, <4>1
    <3>4. op[q].pc \in {"index", "commit"}
      BY <2>3, <3>1, <3>3 DEF Held
    <3>5. op[q].pc = "commit"
      BY <3>2, <3>4 DEF Latecomer
    <3> QED
      BY <3>5 DEF WaitsFor
  <2> QED
    BY <2>3, <2>4, <2>5, <2>6
<1> QED
  BY <1>1, SmtpInvHolds, PTL

=============================================================================
