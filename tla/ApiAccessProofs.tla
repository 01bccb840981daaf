--------------------------- MODULE ApiAccessProofs ---------------------------
(***************************************************************************)
(* Theorems about API tokens: Tokens, which keeps them, and ApiAccess,     *)
(* which serves them and bills their calls; for every set of ids, requests *)
(* and callers, every limit and every error of the clocks.                 *)
(***************************************************************************)
EXTENDS Tokens, ApiAccess, FiniteSetTheorems, SequenceTheorems, WellFoundedInduction, TLAPS

-----------------------------------------------------------------------------
(* Tokens: the audit log.                                                  *)

\* A step of a request that is at no entry and goes to none.
LEMMA QuietStep ==
    ASSUME IInv, NEW r \in Requests, NEW h \in Handler,
           request' = [request EXCEPT ![r] = h],
           UNCHANGED <<rows, audit, unaudited>>,
           request[r].pc # "audit", h.pc # "audit",
           h.pc \notin {"answer", "done"} => h.status = "none",
           h.action = "token.create" /\ h.status = "200" =>
               <<"token.create", h.id>> \in audit,
           h.pc = "sent" /\ h.action = "token.revoke" => h.id \in Ids,
           h.pc = "update" => h.action = "token.revoke" /\ h.id \in Ids /\ rows[h.id] # "free"
    PROVE  IInv'
<1>1. request' \in [Requests -> Handler] /\ rows' \in [Ids -> {"free", "live", "revoked"}]
  BY DEF IInv
<1>2. HandlerInv'
  BY DEF IInv, HandlerInv
<1>3. ASSUME NEW a, NEW t, Entered(a, t) PROVE Entered(a, t)'
  BY <1>3 DEF IInv, Entered, Owed
<1>4. EntryInv'
  BY <1>3 DEF IInv, EntryInv
<1> QED
  BY <1>1, <1>2, <1>4 DEF IInv

\* A write that took effect though it threw is left without its entry.
LEMMA UnheardStep ==
    ASSUME IInv, NEW r \in Requests, NEW h \in Handler, NEW t \in Ids, NEW a,
           request' = [request EXCEPT ![r] = h], request[r].pc # "audit",
           h.pc = "answer", h.status = "500",
           \/ a = "token.create" /\ rows[t] = "free" /\ rows' = [rows EXCEPT ![t] = "live"]
           \/ a = "token.revoke" /\ rows[t] # "free" /\ rows' = [rows EXCEPT ![t] = "revoked"],
           LeftOut(a, t), UNCHANGED audit
    PROVE  IInv'
<1>1. /\ request' \in [Requests -> Handler] /\ rows' \in [Ids -> {"free", "live", "revoked"}]
      /\ rows \in [Ids -> {"free", "live", "revoked"}]
      /\ request'[r] = h /\ \A q \in Requests \ {r} : request'[q] = request[q]
  BY DEF IInv
<1>2. /\ \A u : rows[u] # "free" /\ u \in Ids => rows'[u] # "free"
      /\ \A u \in Ids : rows[u] = "revoked" => rows'[u] = "revoked"
      /\ \A u \in Ids \ {t} : rows'[u] = rows[u]
  BY <1>1
<1>3. HandlerInv'
  BY <1>1, <1>2 DEF IInv, HandlerInv
<1>4. ASSUME NEW b, NEW u, Entered(b, u) PROVE Entered(b, u)'
  BY <1>1, <1>4 DEF Entered, Owed, LeftOut
<1>5. Entered(a, t)'
  BY DEF Entered, LeftOut
<1>6. ASSUME NEW u \in Ids
      PROVE  /\ rows'[u] # "free" => Entered("token.create", u)'
             /\ rows'[u] = "revoked" => Entered("token.revoke", u)'
  <2>1. /\ rows[u] # "free" => Entered("token.create", u)
        /\ rows[u] = "revoked" => Entered("token.revoke", u)
    BY DEF IInv, EntryInv
  <2>2. CASE u # t
    BY <1>2, <1>4, <2>1, <2>2
  <2>3. CASE u = t
    <3>1. CASE a = "token.create" /\ rows[t] = "free" /\ rows'[t] = "live"
      BY <1>5, <2>3, <3>1
    <3>2. CASE a = "token.revoke" /\ rows[t] # "free"
      BY <1>4, <1>5, <2>1, <2>3, <3>2
    <3> QED
      BY <1>1, <3>1, <3>2
  <2> QED
    BY <2>2, <2>3
<1>7. ASSUME NEW u \in Ids PROVE /\ <<"token.revoke", u>> \in audit' => rows'[u] = "revoked"
                                 /\ <<"token.create", u>> \in audit' => rows'[u] # "free"
  BY <1>2 DEF IInv, EntryInv
<1>8. EntryInv'
  BY <1>6, <1>7 DEF EntryInv
<1> QED
  BY <1>1, <1>3, <1>8 DEF IInv

\* The new row comes with the entry its request owes.
LEMMA CreateStep == ASSUME IInv, NEW r \in Requests, Create(r) PROVE IInv'
<1> DEFINE failed == [request[r] EXCEPT !.pc = "answer", !.status = "500"]
<1>0. /\ failed \in Handler /\ failed.pc = "answer" /\ failed.status = "500"
      /\ request[r].pc = "sent"
  BY DEF IInv, Handler, Create
<1>1. CASE Reply(r, "500") /\ UNCHANGED <<rows, unaudited>>
  <2>1. request' = [request EXCEPT ![r] = failed] /\ UNCHANGED <<rows, audit, unaudited>>
    BY <1>1 DEF Create, Reply
  <2> QED
    BY <1>0, <2>1, QuietStep
<1>3. ASSUME NEW t \in Ids, rows[t] = "free", rows' = [rows EXCEPT ![t] = "live"],
             Reply(r, "500"), LeftOut("token.create", t)
      PROVE  IInv'
  <2>1. request' = [request EXCEPT ![r] = failed] /\ UNCHANGED audit
    BY <1>3 DEF Create, Reply
  <2> HIDE DEF failed
  <2> QED
    BY <1>0, <1>3, <2>1, UnheardStep
<1>2. ASSUME NEW t \in Ids, rows[t] = "free", rows' = [rows EXCEPT ![t] = "live"],
             request' = [request EXCEPT ![r] = [@ EXCEPT !.pc = "audit", !.id = t]],
             UNCHANGED unaudited
      PROVE  IInv'
  <2> DEFINE h == [request[r] EXCEPT !.pc = "audit", !.id = t]
  <2>1. /\ h \in Handler /\ h.pc = "audit" /\ h.id = t /\ h.action = "token.create"
        /\ h.status = "none" /\ request[r].pc = "sent"
    BY DEF IInv, HandlerInv, Handler, Create
  <2>2. request' = [request EXCEPT ![r] = h] /\ UNCHANGED <<audit, unaudited>>
    BY <1>2 DEF Create
  <2> HIDE DEF h
  <2>3. request' \in [Requests -> Handler] /\ rows' \in [Ids -> {"free", "live", "revoked"}]
    BY <1>2, <2>1, <2>2 DEF IInv
  <2>4. HandlerInv'
    <3>1. ASSUME NEW u, rows[u] # "free" PROVE rows'[u] = rows[u]
      BY <1>2, <3>1 DEF IInv
    <3>2. request'[r] = h /\ \A q \in Requests \ {r} : request'[q] = request[q]
      BY <2>2 DEF IInv
    <3>3. rows'[t] = "live"
      BY <1>2 DEF IInv
    <3> QED
      BY <2>1, <2>2, <3>1, <3>2, <3>3 DEF IInv, HandlerInv
  <2>5. ASSUME NEW a, NEW u, Entered(a, u) PROVE Entered(a, u)'
    BY <2>1, <2>2, <2>5 DEF IInv, Entered, Owed
  <2>6. Entered("token.create", t)'
    BY <2>1, <2>2 DEF IInv, Entered, Owed
  <2>7. EntryInv'
    BY <1>2, <2>2, <2>5, <2>6 DEF IInv, EntryInv
  <2> QED
    BY <2>3, <2>4, <2>7 DEF IInv
<1> QED
  BY <1>1, <1>2, <1>3 DEF Create

\* Likewise the revocation; a request that failed owes nothing.
LEMMA UpdateStep == ASSUME IInv, NEW r \in Requests, Update(r) PROVE IInv'
<1> DEFINE failed == [request[r] EXCEPT !.pc = "answer", !.status = "500"]
<1>0. /\ failed \in Handler /\ failed.pc = "answer" /\ failed.status = "500"
      /\ request[r].pc = "update" /\ request[r].id \in Ids /\ rows[request[r].id] # "free"
  BY DEF IInv, HandlerInv, Handler, Update
<1>1. CASE Reply(r, "500") /\ UNCHANGED <<rows, unaudited>>
  <2>1. request' = [request EXCEPT ![r] = failed] /\ UNCHANGED <<rows, audit, unaudited>>
    BY <1>1 DEF Update, Reply
  <2> QED
    BY <1>0, <2>1, QuietStep
<1>3. CASE /\ rows' = [rows EXCEPT ![request[r].id] = "revoked"]
           /\ Reply(r, "500") /\ LeftOut("token.revoke", request[r].id)
  <2>1. request' = [request EXCEPT ![r] = failed] /\ UNCHANGED audit
    BY <1>3 DEF Update, Reply
  <2> HIDE DEF failed
  <2> QED
    BY <1>0, <1>3, <2>1, UnheardStep
<1>2. CASE /\ rows' = [rows EXCEPT ![request[r].id] = "revoked"] /\ Goto(r, "audit")
           /\ UNCHANGED unaudited
  <2> PICK t \in Ids : t = request[r].id
    BY DEF IInv, HandlerInv, Update
  <2> PICK h : h = [request[r] EXCEPT !.pc = "audit"]
    OBVIOUS
  <2>1. /\ h \in Handler /\ h.pc = "audit" /\ h.id = t /\ h.action = "token.revoke"
        /\ t \in Ids /\ rows[t] # "free" /\ request[r].pc = "update" /\ h.status = "none"
    BY DEF IInv, HandlerInv, Handler, Update
  <2>2. request' = [request EXCEPT ![r] = h] /\ UNCHANGED <<audit, unaudited>>
    BY <1>2 DEF Update, Goto
  <2>3. request' \in [Requests -> Handler] /\ rows' \in [Ids -> {"free", "live", "revoked"}]
    BY <1>2, <2>1, <2>2 DEF IInv
  <2>4. HandlerInv'
    BY <1>2, <2>1, <2>2, <2>3 DEF IInv, HandlerInv
  <2>5. ASSUME NEW a, NEW u, Entered(a, u) PROVE Entered(a, u)'
    BY <2>1, <2>2, <2>5 DEF IInv, Entered, Owed
  <2>6. Entered("token.revoke", t)'
    BY <2>1, <2>2 DEF IInv, Entered, Owed
  <2>7. EntryInv'
    BY <1>2, <2>1, <2>2, <2>5, <2>6 DEF IInv, EntryInv
  <2> QED
    BY <2>3, <2>4, <2>7 DEF IInv
<1> QED
  BY <1>1, <1>2, <1>3 DEF Update, AfterUpdate

\* What was owed is written, or left out and not answered with a success.
LEMMA AuditStep ==
    ASSUME IInv, NEW r \in Requests, Audit(r) \/ (Die(r) /\ request[r].pc = "audit")
    PROVE  IInv'
<1> DEFINE a == request[r].action
           t == request[r].id
<1>1. /\ t \in Ids /\ a \in Actions /\ request[r].pc = "audit"
      /\ a = "token.revoke" => rows[t] = "revoked"
      /\ a = "token.create" => rows[t] # "free"
  BY DEF IInv, HandlerInv, Handler, Audit
<1>2. /\ audit \subseteq audit' /\ unaudited \subseteq unaudited'
      /\ audit' \subseteq audit \cup {<<a, t>>}
      /\ <<a, t>> \in audit' \cup unaudited'
      /\ UNCHANGED rows
  BY DEF Audit, Die, LeftOut
<1>3. PICK h \in Handler : /\ h.pc = "answer" /\ request' = [request EXCEPT ![r] = h]
                           /\ h.action = a /\ h.id = t
                           /\ h.status = "200" => <<a, t>> \in audit'
  <2>1. PICK status \in {"200", "500", "lost"} :
          Reply(r, status) /\ (status = "200" => <<a, t>> \in audit')
    BY DEF Audit, Die
  <2> DEFINE h == [request[r] EXCEPT !.pc = "answer", !.status = status]
  <2>2. h \in Handler /\ h.pc = "answer" /\ h.action = a /\ h.id = t /\ h.status = status
    BY DEF IInv, Handler
  <2> QED
    BY <2>1, <2>2 DEF Reply
<1>4. request' \in [Requests -> Handler] /\ rows' \in [Ids -> {"free", "live", "revoked"}]
  BY <1>2, <1>3 DEF IInv
<1>5. HandlerInv'
  BY <1>2, <1>3 DEF IInv, HandlerInv
<1>6. ASSUME NEW b, NEW u, Entered(b, u) PROVE Entered(b, u)'
  BY <1>2, <1>3, <1>6 DEF IInv, Entered, Owed
<1>7. ASSUME NEW u \in Ids PROVE /\ <<"token.revoke", u>> \in audit' => rows[u] = "revoked"
                                 /\ <<"token.create", u>> \in audit' => rows[u] # "free"
  BY <1>1, <1>2 DEF IInv, EntryInv
<1>8. EntryInv'
  BY <1>2, <1>6, <1>7 DEF IInv, EntryInv
<1> QED
  BY <1>4, <1>5, <1>8 DEF IInv

\* A sent request is a handler that has done nothing yet.
LEMMA SendStep ==
    ASSUME IInv, NEW r \in Requests, NEW a \in Actions, NEW c \in Callers,
           NEW t \in Ids \cup {NoToken}, a = "token.revoke" => t \in Ids, Send(r, a, c, t),
           UNCHANGED <<rows, audit, unaudited>>
    PROVE  IInv'
<1> DEFINE h == [request[r] EXCEPT !.pc = "sent", !.action = a, !.caller = c, !.id = t]
<1>1. /\ h \in Handler /\ h.pc = "sent" /\ request[r].pc = "idle"
      /\ h.action = a /\ h.id = t /\ h.status = "none"
  BY DEF IInv, HandlerInv, Handler, Send
<1> QED
  BY <1>1, QuietStep DEF Send

\* A process that dies before the write has done nothing.
LEMMA DieStep == ASSUME IInv, NEW r \in Requests, Die(r) PROVE IInv'
<1>1. CASE request[r].pc # "audit"
  <2> DEFINE h == [request[r] EXCEPT !.pc = "answer", !.status = "lost"]
  <2>1. h \in Handler /\ h.pc = "answer" /\ h.status = "lost"
    BY DEF IInv, Handler
  <2>2. request' = [request EXCEPT ![r] = h] /\ UNCHANGED <<rows, audit, unaudited>>
    BY <1>1 DEF Die, Reply
  <2> QED
    BY <1>1, <2>1, <2>2, QuietStep
<1> QED
  BY <1>1, AuditStep

\* Answers are given, lost and taken without a change of the tables.
LEMMA AnswerStep ==
    ASSUME IInv, NEW r \in Requests,
           Forbid(r) \/ Lose(r) \/ CreateAnswered(r) \/ RevokeAnswered(r)
    PROVE  IInv'
<1>1. PICK pc \in {"answer", "done"}, status \in {request[r].status, "403", "lost"} :
         request' = [request EXCEPT ![r] = [@ EXCEPT !.pc = pc, !.status = status]]
  <2>1. CASE Forbid(r) \/ Lose(r)
    BY <2>1 DEF Forbid, Lose, Reply
  <2>2. CASE CreateAnswered(r) \/ RevokeAnswered(r)
    <3>1. request' = [request EXCEPT ![r] = [@ EXCEPT !.pc = "done"]]
      BY <2>2 DEF CreateAnswered, RevokeAnswered, Goto
    <3>2. [request[r] EXCEPT !.pc = "done"]
            = [request[r] EXCEPT !.pc = "done", !.status = request[r].status]
      BY DEF IInv, Handler
    <3> QED
      BY <3>1, <3>2
  <2> QED
    BY <2>1, <2>2
<1> DEFINE h == [request[r] EXCEPT !.pc = pc, !.status = status]
<1>2. /\ h \in Handler /\ h.pc = pc /\ h.status = status
      /\ h.action = request[r].action /\ h.id = request[r].id
  BY DEF IInv, Handler
<1>3. request[r].pc # "audit" /\ UNCHANGED <<rows, audit, unaudited>>
  BY DEF Forbid, Lose, CreateAnswered, RevokeAnswered, history
<1>4. h.action = "token.create" /\ h.status = "200" => <<"token.create", h.id>> \in audit
  BY <1>2 DEF IInv, HandlerInv
<1> QED
  BY <1>1, <1>2, <1>3, <1>4, QuietStep

\* A token that is there is updated next, any other one answered.
LEMMA ReadStep == ASSUME IInv, NEW r \in Requests, ReadForRevoke(r) PROVE IInv'
<1>1. CASE Reply(r, "200") \/ Reply(r, "500")
  <2>1. PICK status \in {"200", "500"} : Reply(r, status)
    BY <1>1
  <2> DEFINE h == [request[r] EXCEPT !.pc = "answer", !.status = status]
  <2>2. h \in Handler /\ h.pc = "answer" /\ h.action = "token.revoke"
    BY DEF IInv, Handler, ReadForRevoke
  <2> QED
    BY <2>1, <2>2, QuietStep DEF ReadForRevoke, Reply, history
<1>2. CASE rows[request[r].id] = "live" /\ Goto(r, "update")
  <2> DEFINE h == [request[r] EXCEPT !.pc = "update"]
  <2>1. /\ h \in Handler /\ h.pc = "update" /\ h.action = "token.revoke"
        /\ h.id = request[r].id /\ h.status = "none"
    BY DEF IInv, HandlerInv, Handler, ReadForRevoke
  <2>2. request[r].id \in Ids
    BY DEF IInv, HandlerInv, ReadForRevoke
  <2> QED
    BY <1>2, <2>1, <2>2, QuietStep DEF ReadForRevoke, Goto, history
<1> QED
  BY <1>1, <1>2 DEF ReadForRevoke

\* IInv is inductive.
LEMMA Step == IInv /\ [Next]_vars => IInv'
<1> SUFFICES ASSUME IInv, [Next]_vars
             PROVE IInv'
  OBVIOUS
<1>1. ASSUME NEW r \in Requests, SubmitForm(r) PROVE IInv'
  BY <1>1, SendStep DEF SubmitForm, Actions, Callers
<1>2. ASSUME NEW r \in Requests, PressRevoke(r) PROVE IInv'
  BY <1>2, SendStep DEF PressRevoke, Actions, Callers, history
<1>3. ASSUME NEW r \in Requests, OthersSend(r) PROVE IInv'
  BY <1>3, SendStep DEF OthersSend, Actions, Callers, history
<1>4. ASSUME NEW r \in Requests, RequestStep(r) PROVE IInv'
  BY <1>1, <1>2, <1>3, <1>4, CreateStep, UpdateStep, AuditStep, DieStep, AnswerStep, ReadStep
  DEF RequestStep
<1>5. CASE TakeList \/ ListAnswered \/ Dismiss \/ UNCHANGED vars
  <2>1. UNCHANGED <<rows, audit, request, unaudited>>
    BY <1>5 DEF TakeList, ListAnswered, Dismiss, history, vars
  <2> QED
    BY <2>1 DEF IInv, HandlerInv, EntryInv, Entered, Owed
<1> QED
  BY <1>4, <1>5 DEF Next

\* The first state satisfies IInv.
LEMMA InitIInv == ASSUME Init PROVE IInv
<1>1. rows \in [Ids -> {"free", "live", "revoked"}] /\ request \in [Requests -> Handler]
  BY DEF Init, Handler, Actions, Callers
<1>2. HandlerInv
  BY DEF Init, HandlerInv
<1>3. EntryInv
  BY DEF Init, EntryInv, Entered, Owed
<1> QED
  BY <1>1, <1>2, <1>3 DEF IInv

\* The audit log tells the history of the table of tokens, whoever revokes or
\* mints concurrently: a token is handed out only with its entry, an entry is
\* about what happened, and one is missing only while it is owed, or because it
\* was refused, the write before it threw though it was done, or the process
\* died between them (tokens.service.ts).
THEOREM AuditIsTrue == Spec => []AuditTellsTheHistory
<1>1. Init => IInv
  BY InitIInv
<1>2. IInv /\ [Next]_vars => IInv'
  BY Step
<1>3. IInv => AuditTellsTheHistory
  <2> SUFFICES ASSUME IInv PROVE AuditTellsTheHistory
    OBVIOUS
  <2>1. ASSUME NEW t \in Ids, \A r \in Requests : InFlight(r) => request[r].id # t,
               NEW a, Entered(a, t)
        PROVE  <<a, t>> \in audit \cup unaudited
    <3>1. ~Owed(a, t)
      BY <2>1 DEF Owed, InFlight
    <3> QED
      BY <2>1, <3>1 DEF Entered
  <2>2. \A r \in Requests :
          request[r].action = "token.create" /\ request[r].status = "200" =>
              <<"token.create", request[r].id>> \in audit
    BY DEF IInv, HandlerInv
  <2> QED
    BY <2>1, <2>2 DEF IInv, EntryInv, AuditTellsTheHistory
<1> QED
  BY <1>1, <1>2, <1>3, PTL DEF Spec

-----------------------------------------------------------------------------
(* Tokens: the page.                                                       *)

\* What a step of a handler leaves of the facts about requests: it stays the
\* request it was, and its token, if it made or revoked one now, is its own.
LEMMA RequestKeeps ==
    ASSUME IInv, RequestInv, NEW r \in Requests, NEW h \in Handler,
           request' = [request EXCEPT ![r] = h],
           rows' \in [Ids -> {"free", "live", "revoked"}],
           \A t \in Ids : rows[t] # "free" => rows'[t] # "free",
           \A t \in Ids : rows'[t] = "revoked" =>
               rows[t] = "revoked" \/ (h.action = "token.revoke" /\ h.id = t),
           h.pc # "idle", h.pc = "done" => h.caller = "page",
           h.pc = "sent" /\ h.action = "token.create" => h.id = NoToken,
           request[r].action = "token.revoke" => h.action = "token.revoke" /\ h.id = request[r].id,
           h.action = "token.revoke" => h.id \in Ids /\ rows'[h.id] # "free",
           h.action = "token.create" =>
               /\ h.status = "200" => h.id \in Ids
               /\ h.id # NoToken =>
                    /\ rows'[h.id] # "free"
                    /\ \/ request[r].action = "token.create" /\ h.id = request[r].id
                       \/ rows[h.id] = "free"
    PROVE  RequestInv'
<1>1. request \in [Requests -> Handler] /\ request'[r] = h /\ \A q \in Requests \ {r} : request'[q] = request[q]
  BY DEF IInv
<1>2. ASSUME NEW q \in Requests
      PROVE  LET t == request'[q].id IN
             /\ request'[q].pc = "done" => request'[q].caller = "page"
             /\ request'[q].pc = "idle" =>
                  request'[q].action = "token.create" /\ request'[q].status = "none"
             /\ request'[q].pc = "sent" /\ request'[q].action = "token.create" => t = NoToken
             /\ request'[q].action = "token.revoke" => t \in Ids /\ rows'[t] # "free"
             /\ request'[q].action = "token.create" /\ t # NoToken => rows'[t] # "free"
             /\ request'[q].action = "token.create" /\ request'[q].status = "200" => t \in Ids
  <2>1. CASE q = r
    BY <1>1, <2>1
  <2>2. CASE q # r
    <3>1. request'[q] = request[q] /\ request[q].id \in Ids \cup {NoToken}
      BY <1>1, <2>2 DEF Handler
    <3> QED
      BY <3>1 DEF RequestInv
  <2> QED
    BY <2>1, <2>2
<1>3. ASSUME NEW p \in Requests, NEW q \in Requests, p # q,
             request'[p].action = "token.create", request'[q].action = "token.create",
             request'[p].id # NoToken
      PROVE  request'[p].id # request'[q].id
  <2>1. \A s \in Requests \ {r} : request[s].action = "token.create" /\ request[s].id # NoToken
                                  => rows[request[s].id] # "free"
    BY DEF RequestInv
  <2>2. CASE p # r /\ q # r
    BY <1>1, <1>3, <2>2 DEF RequestInv
  <2>3. CASE p = r
    BY <1>1, <1>3, <2>1, <2>3 DEF RequestInv
  <2>4. CASE q = r
    BY <1>1, <1>3, <2>1, <2>4 DEF RequestInv
  <2> QED
    BY <2>2, <2>3, <2>4
<1>4. ASSUME NEW t \in Ids, rows'[t] = "revoked" PROVE \E q \in Requests : Revokes(q, t)'
  <2>1. CASE h.action = "token.revoke" /\ h.id = t
    BY <1>1, <2>1 DEF Revokes
  <2>2. CASE rows[t] = "revoked"
    <3>1. PICK q \in Requests : Revokes(q, t)
      BY <2>2 DEF RequestInv
    <3>2. Revokes(q, t)'
      BY <1>1, <3>1 DEF Revokes
    <3> QED
      BY <3>2
  <2> QED
    BY <1>4, <2>1, <2>2
<1> QED
  BY <1>2, <1>3, <1>4 DEF RequestInv

LEMMA ListKeeps ==
    ASSUME ListInv, UNCHANGED <<list, page.loaded>>,
           \A t \in Ids : rows[t] # "free" => rows'[t] # "free"
    PROVE  ListInv'
<1>1. \A x \in list.rows : x.id \in Ids
  BY DEF ListInv, Row
<1> QED
  BY <1>1 DEF ListInv

LEMMA TokensAreRows ==
    ASSUME TableInv, NEW i \in DOMAIN page.tokens
    PROVE  page.tokens[i] \in Row /\ page.tokens[i].id \in Ids
<1>1. page.tokens[i] \in Row
  BY DEF TableInv
<1> QED
  BY <1>1 DEF Row

\* A step of a handler that the page does not see.
LEMMA BehindThePage ==
    ASSUME IInv, PageInv, NEW r \in Requests, NEW h \in Handler,
           request' = [request EXCEPT ![r] = h],
           UNCHANGED <<page, seen, told, hasty>>,
           \A t \in Ids : rows[t] # "free" => rows'[t] # "free",
           \A t \in Ids : rows'[t] = "revoked" =>
               rows[t] = "revoked" \/ (h.action = "token.revoke" /\ h.id = t),
           request[r].pc # "done", h.pc # "done",
           request[r].action = "token.revoke" => h.action = "token.revoke" /\ h.id = request[r].id,
           h.caller = "page" =>
               /\ request[r].caller = "page" /\ request[r].pc # "idle"
               /\ h.action = request[r].action
               /\ h.action = "token.create" /\ h.pc \in {"audit", "answer"} /\ h.id # NoToken =>
                    \/ request[r].pc \in {"audit", "answer"} /\ h.id = request[r].id
                    \/ rows[h.id] = "free"
    PROVE  TableInv' /\ PageKeepsUp'
<1>1. /\ request \in [Requests -> Handler] /\ request'[r] = h
      /\ \A q \in Requests \ {r} : request'[q] = request[q]
  BY DEF IInv
<1>2. ASSUME ~hasty, ~page.loaded
      PROVE  /\ page.tokens = <<>>
             /\ \A q \in Requests : request'[q].caller = "page" => request'[q].pc = "idle"
  BY <1>1, <1>2 DEF PageInv, TableInv
<1>3. ASSUME ~hasty, NEW q \in Requests, NEW t, t = request'[q].id,
             request'[q].action = "token.create", request'[q].caller = "page",
             request'[q].pc \in {"audit", "answer"}, t # NoToken
      PROVE  /\ \A i \in DOMAIN page.tokens : page.tokens[i].id # t
             /\ \A p \in Requests : Revokes(p, t)' => request'[p].caller # "page"
  <2>1. \/ /\ request[q].action = "token.create" /\ request[q].caller = "page"
           /\ request[q].pc \in {"audit", "answer"} /\ request[q].id = t
        \/ rows[t] = "free"
    BY <1>1, <1>3
  <2>2. ASSUME NEW p \in Requests, Revokes(p, t)', request'[p].caller = "page"
        PROVE  Revokes(p, t) /\ request[p].caller = "page"
    BY <1>1, <2>2 DEF Revokes
  <2>3. CASE rows[t] = "free"
    <3>1. \A i \in DOMAIN page.tokens : page.tokens[i].id # t
      BY <2>3 DEF PageInv, TableInv
    <3>2. \A p \in Requests : ~Revokes(p, t)
      BY <2>3 DEF PageInv, RequestInv, Revokes
    <3> QED
      BY <2>2, <3>1, <3>2
  <2>4. CASE /\ request[q].action = "token.create" /\ request[q].caller = "page"
             /\ request[q].pc \in {"audit", "answer"} /\ request[q].id = t
    <3>1. /\ \A i \in DOMAIN page.tokens : page.tokens[i].id # t
          /\ \A p \in Requests : Revokes(p, t) => request[p].caller # "page"
      BY <1>3, <2>4 DEF PageInv, TableInv
    <3> QED
      BY <2>2, <3>1
  <2> QED
    BY <2>1, <2>3, <2>4
<1>4. TableInv'
  <2>1. page.tokens \in Seq(Row) /\ \A i \in DOMAIN page.tokens : rows'[page.tokens[i].id] # "free"
    BY TokensAreRows DEF PageInv, TableInv
  <2>2. ASSUME ~hasty, NEW q \in Requests,
             request'[q].action = "token.create", request'[q].caller = "page",
             request'[q].pc \in {"audit", "answer"}, request'[q].id # NoToken
        PROVE  /\ \A i \in DOMAIN page.tokens : page.tokens[i].id # request'[q].id
               /\ \A p \in Requests :
                    request'[p].action = "token.revoke" /\ request'[p].id = request'[q].id
                    => request'[p].caller # "page"
    BY <1>3, <2>2 DEF Revokes
  <2> QED
    BY <1>2, <2>1, <2>2 DEF TableInv, Revokes
<1>5. ASSUME NEW t, Untold(t) PROVE Untold(t)'
  BY <1>1, <1>5 DEF Untold, Revokes
<1>6. ASSUME h.action = "token.revoke" PROVE Untold(h.id)'
  BY <1>1, <1>6 DEF Untold, Revokes
<1>7. ASSUME ~hasty, NEW i \in DOMAIN page.tokens, page.tokens[i].state = "live",
             rows'[page.tokens[i].id] = "revoked"
      PROVE  Untold(page.tokens[i].id)'
  <2>0. UNCHANGED page.tokens[i].id
    OBVIOUS
  <2>1. page.tokens[i].id \in Ids
    BY TokensAreRows DEF PageInv
  <2>2. CASE rows[page.tokens[i].id] = "revoked"
    BY <1>5, <1>7, <2>2 DEF PageInv, PageKeepsUp
  <2> QED
    BY <1>6, <1>7, <2>1, <2>2
<1>8. ASSUME NEW q \in Requests,
             request'[q].action = "token.create", request'[q].caller = "page",
             request'[q].pc = "done"
      PROVE  request'[q].id \in seen \/ q \in told
  BY <1>1, <1>8 DEF PageInv, PageKeepsUp
<1>9. PageKeepsUp'
  BY <1>7, <1>8 DEF PageKeepsUp
<1> QED
  BY <1>4, <1>9

\* A handler goes on, behind the page's back: it answers, makes a token, or
\* revokes its own.
GoesOn(r, h) ==
    /\ request' = [request EXCEPT ![r] = h]
    /\ UNCHANGED <<list, page, seen, told, hasty>>
    /\ request[r].pc \notin {"idle", "done"} /\ h.pc \notin {"idle", "done"}
    /\ h.action = request[r].action /\ h.caller = request[r].caller
    /\ h.status = "200" => h.id \in Ids
    /\ h.pc = "sent" => request[r].pc = "sent"
    /\ \/ h.id = request[r].id /\ rows' = rows
       \/ /\ h.id = request[r].id /\ h.id \in Ids /\ h.action = "token.revoke"
          /\ rows' = [rows EXCEPT ![h.id] = "revoked"]
       \/ /\ h.id \in Ids /\ h.action = "token.create" /\ h.pc = "audit"
          /\ rows[h.id] = "free" /\ rows' = [rows EXCEPT ![h.id] = "live"]
       \/ /\ h.id = request[r].id /\ h.action = "token.create" /\ h.pc = "answer"
          /\ \E t \in Ids : rows[t] = "free" /\ rows' = [rows EXCEPT ![t] = "live"]

LEMMA GoesOnStep ==
    ASSUME IInv, PageInv, NEW r \in Requests, NEW h \in Handler, GoesOn(r, h)
    PROVE  PageInv'
<1>1. rows \in [Ids -> {"free", "live", "revoked"}]
  BY DEF IInv
<1>2. /\ rows' \in [Ids -> {"free", "live", "revoked"}]
      /\ \A t \in Ids : rows[t] # "free" => rows'[t] # "free"
      /\ \A t \in Ids : rows'[t] = "revoked" =>
             rows[t] = "revoked" \/ (h.action = "token.revoke" /\ h.id = t)
  <2>1. CASE rows' = rows
    BY <1>1, <2>1
  <2>2. CASE h.action = "token.revoke" /\ rows' = [rows EXCEPT ![h.id] = "revoked"]
    BY <1>1, <2>2
  <2>3. ASSUME NEW t \in Ids, rows[t] = "free", rows' = [rows EXCEPT ![t] = "live"]
        PROVE  /\ rows' \in [Ids -> {"free", "live", "revoked"}]
               /\ \A u \in Ids : rows[u] # "free" => rows'[u] # "free"
               /\ \A u \in Ids : rows'[u] = "revoked" => rows[u] = "revoked"
    BY <1>1, <2>3
  <2> QED
    BY <2>1, <2>2, <2>3 DEF GoesOn
<1>3. /\ request[r].action = "token.revoke" => request[r].id \in Ids /\ rows[request[r].id] # "free"
      /\ request[r].action = "token.create" /\ request[r].id # NoToken => rows[request[r].id] # "free"
  BY DEF PageInv, RequestInv, IInv, Handler
<1>4. /\ h.pc = "sent" /\ h.action = "token.create" => h.id = NoToken
      /\ h.action = "token.revoke" => h.id = request[r].id /\ h.id \in Ids /\ rows'[h.id] # "free"
      /\ h.action = "token.create" /\ h.id # NoToken =>
           /\ rows'[h.id] # "free"
           /\ h.id = request[r].id \/ rows[h.id] = "free"
  <2>1. request[r].pc = "sent" /\ request[r].action = "token.create" => request[r].id = NoToken
    BY DEF PageInv, RequestInv
  <2>2. h.id \in Ids \cup {NoToken} /\ NoToken \notin Ids
    BY ConstantsAssumption DEF Handler
  <2>3. CASE h.id = request[r].id
    BY <1>2, <1>3, <2>1, <2>2, <2>3 DEF GoesOn
  <2>4. CASE h.id \in Ids /\ h.action = "token.create" /\ h.pc = "audit" /\ rows[h.id] = "free"
             /\ rows' = [rows EXCEPT ![h.id] = "live"]
    BY <1>1, <2>2, <2>4
  <2> QED
    BY <2>3, <2>4 DEF GoesOn
<1>5. RequestInv'
  <2>1. RequestInv
    BY DEF PageInv
  <2>2. /\ request' = [request EXCEPT ![r] = h]
        /\ h.pc # "idle" /\ h.pc # "done"
        /\ request[r].action = h.action
        /\ h.status = "200" => h.id \in Ids
    BY DEF GoesOn
  <2> QED
    BY <1>2, <1>4, <2>1, <2>2, RequestKeeps
<1>6. ListInv'
  BY <1>2, ListKeeps DEF GoesOn, PageInv
<1>7. h.action = "token.create" /\ h.pc \in {"audit", "answer"} /\ h.id # NoToken =>
        \/ request[r].pc \in {"audit", "answer"} /\ h.id = request[r].id
        \/ rows[h.id] = "free"
  BY ZenonT(60) DEF GoesOn, PageInv, RequestInv, IInv, HandlerInv, Handler
<1>8. TableInv' /\ PageKeepsUp'
  <2>1. /\ request' = [request EXCEPT ![r] = h]
        /\ UNCHANGED <<page, seen, told, hasty>>
        /\ request[r].pc # "done" /\ request[r].pc # "idle" /\ h.pc # "done"
        /\ request[r].action = h.action /\ request[r].caller = h.caller
    BY DEF GoesOn
  <2> QED
    BY <1>2, <1>4, <1>7, <2>1, BehindThePage
<1> QED
  BY <1>5, <1>6, <1>8 DEF PageInv

LEMMA CreateKeeps == ASSUME IInv, PageInv, NEW r \in Requests, Create(r) PROVE PageInv'
<1>0. request[r] \in Handler /\ request[r].pc = "sent" /\ request[r].action = "token.create"
  BY DEF IInv, Create
<1>1. CASE /\ Reply(r, "500")
           /\ \/ UNCHANGED rows
              \/ \E t \in Ids : rows[t] = "free" /\ rows' = [rows EXCEPT ![t] = "live"]
  <2> DEFINE h == [request[r] EXCEPT !.pc = "answer", !.status = "500"]
  <2>1. /\ h \in Handler /\ h.pc = "answer" /\ h.status = "500" /\ h.id = request[r].id
        /\ h.action = request[r].action /\ h.caller = request[r].caller
    BY <1>0 DEF Handler
  <2>2. request' = [request EXCEPT ![r] = h] /\ UNCHANGED <<list, page, seen, told, hasty>>
    BY <1>1 DEF Create, Reply
  <2> HIDE DEF h
  <2>3. GoesOn(r, h)
    BY <1>0, <1>1, <2>1, <2>2 DEF GoesOn
  <2> QED
    BY <2>1, <2>3, GoesOnStep
<1>2. ASSUME NEW t \in Ids, rows[t] = "free", rows' = [rows EXCEPT ![t] = "live"],
             request' = [request EXCEPT ![r] = [@ EXCEPT !.pc = "audit", !.id = t]]
      PROVE  PageInv'
  <2> DEFINE h == [request[r] EXCEPT !.pc = "audit", !.id = t]
  <2>1. h \in Handler
    BY <1>0 DEF Handler
  <2>2. GoesOn(r, h)
    BY <1>0, <1>2 DEF Create, GoesOn, Handler
  <2> QED
    BY <2>1, <2>2, GoesOnStep
<1> QED
  BY <1>1, <1>2 DEF Create

LEMMA ReadKeeps == ASSUME IInv, PageInv, NEW r \in Requests, ReadForRevoke(r) PROVE PageInv'
<1>0. request[r] \in Handler /\ request[r].pc = "sent" /\ request[r].action = "token.revoke"
  BY DEF IInv, ReadForRevoke
<1>1. request[r].id \in Ids
  BY <1>0 DEF PageInv, RequestInv
<1>2. ASSUME NEW status \in {"200", "500"}, Reply(r, status) PROVE PageInv'
  <2> DEFINE h == [request[r] EXCEPT !.pc = "answer", !.status = status]
  <2>1. h \in Handler
    BY <1>0 DEF Handler
  <2>2. GoesOn(r, h)
    BY <1>0, <1>1, <1>2 DEF ReadForRevoke, Reply, GoesOn, history, Handler
  <2> QED
    BY <2>1, <2>2, GoesOnStep
<1>3. CASE Goto(r, "update")
  <2> DEFINE h == [request[r] EXCEPT !.pc = "update"]
  <2>1. h \in Handler
    BY <1>0 DEF Handler
  <2>2. GoesOn(r, h)
    BY <1>0, <1>1, <1>3 DEF ReadForRevoke, Goto, GoesOn, history, Handler
  <2> QED
    BY <2>1, <2>2, GoesOnStep
<1> QED
  BY <1>2, <1>3 DEF ReadForRevoke

LEMMA UpdateKeeps == ASSUME IInv, PageInv, NEW r \in Requests, Update(r) PROVE PageInv'
<1>0. /\ request[r] \in Handler /\ request[r].pc = "update"
      /\ request[r].action = "token.revoke" /\ request[r].id \in Ids
  BY DEF IInv, HandlerInv, Update
<1>1. CASE rows' = [rows EXCEPT ![request[r].id] = "revoked"] /\ Goto(r, "audit")
  <2> DEFINE h == [request[r] EXCEPT !.pc = "audit"]
  <2>1. h \in Handler
    BY <1>0 DEF Handler
  <2>2. GoesOn(r, h)
    BY <1>0, <1>1 DEF Update, Goto, GoesOn, Handler
  <2> QED
    BY <2>1, <2>2, GoesOnStep
<1>2. CASE /\ Reply(r, "500")
           /\ UNCHANGED rows \/ rows' = [rows EXCEPT ![request[r].id] = "revoked"]
  <2> DEFINE h == [request[r] EXCEPT !.pc = "answer", !.status = "500"]
  <2>1. h \in Handler
    BY <1>0 DEF Handler
  <2>2. GoesOn(r, h)
    BY <1>0, <1>2 DEF Update, Reply, GoesOn, Handler
  <2> QED
    BY <2>1, <2>2, GoesOnStep
<1> QED
  BY <1>1, <1>2 DEF Update, AfterUpdate

LEMMA AuditKeeps == ASSUME IInv, PageInv, NEW r \in Requests, Audit(r) PROVE PageInv'
<1>0. /\ request[r] \in Handler /\ request[r].pc = "audit" /\ request[r].id \in Ids
  BY DEF IInv, HandlerInv, Audit
<1>1. PICK status \in {"200", "500"} : Reply(r, status)
  BY DEF Audit
<1> DEFINE h == [request[r] EXCEPT !.pc = "answer", !.status = status]
<1>2. h \in Handler
  BY <1>0 DEF Handler
<1>3. GoesOn(r, h)
  BY <1>0, <1>1 DEF Audit, Reply, GoesOn, Handler
<1> QED
  BY <1>2, <1>3, GoesOnStep

\* A refusal, or a lost answer.
LEMMA RefusalKeeps ==
    ASSUME IInv, PageInv, NEW r \in Requests, Forbid(r) \/ Lose(r) \/ Die(r) PROVE PageInv'
<1>0. /\ request[r] \in Handler /\ request[r].pc \in {"sent", "update", "audit", "answer"}
  BY DEF IInv, Forbid, Lose, Die
<1>1. PICK status \in {"403", "lost"} : Reply(r, status)
  BY DEF Forbid, Lose, Die
<1> DEFINE h == [request[r] EXCEPT !.pc = "answer", !.status = status]
<1>2. h \in Handler
  BY <1>0 DEF Handler
<1>3. /\ request' = [request EXCEPT ![r] = h]
      /\ UNCHANGED <<rows, list, page, seen, told, hasty>>
      /\ h.pc = "answer" /\ h.status # "200" /\ h.id = request[r].id
      /\ h.action = request[r].action /\ h.caller = request[r].caller
  BY <1>0, <1>1 DEF Forbid, Lose, Die, Reply, Handler, history
<1>4. GoesOn(r, h)
  BY <1>0, <1>3 DEF GoesOn
<1> QED
  BY <1>2, <1>4, GoesOnStep

\* Somebody else's request, which is not the page's.
LEMMA OthersKeep == ASSUME IInv, PageInv, NEW r \in Requests, OthersSend(r) PROVE PageInv'
<1>0. /\ request[r] \in Handler /\ request[r].pc = "idle" /\ request[r].action = "token.create"
      /\ request[r].status = "none" /\ rows \in [Ids -> {"free", "live", "revoked"}]
  BY DEF IInv, OthersSend, Send, PageInv, RequestInv
<1>1. PICK action \in Actions, caller \in {"session", "token"}, t \in Ids \cup {NoToken} :
        /\ request' = [request EXCEPT ![r] = [@ EXCEPT !.pc = "sent", !.action = action,
                                                       !.caller = caller, !.id = t]]
        /\ action = "token.create" => t = NoToken
        /\ action = "token.revoke" => t \in Ids /\ rows[t] # "free"
  BY DEF OthersSend, Send, Actions
<1> DEFINE h == [request[r] EXCEPT !.pc = "sent", !.action = action, !.caller = caller, !.id = t]
<1>2. /\ h \in Handler /\ h.pc = "sent" /\ h.action = action /\ h.caller = caller
      /\ h.id = t /\ h.status = "none"
  BY <1>0 DEF Handler, Callers
<1>3. request' = [request EXCEPT ![r] = h] /\ UNCHANGED <<rows, list, page, history>>
  BY <1>1 DEF OthersSend
<1> HIDE DEF h
<1>4. RequestInv'
  BY <1>0, <1>1, <1>2, <1>3, RequestKeeps DEF PageInv
<1>5. ListInv'
  BY <1>3, ListKeeps DEF PageInv
<1>6. TableInv' /\ PageKeepsUp'
  BY <1>0, <1>1, <1>2, <1>3, BehindThePage DEF history
<1> QED
  BY <1>4, <1>5, <1>6 DEF PageInv

\* The form: the token has no id yet, and the list is there or the user was
\* hasty.
LEMMA SubmitKeeps == ASSUME IInv, PageInv, NEW r \in Requests, SubmitForm(r) PROVE PageInv'
<1>0. /\ request[r] \in Handler /\ request[r].pc = "idle" /\ request[r].action = "token.create"
      /\ request[r].status = "none" /\ rows \in [Ids -> {"free", "live", "revoked"}]
  BY DEF IInv, SubmitForm, Send, PageInv, RequestInv
<1> DEFINE h == [request[r] EXCEPT !.pc = "sent", !.action = "token.create", !.caller = "page",
                                   !.id = NoToken]
<1>1. /\ h \in Handler /\ h.pc = "sent" /\ h.action = "token.create" /\ h.caller = "page"
      /\ h.id = NoToken /\ h.status = "none"
  BY <1>0 DEF Handler, Actions, Callers
<1>2. request' = [request EXCEPT ![r] = h] /\ UNCHANGED <<rows, list, seen, told>>
  BY DEF SubmitForm, Send
<1>3. page'.tokens = page.tokens /\ page'.loaded = page.loaded
  BY DEF SubmitForm
<1>4. ~hasty' => ~hasty /\ page.loaded
  BY DEF SubmitForm
<1> HIDE DEF h
<1>5. RequestInv'
  BY <1>0, <1>1, <1>2, RequestKeeps DEF PageInv
<1>6. ListInv'
  BY <1>2, <1>3, ListKeeps DEF PageInv
<1>7. request'[r] = h /\ \A q \in Requests \ {r} : request'[q] = request[q]
  BY <1>2 DEF IInv
<1>8. TableInv'
  <2>1. ASSUME ~hasty', NEW q \in Requests, NEW t, t = request'[q].id,
               request'[q].action = "token.create", request'[q].caller = "page",
               request'[q].pc \in {"audit", "answer"}, t # NoToken
        PROVE  /\ \A i \in DOMAIN page.tokens : page.tokens[i].id # t
               /\ \A p \in Requests :
                    request'[p].action = "token.revoke" /\ request'[p].id = t
                    => request'[p].caller # "page"
    <3>1. q # r
      BY <1>1, <1>7, <2>1
    <3>2. /\ \A i \in DOMAIN page.tokens : page.tokens[i].id # t
          /\ \A p \in Requests : Revokes(p, t) => request[p].caller # "page"
      BY <1>4, <1>7, <2>1, <3>1 DEF PageInv, TableInv
    <3> QED
      BY <1>1, <1>7, <3>2 DEF Revokes
  <2>2. page'.tokens \in Seq(Row) /\ \A i \in DOMAIN page'.tokens : rows'[page'.tokens[i].id] # "free"
    BY <1>2, <1>3 DEF PageInv, TableInv
  <2> QED
    BY <1>3, <1>4, <2>1, <2>2 DEF TableInv, Revokes
<1>9. PageKeepsUp'
  <2>1. ASSUME NEW t, Untold(t) PROVE Untold(t)'
    BY <1>0, <1>7, <2>1 DEF Untold, Revokes
  <2>2. ASSUME ~hasty', NEW i \in DOMAIN page.tokens, NEW t, t = page.tokens[i].id,
               page.tokens[i].state = "live", rows[t] = "revoked"
        PROVE  Untold(t)'
    BY <1>4, <2>1, <2>2 DEF PageInv, PageKeepsUp
  <2>3. ASSUME NEW q \in Requests,
               request'[q].action = "token.create", request'[q].caller = "page",
               request'[q].pc = "done"
        PROVE  request'[q].id \in seen \/ q \in told
    BY <1>1, <1>7, <2>3 DEF PageInv, PageKeepsUp
  <2>4. ASSUME ~hasty', NEW i \in DOMAIN page'.tokens,
               page'.tokens[i].state = "live", rows'[page'.tokens[i].id] = "revoked"
        PROVE  Untold(page.tokens[i].id)'
    BY <1>2, <1>3, <2>2, <2>4 DEF Untold, Revokes
  <2> QED
    BY <1>2, <2>3, <2>4 DEF PageKeepsUp
<1> QED
  BY <1>5, <1>6, <1>8, <1>9 DEF PageInv

\* The button of a row: the list is there, and the token is none that the page
\* is making.
LEMMA PressKeeps == ASSUME IInv, PageInv, NEW r \in Requests, PressRevoke(r) PROVE PageInv'
<1>0. /\ request[r] \in Handler /\ request[r].pc = "idle" /\ request[r].action = "token.create"
      /\ request[r].status = "none" /\ rows \in [Ids -> {"free", "live", "revoked"}]
  BY DEF IInv, PressRevoke, Send, PageInv, RequestInv
<1>1. PICK u \in Ids : /\ [id |-> u, state |-> "live"] \in ToSet(page.tokens)
                       /\ Send(r, "token.revoke", "page", u)
                       /\ page' = [page EXCEPT !.busyId = u]
  BY DEF PressRevoke
<1>2. PICK j \in DOMAIN page.tokens : page.tokens[j].id = u
  BY <1>1 DEF ToSet
<1> DEFINE h == [request[r] EXCEPT !.pc = "sent", !.action = "token.revoke", !.caller = "page",
                                   !.id = u]
<1>3. /\ h \in Handler /\ h.pc = "sent" /\ h.action = "token.revoke" /\ h.caller = "page"
      /\ h.id = u /\ h.status = "none"
  BY <1>0 DEF Handler, Actions, Callers
<1>4. /\ request' = [request EXCEPT ![r] = h] /\ UNCHANGED <<rows, list, seen, told, hasty>>
      /\ page'.tokens = page.tokens /\ page'.loaded = page.loaded
  <2>1. page'.tokens = page.tokens /\ page'.loaded = page.loaded
    BY <1>1
  <2>2. request' = [request EXCEPT ![r] = h]
    BY <1>1 DEF Send
  <2> QED
    BY <2>1, <2>2 DEF PressRevoke, history
<1> HIDE DEF h
<1>5. RequestInv'
  <2>1. rows[u] # "free"
    BY <1>2 DEF PageInv, TableInv
  <2> QED
    BY <1>0, <1>3, <1>4, <2>1, RequestKeeps DEF PageInv
<1>6. ListInv'
  BY <1>4, ListKeeps DEF PageInv
<1>7. request'[r] = h /\ \A q \in Requests \ {r} : request'[q] = request[q]
  BY <1>4 DEF IInv
<1>8. ~hasty => page.loaded
  <2>1. page.tokens # <<>>
    BY <1>2
  <2> QED
    BY <2>1 DEF PageInv, TableInv
<1>9. TableInv'
  <2>1. ASSUME ~hasty, NEW q \in Requests, NEW t, t = request'[q].id,
               request'[q].action = "token.create", request'[q].caller = "page",
               request'[q].pc \in {"audit", "answer"}, t # NoToken
        PROVE  /\ \A i \in DOMAIN page.tokens : page.tokens[i].id # t
               /\ \A p \in Requests :
                    request'[p].action = "token.revoke" /\ request'[p].id = t
                    => request'[p].caller # "page"
    <3>1. q # r
      BY <1>3, <1>7, <2>1
    <3>2. /\ \A i \in DOMAIN page.tokens : page.tokens[i].id # t
          /\ \A p \in Requests : Revokes(p, t) => request[p].caller # "page"
      BY <1>7, <2>1, <3>1 DEF PageInv, TableInv
    <3>3. u # t
      BY <1>2, <3>2
    <3> QED
      BY <1>3, <1>7, <3>2, <3>3 DEF Revokes
  <2>2. page'.tokens \in Seq(Row) /\ \A i \in DOMAIN page'.tokens : rows'[page'.tokens[i].id] # "free"
    BY <1>4 DEF PageInv, TableInv
  <2> QED
    BY <1>4, <1>8, <2>1, <2>2 DEF TableInv, Revokes
<1>10. PageKeepsUp'
  <2>1. ASSUME NEW t, Untold(t) PROVE Untold(t)'
    BY <1>0, <1>7, <2>1 DEF Untold, Revokes
  <2>2. ASSUME ~hasty, NEW i \in DOMAIN page.tokens, NEW t, t = page.tokens[i].id,
               page.tokens[i].state = "live", rows[t] = "revoked"
        PROVE  Untold(t)'
    BY <2>1, <2>2 DEF PageInv, PageKeepsUp
  <2>3. ASSUME NEW q \in Requests,
               request'[q].action = "token.create", request'[q].caller = "page",
               request'[q].pc = "done"
        PROVE  request'[q].id \in seen \/ q \in told
    BY <1>3, <1>7, <2>3 DEF PageInv, PageKeepsUp
  <2>4. ASSUME ~hasty, NEW i \in DOMAIN page'.tokens,
               page'.tokens[i].state = "live", rows'[page'.tokens[i].id] = "revoked"
        PROVE  Untold(page.tokens[i].id)'
    BY <1>4, <2>2, <2>4 DEF Untold, Revokes
  <2> QED
    BY <1>4, <2>3, <2>4 DEF PageKeepsUp
<1> QED
  BY <1>5, <1>6, <1>9, <1>10 DEF PageInv

\* An answer ends a request of the page, which has the list unless its user was
\* hasty.
LEMMA AnswerMoves ==
    ASSUME IInv, PageInv, NEW r \in Requests, request[r].pc = "answer",
           request[r].caller = "page", Goto(r, "done"), UNCHANGED <<rows, list>>,
           page'.loaded = page.loaded
    PROVE  /\ RequestInv' /\ ListInv' /\ (~hasty => page.loaded)
           /\ request'[r] = [request[r] EXCEPT !.pc = "done"]
           /\ \A q \in Requests \ {r} : request'[q] = request[q]
           /\ \A q \in Requests : /\ request'[q].action = request[q].action
                                   /\ request'[q].caller = request[q].caller
                                   /\ request'[q].id = request[q].id
                                   /\ request'[q].status = request[q].status
           /\ \A q \in Requests \ {r} : request'[q].pc = request[q].pc
           /\ request'[r].pc = "done"
<1> DEFINE h == [request[r] EXCEPT !.pc = "done"]
<1>0. request[r] \in Handler /\ rows \in [Ids -> {"free", "live", "revoked"}]
  BY DEF IInv
<1>1. /\ h \in Handler /\ h.pc = "done" /\ h.action = request[r].action
      /\ h.caller = request[r].caller /\ h.id = request[r].id /\ h.status = request[r].status
  BY <1>0 DEF Handler
<1>2. request' = [request EXCEPT ![r] = h]
  BY DEF Goto
<1>3. request'[r] = h /\ \A q \in Requests \ {r} : request'[q] = request[q]
  BY <1>2 DEF IInv
<1>4. ~hasty => page.loaded
  BY DEF PageInv, TableInv
<1>5. /\ h.action = "token.revoke" => h.id \in Ids /\ rows'[h.id] # "free"
      /\ h.action = "token.create" =>
           /\ h.status = "200" => h.id \in Ids
           /\ h.id # NoToken => rows'[h.id] # "free"
  BY <1>1 DEF PageInv, RequestInv
<1>6. ListInv'
  BY ListKeeps DEF PageInv
<1> HIDE DEF h
<1>7. RequestInv'
  BY <1>0, <1>1, <1>2, <1>5, RequestKeeps DEF PageInv
<1> QED
  BY <1>1, <1>3, <1>4, <1>6, <1>7 DEF h

\* The table after an answer shows tokens it showed, and the new one, which no
\* other request of the page makes.
LEMMA TableAfterAnswer ==
    ASSUME IInv, PageInv, NEW r \in Requests, request[r].pc = "answer",
           request[r].caller = "page", Goto(r, "done"), UNCHANGED <<rows, list, hasty>>,
           page'.loaded = page.loaded, page'.tokens \in Seq(Row),
           \A i \in DOMAIN page'.tokens :
               \/ \E j \in DOMAIN page.tokens : page'.tokens[i].id = page.tokens[j].id
               \/ /\ page'.tokens[i].id = request[r].id
                  /\ request[r].action = "token.create" /\ request[r].id # NoToken
    PROVE  TableInv'
<1>1. /\ ~hasty => page.loaded
      /\ \A q \in Requests : /\ request'[q].action = request[q].action
                              /\ request'[q].caller = request[q].caller
                              /\ request'[q].id = request[q].id
      /\ \A q \in Requests \ {r} : request'[q].pc = request[q].pc
      /\ request'[r].pc = "done"
  BY AnswerMoves
<1>2. ASSUME NEW i \in DOMAIN page'.tokens PROVE rows'[page'.tokens[i].id] # "free"
  <2>1. CASE \E j \in DOMAIN page.tokens : page'.tokens[i].id = page.tokens[j].id
    <3> PICK j \in DOMAIN page.tokens : page'.tokens[i].id = page.tokens[j].id
      BY <2>1
    <3>1. rows[page.tokens[j].id] # "free"
      BY DEF PageInv, TableInv
    <3> QED
      BY <3>1
  <2>2. CASE /\ page'.tokens[i].id = request[r].id
             /\ request[r].action = "token.create" /\ request[r].id # NoToken
    BY <2>2 DEF PageInv, RequestInv
  <2> QED
    BY <2>1, <2>2
<1>3. ASSUME ~hasty, NEW q \in Requests, NEW t, t = request'[q].id,
             request'[q].action = "token.create", request'[q].caller = "page",
             request'[q].pc \in {"audit", "answer"}, t # NoToken
      PROVE  /\ \A i \in DOMAIN page'.tokens : page'.tokens[i].id # t
             /\ \A p \in Requests :
                  request'[p].action = "token.revoke" /\ request'[p].id = t
                  => request'[p].caller # "page"
  <2>1. /\ q # r /\ request[q].action = "token.create" /\ request[q].caller = "page"
        /\ request[q].pc \in {"audit", "answer"} /\ request[q].id = t
    BY <1>1, <1>3
  <2>2. /\ \A i \in DOMAIN page.tokens : page.tokens[i].id # t
        /\ \A p \in Requests : Revokes(p, t) => request[p].caller # "page"
    BY <1>3, <2>1 DEF PageInv, TableInv
  <2>3. request[r].action = "token.create" /\ request[r].id # NoToken => request[r].id # t
    BY <2>1 DEF PageInv, RequestInv
  <2> QED
    BY <1>1, <2>2, <2>3 DEF Revokes
<1> QED
  BY <1>1, <1>2, <1>3 DEF TableInv, Revokes

LEMMA Prepended ==
    ASSUME NEW S, NEW x \in S, NEW s \in Seq(S)
    PROVE  /\ <<x>> \o s \in Seq(S)
           /\ \A i \in DOMAIN (<<x>> \o s) :
                (<<x>> \o s)[i] = x \/ \E j \in DOMAIN s : (<<x>> \o s)[i] = s[j]
<1>1. <<x>> \in Seq(S) /\ Len(<<x>>) = 1 /\ <<x>>[1] = x
  OBVIOUS
<1> DEFINE c == <<x>> \o s
<1>2. /\ c \in Seq(S) /\ Len(c) = 1 + Len(s)
      /\ \A i \in 1..1 + Len(s) : c[i] = IF i <= 1 THEN <<x>>[i] ELSE s[i - 1]
  BY <1>1, ConcatProperties
<1> HIDE DEF c
<1>3. ASSUME NEW i \in DOMAIN c PROVE c[i] = x \/ \E j \in DOMAIN s : c[i] = s[j]
  <2>1. i \in 1..1 + Len(s) /\ Len(s) \in Nat /\ DOMAIN s = 1..Len(s)
    BY <1>2
  <2>2. CASE i = 1
    BY <1>1, <1>2, <2>1, <2>2
  <2>3. CASE i # 1
    BY <1>2, <2>1, <2>3
  <2> QED
    BY <2>2, <2>3
<1> QED
  BY <1>2, <1>3 DEF c

\* A created token is shown with its secret, or its failure is told.
LEMMA CreatedKeeps ==
    ASSUME IInv, PageInv, NEW r \in Requests, CreateAnswered(r) PROVE PageInv'
<1> DEFINE t == request[r].id
           new == [id |-> t, state |-> "live"]
<1>0. /\ request[r].pc = "answer" /\ request[r].caller = "page"
      /\ request[r].action = "token.create" /\ Goto(r, "done")
      /\ UNCHANGED <<rows, list, hasty>>
      /\ page'.loaded = page.loaded
      /\ seen \subseteq seen' /\ told \subseteq told'
      /\ \/ t \in seen' /\ request[r].status = "200" /\ page'.tokens = <<new>> \o page.tokens
         \/ r \in told' /\ page'.tokens = page.tokens
  <2>1. CASE request[r].status = "200"
    <3>1. /\ page' = [page EXCEPT !.creating = FALSE, !.minted = t, !.tokens = <<new>> \o @]
          /\ seen' = seen \cup {t} /\ told' = told
      BY <2>1 DEF CreateAnswered
    <3>2. page'.tokens = <<new>> \o page.tokens
      BY <3>1
    <3>3. page'.loaded = page.loaded
      BY <3>1
    <3> QED
      BY <2>1, <3>1, <3>2, <3>3 DEF CreateAnswered
  <2>2. CASE request[r].status # "200"
    <3>1. /\ page' = [page EXCEPT !.creating = FALSE, !.error = TRUE]
          /\ told' = IF page'.error THEN told \cup {r} ELSE told
          /\ seen' = seen
      BY <2>2 DEF CreateAnswered, CreateFailed
    <3>2. page'.tokens = page.tokens /\ page'.loaded = page.loaded
      BY <3>1
    <3>3. page'.error
      BY <3>1
    <3> QED
      BY <2>2, <3>1, <3>2, <3>3 DEF CreateAnswered
  <2> QED
    BY <2>1, <2>2
<1>1. /\ RequestInv' /\ ListInv'
      /\ \A q \in Requests \ {r} : request'[q] = request[q]
      /\ \A q \in Requests : /\ request'[q].action = request[q].action
                              /\ request'[q].caller = request[q].caller
                              /\ request'[q].id = request[q].id
      /\ request'[r].pc = "done"
  BY <1>0, AnswerMoves
<1>2. page.tokens \in Seq(Row)
  BY DEF PageInv, TableInv
<1>3. ASSUME NEW u, Untold(u) PROVE Untold(u)'
  <2>1. PICK p \in Requests : Revokes(p, u) /\ (\/ request[p].caller = "session"
                                               \/ request[p].pc # "done"
                                               \/ request[p].status # "200")
    BY <1>3 DEF Untold
  <2>2. request'[p] = request[p]
    BY <1>0, <1>1, <2>1 DEF Revokes
  <2> QED
    BY <2>1, <2>2 DEF Untold, Revokes
<1>4. ASSUME ~hasty, NEW j \in DOMAIN page.tokens, page.tokens[j].state = "live",
             rows[page.tokens[j].id] = "revoked"
      PROVE  Untold(page.tokens[j].id)
  BY <1>4 DEF PageInv, PageKeepsUp
<1>5. ASSUME NEW q \in Requests,
             request'[q].action = "token.create", request'[q].caller = "page",
             request'[q].pc = "done"
      PROVE  request'[q].id \in seen' \/ q \in told'
  BY <1>0, <1>1, <1>5 DEF PageInv, PageKeepsUp
<1>6. CASE page'.tokens = page.tokens
  <2>1. TableInv'
    BY <1>0, <1>2, <1>6, TableAfterAnswer
  <2>2. ASSUME ~hasty, NEW i \in DOMAIN page'.tokens,
               page'.tokens[i].state = "live", rows'[page'.tokens[i].id] = "revoked"
        PROVE  Untold(page.tokens[i].id)'
    <3>1. Untold(page.tokens[i].id)
      BY <1>0, <1>4, <1>6, <2>2
    <3> DEFINE u == page.tokens[i].id
    <3>2. Untold(u)'
      <4>1. PICK v : v = u
        OBVIOUS
      <4>2. Untold(v)'
        BY <1>3, <3>1, <4>1
      <4> QED
        BY <1>6, <4>1, <4>2 DEF Untold, Revokes
    <3> QED
      BY <3>2
  <2> QED
    BY <1>0, <1>1, <1>5, <2>1, <2>2 DEF PageInv, PageKeepsUp
<1>7. CASE page'.tokens = <<new>> \o page.tokens /\ request[r].status = "200"
  <2>1. t \in Ids /\ t # NoToken /\ new \in Row
    BY <1>0, <1>7, ConstantsAssumption DEF PageInv, RequestInv, Row
  <2>2. /\ page'.tokens \in Seq(Row)
        /\ \A i \in DOMAIN page'.tokens :
             page'.tokens[i] = new \/ \E j \in DOMAIN page.tokens : page'.tokens[i] = page.tokens[j]
    <3> HIDE DEF new
    <3> QED
      BY <1>2, <1>7, <2>1, Prepended
  <2>3. TableInv'
    BY <1>0, <2>1, <2>2, TableAfterAnswer
  <2>4. ASSUME ~hasty, rows[t] = "revoked" PROVE Untold(t)
    <3>1. PICK p \in Requests : Revokes(p, t)
      BY <2>1, <2>4 DEF PageInv, RequestInv
    <3>2. request[p].caller # "page"
      BY <1>0, <2>1, <2>4, <3>1 DEF PageInv, TableInv
    <3>3. request[p].pc # "done"
      BY <3>2 DEF PageInv, RequestInv
    <3> QED
      BY <3>1, <3>3 DEF Untold
  <2>5. ASSUME ~hasty, NEW i \in DOMAIN page'.tokens, NEW u, u = page'.tokens[i].id,
               page'.tokens[i].state = "live", rows[u] = "revoked"
        PROVE  Untold(u)'
    <3>1. CASE page'.tokens[i] = new
      <4>1. u = t
        BY <2>5, <3>1
      <4> QED
        BY <1>3, <2>4, <2>5, <4>1
    <3>2. CASE \E j \in DOMAIN page.tokens : page'.tokens[i] = page.tokens[j]
      BY <1>3, <1>4, <2>5, <3>2
    <3> QED
      BY <2>2, <3>1, <3>2
  <2>6. PageKeepsUp'
    BY <1>0, <1>5, <2>5 DEF PageKeepsUp, Untold, Revokes
  <2> QED
    BY <1>1, <2>3, <2>6 DEF PageInv
<1> QED
  BY <1>0, <1>6, <1>7

\* A revoked token is shown as dead, or its failure leaves it as it was.
LEMMA RevokedKeeps ==
    ASSUME IInv, PageInv, NEW r \in Requests, RevokeAnswered(r) PROVE PageInv'
<1> DEFINE t == request[r].id
<1>0. /\ request[r].pc = "answer" /\ request[r].caller = "page"
      /\ request[r].action = "token.revoke" /\ Goto(r, "done")
      /\ UNCHANGED <<rows, list, seen, told, hasty>>
  BY DEF RevokeAnswered, history
<1>1. page'.loaded = page.loaded
  BY DEF RevokeAnswered
<1>2. page'.tokens = IF request[r].status = "200" THEN WithRevoked(page.tokens, t)
                     ELSE page.tokens
  BY DEF RevokeAnswered
<1>3. /\ RequestInv' /\ ListInv'
      /\ \A q \in Requests \ {r} : request'[q] = request[q]
      /\ \A q \in Requests : /\ request'[q].action = request[q].action
                              /\ request'[q].caller = request[q].caller
                              /\ request'[q].id = request[q].id
                              /\ request'[q].status = request[q].status
      /\ request'[r].pc = "done"
  BY <1>0, <1>1, AnswerMoves
<1>4. page.tokens \in Seq(Row) /\ t \in Ids
  BY <1>0 DEF PageInv, TableInv, RequestInv
<1>5. /\ page'.tokens \in Seq(Row) /\ DOMAIN page'.tokens = DOMAIN page.tokens
      /\ \A i \in DOMAIN page.tokens :
           /\ page'.tokens[i].id = page.tokens[i].id
           /\ page'.tokens[i].state = "live" => page.tokens[i].state = "live"
           /\ request[r].status = "200" /\ page.tokens[i].id = t => page'.tokens[i].state # "live"
  <2>1. CASE request[r].status # "200"
    BY <1>2, <1>4, <2>1
  <2>2. CASE request[r].status = "200"
    <3> DEFINE s == WithRevoked(page.tokens, t)
    <3>1. DOMAIN s = 1..Len(page.tokens) /\ DOMAIN page.tokens = 1..Len(page.tokens)
          /\ Len(page.tokens) \in Nat
      BY <1>4 DEF WithRevoked
    <3>2. ASSUME NEW i \in DOMAIN page.tokens
          PROVE  /\ s[i] \in Row /\ s[i].id = page.tokens[i].id
                 /\ s[i].state = "live" => page.tokens[i].state = "live"
                 /\ page.tokens[i].id = t => s[i].state # "live"
      <4>1. page.tokens[i] \in Row
        BY TokensAreRows DEF PageInv
      <4>2. s[i] = IF page.tokens[i].id = t THEN [id |-> t, state |-> "revoked"]
                   ELSE page.tokens[i]
        BY DEF WithRevoked
      <4> QED
        BY <1>4, <4>1, <4>2 DEF Row
    <3>3. s \in [1..Len(page.tokens) -> Row]
      BY <3>1, <3>2 DEF WithRevoked
    <3> HIDE DEF s
    <3>4. s \in Seq(Row)
      BY <3>1, <3>3
    <3> QED
      BY <1>2, <2>2, <3>1, <3>2, <3>4 DEF s
  <2> QED
    BY <2>1, <2>2
<1>6. TableInv'
  BY <1>0, <1>1, <1>5, TableAfterAnswer
<1>7. ASSUME ~hasty, NEW i \in DOMAIN page'.tokens, NEW u, u = page'.tokens[i].id,
             page'.tokens[i].state = "live", rows[u] = "revoked"
      PROVE  Untold(u)'
  <2>1. /\ page.tokens[i].state = "live" /\ page.tokens[i].id = u
        /\ request[r].status = "200" => u # t
    BY <1>5, <1>7
  <2>2. Untold(u)
    BY <1>5, <1>7, <2>1 DEF PageInv, PageKeepsUp
  <2>3. PICK p \in Requests : Revokes(p, u) /\ (\/ request[p].caller = "session"
                                               \/ request[p].pc # "done"
                                               \/ request[p].status # "200")
    BY <2>2 DEF Untold
  <2>4. p = r => request[p].status # "200"
    BY <2>1, <2>3 DEF Revokes
  <2> QED
    BY <1>3, <2>3, <2>4 DEF Untold, Revokes
<1>8. ASSUME NEW q \in Requests,
             request'[q].action = "token.create", request'[q].caller = "page",
             request'[q].pc = "done"
      PROVE  request'[q].id \in seen \/ q \in told
  BY <1>0, <1>3, <1>8 DEF PageInv, PageKeepsUp
<1>9. PageKeepsUp'
  BY <1>0, <1>7, <1>8 DEF PageKeepsUp, Untold, Revokes
<1> QED
  BY <1>3, <1>6, <1>9 DEF PageInv

\* The rows of a list are the tokens there are.
LEMMA TakeKeeps == ASSUME IInv, PageInv, TakeList PROVE PageInv'
<1> DEFINE there == {u \in Ids : rows[u] # "free"}
<1>0. /\ list' = [pc |-> "taken", rows |-> {[id |-> t, state |-> rows[t]] : t \in there}]
      /\ list.pc = "sent" /\ UNCHANGED <<rows, request, page, history>>
      /\ rows \in [Ids -> {"free", "live", "revoked"}]
  BY DEF TakeList, IInv
<1>1. IsFiniteSet({[id |-> t, state |-> rows[t]] : t \in there})
  <2>1. IsFiniteSet(there)
    BY ConstantsAssumption, FS_Subset
  <2> DEFINE f == [t \in there |-> [id |-> t, state |-> rows[t]]]
             T == {[id |-> t, state |-> rows[t]] : t \in there}
  <2>2. f \in Surjection(there, T)
    <3>1. f \in [there -> T] /\ \A x \in T : \E t \in there : f[t] = x
      OBVIOUS
    <3> HIDE DEF f, T, there
    <3> QED
      BY <3>1 DEF Surjection
  <2> HIDE DEF f, T, there
  <2>3. IsFiniteSet(T)
    BY <2>1, <2>2, FS_Surjection
  <2> QED
    BY <2>3 DEF T
<1>2. \A x \in {[id |-> t, state |-> rows[t]] : t \in there} : x \in Row /\ rows[x.id] # "free"
  BY <1>0 DEF Row
<1> HIDE DEF there
<1>3. ListInv'
  BY <1>0, <1>1, <1>2 DEF PageInv, ListInv
<1>4. RequestInv' /\ TableInv' /\ PageKeepsUp'
  BY <1>0 DEF PageInv, RequestInv, TableInv, PageKeepsUp, Untold, Revokes, history
<1> QED
  BY <1>3, <1>4 DEF PageInv

\* SetToSeq lays a finite set out.
LEMMA LaidOut ==
    ASSUME NEW S, IsFiniteSet(S)
    PROVE  SetToSeq(S) \in Seq(S) /\ \A i \in DOMAIN SetToSeq(S) : SetToSeq(S)[i] \in S
<1>1. PICK f \in [1..Cardinality(S) -> S] : IsInjective(f)
  BY FS_CardinalityType DEF ExistsBijection, Bijection, Injection, IsInjective
<1>2. SetToSeq(S) \in [1..Cardinality(S) -> S]
  BY <1>1 DEF SetToSeq
<1>3. Cardinality(S) \in Nat
  BY FS_CardinalityType
<1> QED
  BY <1>2, <1>3

\* The list arrives, before anything was asked for unless the user was hasty.
LEMMA ListKeepsUp == ASSUME IInv, PageInv, ListAnswered PROVE PageInv'
<1>0. /\ list.pc = "taken" /\ list'.pc = "done" /\ list'.rows = list.rows
      /\ UNCHANGED <<rows, request, seen, told, hasty>>
      /\ ~page.loaded
  BY DEF ListAnswered, history, PageInv, ListInv
<1>1. page'.loaded /\ (page'.tokens = page.tokens \/ page'.tokens = SetToSeq(list.rows))
  <2>1. CASE page' = [page EXCEPT !.loaded = TRUE, !.tokens = SetToSeq(list.rows)]
    BY <2>1
  <2>2. CASE page' = [page EXCEPT !.loaded = TRUE, !.error = TRUE]
    BY <2>2
  <2> QED
    BY <2>1, <2>2 DEF ListAnswered
<1>2. /\ page.tokens \in Seq(Row)
      /\ SetToSeq(list.rows) \in Seq(list.rows)
      /\ \A i \in DOMAIN SetToSeq(list.rows) : SetToSeq(list.rows)[i] \in list.rows
      /\ list.rows \subseteq Row
  BY LaidOut DEF PageInv, TableInv, ListInv
<1>3. /\ page'.tokens \in Seq(Row)
      /\ \A i \in DOMAIN page'.tokens : rows[page'.tokens[i].id] # "free"
  BY <1>1, <1>2 DEF PageInv, TableInv, ListInv
<1>4. RequestInv' /\ ListInv'
  BY <1>0, <1>1 DEF PageInv, RequestInv, ListInv, Revokes
<1>5. ~hasty => \A q \in Requests : request[q].caller = "page" => request[q].pc = "idle"
  BY <1>0 DEF PageInv, TableInv
<1>6. TableInv'
  BY <1>0, <1>1, <1>3, <1>5 DEF TableInv, Revokes
<1>7. ASSUME ~hasty, NEW u \in Ids, rows[u] = "revoked" PROVE Untold(u)
  <2>1. PICK p \in Requests : Revokes(p, u)
    BY <1>7 DEF PageInv, RequestInv
  <2>2. request[p].caller # "page"
    BY <1>5, <1>7, <2>1 DEF PageInv, RequestInv, Revokes
  <2>3. request[p].pc # "done"
    BY <2>2 DEF PageInv, RequestInv
  <2> QED
    BY <2>1, <2>3 DEF Untold
<1>8. \A i \in DOMAIN page'.tokens : page'.tokens[i].id \in Ids
  <2>1. \A i \in DOMAIN page'.tokens : page'.tokens[i] \in Row
    BY <1>3
  <2> QED
    BY <2>1 DEF Row
<1>9. PageKeepsUp'
  BY <1>0, <1>7, <1>8 DEF PageInv, PageKeepsUp, Untold, Revokes
<1> QED
  BY <1>4, <1>6, <1>9 DEF PageInv

LEMMA DismissKeeps == ASSUME IInv, PageInv, Dismiss PROVE PageInv'
<1>1. page'.tokens = page.tokens /\ page'.loaded = page.loaded
  BY DEF Dismiss
<1>2. UNCHANGED <<rows, audit, request, list, history>>
  BY DEF Dismiss
<1> QED
  BY <1>1, <1>2 DEF PageInv, RequestInv, ListInv, TableInv, PageKeepsUp, Untold, Revokes, history

LEMMA PageStep == ASSUME IInv, PageInv, [Next]_vars PROVE PageInv'
<1>1. CASE UNCHANGED vars
  BY <1>1 DEF vars, PageInv, RequestInv, ListInv, TableInv, PageKeepsUp, Untold, Revokes
<1>2. ASSUME NEW r \in Requests, RequestStep(r) PROVE PageInv'
  BY <1>2, CreateKeeps, ReadKeeps, UpdateKeeps, AuditKeeps, RefusalKeeps, SubmitKeeps,
     PressKeeps, CreatedKeeps, RevokedKeeps, OthersKeep DEF RequestStep
<1> QED
  BY <1>1, <1>2, TakeKeeps, ListKeepsUp, DismissKeeps DEF Next

LEMMA PageInit == ASSUME Init PROVE PageInv
<1>1. RequestInv
  BY DEF Init, RequestInv, Revokes
<1>2. ListInv
  BY FS_EmptySet DEF Init, ListInv
<1>3. TableInv
  BY DEF Init, TableInv, Revokes
<1>4. PageKeepsUp
  BY DEF Init, PageKeepsUp
<1> QED
  BY <1>1, <1>2, <1>3, <1>4 DEF PageInv

\* No token that the page made works unseen in silence, and what the page shows
\* as live is dead only by a revocation that it was not told of; for any number
\* of tokens and requests, unless a token was asked for before the list was
\* there (settings/tokens/page.tsx).
THEOREM PageStaysCurrent == Spec => []PageKeepsUp
<1>1. Init => IInv /\ PageInv
  BY InitIInv, PageInit
<1>2. IInv /\ PageInv /\ [Next]_vars => IInv' /\ PageInv'
  BY Step, PageStep
<1>3. PageInv => PageKeepsUp
  BY DEF PageInv
<1> QED
  BY <1>1, <1>2, <1>3, PTL DEF Spec

-----------------------------------------------------------------------------
(* ApiAccess: dead tokens.                                                 *)

\* The fields of a request.
LEMMA Fields ==
    CallFields = {"pc", "route", "presented", "address", "ctx", "dead", "stamp",
                  "retryAfter", "answer"}
  BY DEF CallFields, NewCall

\* A step of one request that leaves the tokens alone.
LEMMA OneCall ==
    ASSUME AccessInv, NEW c \in Calls, NEW new,
           new = [f \in CallFields |-> new[f]],
           call' = [call EXCEPT ![c] = new],
           log' = [d \in Calls |-> log'[d]],
           \A d \in Calls \ {c} : log'[d] = log[d],
           UNCHANGED <<clock, tokens>>,
           (UntilTheGuard(c) /\ Stopped(c))'
    PROVE  AccessInv'
<1>1. call'[c] = new /\ \A d \in Calls \ {c} : call'[d] = call[d]
  BY DEF AccessInv, Shape
<1>2. Shape'
  BY <1>1 DEF AccessInv, Shape
<1>3. ASSUME NEW d \in Calls \ {c} PROVE (UntilTheGuard(d) /\ Stopped(d))'
  BY <1>1 DEF AccessInv, UntilTheGuard, Dead, Expired, Stopped, Unheard, NoVerdict
<1> QED
  BY <1>2, <1>3 DEF AccessInv

\* A request comes in, with the token it was sent with.
LEMMA ArriveStep == ASSUME AccessInv, NEW c \in Calls, NEW a \in Arrivals, Arrive(c, a) PROVE AccessInv'
<1> DEFINE new == [call[c] EXCEPT !.pc = "guard", !.route = a.route, !.presented = a.presented,
                     !.address = a.address,
                     !.dead = a.presented \in Tokens /\ Dead(a.presented)]
<1>1. call' = [call EXCEPT ![c] = new] /\ UNCHANGED <<clock, tokens, log>>
  BY DEF Arrive, limiterVars
<1>2. call[c] = [f \in CallFields |-> call[c][f]] /\ Unheard(c) /\ call'[c] = new
  BY <1>1 DEF AccessInv, Shape, UntilTheGuard, Arrive
<1>3. /\ new = [f \in CallFields |-> new[f]]
      /\ new.pc = "guard" /\ new.answer = call[c].answer /\ new.presented = a.presented
      /\ new.dead = (a.presented \in Tokens /\ Dead(a.presented))
  BY <1>2, Fields
<1>4. UntilTheGuard(c)'
  <2>1. call'[c].dead => a.presented \in Tokens /\ Dead(a.presented)
    BY <1>2, <1>3, Zenon
  <2>2. call'[c].presented = a.presented /\ call'[c].pc = "guard" /\ Unheard(c)'
    BY <1>1, <1>2, <1>3 DEF Unheard, NoVerdict
  <2> QED
    BY <1>1, <2>1, <2>2 DEF UntilTheGuard, Dead, Expired
<1>5. Stopped(c)'
  BY <1>1, <1>2, <1>3 DEF Stopped, Unheard, NoVerdict
<1> QED
  BY <1>1, <1>2, <1>3, <1>4, <1>5, OneCall DEF AccessInv, Shape

\* A request goes on as the same request: who sends what does not change.
LEMMA SameRequest ==
    ASSUME AccessInv, NEW c \in Calls, NEW new,
           new = [f \in CallFields |-> new[f]],
           call' = [call EXCEPT ![c] = new],
           new.route = call[c].route, new.presented = call[c].presented,
           new.dead = call[c].dead, new.pc \in {"script", "done"},
           log' = [d \in Calls |-> log'[d]],
           \A d \in Calls \ {c} : log'[d] = log[d],
           UNCHANGED <<clock, tokens>>,
           call[c].dead /\ ~Routes[call[c].route].public =>
             /\ new.pc # "script" /\ new.answer \in {"none", "401", "500"}
             /\ log'[c] = NoVerdict
    PROVE  AccessInv'
<1>1. call'[c] = new
  BY DEF AccessInv, Shape
<1>2. UntilTheGuard(c)'
  BY <1>1 DEF AccessInv, UntilTheGuard, Dead, Expired
<1>3. Stopped(c)'
  BY <1>1 DEF Stopped, NoVerdict
<1> QED
  BY <1>2, <1>3, OneCall

\* What has expired by the slowest clock has by every clock.
LEMMA ExpiredForAll ==
    ASSUME AccessInv, NEW t \in Tokens, Dead(t), NEW now \in InstanceTimes
    PROVE  ~TokenWorks(t, now)
<1>1. clock \in Int /\ Lag \in Nat /\ Lead \in Nat
  BY AccessAssumption DEF AccessInv
<1>2. now \in Int /\ clock - Lag <= now
  BY <1>1 DEF InstanceTimes
<1>3. CASE tokens[t] = "revoked"
  BY <1>3 DEF TokenWorks
<1>4. CASE Expired(t, clock - Lag)
  <2>1. ExpiresAt[t] \in Int
    BY <1>4, AccessAssumption DEF Expired
  <2> QED
    BY <1>1, <1>2, <1>4, <2>1 DEF Expired, TokenWorks
<1> QED
  BY <1>3, <1>4 DEF Dead

\* A token that is dead resolves to no context, so its request is answered 401,
\* or 500 when the lookup throws.
LEMMA AuthenticateStep == ASSUME AccessInv, NEW c \in Calls, Authenticate(c) PROVE AccessInv'
<1> DEFINE late == call[c].dead /\ ~Routes[call[c].route].public
           refusal(a) == [call[c] EXCEPT !.pc = "done", !.answer = a]
           served(x) == [call[c] EXCEPT !.pc = "done", !.answer = "handled", !.ctx = x]
           stamped(x, t) == [call[c] EXCEPT !.pc = "script", !.ctx = x, !.stamp = t]
<1>1. /\ call[c] = [f \in CallFields |-> call[c][f]] /\ log = [d \in Calls |-> log[d]]
      /\ Unheard(c) /\ UntilTheGuard(c) /\ call[c].pc = "guard"
      /\ UNCHANGED <<clock, tokens, log>>
  BY DEF AccessInv, Shape, UntilTheGuard, Authenticate, limiterVars
<1>2. ASSUME late, NEW now \in InstanceTimes PROVE ~Resolves(call[c].presented, now)
  <2>1. call[c].presented \in Tokens /\ Dead(call[c].presented)
    BY <1>1, <1>2 DEF UntilTheGuard
  <2>2. ~TokenWorks(call[c].presented, now)
    BY <1>2, <2>1, ExpiredForAll
  <2> QED
    BY <2>1, <2>2, AccessAssumption DEF Resolves
<1>3. ASSUME NEW a \in {"401", "403", "500"}, call' = [call EXCEPT ![c] = refusal(a)],
             late => a # "403"
      PROVE  AccessInv'
  <2> PICK new : new = refusal(a)
    OBVIOUS
  <2>1. /\ new = [f \in CallFields |-> new[f]] /\ new.pc = "done" /\ new.answer = a
        /\ new.route = call[c].route /\ new.presented = call[c].presented
        /\ new.dead = call[c].dead
    BY <1>1, Fields
  <2> QED
    BY <1>1, <1>3, <2>1, SameRequest DEF Unheard
<1>4. ASSUME NEW x, call' = [call EXCEPT ![c] = served(x)], ~late PROVE AccessInv'
  <2> PICK new : new = served(x)
    OBVIOUS
  <2>1. /\ new = [f \in CallFields |-> new[f]] /\ new.pc = "done"
        /\ new.route = call[c].route /\ new.presented = call[c].presented
        /\ new.dead = call[c].dead
    BY <1>1, Fields
  <2> QED
    BY <1>1, <1>4, <2>1, SameRequest
<1>5. ASSUME NEW x, NEW t, call' = [call EXCEPT ![c] = stamped(x, t)], ~late PROVE AccessInv'
  <2> PICK new : new = stamped(x, t)
    OBVIOUS
  <2>1. /\ new = [f \in CallFields |-> new[f]] /\ new.pc = "script"
        /\ new.route = call[c].route /\ new.presented = call[c].presented
        /\ new.dead = call[c].dead
    BY <1>1, Fields
  <2> QED
    BY <1>1, <1>5, <2>1, SameRequest
<1>6. ASSUME NEW x, Stamp(c, x), ~late PROVE AccessInv'
  BY <1>4, <1>5, <1>6 DEF Stamp
<1>7. ASSUME NEW now \in InstanceTimes, Guarded(c, now) PROVE AccessInv'
  BY <1>2, <1>3, <1>6, <1>7 DEF Guarded, Answered
<1> QED
  BY <1>3, <1>6, <1>7 DEF Authenticate, Answered

\* The script's verdict, or none, on a request the guard let pass.
LEMMA ScriptStep == ASSUME AccessInv, NEW c \in Calls, Script(c) \/ ScriptFails(c) PROVE AccessInv'
<1>1. /\ call[c] = [f \in CallFields |-> call[c][f]] /\ call[c].pc = "script"
      /\ ~(call[c].dead /\ ~Routes[call[c].route].public)
      /\ UNCHANGED <<clock, tokens>>
  BY DEF AccessInv, Shape, Stopped, Script, ScriptFails, limiterVars
<1>2. /\ log' = [d \in Calls |-> log'[d]] /\ \A d \in Calls \ {c} : log'[d] = log[d]
  BY DEF AccessInv, Shape, Script, ScriptFails, Verdicts, limiterVars
<1>3. PICK new : /\ new = [f \in CallFields |-> new[f]] /\ call' = [call EXCEPT ![c] = new]
                 /\ new.pc = "done"
                 /\ new.route = call[c].route /\ new.presented = call[c].presented
                 /\ new.dead = call[c].dead
  <2>1. ASSUME NEW heard, NEW wait,
               call' = [call EXCEPT ![c] = [@ EXCEPT !.pc = "done", !.answer = heard,
                                                     !.retryAfter = wait]]
        PROVE  \E new : /\ new = [f \in CallFields |-> new[f]]
                        /\ call' = [call EXCEPT ![c] = new] /\ new.pc = "done"
                        /\ new.route = call[c].route /\ new.presented = call[c].presented
                        /\ new.dead = call[c].dead
    <3> DEFINE new == [call[c] EXCEPT !.pc = "done", !.answer = heard, !.retryAfter = wait]
    <3>1. /\ new = [f \in CallFields |-> new[f]] /\ new.pc = "done"
          /\ new.route = call[c].route /\ new.presented = call[c].presented
          /\ new.dead = call[c].dead
      BY <1>1, Fields
    <3> QED
      BY <2>1, <3>1
  <2>2. CASE Script(c)
    BY <2>1, <2>2 DEF Script, Answers
  <2>3. CASE ScriptFails(c)
    <3> DEFINE new == [call[c] EXCEPT !.pc = "done", !.answer = "500"]
    <3>1. /\ new = [f \in CallFields |-> new[f]] /\ new.pc = "done"
          /\ new.route = call[c].route /\ new.presented = call[c].presented
          /\ new.dead = call[c].dead
      BY <1>1, Fields
    <3> QED
      BY <2>3, <3>1 DEF ScriptFails, Answered
  <2> QED
    BY <2>2, <2>3
<1> QED
  BY <1>1, <1>2, <1>3, SameRequest

\* AccessInv is inductive: a dead token stays dead.
LEMMA AccessStep == AccessInv /\ [AccessNext]_accessVars => AccessInv'
<1> SUFFICES ASSUME AccessInv, [AccessNext]_accessVars
             PROVE AccessInv'
  OBVIOUS
<1>0. clock \in Int /\ Lag \in Nat
  BY AccessAssumption DEF AccessInv
<1>1. ASSUME UNCHANGED <<call, log>>, clock' \in Nat,
             \A t \in Tokens : Dead(t) => Dead(t)'
      PROVE  AccessInv'
  <2>1. ASSUME NEW c \in Calls PROVE (UntilTheGuard(c) /\ Stopped(c))'
    <3>1. UntilTheGuard(c) /\ Stopped(c)
      BY DEF AccessInv
    <3>2. UntilTheGuard(c)'
      <4>1. call[c].dead => call[c].presented \in Tokens /\ Dead(call[c].presented)'
        BY <1>1, <3>1 DEF UntilTheGuard
      <4> QED
        BY <1>1, <3>1, <4>1 DEF UntilTheGuard, Unheard, NoVerdict, Dead, Expired
    <3> QED
      BY <1>1, <3>1, <3>2 DEF Stopped, NoVerdict
  <2> QED
    BY <1>1, <2>1 DEF AccessInv, Shape
<1>2. ASSUME NEW t \in Tokens, Revoke(t) PROVE AccessInv'
  <2>1. /\ UNCHANGED <<clock, call, log>> /\ tokens' = [tokens EXCEPT ![t] = "revoked"]
        /\ tokens[t] = "live"
    BY <1>2 DEF Revoke, limiterVars
  <2>2. \A u \in Tokens : Dead(u) => Dead(u)'
    BY <2>1 DEF Dead, Expired
  <2> QED
    BY <1>1, <2>1, <2>2 DEF AccessInv
<1>3. CASE Tick
  <2>1. clock' = clock + 1 /\ UNCHANGED <<call, log, tokens>>
    BY <1>3 DEF Tick, limiterVars
  <2>2. ASSUME NEW t \in Tokens, Expired(t, clock - Lag) PROVE Expired(t, clock - Lag)'
    <3>1. ExpiresAt[t] \in Int
      BY <2>2, AccessAssumption DEF Expired
    <3> QED
      BY <1>0, <2>1, <2>2, <3>1 DEF Expired
  <2>3. \A t \in Tokens : Dead(t) => Dead(t)'
    BY <2>1, <2>2 DEF Dead, Expired
  <2> QED
    BY <1>1, <2>1, <2>3 DEF AccessInv
<1>4. CASE UNCHANGED accessVars
  <2>1. UNCHANGED <<clock, call, log, tokens>>
    BY <1>4 DEF accessVars
  <2>2. \A t \in Tokens : Dead(t) => Dead(t)'
    BY <2>1 DEF Dead, Expired
  <2> QED
    BY <1>1, <2>1, <2>2 DEF AccessInv
<1> QED
  BY <1>2, <1>3, <1>4, ArriveStep, AuthenticateStep, ScriptStep DEF AccessNext, CallStep

\* A token that was revoked when its request came in, or had expired by the
\* slowest clock of the instances, reaches no handler and spends nobody's budget
\* (app.module.ts: AuthGuard before RateLimitGuard; tokens.service.ts,
\* authenticate).
THEOREM DeadTokensStop == AccessSpec => []DeadTokenDoesNothing
<1>1. AccessInit => AccessInv
  <2> SUFFICES ASSUME AccessInit PROVE AccessInv
    OBVIOUS
  <2>1. /\ call = [c \in Calls |-> NewCall] /\ log = [c \in Calls |-> NoVerdict]
        /\ NewCall = [f \in CallFields |-> NewCall[f]]
        /\ NewCall.pc = "idle" /\ NewCall.answer = "none" /\ NewCall.dead = FALSE
        /\ clock = 0
    BY Fields DEF AccessInit, NewCall
  <2> QED
    BY <2>1 DEF AccessInv, Shape, UntilTheGuard, Stopped, Unheard
<1>2. AccessInv /\ [AccessNext]_accessVars => AccessInv'
  BY AccessStep
<1>3. AccessInv => DeadTokenDoesNothing
  BY DEF AccessInv, Stopped, DeadTokenDoesNothing
<1> QED
  BY <1>1, <1>2, <1>3, PTL DEF AccessSpec

-----------------------------------------------------------------------------
(* ApiAccess: the limiter.                                                 *)

\* Rounding up: math.ceil(n / m) * m is at least n.
LEMMA CeilingBounds ==
    ASSUME NEW n \in Int, NEW m \in Nat \ {0}
    PROVE  /\ (n + m - 1) \div m \in Int
           /\ m * ((n + m - 1) \div m) >= n
  OBVIOUS

\* A set of naturals that is not empty has a least element.
LEMMA LeastNatural ==
    ASSUME NEW N \in SUBSET Nat, N # {}
    PROVE  \E n \in N : \A m \in N : n <= m
<1> DEFINE R == {ss \in Nat \X Nat : ss[1] < ss[2]}
<1>1. IsWellFoundedOn(R, Nat)
  BY NatLessThanWellFounded DEF OpToRel
<1> HIDE DEF R
<1>2. PICK n \in N : \A m \in N : <<m, n>> \notin R
  BY <1>1, WFMin
<1>3. ASSUME NEW m \in N PROVE n <= m
  <2>1. <<m, n>> \notin R /\ m \in Nat /\ n \in Nat
    BY <1>2
  <2>2. <<m, n>> \in R <=> m < n
    BY <2>1 DEF R
  <2> QED
    BY <2>1, <2>2
<1> QED
  BY <1>3

\* ZRANGE 0 0 returns a score that no other entry undercuts.
LEMMA OldestIsLeast ==
    ASSUME NEW S, NEW now \in Int, S # {},
           \A d \in S : call[d].stamp \in Int /\ call[d].stamp >= -Lag
    PROVE  \E d \in S : /\ Oldest(S, now) = call[d].stamp
                        /\ \A e \in S : call[d].stamp <= call[e].stamp
<1> DEFINE T == {call[d].stamp : d \in S}
           N == {s + Lag : s \in T}
<1>0. Lag \in Nat
  BY AccessAssumption
<1>1. N \in SUBSET Nat /\ N # {}
  <2>1. \A s \in T : s + Lag \in Nat
    BY <1>0
  <2> QED BY <2>1
<1>2. PICK n \in N : \A m \in N : n <= m
  BY <1>1, LeastNatural
<1>3. PICK e \in S : n = call[e].stamp + Lag
  OBVIOUS
<1>4. ASSUME NEW d \in S PROVE call[e].stamp <= call[d].stamp
  <2>1. call[d].stamp + Lag \in N
    OBVIOUS
  <2>2. n <= call[d].stamp + Lag
    BY <1>2, <2>1
  <2> HIDE DEF T, N
  <2> QED
    BY <1>0, <1>3, <2>2
<1>5. call[e].stamp \in T
  OBVIOUS
<1>6. \E s \in T : \A d \in S : s <= call[d].stamp
  BY <1>4, <1>5
<1>7. Oldest(S, now) \in T /\ \A d \in S : Oldest(S, now) <= call[d].stamp
  BY <1>6 DEF Oldest
<1> QED
  BY <1>7

\* What the assumptions say of the numbers.
LEMMA Numbers ==
    /\ Lag \in Nat /\ Lead \in Nat /\ Slack = Lag + Lead /\ Slack \in Nat
    /\ Window \in Nat /\ Second \in Nat \ {0}
    /\ \A k \in Keys : LimitOf[k] \in Nat \ {0}
  BY AccessAssumption DEF Slack, LimitOf

\* Every route bills the plain bucket or the one of the refresh route.
LEMMA RouteFields ==
    \A r \in DOMAIN Routes : Routes[r].bucket \in {"", "refresh"}
<1>1. DOMAIN Routes = {"login", "refresh", "health", "me", "render", "list", "remove"}
  BY DEF Routes
<1>2. /\ Routes["login"].bucket = "" /\ Routes["refresh"].bucket = "refresh"
      /\ Routes["health"].bucket = "" /\ Routes["me"].bucket = ""
      /\ Routes["render"].bucket = "" /\ Routes["list"].bucket = ""
      /\ Routes["remove"].bucket = ""
  BY DEF Routes
<1> QED
  BY <1>1, <1>2

\* RateLimitGuard.identify always finds a key.
LEMMA KeyIsKey ==
    ASSUME AccessTypeOK, NEW c \in Calls, call[c].pc = "script", Underway(c)
    PROVE  KeyOf(c) \in Keys
<1>1. /\ call[c].ctx \in Tokens \cup Users \cup {Nothing}
      /\ call[c].address \in Addresses /\ call[c].route \in DOMAIN Routes
  BY DEF AccessTypeOK, Call, Underway
<1>2. Routes[call[c].route].bucket \in {"", "refresh"}
  BY <1>1, RouteFields
<1>3. (IF call[c].ctx # Nothing THEN call[c].ctx ELSE call[c].address) \in Subjects
  BY <1>1 DEF Subjects
<1> QED
  BY <1>2, <1>3 DEF KeyOf, Keys

\* The types of what the script reads.
LEMMA LimiterTypes ==
    ASSUME LimiterInv
    PROVE  /\ clock \in Nat
           /\ \A d \in Calls : log[d].at \in Nat /\ call[d].stamp \in Int
           /\ \A d \in Calls : call[d].retryAfter \in Nat
           /\ \A k \in Keys : members[k] \subseteq Calls /\ expireAt[k] \in Nat
           /\ \A d \in Calls : log[d].answer # "none" =>
                /\ log[d].at <= clock
                /\ log[d].at - Lag <= call[d].stamp /\ call[d].stamp <= log[d].at + Lead
<1>1. \A d \in Calls : log[d] \in Verdict /\ call[d] \in Call /\ Judged(d)
  BY DEF LimiterInv, AccessTypeOK
<1>2. \A d \in Calls : log[d].at \in Nat /\ call[d].stamp \in Int /\ call[d].retryAfter \in Nat
  BY <1>1 DEF Verdict, Call
<1>3. ASSUME NEW d \in Calls, log[d].answer # "none"
      PROVE  /\ log[d].at <= clock
             /\ log[d].at - Lag <= call[d].stamp /\ call[d].stamp <= log[d].at + Lead
  BY <1>1, <1>2, <1>3, Numbers DEF Judged
<1> QED
  BY <1>2, <1>3 DEF LimiterInv, AccessTypeOK

\* What the script keeps is what may count: nothing that counts for sure is
\* pruned or expired, and nothing that cannot count is left.
LEMMA KeptCounts ==
    ASSUME LimiterInv, NEW c \in Calls, call[c].pc = "script",
           NEW k \in Keys, NEW S, S = Kept(k, call[c].stamp)
    PROVE  /\ S \subseteq members[k] /\ c \notin S
           /\ IsFiniteSet(S) /\ Cardinality(S) \in Nat
           /\ \A d \in S : call[d].stamp > call[c].stamp - Window
           /\ \A d \in Calls :
                ServedOn(d, k) /\ clock - log[d].at < Window - Slack => d \in S
           /\ \A d \in S : ServedOn(d, k) /\ clock - log[d].at < Window + Slack
<1>1. /\ SetInv(k) /\ Underway(c)
      /\ call[c].stamp \in Int /\ clock - Lag <= call[c].stamp
      /\ call[c].stamp <= clock + Lead
  BY LimiterTypes, Numbers DEF LimiterInv, Underway
<1>2. S \subseteq members[k] /\ \A d \in S : call[d].stamp > call[c].stamp - Window
  BY DEF Kept, InSet
<1>3. IsFiniteSet(Calls) /\ S \in SUBSET Calls
  BY <1>2, LimiterTypes, AccessAssumption
<1>4. IsFiniteSet(S) /\ Cardinality(S) \in Nat
  BY <1>3, FS_Subset, FS_CardinalityType
<1>5. c \notin S
  BY <1>1, <1>2 DEF SetInv, ServedOn, Underway, Unheard, NoVerdict
<1>6. ASSUME NEW d \in Calls, ServedOn(d, k), clock - log[d].at < Window - Slack
      PROVE  d \in S
  <2>1. d \in members[k] /\ log[d].at + Window <= expireAt[k]
    BY <1>1, <1>6 DEF SetInv
  <2>2. /\ log[d].at <= clock /\ log[d].at - Lag <= call[d].stamp
        /\ log[d].at \in Nat /\ call[d].stamp \in Int /\ clock \in Nat /\ expireAt[k] \in Nat
    BY <1>6, LimiterTypes DEF ServedOn
  <2>3. clock < expireAt[k]
    BY <1>6, <2>1, <2>2, Numbers
  <2>4. call[d].stamp > call[c].stamp - Window
    BY <1>1, <1>6, <2>2, Numbers
  <2>5. ~(clock >= expireAt[k])
    BY <2>2, <2>3
  <2> QED
    BY <2>1, <2>4, <2>5 DEF Kept, InSet
<1>7. ASSUME NEW d \in S PROVE ServedOn(d, k) /\ clock - log[d].at < Window + Slack
  <2>1. ServedOn(d, k) /\ d \in Calls
    BY <1>1, <1>2, <1>3 DEF SetInv
  <2>2. /\ call[d].stamp <= log[d].at + Lead
        /\ log[d].at \in Nat /\ call[d].stamp \in Int /\ clock \in Nat
    BY <2>1, LimiterTypes DEF ServedOn
  <2> QED
    BY <1>1, <1>2, <2>1, <2>2, Numbers
<1> QED
  BY <1>2, <1>4, <1>5, <1>6, <1>7

\* A request that the limiter has not judged goes on.
LEMMA UnjudgedStep ==
    ASSUME LimiterInv, NEW c \in Calls, log[c].answer = "none", NEW new \in Call,
           call' = [call EXCEPT ![c] = new],
           UNCHANGED <<clock, tokens, members, expireAt, log>>,
           new.route \in DOMAIN Routes, new.address \in Addresses, new.stamp >= -Lag,
           new.pc \in {"guard", "script"} => new.answer = "none",
           new.pc # "idle", new.answer # "429",
           new.pc = "script" => new.stamp \in (clock - Lag)..(clock + Lead)
    PROVE  LimiterInv'
<1>1. /\ call'[c] = new /\ \A d \in Calls \ {c} : call'[d] = call[d]
      /\ Judged(c)
  BY DEF LimiterInv, AccessTypeOK
<1>2. AccessTypeOK'
  BY <1>1 DEF LimiterInv, AccessTypeOK
<1>3. ASSUME NEW d \in Calls PROVE (Underway(d) /\ Judged(d))'
  <2>1. CASE d = c
    <3>1. Underway(c)'
      BY <1>1 DEF Underway, Unheard, NoVerdict, Judged, Call
    <3>2. Judged(c)'
      BY <1>1 DEF Judged, NoVerdict
    <3> QED
      BY <2>1, <3>1, <3>2
  <2>2. CASE d # c
    BY <1>1, <2>2 DEF LimiterInv, Underway, Unheard, NoVerdict, Judged
  <2> QED
    BY <2>1, <2>2
<1>4. \A k \in Keys : SetInv(k)'
  BY DEF LimiterInv, SetInv, ServedOn
<1> QED
  BY <1>2, <1>3, <1>4 DEF LimiterInv

\* What a request's next record may be, and what it keeps.
Onward(c, new) ==
    /\ new \in Call /\ call' = [call EXCEPT ![c] = new]
    /\ new.route = call[c].route /\ new.address = call[c].address

\* The record of a request after RateLimitGuard took its stamp.
LEMMA StampedRecord ==
    ASSUME LimiterInv, NEW c \in Calls, NEW ctx \in Tokens \cup Users \cup {Nothing},
           call[c].pc = "guard", Stamp(c, ctx)
    PROVE  \E new : /\ Onward(c, new)
                    /\ \/ /\ new.pc = "done" /\ new.answer = "handled"
                          /\ new.stamp = call[c].stamp
                       \/ /\ new.pc = "script" /\ new.answer = call[c].answer
                          /\ new.stamp \in (clock - Lag)..(clock + Lead)
<1>1. call[c] \in Call
  BY DEF LimiterInv, AccessTypeOK
<1>2. CASE call' = [call EXCEPT ![c] = [@ EXCEPT !.pc = "done", !.answer = "handled",
                                                 !.ctx = ctx]]
  <2> DEFINE new == [call[c] EXCEPT !.pc = "done", !.answer = "handled", !.ctx = ctx]
  <2>1. /\ new \in Call /\ new.pc = "done" /\ new.answer = "handled"
        /\ new.stamp = call[c].stamp
        /\ new.route = call[c].route /\ new.address = call[c].address
    BY <1>1 DEF Call
  <2>2. call' = [call EXCEPT ![c] = new]
    BY <1>2
  <2> HIDE DEF new
  <2> QED
    BY <2>1, <2>2 DEF Onward
<1>3. ASSUME NEW stamp \in (clock - Lag)..(clock + Lead),
             call' = [call EXCEPT ![c] = [@ EXCEPT !.pc = "script", !.ctx = ctx,
                                                   !.stamp = stamp]]
      PROVE  \E new : /\ Onward(c, new) /\ new.pc = "script"
                      /\ new.answer = call[c].answer /\ new.stamp = stamp
  <2> DEFINE new == [call[c] EXCEPT !.pc = "script", !.ctx = ctx, !.stamp = stamp]
  <2>0. stamp \in Int
    BY LimiterTypes, Numbers
  <2>1. /\ new \in Call /\ new.pc = "script" /\ new.answer = call[c].answer
        /\ new.stamp = stamp
        /\ new.route = call[c].route /\ new.address = call[c].address
    BY <1>1, <2>0 DEF Call
  <2>2. call' = [call EXCEPT ![c] = new]
    BY <1>3
  <2> HIDE DEF new
  <2> QED
    BY <2>1, <2>2 DEF Onward
<1>4. CASE \E stamp \in (clock - Lag)..(clock + Lead) :
             call' = [call EXCEPT ![c] = [@ EXCEPT !.pc = "script", !.ctx = ctx,
                                                   !.stamp = stamp]]
  <2> PICK stamp \in (clock - Lag)..(clock + Lead) :
             call' = [call EXCEPT ![c] = [@ EXCEPT !.pc = "script", !.ctx = ctx,
                                                   !.stamp = stamp]]
    BY <1>4
  <2> PICK new : /\ Onward(c, new) /\ new.pc = "script"
                 /\ new.answer = call[c].answer /\ new.stamp = stamp
    BY <1>3, Zenon
  <2> QED
    OBVIOUS
<1> QED
  BY <1>2, <1>4 DEF Stamp, InstanceTimes

\* The record of a request after AuthGuard.
LEMMA AdmissionStep ==
    ASSUME LimiterInv, NEW c \in Calls, Authenticate(c)
    PROVE  \E new : /\ Onward(c, new) /\ new.pc # "idle" /\ new.pc # "guard"
                    /\ new.answer # "429"
                    /\ new.pc = "script" => new.answer = "none"
                    /\ new.pc = "script" => new.stamp \in (clock - Lag)..(clock + Lead)
                    /\ new.pc = "done" => new.stamp = call[c].stamp
<1>1. /\ call[c] \in Call /\ call[c].pc = "guard" /\ Unheard(c)
      /\ call[c].presented \in Credentials
  BY DEF LimiterInv, AccessTypeOK, Underway, Authenticate, Call
<1>2. ASSUME NEW a \in {"401", "403", "500"},
             call' = [call EXCEPT ![c] = [@ EXCEPT !.pc = "done", !.answer = a]]
      PROVE  \E new : /\ Onward(c, new) /\ new.pc = "done" /\ new.answer = a
                      /\ new.stamp = call[c].stamp
  <2> DEFINE new == [call[c] EXCEPT !.pc = "done", !.answer = a]
  <2>1. /\ new \in Call /\ new.pc = "done" /\ new.answer = a /\ new.stamp = call[c].stamp
        /\ new.route = call[c].route /\ new.address = call[c].address
    BY <1>1 DEF Call
  <2>2. call' = [call EXCEPT ![c] = new]
    BY <1>2
  <2> HIDE DEF new
  <2> QED
    BY <2>1, <2>2 DEF Onward
<1>3. ASSUME NEW ctx \in Tokens \cup Users \cup {Nothing}, Stamp(c, ctx)
      PROVE  \E new : /\ Onward(c, new)
                      /\ \/ /\ new.pc = "done" /\ new.answer = "handled"
                            /\ new.stamp = call[c].stamp
                         \/ /\ new.pc = "script" /\ new.answer = "none"
                            /\ new.stamp \in (clock - Lag)..(clock + Lead)
  BY <1>1, <1>3, StampedRecord DEF Unheard
<1>4. ASSUME NEW now, Resolves(call[c].presented, now)
      PROVE  call[c].presented \in Tokens \cup Users
  BY <1>4 DEF Resolves
<1>5. \/ \E a \in {"401", "403", "500"} :
           call' = [call EXCEPT ![c] = [@ EXCEPT !.pc = "done", !.answer = a]]
      \/ \E ctx \in Tokens \cup Users \cup {Nothing} : Stamp(c, ctx)
  BY <1>4 DEF Authenticate, Guarded, Answered
<1>6. CASE \E a \in {"401", "403", "500"} :
             call' = [call EXCEPT ![c] = [@ EXCEPT !.pc = "done", !.answer = a]]
  BY <1>2, <1>6
<1>7. CASE \E ctx \in Tokens \cup Users \cup {Nothing} : Stamp(c, ctx)
  BY <1>3, <1>7
<1> QED
  BY <1>5, <1>6, <1>7

\* Signs of products, which the provers need one at a time.
LEMMA Products ==
    ASSUME NEW s \in Int, NEW m \in Nat \ {0}
    PROVE  /\ m * s \in Int
           /\ s < 1 => m * s <= 0
           /\ s >= 1 => m * s >= 1
  OBVIOUS

\* Retry-After is a positive number of ticks and reaches to the time when the
\* oldest entry leaves the window.
LEMMA RetryReaches ==
    ASSUME NEW S, NEW now \in Int, S # {},
           \A d \in S : call[d].stamp \in Int /\ call[d].stamp >= -Lag
    PROVE  /\ RetryAfter(S, now) \in Nat /\ RetryAfter(S, now) >= 1
           /\ \E d \in S : now + RetryAfter(S, now) >= call[d].stamp + Window
<1>1. PICK d \in S : Oldest(S, now) = call[d].stamp
  BY OldestIsLeast
<1> DEFINE n == call[d].stamp + Window - now
           seconds == InSeconds(n)
<1>2. n \in Int /\ call[d].stamp \in Int /\ Window \in Nat /\ Second \in Nat \ {0}
  BY Numbers
<1>3. RetryAfter(S, now) = Second * (IF seconds < 1 THEN 1 ELSE seconds)
  BY <1>1 DEF RetryAfter
<1> HIDE DEF n
<1>4. seconds \in Int /\ Second * seconds >= n
  BY <1>2, CeilingBounds DEF InSeconds
<1> HIDE DEF seconds
<1>5. /\ Second * seconds \in Int /\ Second * 1 = Second
      /\ seconds < 1 => Second * seconds <= 0
      /\ seconds >= 1 => Second * seconds >= 1
  BY <1>2, <1>4, Products
<1>6. CASE seconds < 1
  <2>1. RetryAfter(S, now) = Second
    BY <1>3, <1>5, <1>6
  <2> QED
    BY <1>2, <1>4, <1>5, <1>6, <2>1 DEF n
<1>7. CASE ~(seconds < 1)
  <2>1. RetryAfter(S, now) = Second * seconds /\ Second * seconds >= 1
    BY <1>3, <1>4, <1>5, <1>7
  <2>2. PICK r \in Int : r = Second * seconds /\ r >= n /\ r >= 1
    BY <1>4, <1>5, <2>1
  <2>3. now + r >= call[d].stamp + Window
    BY <1>2, <2>2 DEF n
  <2> QED
    BY <2>1, <2>2, <2>3
<1> QED
  BY <1>6, <1>7

\* The verdict on the record of the request.
LEMMA AnsweredRecord ==
    ASSUME LimiterInv, NEW c \in Calls, NEW answer \in {"handled", "429"}, NEW wait \in Nat,
           Answers(c, answer, wait)
    PROVE  \E new : /\ Onward(c, new) /\ new.pc = "done" /\ new.answer \in {answer, "500"}
                    /\ new.stamp = call[c].stamp /\ new.retryAfter = wait
<1>1. call[c] \in Call
  BY DEF LimiterInv, AccessTypeOK
<1>2. PICK heard \in {answer, "500"} :
        call' = [call EXCEPT ![c] = [@ EXCEPT !.pc = "done", !.answer = heard,
                                              !.retryAfter = wait]]
  BY DEF Answers
<1> DEFINE new == [call[c] EXCEPT !.pc = "done", !.answer = heard, !.retryAfter = wait]
<1>3. /\ new \in Call /\ new.pc = "done" /\ new.answer = heard
      /\ new.stamp = call[c].stamp /\ new.retryAfter = wait
      /\ new.route = call[c].route /\ new.address = call[c].address
  BY <1>1 DEF Call
<1>4. call' = [call EXCEPT ![c] = new]
  BY <1>2
<1> HIDE DEF new
<1> QED
  BY <1>3, <1>4 DEF Onward

\* What the script does, in terms of the entries it keeps.
ScriptDoes(c, k, S, verdict, new) ==
    /\ k \in Keys /\ S = Kept(k, call[c].stamp) /\ Onward(c, new)
    /\ new.pc = "done" /\ new.stamp = call[c].stamp
    /\ UNCHANGED <<clock, tokens>>
    /\ log' = [log EXCEPT ![c] = [key |-> k, at |-> clock, answer |-> verdict]]
    /\ \/ /\ verdict = "admitted" /\ new.answer # "429"
          /\ Cardinality(S) < LimitOf[k]
          /\ members' = [members EXCEPT ![k] = S \cup {c}]
          /\ expireAt' = [expireAt EXCEPT ![k] = clock + Window]
       \/ /\ verdict = "refused" /\ new.retryAfter >= 1
          /\ Cardinality(S) >= LimitOf[k]
          /\ members' = [members EXCEPT ![k] = S]
          /\ UNCHANGED expireAt
          /\ \E d \in S : call[c].stamp + new.retryAfter >= call[d].stamp + Window

\* Both branches of the script, for one set of kept entries.
LEMMA ScriptCases ==
    ASSUME LimiterInv, NEW c \in Calls, Script(c)
    PROVE  \E k, S, verdict, new : ScriptDoes(c, k, S, verdict, new)
<1> DEFINE k == KeyOf(c)
           S == Kept(k, call[c].stamp)
<1>1. k \in Keys /\ call[c].pc = "script" /\ call[c].stamp \in Int
  BY KeyIsKey, LimiterTypes DEF LimiterInv, Script
<1>2. UNCHANGED <<clock, tokens>>
  BY DEF Script
<1>3. ASSUME Cardinality(S) < LimitOf[k], members' = [members EXCEPT ![k] = S \cup {c}],
             expireAt' = [expireAt EXCEPT ![k] = ExpiryAfterAdd(k)],
             Verdicts(c, k, "admitted"), Answers(c, "handled", 0)
      PROVE  \E new : ScriptDoes(c, k, S, "admitted", new)
  <2>1. PICK new : /\ Onward(c, new) /\ new.pc = "done" /\ new.answer \in {"handled", "500"}
                   /\ new.stamp = call[c].stamp
    BY <1>3, AnsweredRecord
  <2> QED
    BY <1>1, <1>2, <1>3, <2>1 DEF ScriptDoes, Verdicts, ExpiryAfterAdd
<1>4. ASSUME Cardinality(S) >= LimitOf[k], members' = [members EXCEPT ![k] = S],
             Verdicts(c, k, "refused"), Answers(c, "429", RetryAfter(S, call[c].stamp)),
             UNCHANGED expireAt
      PROVE  \E new : ScriptDoes(c, k, S, "refused", new)
  <2>1. S # {} /\ \A d \in S : call[d].stamp \in Int /\ call[d].stamp >= -Lag
    <3>1. S \subseteq Calls
      BY <1>1, KeptCounts, LimiterTypes
    <3>2. \A d \in S : call[d].stamp \in Int /\ call[d].stamp >= -Lag
      BY <3>1, LimiterTypes DEF LimiterInv, Underway
    <3>3. Cardinality({}) = 0
      BY FS_EmptySet
    <3>4. S # {}
      BY <1>1, <1>4, <3>3, Numbers
    <3> QED
      BY <3>2, <3>4
  <2> HIDE DEF S
  <2>2. PICK r \in Nat : /\ r = RetryAfter(S, call[c].stamp) /\ r >= 1
                         /\ \E d \in S : call[c].stamp + r >= call[d].stamp + Window
    BY <1>1, <2>1, RetryReaches
  <2>3. PICK new : /\ Onward(c, new) /\ new.pc = "done"
                   /\ new.stamp = call[c].stamp /\ new.retryAfter = r
    BY <1>4, <2>2, AnsweredRecord
  <2> QED
    BY <1>1, <1>2, <1>4, <2>2, <2>3 DEF ScriptDoes, Verdicts, S
<1>5. CASE /\ Cardinality(S) < LimitOf[k] /\ members' = [members EXCEPT ![k] = S \cup {c}]
           /\ expireAt' = [expireAt EXCEPT ![k] = ExpiryAfterAdd(k)]
           /\ Verdicts(c, k, "admitted") /\ Answers(c, "handled", 0)
  BY <1>3, <1>5
<1>6. CASE /\ Cardinality(S) >= LimitOf[k] /\ members' = [members EXCEPT ![k] = S]
           /\ Verdicts(c, k, "refused") /\ Answers(c, "429", RetryAfter(S, call[c].stamp))
           /\ UNCHANGED expireAt
  BY <1>4, <1>6
<1> QED
  BY <1>5, <1>6 DEF Script

\* What every verdict leaves of the log and of the requests.
ScriptLeaves(c, k, S, verdict, new) ==
    /\ log[c] = NoVerdict /\ log[c].answer = "none" /\ verdict \in {"admitted", "refused"}
    /\ call'[c] = new /\ \A d \in Calls \ {c} : call'[d] = call[d]
    /\ log'[c] = [key |-> k, at |-> clock, answer |-> verdict]
    /\ \A d \in Calls \ {c} : log'[d] = log[d]
    /\ \A d \in Calls : call'[d].stamp = call[d].stamp
    /\ \A j \in Keys \ {k} : members'[j] = members[j] /\ expireAt'[j] = expireAt[j]
    /\ members'[k] = IF verdict = "admitted" THEN S \cup {c} ELSE S
    /\ expireAt'[k] = IF verdict = "admitted" THEN clock + Window ELSE expireAt[k]

\* The script has that effect.
LEMMA VerdictEffect ==
    ASSUME LimiterInv, NEW c \in Calls, call[c].pc = "script",
           NEW k, NEW S, NEW verdict, NEW new, ScriptDoes(c, k, S, verdict, new)
    PROVE  ScriptLeaves(c, k, S, verdict, new)
<1>1. /\ Underway(c) /\ AccessTypeOK /\ k \in Keys
  BY DEF LimiterInv, ScriptDoes
<1>2. log[c] = NoVerdict /\ log[c].answer = "none"
  BY <1>1 DEF Underway, Unheard, NoVerdict
<1>3. /\ call' = [call EXCEPT ![c] = new] /\ new.stamp = call[c].stamp
      /\ call'[c] = new /\ \A d \in Calls \ {c} : call'[d] = call[d]
  BY <1>1 DEF ScriptDoes, Onward, AccessTypeOK
<1>4. /\ log'[c] = [key |-> k, at |-> clock, answer |-> verdict]
      /\ \A d \in Calls \ {c} : log'[d] = log[d]
  BY <1>1 DEF ScriptDoes, AccessTypeOK
<1>5. \A d \in Calls : call'[d].stamp = call[d].stamp
  BY <1>3
<1>6. /\ verdict \in {"admitted", "refused"}
      /\ \A j \in Keys \ {k} : members'[j] = members[j] /\ expireAt'[j] = expireAt[j]
      /\ members'[k] = IF verdict = "admitted" THEN S \cup {c} ELSE S
      /\ expireAt'[k] = IF verdict = "admitted" THEN clock + Window ELSE expireAt[k]
  BY <1>1 DEF ScriptDoes, AccessTypeOK
<1> QED
  BY <1>2, <1>3, <1>4, <1>5, <1>6 DEF ScriptLeaves

\* The script preserves the invariant.
LEMMA VerdictStep ==
    ASSUME LimiterInv, NEW c \in Calls, call[c].pc = "script",
           NEW k, NEW S, NEW verdict, NEW new, ScriptDoes(c, k, S, verdict, new)
    PROVE  LimiterInv'
<1>a. ScriptLeaves(c, k, S, verdict, new)
  BY VerdictEffect
<1>0. /\ log[c] = NoVerdict /\ log[c].answer = "none" /\ verdict \in {"admitted", "refused"}
      /\ call'[c] = new /\ \A d \in Calls \ {c} : call'[d] = call[d]
      /\ log'[c] = [key |-> k, at |-> clock, answer |-> verdict]
      /\ \A d \in Calls \ {c} : log'[d] = log[d]
      /\ \A j \in Keys \ {k} : members'[j] = members[j] /\ expireAt'[j] = expireAt[j]
      /\ members'[k] = IF verdict = "admitted" THEN S \cup {c} ELSE S
      /\ expireAt'[k] = IF verdict = "admitted" THEN clock + Window ELSE expireAt[k]
  BY <1>a DEF ScriptLeaves
<1>1. /\ AccessTypeOK /\ k \in Keys /\ Underway(c) /\ S = Kept(k, call[c].stamp)
      /\ UNCHANGED <<clock, tokens>> /\ Onward(c, new)
      /\ new.pc = "done" /\ new.stamp = call[c].stamp
  BY DEF LimiterInv, ScriptDoes
<1>2. /\ S \subseteq members[k] /\ c \notin S /\ members[k] \subseteq Calls
      /\ IsFiniteSet(S) /\ Cardinality(S) \in Nat
      /\ \A d \in Calls : ServedOn(d, k) /\ clock - log[d].at < Window - Slack => d \in S
      /\ clock \in Nat /\ clock + Window \in Nat
  BY <1>1, KeptCounts, LimiterTypes, Numbers
<1>3. AccessTypeOK'
  <2>1. call' \in [Calls -> Call]
    BY <1>1 DEF AccessTypeOK, Onward
  <2>2. log' \in [Calls -> Verdict]
    <3>1. [key |-> k, at |-> clock, answer |-> verdict] \in Verdict
      BY <1>1, <1>2, <1>0 DEF Verdict
    <3> QED
      BY <1>1, <3>1 DEF AccessTypeOK, ScriptDoes
  <2>3. members' \in [Keys -> SUBSET Calls]
    BY <1>1, <1>2 DEF AccessTypeOK, ScriptDoes
  <2>4. expireAt' \in [Keys -> Nat]
    BY <1>1, <1>2 DEF AccessTypeOK, ScriptDoes
  <2> QED
    BY <1>1, <2>1, <2>2, <2>3, <2>4 DEF AccessTypeOK
<1>4. ASSUME NEW d \in Calls PROVE (Underway(d) /\ Judged(d))'
  <2>1. CASE d = c
    <3>1. /\ new.route \in DOMAIN Routes /\ new.address \in Addresses
          /\ call[c].stamp >= -Lag /\ call[c].stamp \in (clock - Lag)..(clock + Lead)
      BY <1>1 DEF Underway, Onward
    <3>2. Underway(c)'
      BY <1>1, <3>1, <1>0 DEF Underway
    <3>3. /\ log'[c].key = k /\ log'[c].at = clock /\ log'[c].answer = verdict
          /\ verdict # "none"
      BY <1>0
    <3>4. new.answer = "429" => verdict = "refused" /\ new.retryAfter >= 1
      BY DEF ScriptDoes
    <3>5. Judged(c)'
      BY <1>1, <1>2, <3>1, <3>3, <3>4, <1>0 DEF Judged
    <3> QED
      BY <2>1, <3>2, <3>5
  <2>2. CASE d # c
    BY <1>1, <2>2, <1>0 DEF LimiterInv, Underway, Unheard, NoVerdict, Judged
  <2> QED
    BY <2>1, <2>2
<1>5. ASSUME NEW j \in Keys \ {k} PROVE SetInv(j)'
  <2>1. SetInv(j) /\ members'[j] = members[j] /\ expireAt'[j] = expireAt[j]
    BY <1>0 DEF LimiterInv
  <2>2. \A d \in Calls : ServedOn(d, j)' => d # c /\ ServedOn(d, j)
    BY <1>0 DEF ServedOn
  <2>3. \A d \in Calls : ServedOn(d, j) => d # c /\ ServedOn(d, j)'
    BY <1>0 DEF ServedOn
  <2>4. \A d \in Calls \ {c} : log'[d] = log[d]
    BY <1>0
  <2>5. members[j] \subseteq Calls
    BY LimiterTypes
  <2> QED
    BY <1>1, <2>1, <2>2, <2>3, <2>4, <2>5 DEF SetInv
<1>6. SetInv(k)'
  <2>1. SetInv(k)
    BY <1>1 DEF LimiterInv
  <2>2. \A d \in Calls \ {c} : log'[d] = log[d] /\ (ServedOn(d, k)' <=> ServedOn(d, k))
    BY <1>0 DEF ServedOn
  <2>3. ~ServedOn(c, k) /\ log'[c].at = clock
    BY <1>0 DEF ServedOn
  <2>4. \A d \in Calls : log[d].at \in Nat /\ (ServedOn(d, k) => log[d].at <= clock)
    BY LimiterTypes DEF ServedOn
  <2>5. CASE verdict = "admitted"
    <3>1. /\ members'[k] = S \cup {c} /\ expireAt'[k] = clock + Window
          /\ ServedOn(c, k)' /\ Cardinality(S) < LimitOf[k]
      BY <2>5, <1>0 DEF ServedOn, ScriptDoes
    <3>2. Cardinality(S \cup {c}) = Cardinality(S) + 1
      BY <1>2, FS_AddElement
    <3>3. Cardinality(members'[k]) <= LimitOf[k]
      BY <1>1, <1>2, <3>1, <3>2, Numbers
    <3>4. \A d \in members'[k] : ServedOn(d, k)'
      BY <1>2, <2>1, <2>2, <3>1 DEF SetInv
    <3>5. ASSUME NEW d \in Calls, ServedOn(d, k)'
          PROVE  /\ log'[d].at + Window <= expireAt'[k]
                 /\ clock - log'[d].at < Window - Slack => d \in members'[k]
      BY <1>2, <2>2, <2>3, <2>4, <3>1, <3>5, Numbers
    <3> QED
      BY <1>1, <3>3, <3>4, <3>5 DEF SetInv
  <2>6. CASE verdict = "refused"
    <3>1. members'[k] = S /\ expireAt'[k] = expireAt[k] /\ ~ServedOn(c, k)'
      BY <2>6, <1>0 DEF ServedOn
    <3>2. Cardinality(S) <= Cardinality(members[k]) /\ Cardinality(members[k]) \in Nat
      <4>1. IsFiniteSet(members[k])
        BY <1>2, AccessAssumption, FS_Subset
      <4> QED
        BY <1>2, <4>1, FS_Subset, FS_CardinalityType
    <3>3. Cardinality(members'[k]) <= LimitOf[k]
      BY <1>1, <1>2, <2>1, <3>1, <3>2, Numbers DEF SetInv
    <3>4. \A d \in members'[k] : ServedOn(d, k)'
      BY <1>2, <2>1, <2>2, <3>1 DEF SetInv
    <3>5. ASSUME NEW d \in Calls, ServedOn(d, k)'
          PROVE  /\ log'[d].at + Window <= expireAt'[k]
                 /\ clock - log'[d].at < Window - Slack => d \in members'[k]
      BY <1>2, <2>1, <2>2, <3>1, <3>5 DEF SetInv
    <3> QED
      BY <1>1, <3>3, <3>4, <3>5 DEF SetInv
  <2> QED
    BY <2>5, <2>6, <1>0
<1> QED
  BY <1>3, <1>4, <1>5, <1>6 DEF LimiterInv

\* The record of a request that comes in.
LEMMA ArrivesAtLimiter ==
    ASSUME LimiterInv, NEW c \in Calls, NEW a \in Arrivals, Arrive(c, a)
    PROVE  \E new \in Call :
             /\ call' = [call EXCEPT ![c] = new] /\ new.pc = "guard" /\ new.answer = "none"
             /\ new.route \in DOMAIN Routes /\ new.address \in Addresses
             /\ new.stamp = call[c].stamp
<1> DEFINE new == [call[c] EXCEPT !.pc = "guard", !.route = a.route, !.presented = a.presented,
                     !.address = a.address,
                     !.dead = a.presented \in Tokens /\ Dead(a.presented)]
<1>1. /\ a.route \in DOMAIN Routes /\ a.presented \in Credentials /\ a.address \in Addresses
      /\ call[c] \in Call /\ call[c].answer = "none"
  BY AccessAssumption DEF Arrival, LimiterInv, AccessTypeOK, Underway, Unheard, Arrive
<1>2. (a.presented \in Tokens /\ Dead(a.presented)) \in BOOLEAN
  OBVIOUS
<1>3. /\ new \in Call /\ new.pc = "guard" /\ new.answer = "none"
      /\ new.route \in DOMAIN Routes /\ new.address \in Addresses
      /\ new.stamp = call[c].stamp
  BY <1>1, <1>2 DEF Call
<1>4. call' = [call EXCEPT ![c] = new]
  BY DEF Arrive
<1> HIDE DEF new
<1> QED
  BY <1>3, <1>4

\* The steps preserve it, one by one.
LEMMA LimiterArrive ==
    ASSUME LimiterInv, NEW c \in Calls, NEW a \in Arrivals, Arrive(c, a)
    PROVE  LimiterInv'
<1>1. PICK new \in Call :
         /\ call' = [call EXCEPT ![c] = new] /\ new.pc = "guard" /\ new.answer = "none"
         /\ new.route \in DOMAIN Routes /\ new.address \in Addresses
         /\ new.stamp = call[c].stamp
  BY ArrivesAtLimiter
<1>2. /\ log[c].answer = "none" /\ call[c].stamp >= -Lag
      /\ UNCHANGED <<clock, tokens, members, expireAt, log>>
  BY DEF Arrive, limiterVars, LimiterInv, Underway, Unheard, NoVerdict
<1> QED
  BY <1>1, <1>2, UnjudgedStep

\* AuthGuard touches no sorted set.
LEMMA LimiterAuthenticate ==
    ASSUME LimiterInv, NEW c \in Calls, Authenticate(c)
    PROVE  LimiterInv'
<1>1. PICK new : /\ Onward(c, new) /\ new.pc # "idle" /\ new.pc # "guard"
                 /\ new.answer # "429"
                 /\ new.pc = "script" => new.answer = "none"
                 /\ new.pc = "script" => new.stamp \in (clock - Lag)..(clock + Lead)
                 /\ new.pc = "done" => new.stamp = call[c].stamp
  BY AdmissionStep
<1>2. /\ call[c].pc = "guard" /\ Underway(c) /\ log[c].answer = "none"
      /\ call[c].route \in DOMAIN Routes /\ call[c].address \in Addresses
      /\ UNCHANGED <<clock, tokens, members, expireAt, log>>
  BY DEF Authenticate, limiterVars, LimiterInv, Underway, Unheard, NoVerdict
<1>3. new \in Call /\ call' = [call EXCEPT ![c] = new]
  BY <1>1 DEF Onward
<1>4. new.stamp >= -Lag
  <2>1. new.pc \in {"script", "done"} /\ new.stamp \in Int /\ clock \in Nat
    BY <1>1, <1>3, LimiterTypes DEF Call
  <2> QED
    BY <1>1, <1>2, <2>1, Numbers DEF Underway
<1> QED
  BY <1>1, <1>2, <1>3, <1>4, UnjudgedStep DEF Onward

\* Nor does an unreachable Redis.
LEMMA LimiterFails ==
    ASSUME LimiterInv, NEW c \in Calls, ScriptFails(c)
    PROVE  LimiterInv'
<1> DEFINE new == [call[c] EXCEPT !.pc = "done", !.answer = "500"]
<1>1. /\ call[c].pc = "script" /\ Underway(c) /\ log[c].answer = "none" /\ call[c] \in Call
      /\ UNCHANGED <<clock, tokens, members, expireAt, log>>
  BY DEF ScriptFails, limiterVars, LimiterInv, AccessTypeOK, Underway, Unheard, NoVerdict
<1>2. /\ new \in Call /\ new.pc = "done" /\ new.answer = "500"
      /\ new.stamp = call[c].stamp
      /\ new.route = call[c].route /\ new.address = call[c].address
  BY <1>1 DEF Call
<1>3. call' = [call EXCEPT ![c] = new]
  BY DEF ScriptFails, Answered
<1> HIDE DEF new
<1> QED
  BY <1>1, <1>2, <1>3, UnjudgedStep DEF Underway

\* The script, by its two branches.
LEMMA LimiterScript ==
    ASSUME LimiterInv, NEW c \in Calls, Script(c)
    PROVE  LimiterInv'
  BY ScriptCases, VerdictStep DEF Script

\* Time only makes entries older.
LEMMA LimiterTick ==
    ASSUME LimiterInv, Tick
    PROVE  LimiterInv'
<1>1. /\ clock \in Nat /\ clock' = clock + 1
      /\ UNCHANGED <<tokens, call, members, expireAt, log>>
  BY LimiterTypes DEF Tick, limiterVars
<1>2. AccessTypeOK'
  BY <1>1 DEF LimiterInv, AccessTypeOK
<1>3. ASSUME NEW c \in Calls PROVE (Underway(c) /\ Judged(c))'
  <2>1. /\ Underway(c) /\ Judged(c)
        /\ call[c].pc = "script" => clock + 1 - Lag <= call[c].stamp
        /\ call[c].stamp \in Int /\ log[c].at \in Nat
    BY LimiterTypes DEF LimiterInv, Tick
  <2>2. Underway(c)'
    BY <1>1, <2>1, Numbers DEF Underway, Unheard, NoVerdict
  <2>3. Judged(c)'
    BY <1>1, <2>1 DEF Judged, NoVerdict
  <2> QED
    BY <2>2, <2>3
<1>4. ASSUME NEW k \in Keys PROVE SetInv(k)'
  <2>1. SetInv(k) /\ \A d \in Calls : log[d].at \in Nat
    BY LimiterTypes DEF LimiterInv
  <2> QED
    BY <1>1, <2>1, Numbers DEF SetInv, ServedOn
<1> QED
  BY <1>2, <1>3, <1>4 DEF LimiterInv

\* A revocation does not concern the limiter.
LEMMA LimiterRevoke ==
    ASSUME LimiterInv, NEW t \in Tokens, Revoke(t)
    PROVE  LimiterInv'
<1>1. /\ tokens' \in [Tokens -> {"live", "revoked"}]
      /\ UNCHANGED <<clock, call, members, expireAt, log>>
  BY DEF Revoke, limiterVars, LimiterInv, AccessTypeOK
<1> QED
  BY <1>1 DEF LimiterInv, AccessTypeOK, Underway, Unheard, NoVerdict, Judged, SetInv, ServedOn

\* Every step preserves it.
LEMMA LimiterStep == ASSUME LimiterInv, [AccessNext]_accessVars PROVE LimiterInv'
<1>1. CASE UNCHANGED accessVars
  BY <1>1 DEF accessVars, LimiterInv, AccessTypeOK, Underway, Unheard, NoVerdict, Judged,
     SetInv, ServedOn
<1> QED
  BY <1>1, LimiterArrive, LimiterAuthenticate, LimiterScript, LimiterFails, LimiterTick,
     LimiterRevoke DEF AccessNext, CallStep

\* Empty sorted sets hold everything that was served.
LEMMA LimiterStarts == ASSUME AccessInit PROVE LimiterInv
<1>1. AccessTypeOK
  <2>1. NewCall \in Call /\ NoVerdict \in Verdict
    BY DEF NewCall, Call, NoVerdict, Verdict, Credentials
  <2> QED
    BY <2>1 DEF AccessInit, AccessTypeOK
<1>2. ASSUME NEW c \in Calls PROVE Underway(c) /\ Judged(c)
  <2>1. /\ call[c].pc = "idle" /\ call[c].answer = "none" /\ call[c].stamp = 0
        /\ log[c] = NoVerdict /\ log[c].answer = "none"
    BY DEF AccessInit, NewCall, NoVerdict
  <2> QED
    BY <2>1, Numbers DEF Underway, Unheard, Judged
<1>3. ASSUME NEW k \in Keys PROVE SetInv(k)
  <2>1. members[k] = {} /\ \A d \in Calls : log[d].answer = "none"
    BY DEF AccessInit, NoVerdict
  <2> QED
    BY <2>1, FS_EmptySet, Numbers DEF SetInv, ServedOn
<1> QED
  BY <1>1, <1>2, <1>3 DEF LimiterInv

\* The sorted sets never hold more than the limit, nothing that was not served,
\* and every call that counts (rate-limit.service.ts, the script), for every
\* number of calls and every error of the clocks.
THEOREM LimiterInvariant == AccessSpec => []LimiterInv
  BY LimiterStarts, LimiterStep, PTL DEF AccessSpec

\* FiniteSets is instantiated along with SlidingWindow.
LEMMA SameCardinality == ASSUME NEW T PROVE Limiter!Cardinality(T) = Cardinality(T)
  BY DEF Limiter!Cardinality, Cardinality

\* The calls served on k within a span, read off the log.
LEMMA ServedOf ==
    ASSUME NEW k, NEW span
    PROVE  Limiter!Served(k, span) = {d \in Calls : ServedOn(d, k) /\ clock - log[d].at < span}
  BY DEF Limiter!Served, ServedOn

\* Every verdict of the script is one the window allows.
LEMMA ScriptRefines ==
    ASSUME LimiterInv, NEW c \in Calls, call[c].pc = "script",
           NEW k, NEW S, NEW verdict, NEW new, ScriptDoes(c, k, S, verdict, new)
    PROVE  Limiter!Admit(c, k) \/ Limiter!Refuse(c, k)
<1>1. /\ k \in Keys /\ S = Kept(k, call[c].stamp) /\ UNCHANGED clock
      /\ log' = [log EXCEPT ![c] = [key |-> k, at |-> clock, answer |-> verdict]]
  BY DEF ScriptDoes
<1>2. /\ IsFiniteSet(S) /\ Cardinality(S) \in Nat /\ S \subseteq Calls
      /\ \A d \in Calls : ServedOn(d, k) /\ clock - log[d].at < Window - Slack => d \in S
      /\ \A d \in S : ServedOn(d, k) /\ clock - log[d].at < Window + Slack
  BY <1>1, KeptCounts, LimiterTypes
<1>3. log[c] = Limiter!Unanswered
  BY DEF LimiterInv, Underway, Unheard, NoVerdict, Limiter!Unanswered
<1>4. CASE verdict = "admitted"
  <2> DEFINE T == Limiter!Served(k, Window - Slack)
  <2>1. T \subseteq S
    BY <1>2, ServedOf
  <2> HIDE DEF T
  <2>2. Cardinality(T) <= Cardinality(S) /\ Cardinality(T) \in Nat
    BY <1>2, <2>1, FS_Subset, FS_CardinalityType
  <2>3. Cardinality(S) < LimitOf[k]
    BY <1>4 DEF ScriptDoes
  <2>4. Cardinality(T) < LimitOf[k]
    BY <1>1, <1>2, <2>2, <2>3, Numbers
  <2>5. Cardinality(Limiter!Served(k, Window - Slack)) < LimitOf[k]
    BY <2>4 DEF T
  <2>6. log' = [log EXCEPT ![c] = [key |-> k, at |-> clock, answer |-> "admitted"]]
    BY <1>1, <1>4
  <2> QED
    BY <1>1, <1>3, <2>5, <2>6, SameCardinality DEF Limiter!Admit
<1>5. CASE verdict = "refused"
  <2> DEFINE T == Limiter!Served(k, Window + Slack)
  <2>1. S \subseteq T /\ T \subseteq Calls
    BY <1>2, ServedOf
  <2> HIDE DEF T
  <2>2. IsFiniteSet(T)
    BY <2>1, AccessAssumption, FS_Subset
  <2>3. Cardinality(S) <= Cardinality(T) /\ Cardinality(T) \in Nat
    BY <2>1, <2>2, FS_Subset, FS_CardinalityType
  <2>4. Cardinality(S) >= LimitOf[k]
    BY <1>5 DEF ScriptDoes
  <2>5. Cardinality(T) >= LimitOf[k]
    BY <1>1, <1>2, <2>3, <2>4, Numbers
  <2>6. Cardinality(Limiter!Served(k, Window + Slack)) >= LimitOf[k]
    BY <2>5 DEF T
  <2>7. log' = [log EXCEPT ![c] = [key |-> k, at |-> clock, answer |-> "refused"]]
    BY <1>1, <1>5
  <2> QED
    BY <1>1, <1>3, <2>6, <2>7, SameCardinality DEF Limiter!Refuse
<1> QED
  BY <1>4, <1>5 DEF ScriptDoes

\* Every step is a step of SlidingWindow or leaves its variables alone.
LEMMA LimiterRefines ==
    ASSUME LimiterInv, [AccessNext]_accessVars
    PROVE  [Limiter!Next]_(Limiter!vars)
<1>1. ASSUME NEW c \in Calls, Script(c) PROVE Limiter!Next
  <2>1. PICK k, S, verdict, new : ScriptDoes(c, k, S, verdict, new)
    BY <1>1, ScriptCases
  <2>2. Limiter!Admit(c, k) \/ Limiter!Refuse(c, k)
    BY <1>1, <2>1, ScriptRefines DEF Script
  <2>3. k \in Keys
    BY <2>1 DEF ScriptDoes
  <2> QED
    BY <2>2, <2>3 DEF Limiter!Next
<1>2. CASE Tick
  BY <1>2 DEF Tick, limiterVars, Limiter!Next, Limiter!Tick
<1>3. ASSUME \/ UNCHANGED accessVars
             \/ \E t \in Tokens : Revoke(t)
             \/ \E c \in Calls : Authenticate(c) \/ ScriptFails(c)
             \/ \E c \in Calls : \E a \in Arrivals : Arrive(c, a)
      PROVE  UNCHANGED Limiter!vars
  BY <1>3 DEF accessVars, Revoke, Authenticate, ScriptFails, Arrive, limiterVars,
     Limiter!vars
<1> QED
  BY <1>1, <1>2, <1>3 DEF AccessNext, CallStep

\* The sorted set that is pruned and expires decides as SlidingWindow does over
\* the whole history (rate-limit.service.ts:16-89).
THEOREM LimiterImplementsSlidingWindow == AccessSpec => LimiterSpec
<1>1. AccessInit => Limiter!Init
  BY DEF AccessInit, Limiter!Init, NoVerdict, Limiter!Unanswered
<1>2. LimiterInv /\ [AccessNext]_accessVars => [Limiter!Next]_(Limiter!vars)
  BY LimiterRefines
<1> QED
  BY <1>1, <1>2, LimiterInvariant, PTL DEF AccessSpec, LimiterSpec, Limiter!Spec

-----------------------------------------------------------------------------
(* Retry-After.                                                            *)

\* A step without a verdict, which touches no request that has one.
LEMMA NoVerdictStep ==
    ASSUME RetryInv, LimiterInv', UNCHANGED <<log, members>>,
           \A d \in Calls : log[d].answer # "none" => call'[d] = call[d]
    PROVE  RetryInv'
<1>1. \A d \in Calls : call'[d].answer = "429" => log[d].answer = "refused"
  BY DEF LimiterInv, Judged
<1>2. \A k \in Keys : \A e \in members[k] : call'[e] = call[e]
  BY LimiterTypes DEF RetryInv, LimiterInv, SetInv, ServedOn
<1>3. \A d \in Calls : log[d].answer # "none" => log[d].key \in Keys
  BY DEF RetryInv, LimiterInv, Judged
<1>4. ASSUME NEW d \in Calls PROVE RefusedInv(d)'
  BY <1>2, <1>3 DEF RetryInv, RefusedInv
<1>5. ASSUME NEW c \in Calls PROVE RoomInv(c)'
  <2> SUFFICES ASSUME call'[c].answer = "429", ~SpentSince(c)'
               PROVE  Cardinality({e \in members'[log'[c].key] :
                                     call'[e].stamp + Window > RetryAt(c)'})
                        < LimitOf[log'[c].key]
    BY DEF RoomInv
  <2>1. /\ call'[c] = call[c] /\ log[c].key \in Keys
        /\ RetryAt(c)' = RetryAt(c) /\ ~SpentSince(c)
    BY <1>1, <1>3 DEF RetryAt, SpentSince, ServedOn
  <2>2. {e \in members'[log'[c].key] : call'[e].stamp + Window > RetryAt(c)'}
          = {e \in members[log[c].key] : call[e].stamp + Window > RetryAt(c)}
    BY <1>2, <2>1
  <2>3. Cardinality({e \in members[log[c].key] : call[e].stamp + Window > RetryAt(c)})
          < LimitOf[log[c].key]
    BY <2>1 DEF RetryInv, RoomInv
  <2> QED
    BY <2>2, <2>3
<1>6. RetryAfterIsHonest'
  BY <1>1 DEF RetryInv, RetryAfterIsHonest
<1> QED
  BY <1>4, <1>5, <1>6 DEF RetryInv

\* A verdict.
LEMMA RetryVerdict ==
    ASSUME Slack < Window, RetryInv, NEW c \in Calls, call[c].pc = "script",
           NEW k, NEW S, NEW verdict, NEW new, ScriptDoes(c, k, S, verdict, new)
    PROVE  RetryInv'
<1>a. LimiterInv /\ ScriptLeaves(c, k, S, verdict, new)
  BY VerdictEffect DEF RetryInv
<1>b. LimiterInv'
  BY <1>a, VerdictStep
<1>0. /\ log[c].answer = "none" /\ verdict \in {"admitted", "refused"}
      /\ call'[c] = new /\ \A d \in Calls \ {c} : call'[d] = call[d]
      /\ log'[c] = [key |-> k, at |-> clock, answer |-> verdict]
      /\ log'[c].key = k /\ log'[c].at = clock /\ log'[c].answer = verdict
      /\ \A d \in Calls \ {c} : log'[d] = log[d]
      /\ \A d \in Calls : call'[d].stamp = call[d].stamp
      /\ \A j \in Keys \ {k} : members'[j] = members[j]
      /\ members'[k] = IF verdict = "admitted" THEN S \cup {c} ELSE S
      /\ k \in Keys /\ S = Kept(k, call[c].stamp)
  BY <1>a DEF ScriptLeaves, ScriptDoes
<1>1. /\ S \subseteq members[k] /\ members[k] \subseteq Calls /\ c \notin S
      /\ IsFiniteSet(S) /\ Cardinality(S) \in Nat
      /\ \A d \in S : call[d].stamp > call[c].stamp - Window
  BY <1>a, <1>0, KeptCounts, LimiterTypes
<1>2. /\ clock \in Nat /\ \A d \in Calls : log[d].at \in Nat /\ call[d].stamp \in Int
      /\ \A d \in Calls : call[d].retryAfter \in Nat
      /\ \A d \in Calls : log[d].answer # "none" =>
            /\ log[d].at <= clock /\ log[d].at - Lag <= call[d].stamp
            /\ call[d].stamp <= log[d].at + Lead /\ log[d].key \in Keys
      /\ \A j \in Keys : \A e \in members[j] : e \in Calls /\ e # c /\ ServedOn(e, j)
  BY <1>a, <1>0, LimiterTypes DEF LimiterInv, SetInv, ServedOn, Judged
<1>3. \A e \in Calls, j \in Keys : ServedOn(e, j) => ServedOn(e, j)' /\ e # c
  BY <1>0 DEF ServedOn
<1>4. ASSUME NEW d \in Calls PROVE RefusedInv(d)'
  <2> SUFFICES ASSUME log'[d].answer = "refused", NEW e \in members'[log'[d].key]
               PROVE  call'[e].stamp > call'[d].stamp - Window \/ log'[e].at >= log'[d].at
    BY DEF RefusedInv
  <2>1. CASE d = c
    BY <1>0, <1>1, <2>1
  <2>2. CASE d # c
    <3>1. log'[d] = log[d] /\ log[d].key \in Keys /\ RefusedInv(d)
      BY <1>0, <1>2, <2>2 DEF RetryInv
    <3>2. CASE e = c
      BY <1>0, <1>2, <3>1, <3>2
    <3>3. CASE e # c
      <4>1. e \in members[log[d].key]
        BY <1>0, <1>1, <3>1, <3>3
      <4> QED
        BY <1>0, <1>2, <3>1, <4>1 DEF RefusedInv
    <3> QED
      BY <3>2, <3>3
  <2> QED
    BY <2>1, <2>2
<1>5. ASSUME NEW x \in Calls PROVE RoomInv(x)'
  <2> DEFINE j == log'[x].key
             R == {e \in members'[j] : call'[e].stamp + Window > RetryAt(x)'}
  <2> SUFFICES ASSUME call'[x].answer = "429", ~SpentSince(x)'
               PROVE  Cardinality(R) < LimitOf[j]
    BY DEF RoomInv
  <2>1. CASE x = c
    <3>1. /\ verdict = "refused" /\ j = k /\ members'[k] = S
          /\ RetryAt(x)' = call[c].stamp + new.retryAfter
      BY <1>a, <1>0, <2>1 DEF RetryAt, ScriptDoes
    <3>2. PICK m \in S : call[c].stamp + new.retryAfter >= call[m].stamp + Window
      BY <3>1 DEF ScriptDoes
    <3>3. new.retryAfter \in Nat
      <4>1. new \in Call
        BY DEF ScriptDoes, Onward
      <4> QED
        BY <4>1 DEF Call
    <3>4. ~(call[m].stamp + Window > call[c].stamp + new.retryAfter)
      BY <1>1, <1>2, <3>2, <3>3, Numbers
    <3>5. R \subseteq S \ {m}
      BY <1>0, <1>1, <1>2, <3>1, <3>4
    <3> HIDE DEF R
    <3>6. /\ Cardinality(R) <= Cardinality(S \ {m}) /\ Cardinality(R) \in Nat
          /\ Cardinality(S \ {m}) = Cardinality(S) - 1
      BY <1>1, <3>5, FS_RemoveElement, FS_Subset, FS_CardinalityType
    <3>7. /\ Cardinality(S) <= Cardinality(members[k])
          /\ Cardinality(members[k]) \in Nat
      <4>1. IsFiniteSet(members[k])
        BY <1>1, AccessAssumption, FS_Subset
      <4> QED
        BY <1>1, <4>1, FS_Subset, FS_CardinalityType
    <3>8. Cardinality(members[k]) <= LimitOf[k]
      BY <1>a, <1>0 DEF LimiterInv, SetInv
    <3> QED
      BY <1>0, <1>1, <3>1, <3>6, <3>7, <3>8, Numbers
  <2>2. CASE x # c
    <3>1. /\ call'[x] = call[x] /\ log'[x] = log[x] /\ RetryAt(x)' = RetryAt(x)
          /\ log[x].answer = "refused" /\ j = log[x].key /\ j \in Keys
      BY <1>a, <1>0, <1>2, <2>2 DEF RetryAt, LimiterInv, Judged
    <3>2. ~SpentSince(x)
      BY <1>0, <1>3, <3>1 DEF SpentSince
    <3>3. ~(verdict = "admitted" /\ j = k)
      BY <1>0, <1>2, <3>1 DEF SpentSince, ServedOn
    <3>4. members'[j] \subseteq members[j]
      BY <1>0, <1>1, <3>1, <3>3
    <3> DEFINE Q == {e \in members[j] : call[e].stamp + Window > RetryAt(x)}
    <3>5. R \subseteq Q /\ Q \subseteq Calls
      BY <1>0, <1>2, <3>1, <3>4
    <3>6. Cardinality(Q) < LimitOf[j]
      BY <3>1, <3>2 DEF RetryInv, RoomInv
    <3> HIDE DEF Q, R, j
    <3>7. IsFiniteSet(Q)
      BY <3>5, AccessAssumption, FS_Subset
    <3>8. Cardinality(R) <= Cardinality(Q) /\ Cardinality(R) \in Nat /\ Cardinality(Q) \in Nat
      BY <3>5, <3>7, FS_Subset, FS_CardinalityType
    <3> QED
      BY <3>1, <3>6, <3>8, Numbers
  <2> QED
    BY <2>1, <2>2
<1>6. RetryAfterIsHonest'
  <2> SUFFICES ASSUME NEW x \in Calls, NEW d \in Calls, call'[x].answer = "429",
                      log'[d].answer = "refused", log'[d].key = log'[x].key,
                      call'[d].stamp >= call'[x].stamp + call'[x].retryAfter
               PROVE  SpentSince(x)'
    BY DEF RetryAfterIsHonest, SpentSince, ServedOn
  <2>0. log'[x].answer = "refused" /\ call'[x].retryAfter >= 1 /\ call'[x].retryAfter \in Nat
    BY <1>b, LimiterTypes DEF LimiterInv, Judged, AccessTypeOK, Call
  <2>1. ASSUME x # c, SpentSince(x) PROVE SpentSince(x)'
    BY <1>0, <1>2, <1>3, <2>0, <2>1 DEF SpentSince
  <2>2. CASE x # c /\ d # c
    BY <1>0, <2>1, <2>2 DEF RetryInv, RetryAfterIsHonest, SpentSince, ServedOn
  <2>3. CASE x # c /\ d = c
    <3> SUFFICES ASSUME ~SpentSince(x) PROVE FALSE
      BY <2>1, <2>3
    <3> DEFINE Q == {e \in members[k] : call[e].stamp + Window > RetryAt(x)}
    <3>1. /\ verdict = "refused" /\ log[x].key = k /\ call[x].answer = "429"
          /\ call[c].stamp >= call[x].stamp + call[x].retryAfter
      BY <1>0, <2>3
    <3>2. Cardinality(Q) < LimitOf[k]
      BY <3>1 DEF RetryInv, RoomInv
    <3>3. S \subseteq Q /\ Q \subseteq Calls
      BY <1>1, <1>2, <3>1, Numbers DEF RetryAt
    <3>4. Cardinality(S) >= LimitOf[k]
      BY <3>1 DEF ScriptDoes
    <3> HIDE DEF Q
    <3>5. IsFiniteSet(Q)
      BY <3>3, AccessAssumption, FS_Subset
    <3>6. Cardinality(S) <= Cardinality(Q) /\ Cardinality(Q) \in Nat
      BY <3>3, <3>5, FS_Subset, FS_CardinalityType
    <3> QED
      BY <1>0, <1>1, <3>2, <3>4, <3>6, Numbers
  <2>4. CASE x = c /\ d # c
    <3>1. /\ verdict = "refused" /\ log[d].answer = "refused" /\ log[d].key = k
          /\ call[d].stamp >= call[c].stamp + new.retryAfter /\ new.retryAfter \in Nat
      BY <1>0, <2>0, <2>4
    <3>2. PICK m \in S : call[c].stamp + new.retryAfter >= call[m].stamp + Window
      BY <3>1 DEF ScriptDoes
    <3>3. call[m].stamp > call[d].stamp - Window \/ log[m].at >= log[d].at
      BY <1>1, <3>1 DEF RetryInv, RefusedInv
    <3>4. /\ log[m].at - Lag <= call[m].stamp /\ call[d].stamp <= log[d].at + Lead
          /\ {log[m].at, log[d].at} \subseteq Nat
          /\ {call[m].stamp, call[d].stamp, call[c].stamp} \subseteq Int
      BY <1>0, <1>1, <1>2, <3>1 DEF ServedOn
    <3> QED
      BY <3>1, <3>2, <3>3, <3>4, Numbers
  <2>5. CASE x = c /\ d = c
    BY <1>0, <1>2, <2>0, <2>5
  <2> QED
    BY <2>2, <2>3, <2>4, <2>5
<1> QED
  BY <1>b, <1>4, <1>5, <1>6 DEF RetryInv

\* Every step preserves RetryInv.
LEMMA RetryStep ==
    ASSUME Slack < Window, RetryInv, [AccessNext]_accessVars
    PROVE  RetryInv'
<1>1. LimiterInv /\ LimiterInv'
  BY LimiterStep DEF RetryInv
<1>2. ASSUME NEW c \in Calls, Script(c) PROVE RetryInv'
  BY <1>1, <1>2, ScriptCases, RetryVerdict DEF Script
<1>3. ASSUME NEW c \in Calls, call[c].pc # "done", \E new : call' = [call EXCEPT ![c] = new],
             UNCHANGED limiterVars
      PROVE  RetryInv'
  <2>1. log[c].answer = "none"
    BY <1>1, <1>3 DEF LimiterInv, Underway, Unheard, NoVerdict
  <2>2. \A d \in Calls \ {c} : call'[d] = call[d]
    BY <1>1, <1>3 DEF LimiterInv, AccessTypeOK
  <2> QED
    BY <1>1, <1>3, <2>1, <2>2, NoVerdictStep DEF limiterVars
<1>4. ASSUME NEW c \in Calls,
             (\E a \in Arrivals : Arrive(c, a)) \/ Authenticate(c) \/ ScriptFails(c)
      PROVE  RetryInv'
  <2>1. call[c].pc # "done" /\ UNCHANGED limiterVars
    BY <1>4 DEF Arrive, Authenticate, ScriptFails, limiterVars
  <2>2. \E new : call' = [call EXCEPT ![c] = new]
    BY <1>4 DEF Arrive, Authenticate, Guarded, Answered, ScriptFails, Stamp
  <2> QED
    BY <1>3, <2>1, <2>2
<1>5. CASE UNCHANGED accessVars \/ Tick \/ \E t \in Tokens : Revoke(t)
  <2>1. UNCHANGED <<call, limiterVars>>
    BY <1>5 DEF accessVars, Tick, Revoke, limiterVars
  <2> QED
    BY <1>1, <2>1, NoVerdictStep DEF limiterVars
<1> QED
  BY <1>2, <1>4, <1>5 DEF AccessNext, CallStep

\* Provided no two clocks err by a whole window, who waits as long as Retry-After
\* says is not refused again over the same budget (rate-limit.service.ts:81-89).
THEOREM RefusalsAreHonest ==
    ASSUME Slack < Window
    PROVE  AccessSpec => []RetryAfterIsHonest
<1>1. ASSUME AccessInit PROVE RetryInv
  <2>1. LimiterInv /\ \A c \in Calls : log[c].answer = "none" /\ call[c].answer = "none"
    BY <1>1, LimiterStarts DEF AccessInit, NoVerdict, NewCall
  <2> QED
    BY <2>1 DEF RetryInv, RefusedInv, RoomInv, RetryAfterIsHonest
<1>2. ASSUME RetryInv, [AccessNext]_accessVars PROVE RetryInv'
  BY <1>2, RetryStep
<1>3. RetryInv => RetryAfterIsHonest
  BY DEF RetryInv
<1> QED
  BY <1>1, <1>2, <1>3, PTL DEF AccessSpec

=============================================================================
