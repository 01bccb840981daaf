-------------------------------- MODULE Tokens --------------------------------
(***************************************************************************)
(* API tokens: minting, listing and revoking them (tokens.controller.ts,   *)
(* tokens.service.ts) and the settings page that does it                   *)
(* (settings/tokens/page.tsx).  A handler is several statements without a  *)
(* transaction, so other requests run between them, each may fail, a write *)
(* that fails may have been done all the same, and the process may die     *)
(* between two of them.                                                    *)
(***************************************************************************)
EXTENDS Naturals, FiniteSets, Sequences, SequencesExt

CONSTANTS
    Ids,        \* ids of tokens
    NoToken,
    Requests    \* POST and DELETE requests

ASSUME ConstantsAssumption == IsFiniteSet(Ids) /\ NoToken \notin Ids

VARIABLES
    rows,       \* the table api_tokens
    audit,      \* audit_log_entries: <<action, target>>
    request,    \* every request, and where its handler is
    list,       \* the GET of the page's effect
    page,       \* the state of the page
    seen,       \* history: tokens whose secret the page has shown
    told,       \* history: creations whose failure the page has shown
    unaudited,  \* history: what happened and was left without an entry
    hasty       \* history: a token was asked for before the list was there

vars == <<rows, audit, request, list, page, seen, told, unaudited, hasty>>

Row == [id : Ids, state : {"live", "revoked"}]
Actions == {"token.create", "token.revoke"}
Callers == {"page", "session", "token"}

Handler == [pc : {"idle", "sent", "update", "audit", "answer", "done"},
            action : Actions, caller : Callers, id : Ids \cup {NoToken},
            status : {"none", "200", "403", "500", "lost"}]

TypeOK ==
    /\ rows \in [Ids -> {"free", "live", "revoked"}]
    /\ audit \subseteq Actions \X Ids
    /\ request \in [Requests -> Handler]
    /\ list.pc \in {"sent", "taken", "done"} /\ list.rows \subseteq Row
    /\ page.tokens \in Seq(Row)
    /\ {page.loaded, page.creating, page.error} \subseteq BOOLEAN
    /\ {page.minted, page.busyId} \subseteq Ids \cup {NoToken}
    /\ seen \subseteq Ids /\ told \subseteq Requests
    /\ unaudited \subseteq Actions \X Ids
    /\ hasty \in BOOLEAN

Init ==
    /\ rows \in [Ids -> {"free", "live"}]
    /\ audit = {"token.create"} \X {t \in Ids : rows[t] = "live"}
    /\ request = [r \in Requests |->
         [pc |-> "idle", action |-> "token.create", caller |-> "page", id |-> NoToken,
          status |-> "none"]]
    /\ list = [pc |-> "sent", rows |-> {}]
    /\ page = [tokens |-> <<>>, loaded |-> FALSE, error |-> FALSE, creating |-> FALSE,
               minted |-> NoToken, busyId |-> NoToken]
    /\ seen = {} /\ told = {} /\ unaudited = {} /\ hasty = FALSE

history == <<seen, told, unaudited, hasty>>

-----------------------------------------------------------------------------
(* tokens.service.ts.                                                      *)

Goto(r, pc) == request' = [request EXCEPT ![r].pc = pc]
Reply(r, status) == request' = [request EXCEPT ![r] = [@ EXCEPT !.pc = "answer", !.status = status]]

LeftOut(action, t) == unaudited' = unaudited \cup {<<action, t>>}

\* requireUser, and the row that create inserts.  When the INSERT throws
\* although it was committed, nobody learns the id.
Create(r) ==
    /\ request[r].pc = "sent" /\ request[r].action = "token.create"
    /\ request[r].caller # "token"
    /\ \/ \E t \in Ids :
            /\ rows[t] = "free"
            /\ rows' = [rows EXCEPT ![t] = "live"]
            /\ \/ /\ request' = [request EXCEPT ![r] = [@ EXCEPT !.pc = "audit", !.id = t]]
                  /\ UNCHANGED unaudited
               \/ Reply(r, "500") /\ LeftOut("token.create", t)
       \/ Reply(r, "500") /\ UNCHANGED <<rows, unaudited>>
    /\ UNCHANGED <<audit, list, page, seen, told, hasty>>

\* revoke, its first statement: a token that is revoked already is the answer.
ReadForRevoke(r) ==
    /\ request[r].pc = "sent" /\ request[r].action = "token.revoke"
    /\ request[r].caller # "token"
    /\ \/ rows[request[r].id] = "revoked" /\ Reply(r, "200")
       \/ rows[request[r].id] = "live" /\ Goto(r, "update")
       \/ Reply(r, "500")
    /\ UNCHANGED <<rows, audit, list, page, history>>

\* Mutant: the entry is written only for creations.
AfterUpdateAnswer == "answer"

AfterUpdate == "audit"

\* An UPDATE that throws may have been committed, too.
Update(r) ==
    /\ request[r].pc = "update"
    /\ \/ /\ rows' = [rows EXCEPT ![request[r].id] = "revoked"]
          /\ \/ /\ IF AfterUpdate = "audit" THEN Goto(r, "audit") ELSE Reply(r, "200")
                /\ UNCHANGED unaudited
             \/ Reply(r, "500") /\ LeftOut("token.revoke", request[r].id)
       \/ Reply(r, "500") /\ UNCHANGED <<rows, unaudited>>
    /\ UNCHANGED <<audit, list, page, seen, told, hasty>>

\* The entry, and the answer: an entry that throws is a 500, done or not, and
\* what it is about stays.
Audit(r) ==
    /\ request[r].pc = "audit"
    /\ \/ /\ audit' = audit \cup {<<request[r].action, request[r].id>>}
          /\ Reply(r, "200") \/ Reply(r, "500")
          /\ UNCHANGED unaudited
       \/ /\ LeftOut(request[r].action, request[r].id)
          /\ Reply(r, "500")
          /\ UNCHANGED audit
    /\ UNCHANGED <<rows, list, page, seen, told, hasty>>

\* The process dies under a handler, and the connection with it.
Die(r) ==
    /\ request[r].pc \in {"sent", "update", "audit"}
    /\ Reply(r, "lost")
    /\ IF request[r].pc = "audit" THEN LeftOut(request[r].action, request[r].id)
       ELSE UNCHANGED unaudited
    /\ UNCHANGED <<rows, audit, list, page, seen, told, hasty>>

\* requireUser: an API token manages no tokens.
Forbid(r) ==
    /\ request[r].pc = "sent" /\ request[r].caller = "token"
    /\ Reply(r, "403")
    /\ UNCHANGED <<rows, audit, list, page, history>>

\* The answer is lost on the way.
Lose(r) ==
    /\ request[r].pc = "answer" /\ request[r].status # "lost"
    /\ Reply(r, "lost")
    /\ UNCHANGED <<rows, audit, list, page, history>>

TakeList ==
    /\ list.pc = "sent"
    /\ list' = [pc |-> "taken",
                rows |-> {[id |-> t, state |-> rows[t]] : t \in {u \in Ids : rows[u] # "free"}}]
    /\ UNCHANGED <<rows, audit, request, page, history>>

-----------------------------------------------------------------------------
(* settings/tokens/page.tsx.                                               *)

Send(r, action, caller, t) ==
    /\ request[r].pc = "idle"
    /\ request' = [request EXCEPT ![r] = [@ EXCEPT !.pc = "sent", !.action = action,
                                                   !.caller = caller, !.id = t]]

\* The form's submit button is disabled while a creation is in flight.
SubmitForm(r) ==
    /\ ~page.creating
    /\ Send(r, "token.create", "page", NoToken)
    /\ page' = [page EXCEPT !.creating = TRUE, !.error = FALSE]
    /\ hasty' = (hasty \/ ~page.loaded)
    /\ UNCHANGED <<rows, audit, list, seen, told, unaudited>>

\* setTokens with the answer of a revocation.
WithRevoked(tokens, t) ==
    [i \in DOMAIN tokens |-> IF tokens[i].id = t THEN [id |-> t, state |-> "revoked"]
                             ELSE tokens[i]]

\* The button of a row, disabled for a dead row and for the busy one.
PressRevoke(r) ==
    /\ \E t \in Ids \ {page.busyId} :
         /\ [id |-> t, state |-> "live"] \in ToSet(page.tokens)
         /\ Send(r, "token.revoke", "page", t)
         /\ page' = [page EXCEPT !.busyId = t]
    /\ UNCHANGED <<rows, audit, list, history>>

\* Mutant: the catch block of create shows nothing.
FailedInSilence(p) == [p EXCEPT !.creating = FALSE]

CreateFailed(p) == [p EXCEPT !.creating = FALSE, !.error = TRUE]

CreateAnswered(r) ==
    /\ request[r].pc = "answer" /\ request[r].caller = "page"
    /\ request[r].action = "token.create"
    /\ Goto(r, "done")
    /\ LET t == request[r].id IN
       \/ /\ request[r].status = "200"
          /\ page' = [page EXCEPT !.creating = FALSE, !.minted = t,
                                  !.tokens = <<[id |-> t, state |-> "live"]>> \o @]
          /\ seen' = seen \cup {t}
          /\ UNCHANGED told
       \/ /\ request[r].status # "200"
          /\ page' = CreateFailed(page)
          /\ told' = IF page'.error THEN told \cup {r} ELSE told
          /\ UNCHANGED seen
    /\ UNCHANGED <<rows, audit, list, unaudited, hasty>>

RevokeAnswered(r) ==
    /\ request[r].pc = "answer" /\ request[r].caller = "page"
    /\ request[r].action = "token.revoke"
    /\ Goto(r, "done")
    /\ page' = [page EXCEPT !.busyId = NoToken,
                  !.tokens = IF request[r].status = "200" THEN WithRevoked(@, request[r].id) ELSE @,
                  !.error = @ \/ request[r].status # "200"]
    /\ UNCHANGED <<rows, audit, list, history>>

\* The effect's then, catch and finally; the order of the rows is left out.
ListAnswered ==
    /\ list.pc = "taken"
    /\ list' = [list EXCEPT !.pc = "done"]
    /\ \/ page' = [page EXCEPT !.loaded = TRUE, !.tokens = SetToSeq(list.rows)]
       \/ page' = [page EXCEPT !.loaded = TRUE, !.error = TRUE]
    /\ UNCHANGED <<rows, audit, request, history>>

\* "I have saved it".
Dismiss ==
    /\ page.minted # NoToken
    /\ page' = [page EXCEPT !.minted = NoToken]
    /\ UNCHANGED <<rows, audit, request, list, history>>

\* Another session of the organization, or a client with an API token.
OthersSend(r) ==
    /\ \E caller \in {"session", "token"} :
         \/ Send(r, "token.create", caller, NoToken)
         \/ \E t \in Ids : rows[t] # "free" /\ Send(r, "token.revoke", caller, t)
    /\ UNCHANGED <<rows, audit, list, page, history>>

RequestStep(r) ==
    \/ Create(r) \/ ReadForRevoke(r) \/ Update(r) \/ Audit(r) \/ Die(r) \/ Forbid(r) \/ Lose(r)
    \/ SubmitForm(r) \/ PressRevoke(r) \/ CreateAnswered(r) \/ RevokeAnswered(r)
    \/ OthersSend(r)

Next == (\E r \in Requests : RequestStep(r)) \/ TakeList \/ ListAnswered \/ Dismiss

Spec == Init /\ [][Next]_vars

-----------------------------------------------------------------------------
(* Properties.                                                             *)

InFlight(r) == request[r].pc \notin {"idle", "done"}

\* The audit log tells the history of the table (tokens.service.ts:100-134,
\* 153-182).  No token is handed out without its entry, and no entry is about
\* something that did not happen, whoever races with whom and whatever fails.
\* What happened lacks its entry only while its request is in flight, or for
\* one of three reasons: the database refused the entry, the write before it
\* threw although it was committed, or the process died between the two (and a
\* later revocation finds the token revoked, and writes none).
AuditTellsTheHistory ==
    /\ \A r \in Requests :
         request[r].action = "token.create" /\ request[r].status = "200" =>
             <<"token.create", request[r].id>> \in audit
    /\ \A t \in Ids :
         /\ <<"token.revoke", t>> \in audit => rows[t] = "revoked"
         /\ <<"token.create", t>> \in audit => rows[t] # "free"
         /\ (\A r \in Requests : InFlight(r) => request[r].id # t) =>
              /\ rows[t] # "free" => <<"token.create", t>> \in audit \cup unaudited
              /\ rows[t] = "revoked" => <<"token.revoke", t>> \in audit \cup unaudited

Revokes(r, t) == request[r].action = "token.revoke" /\ request[r].id = t

\* A revocation whose success the page was not told.
Untold(t) ==
    \E r \in Requests :
        /\ Revokes(r, t)
        /\ \/ request[r].caller = "session"
           \/ request[r].pc # "done"
           \/ request[r].status # "200"

\* The page keeps its user in the picture (page.tsx:59-100).  No token it made
\* works unseen in silence, not even one whose INSERT threw: its secret, which
\* can never be shown again, was shown, or the user was told that the creation
\* failed.  A token the page
\* shows as live is dead only if somebody else revoked it, or the answer is on
\* its way or was an error: provided the
\* list was there before the first token was asked for: its answer replaces
\* whatever was minted or revoked before it, and holds the new token twice if
\* it was read between the insert and the answer.
PageKeepsUp ==
    /\ \A r \in Requests :
         /\ request[r].action = "token.create" /\ request[r].caller = "page"
         /\ request[r].pc = "done"
         => request[r].id \in seen \/ r \in told
    /\ ~hasty =>
        \A i \in DOMAIN page.tokens :
            LET t == page.tokens[i].id IN
            page.tokens[i].state = "live" /\ rows[t] = "revoked" => Untold(t)

-----------------------------------------------------------------------------
(* What makes AuditTellsTheHistory inductive (ApiAccessProofs).               *)

\* Where a handler is, and what it has done by then.
HandlerInv ==
    \A r \in Requests :
        LET t == request[r].id IN
        /\ request[r].pc = "sent" /\ request[r].action = "token.revoke" => t \in Ids
        /\ request[r].pc = "update" =>
             request[r].action = "token.revoke" /\ t \in Ids /\ rows[t] # "free"
        /\ request[r].pc \notin {"answer", "done"} => request[r].status = "none"
        /\ request[r].action = "token.create" /\ request[r].status = "200" =>
             <<"token.create", t>> \in audit
        /\ request[r].pc = "audit" =>
             /\ t \in Ids
             /\ request[r].action = "token.revoke" => rows[t] = "revoked"
             /\ request[r].action = "token.create" => rows[t] # "free"

\* A request that is about to write the entry.
Owed(action, t) ==
    \E r \in Requests :
        request[r].pc = "audit" /\ request[r].action = action /\ request[r].id = t

Entered(action, t) == <<action, t>> \in audit \cup unaudited \/ Owed(action, t)

\* An entry is about what happened, and is there or is owed.
EntryInv ==
    \A t \in Ids :
        /\ <<"token.revoke", t>> \in audit => rows[t] = "revoked"
        /\ <<"token.create", t>> \in audit => rows[t] # "free"
        /\ rows[t] # "free" => Entered("token.create", t)
        /\ rows[t] = "revoked" => Entered("token.revoke", t)

IInv ==
    /\ rows \in [Ids -> {"free", "live", "revoked"}]
    /\ request \in [Requests -> Handler]
    /\ HandlerInv /\ EntryInv

-----------------------------------------------------------------------------
(* What makes PageKeepsUp inductive, with IInv (ApiAccessProofs).          *)

\* Only the page waits for answers, and a revocation is about a token that is
\* there.  No two creations made the same token.
RequestInv ==
    /\ \A r \in Requests :
         LET t == request[r].id IN
         /\ request[r].pc = "done" => request[r].caller = "page"
         /\ request[r].pc = "idle" =>
              request[r].action = "token.create" /\ request[r].status = "none"
         /\ request[r].pc = "sent" /\ request[r].action = "token.create" => t = NoToken
         /\ request[r].action = "token.revoke" => t \in Ids /\ rows[t] # "free"
         /\ request[r].action = "token.create" /\ t # NoToken => rows[t] # "free"
         /\ request[r].action = "token.create" /\ request[r].status = "200" => t \in Ids
    /\ \A q, r \in Requests :
         /\ request[q].action = "token.create" /\ request[r].action = "token.create"
         /\ q # r /\ request[q].id # NoToken
         => request[q].id # request[r].id
    /\ \A t \in Ids : rows[t] = "revoked" => \E r \in Requests : Revokes(r, t)

\* The list is what was there when it was read.
ListInv ==
    /\ list.pc \in {"sent", "taken", "done"}
    /\ IsFiniteSet(list.rows) /\ list.rows \subseteq Row
    /\ \A x \in list.rows : rows[x.id] # "free"
    /\ page.loaded <=> list.pc = "done"

\* Unless a token was asked for before the list was there, nothing was shown and
\* nothing asked for before it came; and a token that the page is making is not
\* in its table, so the page cannot have revoked it.
TableInv ==
    /\ page.tokens \in Seq(Row)
    /\ \A i \in DOMAIN page.tokens : rows[page.tokens[i].id] # "free"
    /\ ~hasty =>
         /\ ~page.loaded =>
              /\ page.tokens = <<>>
              /\ \A r \in Requests : request[r].caller = "page" => request[r].pc = "idle"
         /\ \A r \in Requests :
              /\ request[r].action = "token.create" /\ request[r].caller = "page"
              /\ request[r].pc \in {"audit", "answer"} /\ request[r].id # NoToken
              => /\ \A i \in DOMAIN page.tokens : page.tokens[i].id # request[r].id
                 /\ \A q \in Requests :
                      Revokes(q, request[r].id) => request[q].caller # "page"

PageInv == RequestInv /\ ListInv /\ TableInv /\ PageKeepsUp

=============================================================================
