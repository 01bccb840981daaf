----------------------------- MODULE Idempotency -----------------------------
(***************************************************************************)
(* POST /v1/pdf with an Idempotency-Key (pdf/pdf.controller.ts,            *)
(* usage/idempotency.service.ts): requests that retry one logical call     *)
(* claim its key in Redis, render, and record the document or release the  *)
(* key; a request that finds a document replays it.                        *)
(*                                                                         *)
(* One key; the requests are the caller's retries of one call, concurrent  *)
(* or not.  The document a request renders bears the request's name.       *)
(***************************************************************************)
EXTENDS Naturals, FiniteSets

CONSTANTS
    Requests,    \* calls that carry the key
    Absent,      \* the key is not in Redis
    Pending,     \* IN_PROGRESS
    MaxExpiries, \* bound: expiries of a claim whose request still runs
    MaxCrashes,  \* bound: process deaths in a behaviour
    MaxErrors    \* bound: rejected Redis calls in a behaviour

ASSUME ConstantsAssumption ==
    /\ Absent \notin Requests /\ Pending \notin Requests /\ Absent # Pending
    /\ Requests \cap {"none", "conflict", "deleted", "error", "lost"} = {}
    /\ MaxExpiries \in Nat
    /\ MaxCrashes \in Nat
    /\ MaxErrors \in Nat

VARIABLES
    key,        \* the value under idem:<org>:<key>; a document once fulfilled
    pc,         \* where every request is
    claimedBy,  \* what let a request render: its SET NX, or a GET of nothing
    found,      \* the document a request read from the key, to replay it
    rows,       \* the document of every request
    answer,     \* what the caller was told
    expiries,
    crashes,
    errors

vars == <<key, pc, claimedBy, found, rows, answer, expiries, crashes, errors>>

faultVars == <<expiries, crashes, errors>>

Working == {"render", "fulfil", "release"}

TypeOK ==
    /\ key \in Requests \cup {Absent, Pending}
    /\ pc \in [Requests -> {"idle", "set", "get", "read", "url", "done"} \cup Working]
    /\ claimedBy \in [Requests -> {"none", "set", "get"}]
    /\ found \in [Requests -> Requests \cup {Absent}]
    /\ rows \in [Requests -> {"none", "completed", "removed"}]
    /\ answer \in [Requests -> Requests \cup
                      {"none", "conflict", "deleted", "error", "lost"}]
    /\ expiries \in 0..MaxExpiries
    /\ crashes \in 0..MaxCrashes
    /\ errors \in 0..MaxErrors

Init ==
    /\ key = Absent
    /\ pc = [r \in Requests |-> "idle"]
    /\ claimedBy = [r \in Requests |-> "none"]
    /\ found = [r \in Requests |-> Absent]
    /\ rows = [r \in Requests |-> "none"]
    /\ answer = [r \in Requests |-> "none"]
    /\ expiries = 0
    /\ crashes = 0
    /\ errors = 0

NoFault == UNCHANGED faultVars

CallFails ==
    /\ errors < MaxErrors
    /\ errors' = errors + 1
    /\ UNCHANGED <<expiries, crashes>>

Goto(r, to) == pc' = [pc EXCEPT ![r] = to]

\* The request ends; said is what its caller hears.
Reply(r, said) ==
    /\ Goto(r, "done")
    /\ answer' = [answer EXCEPT ![r] = said]

-----------------------------------------------------------------------------

\* The caller sends, or sends again.
Send(r) ==
    /\ pc[r] = "idle"
    /\ Goto(r, "set")
    /\ UNCHANGED <<key, claimedBy, found, rows, answer>>
    /\ NoFault

\* Mutant: SET without NX.
SetAlways(r) ==
    /\ pc[r] = "set"
    /\ key' = Pending
    /\ Goto(r, "render")
    /\ claimedBy' = [claimedBy EXCEPT ![r] = "set"]
    /\ UNCHANGED <<found, rows, answer>>
    /\ NoFault

\* claim: SET key IN_PROGRESS EX 120 NX.  When it rejects, done or not, the
\* caller gets an error.
SetNX(r) ==
    /\ pc[r] = "set"
    /\ \/ /\ key = Absent
          /\ key' = Pending
          /\ Goto(r, "render")
          /\ claimedBy' = [claimedBy EXCEPT ![r] = "set"]
          /\ answer' = answer
          /\ NoFault
       \/ /\ key # Absent
          /\ Goto(r, "get")
          /\ UNCHANGED <<key, claimedBy, answer>>
          /\ NoFault
       \/ /\ key' \in {key, IF key = Absent THEN Pending ELSE key}
          /\ Reply(r, "error")
          /\ UNCHANGED claimedBy
          /\ CallFails
    /\ UNCHANGED <<found, rows>>

\* Mutant: a request refused as in progress releases the key on its way out.
GetReleases(r) ==
    /\ pc[r] = "get"
    /\ key = Pending
    /\ key' = Absent
    /\ Reply(r, "conflict")
    /\ UNCHANGED <<claimedBy, found, rows>>
    /\ NoFault

\* claim's GET, after the SET found the key taken: a key that is gone by now
\* lets the request through, with no claim of its own; the id of a document is
\* taken along to replay it.
Get(r) ==
    /\ pc[r] = "get"
    /\ \/ /\ key = Absent
          /\ Goto(r, "render")
          /\ claimedBy' = [claimedBy EXCEPT ![r] = "get"]
          /\ UNCHANGED <<found, answer>>
          /\ NoFault
       \/ /\ key = Pending
          /\ Reply(r, "conflict")
          /\ UNCHANGED <<claimedBy, found>>
          /\ NoFault
       \/ /\ key \in Requests
          /\ Goto(r, "read")
          /\ found' = [found EXCEPT ![r] = key]
          /\ UNCHANGED <<claimedBy, answer>>
          /\ NoFault
       \/ Reply(r, "error") /\ UNCHANGED <<claimedBy, found>> /\ CallFails
    /\ UNCHANGED <<key, rows>>

\* replay's documents.get: a row that is gone, or a read that rejects, is
\* answered as deleted.
ReadDocument(r) ==
    /\ pc[r] = "read"
    /\ \/ /\ rows[found[r]] = "completed"
          /\ Goto(r, "url")
          /\ answer' = answer
          /\ NoFault
       \/ /\ IF rows[found[r]] = "completed" THEN CallFails ELSE NoFault
          /\ Reply(r, "deleted")
    /\ UNCHANGED <<key, claimedBy, found, rows>>

\* replay's documents.downloadUrl, which reads the row again, and the 200.
SignUrl(r) ==
    /\ pc[r] = "url"
    /\ \/ rows[found[r]] = "completed" /\ Reply(r, found[r]) /\ NoFault
       \/ /\ IF rows[found[r]] = "completed" THEN CallFails ELSE NoFault
          /\ Reply(r, "error")
    /\ UNCHANGED <<key, claimedBy, found, rows>>

\* pipeline.run: a completed document, or an error.
Render(r) ==
    /\ pc[r] = "render"
    /\ \/ rows' = [rows EXCEPT ![r] = "completed"] /\ Goto(r, "fulfil")
       \/ rows' = rows /\ Goto(r, "release")
    /\ UNCHANGED <<key, claimedBy, found, answer>>
    /\ NoFault

\* fulfil's SET overwrites whatever is there.
Fulfilled(r) == r

\* fulfil, and the 201.  When its SET rejects the caller gets an error though
\* the document exists.
Fulfil(r) ==
    /\ pc[r] = "fulfil"
    /\ \/ key' = Fulfilled(r) /\ Reply(r, r) /\ NoFault
       \/ key' \in {key, Fulfilled(r)} /\ Reply(r, "error") /\ CallFails
    /\ UNCHANGED <<claimedBy, found, rows>>

\* Mutant: a failed render is recorded like any other.
FailureRecorded(r) == r

\* A failed render is not a result worth replaying: the key is deleted,
\* whoever set it.
KeyReleased(r) == Absent

\* release, whose own failure is swallowed; then the render's error.
Release(r) ==
    /\ pc[r] = "release"
    /\ Reply(r, "error")
    /\ \/ key' = KeyReleased(r) /\ NoFault
       \/ key' \in {key, KeyReleased(r)} /\ CallFails
    /\ UNCHANGED <<claimedBy, found, rows>>

\* The process dies under the request.
Crash(r) ==
    /\ pc[r] \notin {"idle", "done"}
    /\ crashes < MaxCrashes
    /\ crashes' = crashes + 1
    /\ Reply(r, "lost")
    /\ UNCHANGED <<key, claimedBy, found, rows, expiries, errors>>

Owners == {r \in Requests : claimedBy[r] = "set" /\ pc[r] \in Working}

\* Mutant: the claim has no time limit.
ClaimNeverExpires == FALSE

\* The 120 seconds of a claim.
ClaimHasTimeout == TRUE

\* A claim times out: of a request that is gone, or, at most MaxExpiries
\* times, of one that is slower than the timeout.
ClaimExpires ==
    /\ key = Pending
    /\ ClaimHasTimeout
    /\ \/ Owners = {} /\ UNCHANGED expiries
       \/ Owners # {} /\ expiries < MaxExpiries /\ expiries' = expiries + 1
    /\ key' = Absent
    /\ UNCHANGED <<pc, claimedBy, found, rows, answer, crashes, errors>>

\* A document is removed (DocumentsService.remove, or the sweep).
Remove(d) ==
    /\ rows[d] = "completed"
    /\ rows' = [rows EXCEPT ![d] = "removed"]
    /\ UNCHANGED <<key, pc, claimedBy, found, answer>>
    /\ NoFault

-----------------------------------------------------------------------------

RequestStep(r) ==
    \/ SetNX(r) \/ Get(r) \/ ReadDocument(r) \/ SignUrl(r)
    \/ Render(r) \/ Fulfil(r) \/ Release(r)

Next ==
    \/ \E r \in Requests : Send(r) \/ RequestStep(r) \/ Crash(r) \/ Remove(r)
    \/ ClaimExpires

Spec == Init /\ [][Next]_vars

\* Requests run on, and Redis expires what has a time limit.
LiveSpec ==
    /\ Spec
    /\ WF_vars(ClaimExpires)
    /\ \A r \in Requests : WF_vars(RequestStep(r))

-----------------------------------------------------------------------------
(* Properties.                                                             *)

\* Every request that renders holds a claim of its own, and no claim was
\* slower than its timeout.
ClaimsHold == expiries = 0 /\ \A r \in Requests : claimedBy[r] # "get"

\* "Exactly one wins" (idempotency.service.ts:49): while claims hold, at most
\* one request renders at any time, and it does so under the key's claim.
ExactlyOneWins ==
    ClaimsHold =>
        \A r \in Requests :
            pc[r] \in Working =>
                key = Pending /\ \A s \in Requests : pc[s] \in Working => s = r

\* While claims hold and nothing fails or dies, all callers that are told of a
\* document are told of the same one, and there is no other ("a second render,
\* a second stored object, and a second entry on the bill").
OneDocument ==
    ClaimsHold /\ crashes = 0 /\ errors = 0 =>
        /\ Cardinality({r \in Requests : rows[r] # "none"}) <= 1
        /\ \A r, s \in Requests :
              answer[r] \in Requests /\ answer[s] \in Requests => answer[r] = answer[s]

\* Whatever fails, expires or dies, a key names only a document that was
\* completed, and so does every answer (release in PdfController.render).
NoFailureIsReplayed ==
    \A r \in Requests :
        /\ key = r => rows[r] # "none"
        /\ answer[r] \in Requests => rows[answer[r]] # "none"

\* While claims hold, a key that names a document names it for good: no late
\* request of the same call releases or replaces it (fulfil, release).
RecordedIsFinal ==
    [][ClaimsHold /\ key \in Requests => key' = key]_vars

\* A key is not blocked for ever, whoever died or failed with its claim
\* (CLAIM_TIMEOUT_SECONDS).
KeyIsFreed == (key = Pending) ~> (key # Pending)

\* What a comment claims beyond these, and a run refutes: of simultaneous
\* retries "exactly one wins, so the other waits rather than rendering the same
\* document again" (idempotency.service.ts:50).  A retry that found the key
\* taken and then, after a failed render released it, gone, renders beside the
\* retry that claimed it in between.
NoSecondRender ==
    expiries = 0 =>
        \A r, s \in Requests : pc[r] = "render" /\ pc[s] = "render" => r = s

-----------------------------------------------------------------------------
(* What makes the safety properties above inductive (IdempotencyProofs).   *)

\* A request that renders was let through, and none was before its claim.
ClaimBeforeWork ==
    \A r \in Requests :
        /\ pc[r] \in Working => claimedBy[r] # "none"
        /\ pc[r] \in {"idle", "set", "get"} => claimedBy[r] = "none"

\* A request records a document only after it was completed, and replays only
\* one that was recorded.
FulfilHasDocument ==
    \A r \in Requests :
        /\ pc[r] = "fulfil" => rows[r] # "none"
        /\ pc[r] \in {"read", "url"} => found[r] \in Requests /\ rows[found[r]] # "none"

\* While claims hold and nothing fails or dies, a document is about to be
\* recorded or is the one the key names.
DocumentIsRecorded ==
    ClaimsHold /\ crashes = 0 /\ errors = 0 =>
        \A r \in Requests : rows[r] # "none" => pc[r] = "fulfil" \/ key = r

IInv ==
    /\ TypeOK
    /\ ClaimBeforeWork
    /\ FulfilHasDocument
    /\ ExactlyOneWins
    /\ NoFailureIsReplayed
    /\ DocumentIsRecorded

=============================================================================
