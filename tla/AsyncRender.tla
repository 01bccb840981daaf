---------------------------- MODULE AsyncRender ----------------------------
(***************************************************************************)
(* The life of an asynchronous render, POST /v1/pdf/async to settled:      *)
(* the request handler (queue/async-render.controller.ts), the document    *)
(* and job rows (pdf/render.pipeline.ts, documents/documents.service.ts),  *)
(* the vault that holds the PDF password (queue/secrets.vault.ts), the     *)
(* BullMQ queue (queue/render.queue.ts, external), the worker that runs    *)
(* the attempts (queue/render.worker.ts), the object store, the webhook    *)
(* and the alert, and the two ways a document is removed                   *)
(* (DocumentsService.remove, RetentionService.sweep).                      *)
(*                                                                         *)
(* Every await that another actor can interleave with is a step of its     *)
(* own.  A call to PostgreSQL, Redis or S3 may be refused, or take effect  *)
(* and lose its reply (at most MaxErrors times), and a process may die at  *)
(* any step (at most MaxCrashes times).                                    *)
(***************************************************************************)
EXTENDS Naturals, FiniteSets

CONSTANTS
    Docs,         \* requests; each reserves one document, whose id is its job id
    Removers,     \* callers of DELETE /v1/documents/:id and the nightly sweep
    Attempts,     \* defaultJobOptions.attempts (3 in the code)
    MaxStalls,    \* BullMQ's maxStalledCount (1, its default)
    Concurrency,  \* QUEUE_CONCURRENCY
    MaxCrashes,   \* bound: process deaths in a behaviour
    MaxErrors     \* bound: failed infrastructure calls in a behaviour

ASSUME ConstantsAssumption ==
    /\ Attempts \in Nat \ {0}
    /\ MaxStalls \in Nat
    /\ Concurrency \in Nat
    /\ MaxCrashes \in Nat
    /\ MaxErrors \in Nat

VARIABLES
    request,    \* what the caller asked for: protection, a webhook
    handler,    \* where the request handler is
    documents,  \* the document row
    jobs,       \* the job row
    vault,      \* TRUE while Redis holds the password of the request
    queue,      \* the BullMQ job
    attempt,    \* where the worker is, and whether it holds the password
    objects,    \* what the object store holds under the document's key
    announced,  \* who was told: the mailer was asked to alert the organization,
                \* a mail left, a webhook event was sent
    removal,    \* progress of every removal of the document
    crashes,    \* process deaths so far
    errors      \* failed infrastructure calls so far

vars == <<request, handler, documents, jobs, vault, queue, attempt, objects,
          announced, removal, crashes, errors>>

requestVars == <<request, handler>>
storeVars   == <<documents, jobs, objects>>
faultVars   == <<crashes, errors>>

HandlerPCs == {"idle", "store", "enqueue", "discard", "record", "accepted", "error"}
AttemptPCs == {"idle", "take", "mark", "start", "render", "commit", "fail",
               "done", "hook", "return", "caught", "alert", "failedHook", "throw"}
RowStatus  == {"none", "queued", "rendering", "completed", "failed", "removed"}
JobStatus  == {"none", "queued", "active", "completed", "failed"}
HookStatus == {"null", "pending", "delivered", "failed", "disabled"}
QueueState == {"none", "waiting", "active", "completed", "failed"}
Notices    == {"alert", "mail", "document.completed", "document.failed"}

Request     == [protected : BOOLEAN, webhook : BOOLEAN]
DocumentRow == [status : RowStatus, storageKey : BOOLEAN, isEncrypted : BOOLEAN]
JobRow      == [status : JobStatus, webhookStatus : HookStatus]
QueueJob    == [state : QueueState, attemptsMade : 0..Attempts, stalls : 0..MaxStalls]
Attempt     == [pc : AttemptPCs, protection : BOOLEAN]
Objects     == {"none", "plain", "encrypted"}
Removal     == [pc : {"idle", "object", "row", "done"}, storageKey : BOOLEAN]

TypeOK ==
    /\ request \in [Docs -> Request]
    /\ handler \in [Docs -> HandlerPCs]
    /\ documents \in [Docs -> DocumentRow]
    /\ jobs \in [Docs -> JobRow]
    /\ vault \in [Docs -> BOOLEAN]
    /\ queue \in [Docs -> QueueJob]
    /\ attempt \in [Docs -> Attempt]
    /\ objects \in [Docs -> Objects]
    /\ announced \in [Docs -> SUBSET Notices]
    /\ removal \in [Removers -> [Docs -> Removal]]
    /\ crashes \in 0..MaxCrashes
    /\ errors \in 0..MaxErrors

Init ==
    /\ request = [d \in Docs |-> [protected |-> FALSE, webhook |-> FALSE]]
    /\ handler = [d \in Docs |-> "idle"]
    /\ documents = [d \in Docs |-> [status |-> "none", storageKey |-> FALSE,
                                    isEncrypted |-> FALSE]]
    /\ jobs = [d \in Docs |-> [status |-> "none", webhookStatus |-> "null"]]
    /\ vault = [d \in Docs |-> FALSE]
    /\ queue = [d \in Docs |-> [state |-> "none", attemptsMade |-> 0, stalls |-> 0]]
    /\ attempt = [d \in Docs |-> [pc |-> "idle", protection |-> FALSE]]
    /\ objects = [d \in Docs |-> "none"]
    /\ announced = [d \in Docs |-> {}]
    /\ removal = [r \in Removers |-> [d \in Docs |->
                   [pc |-> "idle", storageKey |-> FALSE]]]
    /\ crashes = 0
    /\ errors = 0

-----------------------------------------------------------------------------
(* The rows and the faults.                                                *)

HasRow(d) == documents[d].status \notin {"none", "removed"}
HasJob(d) == jobs[d].status # "none"

\* prisma.job.updateMany where documentId = d: no row, no effect.
JobUpdateMany(d, status) ==
    jobs' = IF HasJob(d) THEN [jobs EXCEPT ![d].status = status] ELSE jobs

\* One awaited call to PostgreSQL, Redis or S3 rejects.  It may have taken
\* effect: the caller cannot tell.
CallFails ==
    /\ errors < MaxErrors
    /\ errors' = errors + 1
    /\ UNCHANGED crashes

NoFault == UNCHANGED faultVars

-----------------------------------------------------------------------------
(* The request handler.                                                    *)

\* assertDeliverableUrl and the size check passed; pipeline.reserve creates
\* the row.  A request either of them refuses changes nothing.
Reserve(d) ==
    /\ handler[d] = "idle"
    /\ \E asked \in Request :
          /\ request' = [request EXCEPT ![d] = asked]
          /\ documents' = [documents EXCEPT ![d] = [status |-> "queued",
                                                    storageKey |-> FALSE,
                                                    isEncrypted |-> asked.protected]]
    /\ handler' = [handler EXCEPT ![d] = "store"]
    /\ UNCHANGED <<jobs, vault, queue, attempt, objects, announced, removal>>
    /\ NoFault

\* vault.store: encrypted under its own key with a TTL, or nothing to hide.
StoreSecret(d) ==
    /\ handler[d] = "store"
    /\ \/ /\ vault' = [vault EXCEPT ![d] = request[d].protected]
          /\ handler' = [handler EXCEPT ![d] = "enqueue"]
          /\ NoFault
       \/ /\ request[d].protected
          /\ vault' \in {vault, [vault EXCEPT ![d] = TRUE]}
          /\ handler' = [handler EXCEPT ![d] = "error"]
          /\ CallFails
    /\ UNCHANGED <<request, storeVars, queue, attempt, announced, removal>>

\* Mutant: the catch around the enqueue does not rethrow.
EnqueueErrorSwallowed(d) ==
    /\ handler[d] = "enqueue"
    /\ handler' = [handler EXCEPT ![d] = "record"]
    /\ \/ queue' = [queue EXCEPT ![d].state = "waiting"] /\ vault' = vault /\ NoFault
       \/ queue' = queue /\ vault' = [vault EXCEPT ![d] = FALSE] /\ CallFails
    /\ UNCHANGED <<request, storeVars, attempt, announced, removal>>

\* queue.enqueue.  An add that throws may have reached Redis.
Enqueue(d) ==
    /\ handler[d] = "enqueue"
    /\ \/ /\ queue' = [queue EXCEPT ![d].state = "waiting"]
          /\ handler' = [handler EXCEPT ![d] = "record"]
          /\ NoFault
       \/ /\ queue' \in {queue, [queue EXCEPT ![d].state = "waiting"]}
          /\ handler' = [handler EXCEPT
                ![d] = IF request[d].protected THEN "discard" ELSE "error"]
          /\ CallFails
    /\ UNCHANGED <<request, storeVars, vault, attempt, announced, removal>>

\* The catch around it: vault.discard of the secret, if there is one, while a
\* worker may have taken the job that did reach Redis; the error goes to the
\* caller.
Discard(d) ==
    /\ handler[d] = "discard"
    /\ handler' = [handler EXCEPT ![d] = "error"]
    /\ \/ vault' = [vault EXCEPT ![d] = FALSE] /\ NoFault
       \/ vault' \in {vault, [vault EXCEPT ![d] = FALSE]} /\ CallFails
    /\ UNCHANGED <<request, storeVars, queue, attempt, announced, removal>>

RecordedJob(d) ==
    [jobs EXCEPT ![d] =
        [status |-> "queued",
         webhookStatus |-> IF request[d].webhook THEN "pending" ELSE "null"]]

\* documents.recordJob, after the enqueue.  The foreign key refuses the row
\* of a document that has been removed meanwhile.
RecordJob(d) ==
    /\ handler[d] = "record"
    /\ \/ /\ HasRow(d)
          /\ jobs' = RecordedJob(d)
          /\ handler' = [handler EXCEPT ![d] = "accepted"]
          /\ NoFault
       \/ /\ IF HasRow(d) THEN CallFails ELSE NoFault
          /\ handler' = [handler EXCEPT ![d] = "error"]
          /\ jobs' = jobs \/ (HasRow(d) /\ jobs' = RecordedJob(d))
    /\ UNCHANGED <<request, documents, objects, vault, queue, attempt, announced,
                   removal>>

\* The api process dies under the handler; the caller sees a lost connection.
HandlerCrash(d) ==
    /\ handler[d] \in {"store", "enqueue", "discard", "record"}
    /\ crashes < MaxCrashes
    /\ crashes' = crashes + 1
    /\ handler' = [handler EXCEPT ![d] = "error"]
    /\ UNCHANGED <<request, storeVars, vault, queue, attempt, announced, removal,
                   errors>>

\* The TTL of the stored secret runs out.
SecretExpires(d) ==
    /\ vault[d]
    /\ vault' = [vault EXCEPT ![d] = FALSE]
    /\ UNCHANGED <<requestVars, storeVars, queue, attempt, announced, removal>>
    /\ NoFault

-----------------------------------------------------------------------------
(* The queue (BullMQ) and the worker.                                      *)

Running == {d \in Docs : attempt[d].pc # "idle"}

Goto(d, pc) == attempt' = [attempt EXCEPT ![d].pc = pc]

\* BullMQ hands the worker a job that waits, or whose backoff has passed.
Pickup(d) ==
    /\ queue[d].state = "waiting"
    /\ Cardinality(Running) < Concurrency
    /\ queue' = [queue EXCEPT ![d].state = "active"]
    /\ attempt' = [attempt EXCEPT ![d] = [pc |-> "take", protection |-> FALSE]]
    /\ UNCHANGED <<requestVars, storeVars, vault, announced, removal>>
    /\ NoFault

\* Mutant: a missing secret is taken for a request without protection.
SecretIsOptional(d) == FALSE

\* The payload names a secret and the vault no longer has it.
SecretIsGone(d) == request[d].protected /\ ~vault[d]

\* Mutant: GET where the code has GETDEL.
GetOnly(d) == vault[d]

\* GETDEL: what take leaves in Redis.
AfterTake(d) == FALSE

\* vault.take, and the throw of a job whose secret is gone.  That throw, and
\* a failing GETDEL, are outside process()'s try block.
TakeSecret(d) ==
    /\ attempt[d].pc = "take"
    /\ \/ /\ attempt' = [attempt EXCEPT ![d] =
                [pc |-> IF SecretIsGone(d) THEN "throw" ELSE "mark",
                 protection |-> vault[d]]]
          /\ vault' = [vault EXCEPT ![d] = AfterTake(d)]
          /\ NoFault
       \/ /\ request[d].protected
          /\ Goto(d, "throw")
          /\ vault' \in {vault, [vault EXCEPT ![d] = FALSE]}
          /\ CallFails
    /\ UNCHANGED <<requestVars, storeVars, queue, announced, removal>>

\* job.updateMany to active, also outside the try block.
MarkActive(d) ==
    /\ attempt[d].pc = "mark"
    /\ \/ JobUpdateMany(d, "active") /\ Goto(d, "start") /\ NoFault
       \/ /\ jobs' = jobs \/ JobUpdateMany(d, "active")
          /\ Goto(d, "throw")
          /\ CallFails
    /\ UNCHANGED <<requestVars, documents, objects, vault, queue, announced, removal>>

\* The row of a started render; the protection is known only now.
BeginRender(d) == [documents[d] EXCEPT !.status = "rendering",
                                       !.isEncrypted = attempt[d].protection]

\* Mutant: an upsert where the code has an update.
StartRenderUpsert(d) ==
    /\ attempt[d].pc = "start"
    /\ documents' = [documents EXCEPT ![d] = BeginRender(d)]
    /\ Goto(d, "render")
    /\ NoFault
    /\ UNCHANGED <<requestVars, jobs, objects, vault, queue, announced, removal>>

\* pipeline.run on the reserved row: the row goes to rendering, or the update
\* throws because the row was removed.
StartRender(d) ==
    /\ attempt[d].pc = "start"
    /\ \/ /\ HasRow(d)
          /\ documents' = [documents EXCEPT ![d] = BeginRender(d)]
          /\ Goto(d, "render")
          /\ NoFault
       \/ /\ IF HasRow(d) THEN CallFails ELSE NoFault
          /\ \/ documents' = documents
             \/ HasRow(d) /\ documents' = [documents EXCEPT ![d] = BeginRender(d)]
          /\ Goto(d, "caught")
    /\ UNCHANGED <<requestVars, jobs, objects, vault, queue, announced, removal>>

\* Encryption comes last, and only when the attempt holds the password.
Rendered(d) == IF attempt[d].protection THEN "encrypted" ELSE "plain"

\* Mutant: a failed put is logged and the row is completed all the same.
PutFailsSilently(d) ==
    /\ objects' \in {objects, [objects EXCEPT ![d] = Rendered(d)]}
    /\ Goto(d, "commit")
    /\ CallFails

\* putPdf rejects, before or after S3 stored the body.
PutFails(d) ==
    /\ objects' \in {objects, [objects EXCEPT ![d] = Rendered(d)]}
    /\ Goto(d, "fail")
    /\ CallFails

\* Render, count, stamp, encrypt, then putPdf.  Any of the first four may
\* refuse the document.
RenderAndStore(d) ==
    /\ attempt[d].pc = "render"
    /\ \/ /\ objects' = [objects EXCEPT ![d] = Rendered(d)]
          /\ Goto(d, "commit")
          /\ NoFault
       \/ objects' = objects /\ Goto(d, "fail") /\ NoFault
       \/ PutFails(d)
    /\ UNCHANGED <<requestVars, documents, jobs, vault, queue, announced, removal>>

Committed(d) == [documents[d] EXCEPT !.status = "completed", !.storageKey = TRUE]

\* document.update to completed with the storage key; it throws when the row
\* was removed during the render, or when its reply is lost after it took
\* effect, and the catch block follows.
Commit(d) ==
    /\ attempt[d].pc = "commit"
    /\ \/ /\ HasRow(d)
          /\ documents' = [documents EXCEPT ![d] = Committed(d)]
          /\ Goto(d, "done")
          /\ NoFault
       \/ /\ IF HasRow(d) THEN CallFails ELSE NoFault
          /\ \/ documents' = documents
             \/ HasRow(d) /\ documents' = [documents EXCEPT ![d] = Committed(d)]
          /\ Goto(d, "fail")
    /\ UNCHANGED <<requestVars, jobs, objects, vault, queue, announced, removal>>

\* Mutant: the catch block rethrows without writing the row.
FailureNotRecorded(d) ==
    /\ attempt[d].pc = "fail"
    /\ Goto(d, "caught")
    /\ UNCHANGED <<requestVars, storeVars, vault, queue, announced, removal>>
    /\ NoFault

\* Mutant: a failed render also resets the storage key.
FailureClearsKey(d) ==
    /\ attempt[d].pc = "fail"
    /\ documents' = IF HasRow(d) THEN [documents EXCEPT ![d] =
                [@ EXCEPT !.status = "failed", !.storageKey = FALSE]] ELSE documents
    /\ Goto(d, "caught")
    /\ UNCHANGED <<requestVars, jobs, objects, vault, queue, announced, removal>>
    /\ NoFault

\* pipeline.run's catch block: the row goes to failed, its key untouched.
RecordFailure(d) ==
    /\ attempt[d].pc = "fail"
    /\ \/ /\ HasRow(d)
          /\ documents' = [documents EXCEPT ![d].status = "failed"]
          /\ NoFault
       \/ /\ IF HasRow(d) THEN CallFails ELSE NoFault
          /\ \/ documents' = documents
             \/ HasRow(d) /\ documents' = [documents EXCEPT ![d].status = "failed"]
    /\ Goto(d, "caught")
    /\ UNCHANGED <<requestVars, jobs, objects, vault, queue, announced, removal>>

\* The render succeeded: the job row, then the webhook if there is one.
JobCompleted(d) ==
    /\ attempt[d].pc = "done"
    /\ \/ /\ JobUpdateMany(d, "completed")
          /\ Goto(d, IF request[d].webhook THEN "hook" ELSE "return")
          /\ NoFault
       \/ /\ jobs' = jobs \/ JobUpdateMany(d, "completed")
          /\ Goto(d, "caught")
          /\ CallFails
    /\ UNCHANGED <<requestVars, documents, objects, vault, queue, announced, removal>>

\* webhooks.deliver: it never throws; the outcome of its tries is recorded on
\* the job row, and an error of that write is swallowed.
Deliver(d, event) ==
    /\ announced' = [announced EXCEPT ![d] = @ \cup {event}]
    /\ \/ /\ \E outcome \in {"delivered", "failed", "disabled"} :
                jobs' = IF HasJob(d) THEN [jobs EXCEPT ![d].webhookStatus = outcome]
                                     ELSE jobs
          /\ NoFault
       \/ jobs' = jobs /\ CallFails
    /\ UNCHANGED <<requestVars, documents, objects, vault, queue, removal>>

\* The completed event; then process() returns.
DeliverCompleted(d) ==
    /\ attempt[d].pc = "hook"
    /\ Goto(d, "return")
    /\ Deliver(d, "document.completed")

\* Mutant: compares the attempts made before this one.
IsFinalOffByOne(d) == queue[d].attemptsMade >= Attempts

\* Only the last attempt is terminal, as the worker computes it.
IsFinal(d) == queue[d].attemptsMade + 1 >= Attempts

\* process()'s catch block: nothing more unless this was the last attempt.
HandleFailure(d) ==
    /\ attempt[d].pc = "caught"
    /\ \/ ~IsFinal(d) /\ jobs' = jobs /\ Goto(d, "throw") /\ NoFault
       \/ IsFinal(d) /\ JobUpdateMany(d, "failed") /\ Goto(d, "alert") /\ NoFault
       \/ /\ IsFinal(d)
          /\ jobs' = jobs \/ JobUpdateMany(d, "failed")
          /\ Goto(d, "throw")
          /\ CallFails
    /\ UNCHANGED <<requestVars, documents, objects, vault, queue, announced, removal>>

\* The alert to the organization, if the document is still there.  A mail
\* leaves, or none: there are no recipients, no SMTP configuration, or the
\* server refuses it, and MailerService.send only logs that.
Alert(d) ==
    /\ attempt[d].pc = "alert"
    /\ \/ /\ \E told \in {{"alert"}, {"alert", "mail"}} :
                announced' = [announced EXCEPT
                                 ![d] = IF HasRow(d) THEN @ \cup told ELSE @]
          /\ Goto(d, IF request[d].webhook THEN "failedHook" ELSE "throw")
          /\ NoFault
       \/ announced' = announced /\ Goto(d, "throw") /\ CallFails
    /\ UNCHANGED <<requestVars, storeVars, vault, queue, removal>>

\* The failed event; then process() rethrows.
DeliverFailed(d) ==
    /\ attempt[d].pc = "failedHook"
    /\ Goto(d, "throw")
    /\ Deliver(d, "document.failed")

Idle == [pc |-> "idle", protection |-> FALSE]

\* process() returned: BullMQ completes the job.
JobReturns(d) ==
    /\ attempt[d].pc = "return"
    /\ attempt' = [attempt EXCEPT ![d] = Idle]
    /\ queue' = [queue EXCEPT ![d] =
          [@ EXCEPT !.state = "completed", !.attemptsMade = queue[d].attemptsMade + 1]]
    /\ UNCHANGED <<requestVars, storeVars, vault, announced, removal>>
    /\ NoFault

\* BullMQ's side of defaultJobOptions.attempts.
RetriesLeft(d) == queue[d].attemptsMade + 1 < Attempts

\* process() threw: BullMQ retries the job after a backoff, or fails it.
JobThrows(d) ==
    /\ attempt[d].pc = "throw"
    /\ attempt' = [attempt EXCEPT ![d] = Idle]
    /\ queue' = [queue EXCEPT ![d] =
          [@ EXCEPT !.state = IF RetriesLeft(d) THEN "waiting" ELSE "failed",
                    !.attemptsMade = queue[d].attemptsMade + 1]]
    /\ UNCHANGED <<requestVars, storeVars, vault, announced, removal>>
    /\ NoFault

\* The api process dies under the attempt; Redis still has the job active.
WorkerCrash(d) ==
    /\ attempt[d].pc # "idle"
    /\ crashes < MaxCrashes
    /\ crashes' = crashes + 1
    /\ attempt' = [attempt EXCEPT ![d] = Idle]
    /\ UNCHANGED <<requestVars, storeVars, vault, queue, announced, removal, errors>>

\* The lock of a dead worker's job expires: BullMQ queues the job again, or
\* fails it without calling process() when it stalled too often.
StalledCheck(d) ==
    /\ queue[d].state = "active"
    /\ attempt[d].pc = "idle"
    /\ queue' = IF queue[d].stalls < MaxStalls
                THEN [queue EXCEPT ![d] = [@ EXCEPT !.state = "waiting", !.stalls = queue[d].stalls + 1]]
                ELSE [queue EXCEPT ![d].state = "failed"]
    /\ UNCHANGED <<requestVars, storeVars, vault, attempt, announced, removal>>
    /\ NoFault

-----------------------------------------------------------------------------
(* Removal: DocumentsService.remove and RetentionService.sweep read the    *)
(* storage key, delete the object it names, and then delete the row.       *)

Reread(r, d) ==
    removal' = [removal EXCEPT ![r][d] = [pc |-> "object",
                                          storageKey |-> documents[d].storageKey]]

RemoveRead(r, d) ==
    /\ removal[r][d].pc = "idle"
    /\ HasRow(d)
    /\ Reread(r, d)
    /\ UNCHANGED <<requestVars, storeVars, vault, queue, attempt, announced>>
    /\ NoFault

\* Nothing to delete in the store without a key.
RemoveObject(r, d) ==
    /\ removal[r][d].pc = "object"
    /\ objects' = IF removal[r][d].storageKey THEN [objects EXCEPT ![d] = "none"]
                                              ELSE objects
    /\ removal' = [removal EXCEPT ![r][d].pc = "row"]
    /\ UNCHANGED <<requestVars, documents, jobs, vault, queue, attempt, announced>>
    /\ NoFault

\* The job row goes with its document (onDelete: Cascade).
RemoveRow(r, d) ==
    /\ removal[r][d].pc = "row"
    /\ documents' = [documents EXCEPT ![d] = [status |-> "removed", storageKey |-> FALSE,
                                              isEncrypted |-> FALSE]]
    /\ jobs' = [jobs EXCEPT ![d] = [status |-> "none", webhookStatus |-> "null"]]
    /\ removal' = [removal EXCEPT ![r][d].pc = "done"]
    /\ UNCHANGED <<requestVars, objects, vault, queue, attempt, announced>>
    /\ NoFault

\* A call of the removal failed, the row survives, and the removal is tried
\* again (by the caller, or by the next night's sweep).
RemoveRetry(r, d) ==
    /\ removal[r][d].pc \in {"object", "row"}
    /\ HasRow(d)
    /\ Reread(r, d)
    /\ CallFails
    /\ UNCHANGED <<requestVars, storeVars, vault, queue, attempt, announced>>

-----------------------------------------------------------------------------

HandlerStep(d) == StoreSecret(d) \/ Enqueue(d) \/ Discard(d) \/ RecordJob(d)

AttemptStep(d) ==
    \/ TakeSecret(d) \/ MarkActive(d) \/ StartRender(d) \/ RenderAndStore(d)
    \/ Commit(d) \/ RecordFailure(d) \/ JobCompleted(d) \/ DeliverCompleted(d)
    \/ HandleFailure(d) \/ Alert(d) \/ DeliverFailed(d)
    \/ JobReturns(d) \/ JobThrows(d)

RemovalStep(r, d) ==
    RemoveRead(r, d) \/ RemoveObject(r, d) \/ RemoveRow(r, d) \/ RemoveRetry(r, d)

Next ==
    \/ \E d \in Docs :
          \/ Reserve(d) \/ HandlerStep(d) \/ HandlerCrash(d) \/ SecretExpires(d)
          \/ Pickup(d) \/ AttemptStep(d) \/ WorkerCrash(d) \/ StalledCheck(d)
    \/ \E r \in Removers, d \in Docs : RemovalStep(r, d)

Spec == Init /\ [][Next]_vars

\* A live process runs its handlers and attempts on, and a worker polls the
\* queue.  A render that hangs ends with fetch's own timeout, qpdf and the
\* webhook with theirs (encryption.service.ts:80, webhook.service.ts:82), a lock
\* expires; that PostgreSQL, Redis, S3 and the mail server answer or refuse is
\* assumed.  Nothing makes a caller ask or remove, or a process die.
Fairness ==
    \A d \in Docs : /\ WF_vars(HandlerStep(d)) /\ WF_vars(Pickup(d))
                    /\ WF_vars(AttemptStep(d)) /\ WF_vars(StalledCheck(d))

LiveSpec == Spec /\ Fairness

-----------------------------------------------------------------------------
(* Properties.                                                             *)

NoFaultSoFar == crashes = 0 /\ errors = 0

Finished(d) == queue[d].state \in {"completed", "failed"}

\* What the object store holds for a request is encrypted exactly when the
\* caller asked for protection, whatever retries, expiries and crashes lie
\* between: no attempt stores an unprotected PDF for a protected request
\* (secrets.vault.ts take, render.worker.ts process).
NeverUnprotected ==
    \A d \in Docs :
        objects[d] # "none" => (objects[d] = "encrypted" <=> request[d].protected)

\* The password is in one place at a time: while the vault holds it no
\* attempt does and nothing was encrypted with it, so a replayed job cannot
\* read it a second time (the single GETDEL of secrets.vault.ts take).
SecretInOnePlace ==
    \A d \in Docs :
        vault[d] => ~attempt[d].protection /\ objects[d] # "encrypted"

\* The store and the row agree.  Once a row names its file the file is there,
\* until a removal started on that document takes it; a completed row's
\* isEncrypted flag describes that file (putPdf before the commit in
\* pipeline.run, object before row in DocumentsService.remove); and a stored
\* file whose row does not name it exists only between putPdf and the commit,
\* unless a call failed or a process died in between.
StoreAgreesWithRow ==
    \A d \in Docs :
        /\ documents[d].storageKey /\ objects[d] = "none"
              => \E r \in Removers : removal[r][d].pc # "idle"
        /\ documents[d].status = "completed"
              => /\ documents[d].storageKey
                 /\ documents[d].isEncrypted = request[d].protected
        /\ NoFaultSoFar /\ objects[d] # "none" /\ HasRow(d) /\ ~documents[d].storageKey
              => attempt[d].pc = "commit"

\* What the queue says of a finished job is what the document row says.  A
\* completed job has a completed document, whatever died, was refused or was
\* retried before.  A failed job has a failed document, or one that never
\* started because its secret expired first, as long as no process died and no
\* call was refused: after that the row of a failed job may say anything, even
\* completed (render.worker.ts process, pipeline.run).
QueueAgreesWithDocument ==
    \A d \in Docs :
        HasRow(d) =>
            /\ queue[d].state = "completed" => documents[d].status = "completed"
            /\ queue[d].state = "failed" /\ NoFaultSoFar =>
                  \/ documents[d].status = "failed"
                  \/ documents[d].status = "queued" /\ request[d].protected

\* As long as no process died and no call was refused, a job without protection
\* that used up its attempts was reported: the mailer was asked to alert the
\* organization, unless the document was removed (whether a mail leaves is up to
\* the organization's SMTP configuration), and the failed event was sent to a
\* webhook (the final branch of process()'s catch block).  And without a process
\* death nobody is told of a failure, by webhook or mail, whose receiver was told
\* document.completed, refused calls and retries included.
FailureIsReported ==
    \A d \in Docs :
        /\ queue[d].state = "failed" /\ ~request[d].protected /\ NoFaultSoFar =>
              /\ HasRow(d) => "alert" \in announced[d]
              /\ request[d].webhook => "document.failed" \in announced[d]
        /\ crashes = 0 /\ "document.completed" \in announced[d] =>
              announced[d] \cap {"mail", "document.failed"} = {}

\* When a receiver is told document.completed the row names the file, and
\* goes on naming it until it is removed (pipeline.run before deliver).
CompletedEventMeansFile ==
    \A d \in Docs :
        "document.completed" \in announced[d] =>
            documents[d].storageKey \/ documents[d].status = "removed"

\* A running attempt never brings a removed document back: update, not
\* upsert, on every write of the worker (pipeline.run, recordJob).
RemovedStaysRemoved ==
    [][\A d \in Docs :
         documents[d].status = "removed" =>
             documents'[d].status = "removed" /\ jobs'[d].status = "none"]_vars

\* Where the password of a request is, as far as it can still be used.  In two
\* places it is at a stage that OneTimeSecret does not know.
SecretStage(d) ==
    IF vault[d] /\ attempt[d].protection THEN "copied"
    ELSE IF vault[d] THEN "kept"
    ELSE IF attempt[d].protection THEN "held"
    ELSE IF handler[d] \in {"idle", "store"} THEN "new"
    ELSE "spent"

Secret ==
    INSTANCE OneTimeSecret WITH
        stage <- [d \in Docs |-> SecretStage(d)],
        sealed <- [d \in Docs |-> objects[d] = "encrypted"]

\* The password of a queued render is kept once, taken once and gone with the
\* attempt that took it, and only that attempt encrypts with it: no retry,
\* stalled job, expiry, lost answer or death puts it back (secrets.vault.ts:
\* "a replayed job cannot read the password a second time").
SecretSpec == Secret!Spec

\* What the code's comments claim beyond these, and the runs refute.

\* Whenever the render of an accepted job failed and its retries are used
\* up, the mailer was asked to alert the organization: "an alert is the only way an
\* organization learns their integration is broken" (render.worker.ts:113).
\* A retry throws for its spent secret outside the try block that alerts.
EveryFailureAlerts ==
    \A d \in Docs :
        queue[d].state = "failed" /\ documents[d].status = "failed"
            => "alert" \in announced[d]

\* A removal leaves no object with nothing pointing at it
\* (documents.service.ts:121, retention.service.ts:29): once the job is
\* settled and the row removed, the store holds nothing for the document.
NoOrphanedObject ==
    \A d \in Docs :
        Finished(d) /\ documents[d].status = "removed" => objects[d] = "none"

\* Every job that was accepted leaves the queue, completed or failed, whatever
\* fails or dies within the bounds (attempts, stalled recovery); and the poller
\* of an unprotected request gets an answer: its document leaves queued and
\* rendering (jobs.controller.ts), unless a process died or a call failed.
JobIsAnswered ==
    \A d \in Docs :
        /\ (handler[d] = "accepted") ~> Finished(d)
        /\ (handler[d] = "accepted" /\ ~request[d].protected) ~>
              (documents[d].status \notin {"queued", "rendering"} \/ ~NoFaultSoFar)

-----------------------------------------------------------------------------
(* What makes the safety properties above inductive (AsyncRenderProofs).   *)

NothingBeforeRequest ==
    \A d \in Docs :
        handler[d] = "idle" =>
            /\ documents[d].status = "none" /\ ~vault[d] /\ announced[d] = {}
            /\ \A r \in Removers : removal[r][d].pc = "idle"

\* Until the enqueue no attempt exists, and nothing an attempt makes.
NothingBeforeEnqueue ==
    \A d \in Docs :
        handler[d] \in {"idle", "store", "enqueue"} =>
            /\ queue[d].state = "none" /\ objects[d] = "none"
            /\ attempt[d].pc = "idle" /\ ~attempt[d].protection

\* An attempt runs only for an active job.
AttemptsAreActive ==
    \A d \in Docs : attempt[d].pc # "idle" => queue[d].state = "active"

\* A job that is not finished has attempts left.
LiveJobsHaveAttempts ==
    \A d \in Docs : ~Finished(d) => queue[d].attemptsMade < Attempts

\* The vault holds only passwords that were asked for, and none before the
\* handler stored it.
VaultWasAsked ==
    \A d \in Docs : vault[d] => request[d].protected /\ handler[d] # "store"

\* An attempt past take holds the password exactly when it was asked for.
AttemptHasPassword ==
    \A d \in Docs :
        attempt[d].pc \in {"mark", "start", "render"} =>
            (attempt[d].protection <=> request[d].protected)

\* Past the commit the row names its file, unless it was removed since.
CommittedNamesFile ==
    \A d \in Docs :
        attempt[d].pc \in {"done", "hook"} =>
            documents[d].storageKey \/ documents[d].status = "removed"

NoJobWithoutDocument ==
    \A d \in Docs : HasJob(d) => HasRow(d)

IInv ==
    /\ TypeOK
    /\ NothingBeforeRequest
    /\ NothingBeforeEnqueue
    /\ AttemptsAreActive
    /\ LiveJobsHaveAttempts
    /\ VaultWasAsked
    /\ AttemptHasPassword
    /\ SecretInOnePlace
    /\ NeverUnprotected
    /\ CommittedNamesFile
    /\ CompletedEventMeansFile
    /\ NoJobWithoutDocument

-----------------------------------------------------------------------------
(* What makes StoreAgreesWithRow, QueueAgreesWithDocument and              *)
(* FailureIsReported inductive (AsyncRenderProofs).                        *)

Taken(d) == \E r \in Removers : removal[r][d].pc # "idle"

\* The file is there from putPdf on, unless a removal started.
StoreInv(d) ==
    /\ HasRow(d) => documents[d].isEncrypted = request[d].protected
    /\ documents[d].status = "completed" => documents[d].storageKey
    /\ (documents[d].storageKey \/ attempt[d].pc = "commit") /\ objects[d] = "none"
          => Taken(d)
    /\ NoFaultSoFar /\ objects[d] # "none" /\ HasRow(d) /\ ~documents[d].storageKey
          => attempt[d].pc = "commit"

\* What the row says while its job is on its way through the queue.
QueueInv(d) ==
    /\ crashes = 0 /\ queue[d].state = "active" => attempt[d].pc # "idle"
    /\ HasRow(d) /\ (attempt[d].pc \in {"done", "hook", "return"}
                        \/ queue[d].state = "completed")
          => documents[d].status = "completed"
    /\ HasRow(d) /\ NoFaultSoFar =>
          /\ handler[d] \in {"store", "enqueue"} => documents[d].status = "queued"
          /\ queue[d].state = "waiting" \/ attempt[d].pc = "take"
                => documents[d].status \in {"queued", "failed"}
          /\ attempt[d].pc \in {"caught", "alert", "failedHook"}
                => documents[d].status = "failed"
          /\ attempt[d].pc = "throw" \/ queue[d].state = "failed"
                => \/ documents[d].status = "failed"
                   \/ documents[d].status = "queued" /\ request[d].protected

\* Everyone who had to hear of the failure has.
Reported(d) ==
    /\ HasRow(d) => "alert" \in announced[d]
    /\ request[d].webhook => "document.failed" \in announced[d]

\* What has been announced by the time an attempt is at a step.
NoticeInv(d) ==
    /\ attempt[d].pc \in {"alert", "failedHook"} => IsFinal(d)
    /\ crashes = 0 /\ "document.completed" \in announced[d]
          => attempt[d].pc = "return" \/ queue[d].state = "completed"
    /\ crashes = 0 /\ "document.failed" \in announced[d]
          => \/ attempt[d].pc = "throw" /\ IsFinal(d)
             \/ queue[d].state = "failed"
    /\ crashes = 0 /\ "mail" \in announced[d]
          => \/ attempt[d].pc \in {"failedHook", "throw"} /\ IsFinal(d)
             \/ queue[d].state = "failed"
    /\ NoFaultSoFar /\ ~request[d].protected =>
          /\ attempt[d].pc = "failedHook" /\ HasRow(d) => "alert" \in announced[d]
          /\ attempt[d].pc = "throw" /\ IsFinal(d) => Reported(d)
          /\ queue[d].state = "failed" => Reported(d)

OutcomeInv == \A d \in Docs : StoreInv(d) /\ QueueInv(d) /\ NoticeInv(d)

=============================================================================
