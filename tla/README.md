# PDFly: specifications, model checks and proofs

TLA+ models of the stateful core of PDFly, translated from the TypeScript under
`apps/` and the Prisma schema, with TLC runs on small instances and TLAPS proofs
for every value of the constants. `PROJECT.json` lists components, runs, mutants,
the source lines of every definition, findings, hazards and theorems.

Run a model with `tlc -workers 2 -config <Run>.cfg MC<Module>.tla`, a proof with
`tlapm <Module>Proofs.tla`.

## 1. The system

PDFly turns HTML into PDF. An **api** (NestJS; several instances may run) accepts
requests, a **renderer** (Fastify around a pool of Chromium processes) renders
them, a **web** dashboard signs users in. State lives in PostgreSQL (documents,
jobs, SMTP configurations, usage, users, tokens, audit), in Redis (the BullMQ
queue, PDF passwords, idempotency keys, usage counters, refresh-token families,
rate-limit windows, the retention lock), in S3 (the PDFs) and, in each process, in
memory (browser slots and waiters, the SMTP transport cache, a tab's access token).

| component | state | operations | what is hard | what makes it correct |
|---|---|---|---|---|
| guards (`auth/`, `ratelimit/`) | a sorted set per caller | authenticate, consume | clocks of instances differ; the set is pruned and expires | at most the limit in any window; a token dead by every clock gets nowhere |
| synchronous render (`pdf/`, `protection/`, renderer client) | row, object, a temporary file | create, render, stamp, encrypt, store, complete, meter | any await may fail | caller, row, object and bill agree; what is stored is what was asked for |
| asynchronous render (`queue/`) | document row, job row, BullMQ job, attempt in progress | POST /v1/pdf/async, an attempt of the worker, retry, stalled recovery, GET of the job | retries after partial success; death between any two awaits; removal during a render | queue, row, file and notices agree; the job ends |
| secrets vault (`queue/secrets.vault.ts`) | one password per job, with a TTL | store, take (GETDEL), discard | a retry finds nothing; expiry | no unprotected PDF for a protected request; one reader |
| documents, retention | rows and objects, the lock | list, remove, sweep | pages move under the cursor; sweeps overlap; failing batches | pages join; no object without a row; expired documents go |
| webhooks, alerts | `jobs.webhookStatus` | deliver, renderFailed | told once, told the truth | `document.completed` means a row that names its file; a failure of an unprotected job is reported, until a fault |
| SMTP configurations (`smtp/`) | rows, default flag, transport cache per instance | create, update, remove, test, send | two transactions and a partial unique index; caches and verification go stale | current settings used; one default; changes of it wait in short chains, unless one came late |
| idempotency keys (`usage/idempotency.service.ts`) | one Redis key | claim, fulfil, release | SET NX and GET are two steps; DEL checks no owner; the claim expires | one render, one document, no failure replayed, key freed |
| usage metering (`usage/usage.service.ts`) | hash per day, dirty set, `usage_daily` | recordRender, flush, daily | flushes overlap; drained numbers are only in a stack frame | never counted twice, not lost without a fault |
| API tokens (`tokens/`, the settings page) | rows, audit entries, the page's list | create, list, revoke | the entry is a second statement; answers are lost | the log tells the history; no token of the page works unseen in silence |
| sessions (`auth/`, `users/`) | families, index per user, cookie per browser | login, refresh, logout, change of password | tabs share a cookie; revocation races login and refresh | the cookie is current; revoked sessions end for good |
| dashboard tab (web `lib/api.ts`, playground) | access token, exchange in flight, the playground's state | authedFetch, refreshSession, sign-in, previews | several 401s at once; answers in any order | one exchange at a time; the preview is of the input, unless the editor was emptied |
| browser pool (`apps/renderer`) | slots, waiters | acquire, timeout, release, recycle, stop | timeout against release; recycling awaits; browsers hang | one holder per slot, none leaks but by a failed launch, every call answered unless its own browser hangs |
| net guard, password hashing, remaining pages, deployment | none | | pure, or forms | not modelled, see 7 |

**Interaction.** Every request passes the guards. The asynchronous handler writes
the row, the vault and then the queue; the worker takes jobs and drives pipeline,
renderer client, storage, webhook and mailer; `remove` and the sweep touch the
same row and object with no lock. The synchronous render goes through an
idempotency key and records usage. The dashboard's tabs share only the browser's
cookie.

## 2. Modules

| module | models | state in the code |
|---|---|---|
| `AsyncRender` | one asynchronous request from POST to settled, with its removals | `documents`, `jobs`: the rows; `vault`: the Redis secret; `queue`: the BullMQ job; `attempt`: the stack frame of `RenderWorker.process`; `objects`: S3; `announced`: what left the system; `removal`: frames of `remove` and the sweep |
| `Pipeline` | one synchronous render, the protection it applies, and the playground that opens its settings again | `pc`: the next await of `run`; `file`, `temp`: the PDF in memory and on disk; `document`, `stored`, `metered`: row, object, bill; `reply`; `unheard`: history of writes that threw though they were done |
| `Idempotency` | requests that carry one key | `key`: the Redis value; `pc`: the request; `rows`; `answer`: what the caller heard |
| `UsageMetering` | one organization's counters | `counters`, `dirty`: Redis; `usageDaily`: PostgreSQL; `flush`: frames of `flush`/`flushOne`; `reader`: a frame of `daily` |
| `Library` | one organization's documents: list, page, removals, sweeps | `row`, `objects`; `lock`; `sweep`: frames of `nightly`; `page`, `query`, `more`: React state and requests; `removal` |
| `Smtp` | one organization's SMTP configurations at READ COMMITTED | `rows`, `cache`: the transports of every instance; `op`: requests up to their next await |
| `ApiAccess` | what stands before every handler | `tokens`: rows; `members`, `expireAt`: sorted sets in Redis; `clock`: the time of Redis; `call`; `log`: history of verdicts |
| `SlidingWindow` | abstract: what a rate limiter promises over the whole history | none: a specification |
| `OneTimeSecret` | abstract: what the vault promises about a password | none |
| `FairSemaphore` | abstract: what the browser pool promises its callers | none |
| `Tokens` | minting and revoking tokens, the audit log, the settings page | `rows`, `audit`; `request`: handlers; `page`, `list`: React state |
| `Sessions` | one user's sessions | `families`, `index`: Redis, with what is left of their TTLs (`window`); `password`: the user's row; `cookie`: browsers; `tab`: the request of a tab |
| `Dashboard` | one tab | `accessToken`, `inFlight`, `exchange`: module state of `lib/api.ts`; `signedIn`; `call`; `pane`: the playground |
| `BrowserPool` | one renderer process | `slots`, `waiters`; `call`: frames of `withBrowser` |

`MC<Module>` instantiates a module for TLC; `<Module>Proofs` holds its theorems.
Three proof modules serve two components each: `ApiAccessProofs` also `Tokens`,
`PipelineProofs` also `BrowserPool`, `DashboardProofs` also `Smtp`. That is why some
names there carry a prefix (`PoolInit`, `AccessSpec`).

An action is what one actor does between two awaits that another actor can
observe. A rejected call is a disjunct of the action that makes it, and a rejected
write may have taken effect before its reply was lost: both outcomes are
possible, in every module (a transaction that is rolled back is a step of its own
beside the commit nobody hears of). A dead process loses its frames and keeps what
it wrote. Operators commented "Mutant" are not part of any specification: each is a
plausible bug, and shows that the property listed with it in `PROJECT.json` can be
violated.
Every module states its type invariant `TypeOK` (theorems of their own for
`AsyncRender`, `Idempotency` and `UsageMetering`, a part of the inductive invariant
elsewhere); runs spend their properties on what could go wrong instead.

**Refinement.** Three modules implement an abstract specification; each is a
property of its run and a theorem.

- `ApiAccess` implements `SlidingWindow`: `LimiterSpec` is the abstract
  specification under `Slack <- Lag + Lead`. The abstract limiter looks at every
  verdict ever given; the code keeps a sorted set it prunes by the caller's stamp
  and lets expire. A call is served only if fewer than the limit were served within
  the window less the slack, and refused only if the limit was served within the
  window plus the slack.
- `AsyncRender` implements `OneTimeSecret` (`SecretSpec`): a password goes from new
  to kept, held and spent and never back. Kept is the Redis key, held the stack
  frame of an attempt, new a handler before its SET; a password in two places is at
  no stage of the abstract module. So this implies `SecretInOnePlace`, and says
  more: no retry puts a password back.
- `BrowserPool` implements `FairSemaphore` (`SemaphoreSpec`): the calls inside are
  those that hold a slot, the permits are the slots, and a failed launch loses one.
  The abstract semaphore counts; the code searches for a slot whose flag is off.
  Order is only stated here: callers are served as they came. The part of the
  inductive invariant about the queue, `NoIdleSlotWhileWaiting`, is a theorem too.

Abstractions worth knowing:

- `AsyncRender`: a document is named by its request; HTML and PDF bytes are
  absent, a stored object is plain or encrypted; a webhook delivery with all its
  tries is one step with its recorded outcome. BullMQ is external, modelled from
  how `render.queue.ts` configures it and `render.worker.ts` uses it: three
  attempts, one stalled recovery, then failed.
- `Pipeline`: a PDF is its pages, which of them are stamped, where, and what its
  encryption allows. qpdf, pdf-lib and the file system are external; `rm` in the
  `finally` of `encrypt` may refuse, and `temp` is then `stuck`. A watermark's stamp
  is four by two units, so that a quarter turn moves it.
- `UsageMetering`: the four counters of a day move together and are one number.
- `Library`: ids grow with `createdAt` and may share it; expiry follows the ids.
  `Sorted` chooses the one function that lists a set in order, and `Without` filters
  by positions: the provers know neither of the library's sorts and filters.
- `Smtp`: the settings of a row are a version number. A statement sees what is
  committed when it starts, waits for rows another transaction wrote and looks at
  them again. The last statement of a change waits for its row, writes it, and then
  waits in the partial unique index with that row in hand; the commit is a third
  step.
- `ApiAccess`: time is a clock of Redis; a stamp is off by `Lag` behind (the call's
  way to Redis and a slow clock) and `Lead` ahead. Redis runs the script as one
  step. `authenticate` compares `expiresAt` with the clock of its instance, any time
  from `Lag` behind to `Lead` ahead; `Dead` is revoked, or expired by all of them.
- `Sessions`: every rotation draws a fresh secret, so a family's generation
  stands for the hash and its predecessor for `previousHash`. Of the TTLs only their
  order counts: a login renews the index with its family, a rotation may move the
  family's end past it (`window = "extended"`: the script rounds to seconds, and in
  the last half second falls back to the whole TTL), and the index may then expire
  first (`IndexExpires`, `"lapsed"`).
- `Tokens`: a process may die between the row and its audit entry (`Die`).
- `Dashboard`: the tab has one thread; what awaits a settled promise runs before
  the next task. What the api does with the cookie is `Sessions`.
- `Idempotency`: a synchronous render is one step with two outcomes (`Pipeline` has
  its steps). A replay reads the key, the row, and the row again for the download
  link, and anything may happen between them. The 24 hours of a remembered document
  outlive the model.
- `BrowserPool`: the process is single threaded, so a step runs to its next
  await; a browser is up, down, or over its memory ceiling, and whatever is awaited
  of it may never settle (`Hang`).

## 3. Runs

| run | asks | bounds |
|---|---|---|
| `async_render` | Do passwords, files, rows, queue and notices stay consistent, is a password used once, and does the job end? | one request with any options, one removal, three attempts, two deaths, two calls that are refused or lose their reply |
| `pipeline` | Is what is stored what was asked for, does the plain copy go, and do caller, row and bill agree, whatever fails or is done and throws? | 57 watermark blocks, 28 protection blocks, one to four pages against a limit of three |
| `pipeline_seed` (refuted) | Can the settings of a stored document be previewed? | the same |
| `idempotency` | One render, one document, no failure replayed, key freed? | three retries, one early expiry, one death, one rejected call |
| `usage` | Counted once, not lost, not stranded, dashboard sound? | two days, two flushes of one entry each, two renders a day, one death, one rejected call |
| `library` | Do pages join, is no object orphaned, do expired documents go? | three documents, pages of one; two filters, two clicks on "Load more"; two sweeps of batches of two; one removal, one fault (a call refused or its reply lost, a death), any lasting refusal of the bucket |
| `smtp` | Are caches, verification and the default sound, and do changes of it wait in chains of two at most, but for latecomers? | two writing requests and a test or a mail, none to two configurations at the start, two instances, any reply lost |
| `api_access` | Does the sorted set implement the window, is Retry-After honest, is a dead token stopped? | three requests, limits of one and two, a window of three ticks, seven instants, stamps one tick late; a token that expires at the fourth or is revoked |
| `tokens` | Does the audit log tell the history, and does the page keep up? | two tokens, three requests, any of them refused, done and not heard of, cut off by a death, or its answer lost |
| `sessions` | Is the shared cookie current, do sessions end? | two tabs of one browser, two logins, three generations, one change, one fault; the index expires when a rotation outlived it |
| `dashboard` | One exchange at a time, retries with new tokens, previews of what the editor holds? | four requests, three exchanges, two tokens, three inputs |
| `browser_pool` | One holder, no leak, nobody waits beside a free slot, a fair semaphore for its callers, everyone answered whose browser does not hang? | four calls, two slots of two jobs, one worn browser, two failed launches, any number of hung calls |

**Why the bounds are enough.** Nothing in `AsyncRender` couples two requests but
the queue's concurrency; two deaths and two failed calls put a fault at each of
two places of one life, and three attempts are the code's own number. A limit of
three pages and renders of one, three and four reach "within", "at" and "past" the
limit, and ranges that end past the last page, start at zero and run backwards.
Two tabs are the least that share a cookie, three generations let a grace answer
follow a rotation. Two overlapping flushes with a batch of one take the same day
one after the other. A third retry is needed for the race between a failed render,
a request between its SET and its GET, and a new claim. Two configurations can
each want the default, and a third request connects while they do. Two requests
fill a budget of two and a third finds it full, in it or after it: seven instants are two
windows. A third request lets two revocations of one token race beside a creation.
Pages of one document make every row a boundary, two documents share a
millisecond, and sweeps with batches of two stop on a batch of refusing objects.
Four requests of a tab allow a save, a seed and two previews, with three
exchanges for one after the other. Four calls over two slots leave two in the
queue while slots are handed over and recycled. The proofs remove the bounds for
the properties in section 4.

**Fairness.** Only calls that were started settle, and timers and workers run: the
handler and an attempt make progress and BullMQ picks up, retries and recovers
jobs (`AsyncRender`); `@Interval` flushes run and settle (`UsageMetering`); requests
run on and Redis expires what has a TTL (`Idempotency`); the cron fires, a sweep
goes on and the lock expires (`Library`). Behind it stand the timeouts of qpdf and
of the webhooks, the one Node's `fetch` has when a renderer hangs, BullMQ's locks,
and an assumption: PostgreSQL, Redis, S3 and the mail server answer or refuse.
Inside the renderer nothing of the kind is assumed. Of what a render awaits there
only `page.setContent` has a timeout; `page.pdf`, the making and closing of pages,
contexts and browsers, and launches have none. So a holder of a slot may hang at
any of its awaits, for good (`Hang`), and `EveryCallSettles` is about the calls that
do not: they go on, and the acquire timer of a waiting call fires (`BrowserPool`).
No fairness is assumed of callers, users, deaths, failures, or of any branch of a
choice. The other modules have no liveness property: nothing in them must happen
without a caller.

Deadlock checking is off where the system may be at rest: every request settled,
every retry answered, the user signed out, the pool stopped. It is on for
`UsageMetering`, where the dashboard can always load, and for `Pipeline`, where the
playground can always preview.

## 4. Proofs

| theorem | states, for all values of the constants |
|---|---|
| `AsyncRenderProofs!TypeCorrect` | types; no job makes more than `Attempts` attempts |
| `AsyncRenderProofs!ProtectionHolds` | no unprotected file is stored for a protected request |
| `AsyncRenderProofs!SecretReadOnce` | a password is in the vault or with an attempt, never both, never in the vault after it encrypted |
| `AsyncRenderProofs!PasswordIsUsedOnce` | the vault, the worker and the store implement `OneTimeSecret` |
| `AsyncRenderProofs!CompletedEventIsTrue` | `document.completed` means a row that names its file until it is removed |
| `AsyncRenderProofs!NoResurrection` | a removed document and its job stay removed |
| `AsyncRenderProofs!RowAndFileAgree` | a row names a file that is there, and the flag on it is right, until a removal |
| `AsyncRenderProofs!FinishedJobsAgree` | a job that BullMQ completed has a completed document, whatever died or was refused; one that it failed has a failed document, or is a protected one that never started, until a process dies or a call is refused |
| `AsyncRenderProofs!FailuresAreReported` | until a process dies or a call is refused, an unprotected job that used up its attempts was reported: the mailer was asked, the webhook told; without a death nobody hears of a failure after `document.completed` |
| `PipelineProofs!WhatWasAskedFor` | a completed row points to the PDF that was asked for: pages, permissions, limit |
| `PipelineProofs!OneStoryTold` | answer, row, object and bill agree, whichever await failed and whether or not a write that threw was done; the two places where such a write leaves them apart are named |
| `PipelineProofs!NothingPlainRemains` | the plain PDF is on disk only until `rm`; it outlives that if the process died, or if `rm` was refused, and then the caller is told 500 and nothing was stored |
| `PipelineProofs!SlotsAreExclusive` | a slot has one holder and is busy under it; none leaks but by a failed launch |
| `PipelineProofs!NobodyWaitsBesideAFreeSlot` | the queue is the calls that wait, and it is empty beside a free slot |
| `PipelineProofs!PoolIsAFairSemaphore` | the pool implements `FairSemaphore` |
| `IdempotencyProofs!TypeCorrect` | types |
| `IdempotencyProofs!OneWinner` | while claims hold, one request renders at a time, under the key's claim |
| `IdempotencyProofs!NoFailureReplayed` | keys and answers name completed documents only, whatever fails or expires |
| `IdempotencyProofs!OneDocumentPerKey` | while claims hold and nothing fails, one document per call |
| `IdempotencyProofs!RecordedForGood` | while claims hold, a recorded document is never released or replaced |
| `UsageMeteringProofs!TypeCorrect` | types |
| `UsageMeteringProofs!EachRenderCountsOnce` | no render is counted twice, and none is lost until something fails; the dashboard never shows more than happened |
| `UsageMeteringProofs!NoneStranded` | until something fails, counters in Redis are some flush's to take |
| `LibraryProofs!NoOrphanedObject` | every object of a document that landed with its row is named by a present row, however sweeps and removals overlap and fail |
| `LibraryProofs!TableIsAStretch` | until a page of another filter is appended (`mixed`), the table is one stretch of the list in order, without gap or repetition, up to its cursor |
| `ApiAccessProofs!AuditIsTrue` | no token is handed out without its entry, no entry is about what did not happen, and one is missing only while its request is in flight or for one of the three reasons in `unaudited` |
| `ApiAccessProofs!PageStaysCurrent` | the settings page shows what the table holds, up to requests under way and answers lost |
| `ApiAccessProofs!DeadTokensStop` | a token revoked on arrival, or expired then by every clock, reaches no handler and spends no budget |
| `ApiAccessProofs!LimiterInvariant` | the sorted set holds what still counts, and its TTL outlives it |
| `ApiAccessProofs!LimiterImplementsSlidingWindow` | the guard, the script and Redis implement `SlidingWindow` |
| `ApiAccessProofs!RefusalsAreHonest` | who waits as long as it was told is not refused, unless others spent the budget |
| `SessionsProofs!CookieStaysCurrent` | the cookie of a browser is the current one of its family, up to answers under way and faults |
| `SessionsProofs!PasswordChangeEndsSessions` | a finished change of password ended every older session, save those it raced with and those that outlived their index |
| `SessionsProofs!GoneIsFinal` | a family that is gone never lives again |
| `DashboardProofs!OneExchangeAtATime` | a tab has one exchange of its cookie in flight |
| `DashboardProofs!RetriesDiffer` | a refused request is sent again only with another token |
| `DashboardProofs!PreviewsAreCurrent` | while the editor holds something, the preview on screen is of it, or one is on its way, or an error or a save stands in the way |
| `DashboardProofs!TransportsAreCurrent` | an instance sends with the settings of the row, unless it raced with the change |
| `DashboardProofs!TestsCount` | a configuration is marked verified only for settings that were tested, unless another request committed while the test was on its way (`suspect`) |
| `DashboardProofs!AloneIsNeverRefused` | the unique index refuses only a request beside another one |
| `DashboardProofs!WaitsAreShort` | changes of the default wait in chains of two at most, so in no circle, unless one of them came late to the index |

They assume the named assumption on the constants of each module
(`ConstantsAssumption`, `AccessAssumption`, `PoolAssumption`, `SmtpAssumption`) and
nothing else, but for `RefusalsAreHonest`, which takes `Slack < Window` as its
hypothesis: clocks that err by a whole window promise nothing. The argument
is the same throughout: an inductive invariant of named parts, at the end of the
module, checked by TLC as an invariant before it was proved; one lemma per action
or per part; and one theorem from both. A refinement adds the initial states and
one lemma that maps every action to an abstract one or to a stutter.

- `AsyncRender!IInv`. `NeverUnprotected` alone is not inductive: a state in which an
  attempt past `take` has lost the password would store a plain file.
  `AttemptHasPassword` closes it, and rests on `SecretInOnePlace`, which rests on
  `VaultWasAsked` and `NothingBeforeEnqueue`. `CompletedEventMeansFile` needs
  `CommittedNamesFile`. `LiveJobsHaveAttempts` bounds `attemptsMade`. The same
  invariant carries the refinement of `OneTimeSecret`: a new password cannot be in
  the vault or with an attempt already.
- `AsyncRender!OutcomeInv`, on top of `IInv`: what row and store say at each step of
  an attempt (`StoreInv`), what the row says while the job passes through the queue
  (`QueueInv`), and who has been told by then (`NoticeInv`, `Reported`). Its
  conditions about faults need that a step never takes a fault back.
- `Pipeline`. `OneStory` says nothing of a run in progress; `StoryUntil` says how far
  row, object and bill have come at every await. `DeliveredAsAsked` needs `FileInv`,
  what the steps so far have made of the PDF, and `SelectionIsExact`: `resolvePages`
  finds exactly the pages that were asked for, for every length of a document and
  every set of ranges that is not nonsense. Its heart is `RangeIndices`, the shift
  from pages to indices and the clamp at the last page.
- `BrowserPool!PoolInv`. Holders are alone and hold busy slots (`HolderInv`), free
  slots have jobs left (`JobsLeft`), and the queue is the waiting calls without
  repetition (`WaiterInv`), which is what makes `indexOf` find the right one. The
  semaphore also needs `CountInv`: calls inside and launches that failed add up to
  the busy slots, so that a slot whose flag is off is a permit to spare.
- `Idempotency!IInv`. `ExactlyOneWins` needs that a working request was let through
  by a claim (`ClaimBeforeWork`); then, while every claim is an owner's, a claim
  cannot time out under it, nobody else can set the key, and the only one who may
  move it is its owner. `OneDocument` follows from `DocumentIsRecorded`: every
  document is about to be recorded or is named by the key.
- `UsageMetering!IInv`. Every recorded render is in one place: a counter, the entry
  of one flush, or the table (`NoneTwice`, `SeriesInv`). The sum over the flushes is
  a recursive function over a finite set; that it may be unfolded at any element is
  proved by a least counterexample, since induction has no proof rule here.
  `NothingStranded` itself: a drain takes the counters with the entry, and SPOP turns
  a mark into an entry.
- `Library!IInv`. A row goes only when its object has gone: `RemovalInv` for a
  user's removal at its third step, `FrameInv` for a sweep that holds removable
  rows. Both must exclude a document that does not exist yet, which would come
  with a new object.
- `Library!PageInv`. The table is a `Stretch` of the matching rows, and every
  matching row at or before its last one that still exists is in it (`Covered`). A
  page that was asked for after its last row is a stretch too, and two stretches that
  meet join (`StretchesJoin`). New rows only come in front and others only go, so
  what was covered stays covered while the request is under way. Sorting exists
  because every row of a finite set has a rank (`SortedExists`).
- `Tokens!IInv`. An entry that is missing is owed by a request at its second
  statement (`EntryInv`), and that statement is about something that happened
  (`HandlerInv`), or lost with a process and then in `unaudited`. `PageInv` follows
  the settings page: what a request will answer (`RequestInv`), what the list under
  way was read from (`ListInv`), and what the table on screen owes to either
  (`TableInv`).
- `ApiAccess!AccessInv`. Nothing has happened to a request before the guard looks,
  and a token that was dead on arrival is dead when it does (`UntilTheGuard`): time
  only goes on, so what every clock calls expired stays so. There it is `Stopped`.
- `ApiAccess!LimiterInv`. `SetInv` ties the sorted set to the log: its members were
  served on that key, it does not expire while one of them counts, and whoever was
  served within the window less the slack is a member. Counting in the abstract log
  is then counting in the set. `RetryInv` adds what a refusal saw: members that
  count after it counted then (`RefusedInv`), and there is room for who waited
  (`RoomInv`).
- `Sessions!IInv`. Each secret of a live family has one home: a cookie, or one tab's
  request or answer (`OneHome`, `IssuedInv`, `RequestInv`). Without it two tabs could
  rotate one family. `KnownInv` ties tokens to their families, and what revocation
  read in the index leaves out only families that are `Missed`: raced or lapsed.
- `Dashboard!IInv`. `inFlightRefresh` stands for the exchange in flight exactly
  while there is one (`ShareInv`, `FlightInv`), and what waits for an exchange
  carries an older token than the exchange brings (`RetryInv`). `PaneInv` orders the
  previews that are under way by their input.
- `Smtp!SmtpInv`. What a request has read (`Reads`), which transports it still has to
  drop (`Clears`), which rows it has written and not committed (`Locks`), that these
  are `Apart`, that committed rows have `OneDefault`, that whoever is in the index as
  the next default holds the present one and is alone there (`IndexInv`), and that a
  cached transport is the row's or somebody's to drop (`CacheInv`).

Only model-checked: liveness (`JobIsAnswered`, `KeyIsFreed`, `EventuallyFlushed`,
`ExpiredIsRemoved`, `EveryCallSettles`), which the prover cannot do under fairness.
Every invariant, action property and refinement of the passing runs is a theorem.

## 5. Findings

`pipeline_seed` refutes what a comment of the playground says: "Arriving from a
document carries its settings across". The row's `optionsJson` of a stamped or
protected document holds `watermark` and `protection` beside the render options,
the playground sends all of it as options, and validation refuses unknown options:
every preview from there is a 400.

Known deviations are kept as configurations outside the listed runs; each one
fails, and shows the shortest way there.

| configuration | property | what happens |
|---|---|---|
| `AsyncRenderAlerts.cfg` | `EveryFailureAlerts` | a protected job whose first attempt failed throws at `render.worker.ts:77`, before the `try` whose `catch` reports: no alert, no webhook |
| `AsyncRenderOrphan.cfg` | `NoOrphanedObject` | `remove` uses the storage key it read before the worker stored the file; no sweep finds an object without a row |
| `UsageMeteringDropped.cfg` | `FailedFlushCanBeRetried` | the drain has deleted the counters when the upsert rejects |
| `IdempotencyOneWins.cfg` | `NoSecondRender` | a GET that finds the key gone answers "claimed" without claiming |
| `SessionsCleared.cfg` | `ClearedCookieIsWorthless` | the refresh handler clears the cookie on every error, also when the session lives |
| `SmtpStale.cfg` | `ChangeTakesEffect` | a message that read the row before an update was answered puts its transport into the cache, and later mail uses it |
| `BrowserPoolHung.cfg` | `EveryCallIsAnswered` | a browser hangs in an await without a timeout and keeps its call, and its slot, for ever |
| `SmtpDeadlock.cfg` | `NoDeadlock` | a change of the default that cleared nothing waits in the unique index with its own row in hand, for one that wants that row |
| `SessionsOutlive.cfg` | `IndexIsComplete` | a rotation rounds its family's TTL up, or starts it anew, and the index expires under a live session |
| `DashboardEmptied.cfg` | `EmptiedEditorRests` | the editor is emptied while its preview is on its way: the spinner never ends and the old PDF stays |
| `LibraryLoadMore.cfg` | `OnlyNewestQueryWrites` | "Load more" is appended to the table of the filter that was chosen meanwhile |

## 6. Conditions inside the properties

Some properties hold under a condition, which says what the code does not promise.

- `NoFaultSoFar` (AsyncRender): what the row of a failed job says
  (`QueueAgreesWithDocument`) and that its failure is reported (`FailureIsReported`)
  hold until the first death or refused call; a completed job has its document
  always. `FailureIsReported` is about unprotected jobs (`AsyncRenderAlerts.cfg` shows
  the others), and of the mail it says that the mailer was asked: `send` does
  nothing without a configuration and only logs what the server refuses.
- `unheard`, `stuck` (Pipeline): a write of the row that was done though its call
  threw. After one by the catch, row and caller carry different codes; after one by
  the completion, a failed row names an object. A temporary directory `rm` refused
  to remove stays; the caller of that render gets a 500. The page limit is about
  files pdf-lib can read.
- `ClaimsHold` (Idempotency): no render outlives its 120 seconds and nobody was let
  through by a GET. Without it only `NoFailureIsReplayed` and `KeyIsFreed` hold.
- `NoFaultSoFar` (UsageMetering): the code chooses losing over double counting, so
  the two upper bounds of `CountedOnce` hold always, its lower bound and
  `NothingStranded` until the first fault.
- `raced` (Sessions): a login whose index entry fell between SMEMBERS and the MULTI
  of `revokeAllForUser`, or that verified the old password before the change and
  opened its session after it. `lapsed`: a session that a rotation moved past the
  expiry of the index, which then lost it. `OldSessionsEnd` holds for all that are
  neither (`Missed`).
- `failures = 0` (BrowserPool, the part of `OneHolder` about leaks): a failed launch
  of a replacement loses its slot. `EveryCallSettles` has no such condition, but ends
  in `hung` for a call whose own browser never answers.
- `Slack` (ApiAccess): what the clocks of the instances and the way to Redis add up
  to. With equal clocks and instant calls the window is exact. `Dead`: while the
  instances disagree on whether a token has expired, it depends on the instance.
- `raced`, `suspect`, `overlapped` (Smtp): a cache of another instance that no
  invalidation reaches, or whose request never heard of its own commit; a test that
  a change overtook; a request beside which another one committed. `Latecomer`: a
  change of the default that waits in the index and holds no default: there was none
  when it looked, or another one has taken it over since.
- `Cardinality(refused) < BatchSize` (Library): a full batch of objects the bucket
  refuses ends every sweep before newer documents. `mixed`: see `LibraryLoadMore`.
- `unaudited`, `hasty` (Tokens): an entry that was refused, or was owed by a request
  whose write threw although it was committed, or whose process died in between, is
  never written later; a token that is minted before the list has arrived is
  overwritten or shown twice by it.
- `failed`, `saving`, `input # Blank` (Dashboard): an error of any kind is shown in
  place of the preview until the next one, and of an emptied editor nothing is
  claimed: see `DashboardEmptied`.

## 7. Not modelled

Pure functions and I/O with no state to interleave: token formats, password
hashing, the address predicates of the net guard, mail templates, problem details,
logging, configuration and health checks, seeds and migrations, deployment; the
dashboard's panels and its usage, SMTP and profile pages, which send forms and show
the answer. The HTTP exchange between api and renderer is one step that succeeds
or fails.

Behaviour of the code that is known and that no property covers yet: the job row is
created after the enqueue, so a fast worker updates no row; a rotation whose answer
is lost; a stamp that is turned is not centred on its anchor (`OffsetOf` computes
where it lands); a crash leaves a synchronous row in `rendering` for ever; a replay
whose read of the row is refused is answered as of a deleted document
(`pdf.controller.ts:117`); the encryption service remembers for good that qpdf was
not found; the logo's FileReader closes over stale options
(`protection-panel.tsx:139`); changes of the theme may be saved out of order.

## 8. Plan

Done: the modules and proofs above. Next, in this order:

1. Another abstract specification: a call that is answered with one document
   (`Idempotency`).
2. `Sessions` with the TTL of the cookie, and what a lost answer of a rotation costs.
3. The job row that is created after the enqueue, as part of `AsyncRender`'s
   properties.
4. The theorems of what 2 and 3 change.
