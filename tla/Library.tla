------------------------------- MODULE Library -------------------------------
(***************************************************************************)
(* One organization's stored documents: the paginated list of the api      *)
(* (documents.service.ts), the dashboard page that shows it                *)
(* (documents/page.tsx), a user's deletions, and the nightly retention     *)
(* sweep every instance starts (retention.service.ts).                     *)
(*                                                                         *)
(* Documents are numbers.  A larger id is created no earlier; two may      *)
(* share a millisecond, and expire in the order of their ids.              *)
(***************************************************************************)
EXTENDS Naturals, FiniteSets, Sequences, SequencesExt, FiniteSetsExt

CONSTANTS
    Docs,          \* ids, in the order of their creation
    Landed,        \* those that exist at first
    CreatedAt,     \* milliseconds
    SourceOf,      \* what the filter of the page looks at
    Sources,
    All,           \* no filter
    Keyless,       \* failed renders, which stored nothing
    Expiring,      \* documents with an expiresAt
    Sweepers,      \* instances
    NoDoc,
    Setups,        \* whether a page is open, and RETENTION_SWEEP_ENABLED
    PageSize,
    BatchSize,
    MaxBatches,
    MaxQueries,    \* bound on the filters a visit applies
    MaxClicks,     \* bound on "Load more"
    MaxRemovals,   \* bound on DELETE requests
    MaxFaults      \* bound on deaths and on calls that fail for no lasting reason

ASSUME ConstantsAssumption ==
    /\ Docs \subseteq Nat /\ IsFiniteSet(Docs) /\ NoDoc \notin Docs
    /\ Landed \subseteq Docs /\ Keyless \subseteq Docs /\ Expiring \subseteq Docs
    /\ CreatedAt \in [Docs -> Nat]
    /\ \A d, e \in Docs : d < e => CreatedAt[d] <= CreatedAt[e]
    /\ SourceOf \in [Docs -> Sources] /\ All \notin Sources
    /\ {PageSize, BatchSize, MaxBatches, MaxQueries} \subseteq Nat \ {0}
    /\ {MaxClicks, MaxRemovals, MaxFaults} \subseteq Nat
    /\ Setups \subseteq SUBSET {"page", "sweep"}

VARIABLES
    row,       \* documents: "unborn", "present" or "gone"
    objects,   \* the keys in the bucket
    refused,   \* keys whose deletion the bucket refuses
    expired,   \* documents past their expiresAt
    enabled,   \* RETENTION_SWEEP_ENABLED
    lock,      \* retention:lock is set
    sweep,     \* the stack frame of every nightly()
    page,      \* the state of the page
    query,     \* the effect's requests, by requestId
    more,      \* the request of loadMore
    removal,   \* the requests of remove: at most one for a document
    faults

docVars == <<row, objects, refused, expired>>
sweepVars == <<enabled, lock, sweep>>
pageVars == <<page, query, more>>
vars == <<docVars, sweepVars, pageVars, removal, faults>>

-----------------------------------------------------------------------------
(* DocumentsService.list.                                                  *)

Matches(d, filter) == filter \in {All, SourceOf[d]}

\* orderBy: createdAt desc, id desc.
Newer(d, e) ==
    \/ CreatedAt[d] > CreatedAt[e]
    \/ CreatedAt[d] = CreatedAt[e] /\ d > e

\* Mutant: the cursor is looked up among the rows.
AfterRow(d, cursor) ==
    \/ cursor = NoDoc
    \/ row[cursor] = "present" /\ Newer(cursor, d)

\* The where clause a decoded cursor adds.
After(d, cursor) == cursor = NoDoc \/ Newer(cursor, d)

\* The members of a set, in an order given by its pairs.
Sorted(S, order) ==
    CHOOSE s \in [1..Cardinality(S) -> S] :
      \A i, j \in 1..Cardinality(S) : i < j => <<s[i], s[j]>> \in order

Found(filter, cursor) ==
    Sorted({d \in Docs : row[d] = "present" /\ Matches(d, filter) /\ After(d, cursor)},
           {p \in Docs \X Docs : Newer(p[1], p[2])})

\* PageSize + 1 rows are taken, to know whether there are more.
List(filter, cursor) ==
    LET rows == Found(filter, cursor)
        data == SubSeq(rows, 1, Min({PageSize, Len(rows)}))
    IN  [data |-> data,
         next |-> IF Len(rows) > PageSize THEN Last(data) ELSE NoDoc]

-----------------------------------------------------------------------------
Query == [pc : {"none", "asked", "answered", "settled"},
          filter : Sources \cup {All},
          data : Seq(Docs), next : Docs \cup {NoDoc},
          known : SUBSET Docs]

More == [pc : {"none", "asked", "answered"}, filter : Sources \cup {All},
         from : 0..MaxQueries, cursor : Docs \cup {NoDoc},
         data : Seq(Docs), next : Docs \cup {NoDoc}]

Frame == [pc : {"idle", "find", "objects", "unlock"},
          batch : Nat, due : SUBSET Docs, todo : SUBSET Docs, removable : SUBSET Docs]

TypeOK ==
    /\ row \in [Docs -> {"unborn", "present", "gone"}]
    /\ objects \subseteq Docs /\ refused \subseteq Docs /\ expired \subseteq Docs
    /\ {enabled, lock} \subseteq BOOLEAN
    /\ sweep \in [Sweepers -> Frame]
    /\ page \in [filter : Sources \cup {All}, rows : Seq(Docs), cursor : Docs \cup {NoDoc},
                 shown : 0..MaxQueries, requestId : 1..MaxQueries,
                 known : SUBSET Docs, mixed : BOOLEAN, clicks : 0..MaxClicks]
    /\ query \in [1..MaxQueries -> Query]
    /\ more \in More
    /\ removal \in [Docs -> {"none", "find", "object", "row", "audit", "answer", "done"}]
    /\ faults \in 0..MaxFaults

\* shown is the query whose rows the table has, known what existed when its
\* first page was read, mixed that a page of another query was appended: all
\* three are history variables.
NoQuery == [pc |-> "none", filter |-> All, data |-> <<>>, next |-> NoDoc, known |-> {}]
NoFrame == [pc |-> "idle", batch |-> 0, due |-> {}, todo |-> {}, removable |-> {}]
NoMore == [pc |-> "none", filter |-> All, from |-> 0, cursor |-> NoDoc,
           data |-> <<>>, next |-> NoDoc]

\* If a page is open, its first effect has run.
Init ==
    /\ row = [d \in Docs |-> IF d \in Landed THEN "present" ELSE "unborn"]
    /\ objects = Landed \ Keyless
    /\ refused \in SUBSET (Expiring \ Keyless)
    /\ expired = {}
    /\ lock = FALSE
    /\ sweep = [s \in Sweepers |-> NoFrame]
    /\ page = [filter |-> All, rows |-> <<>>, cursor |-> NoDoc, shown |-> 0,
               requestId |-> 1, known |-> {}, mixed |-> FALSE, clicks |-> 0]
    /\ \E setup \in Setups :
         /\ enabled = ("sweep" \in setup)
         /\ query = [n \in 1..MaxQueries |->
              [NoQuery EXCEPT !.pc = IF n = 1 /\ "page" \in setup THEN "asked" ELSE "none"]]
    /\ more = NoMore
    /\ removal = [d \in Docs |-> "none"]
    /\ faults = 0

-----------------------------------------------------------------------------
Fails == faults < MaxFaults /\ faults' = faults + 1

Land(d) ==
    /\ row[d] = "unborn"
    /\ \A e \in Docs : row[e] = "unborn" => CreatedAt[d] <= CreatedAt[e]
    /\ row' = [row EXCEPT ![d] = "present"]
    /\ objects' = objects \cup ({d} \ Keyless)
    /\ UNCHANGED <<refused, expired, sweepVars, pageVars, removal, faults>>

\* Only the sweep looks at expiresAt.
Expire(d) ==
    /\ enabled /\ d \in Expiring \ expired /\ row[d] # "unborn"
    /\ \A e \in Expiring \ expired : d <= e
    /\ expired' = expired \cup {d}
    /\ UNCHANGED <<row, objects, refused, sweepVars, pageVars, removal, faults>>

-----------------------------------------------------------------------------
(* documents/page.tsx.                                                     *)

\* A filter changes: the effect sends a new query.
ChangeFilter ==
    \E filter \in (Sources \cup {All}) \ {page.filter} :
      LET id == page.requestId + 1
      IN  /\ query[1].pc # "none" /\ id <= MaxQueries
          /\ page' = [page EXCEPT !.filter = filter, !.requestId = id]
          /\ query' = [query EXCEPT ![id] = [@ EXCEPT !.pc = "asked", !.filter = filter]]
          /\ UNCHANGED <<docVars, sweepVars, more, removal, faults>>

\* The api reads the first page of a query ...
ListFirst(n) ==
    /\ query[n].pc = "asked"
    /\ LET found == List(query[n].filter, NoDoc)
       IN  query' = [query EXCEPT ![n] =
             [@ EXCEPT !.pc = "answered", !.data = found.data, !.next = found.next,
                       !.known = {d \in Docs : row[d] = "present"}]]
    /\ UNCHANGED <<docVars, sweepVars, page, more, removal, faults>>

\* Only the newest query may write to state.
Takes(n) == n = page.requestId

\* ... and the page hears of it, in any order.
SettleFirst(n) ==
    /\ query[n].pc = "answered"
    /\ query' = [query EXCEPT ![n] =
         [NoQuery EXCEPT !.pc = "settled", !.filter = query[n].filter]]
    /\ page' = IF ~Takes(n) THEN page
               ELSE [page EXCEPT !.rows = query[n].data, !.cursor = query[n].next,
                                 !.shown = n, !.known = query[n].known, !.mixed = FALSE]
    /\ UNCHANGED <<docVars, sweepVars, more, removal, faults>>

\* The query fails: the page says so, and keeps what it shows.
FirstFails(n) ==
    /\ query[n].pc = "asked"
    /\ query' = [query EXCEPT ![n] =
         [NoQuery EXCEPT !.pc = "settled", !.filter = query[n].filter]]
    /\ Fails
    /\ UNCHANGED <<docVars, sweepVars, page, more, removal>>

\* loadMore closes over the cursor and the filters of the last rendering.
LoadMore ==
    /\ page.cursor # NoDoc /\ more.pc = "none"
    /\ page.clicks < MaxClicks
    /\ more' = [NoMore EXCEPT !.pc = "asked", !.filter = page.filter,
                              !.from = page.shown, !.cursor = page.cursor]
    /\ page' = [page EXCEPT !.clicks = @ + 1]
    /\ UNCHANGED <<docVars, sweepVars, query, removal, faults>>

ListMore ==
    /\ more.pc = "asked"
    /\ LET found == List(more.filter, more.cursor)
       IN  more' = [more EXCEPT !.pc = "answered", !.data = found.data, !.next = found.next]
    /\ UNCHANGED <<docVars, sweepVars, page, query, removal, faults>>

\* Its answer is appended to whatever the table has by then.
SettleMore ==
    /\ more.pc = "answered"
    /\ more' = NoMore
    /\ page' = [page EXCEPT !.rows = @ \o more.data, !.cursor = more.next,
                            !.mixed = @ \/ more.from # page.shown
                                        \/ more.filter # query[page.shown].filter]
    /\ UNCHANGED <<docVars, sweepVars, query, removal, faults>>

MoreFails ==
    /\ more.pc = "asked"
    /\ more' = NoMore
    /\ Fails
    /\ UNCHANGED <<docVars, sweepVars, page, query, removal>>

Step(d, pc) == removal' = [removal EXCEPT ![d] = pc]

\* A click on a row of the table, or a program's request.
Delete(d) ==
    /\ removal[d] = "none" /\ row[d] # "unborn"
    /\ Cardinality({e \in Docs : removal[e] # "none"}) < MaxRemovals
    /\ Step(d, "find")
    /\ UNCHANGED <<docVars, sweepVars, pageVars, faults>>

\* 404 when the row is gone; a row without a key has no object to delete.
FindRow(d) ==
    /\ removal[d] = "find"
    /\ \/ /\ Step(d, IF row[d] # "present" THEN "done"
                     ELSE IF d \in Keyless THEN "row" ELSE "object")
          /\ UNCHANGED faults
       \/ Step(d, "done") /\ Fails
    /\ UNCHANGED <<docVars, sweepVars, pageVars>>

\* The object goes first: if this throws, done or not, the row survives.
DeleteObject(d) ==
    /\ removal[d] = "object"
    /\ \/ d \in refused /\ Step(d, "done") /\ UNCHANGED <<objects, faults>>
       \/ d \notin refused /\ Step(d, "row") /\ objects' = objects \ {d} /\ UNCHANGED faults
       \/ /\ d \notin refused /\ Step(d, "done") /\ Fails
          /\ objects' \in {objects, objects \ {d}}
    /\ UNCHANGED <<row, refused, expired, sweepVars, pageVars>>

\* delete throws when another one was faster, and may throw when it is done.
DeleteRow(d) ==
    /\ removal[d] = "row"
    /\ \/ /\ row' = [row EXCEPT ![d] = "gone"]
          /\ Step(d, IF row[d] = "present" THEN "audit" ELSE "done")
          /\ UNCHANGED faults
       \/ row' \in {row, [row EXCEPT ![d] = "gone"]} /\ Step(d, "done") /\ Fails
    /\ UNCHANGED <<objects, refused, expired, sweepVars, pageVars>>

\* The caller hears of an error if the entry cannot be written.
WriteAudit(d) ==
    /\ removal[d] = "audit"
    /\ \/ Step(d, "answer") /\ UNCHANGED faults
       \/ Step(d, "done") /\ Fails
    /\ UNCHANGED <<docVars, sweepVars, pageVars>>

\* rows.filter((r) => r.id !== id)
Without(rows, d) ==
    LET kept == {i \in DOMAIN rows : rows[i] # d}
        at   == Sorted(kept, {p \in kept \X kept : p[1] < p[2]})
    IN  [k \in 1..Cardinality(kept) |-> rows[at[k]]]

\* The page takes the row out of the table it has by then.
SettleDelete(d) ==
    /\ removal[d] = "answer"
    /\ Step(d, "done")
    /\ page' = [page EXCEPT !.rows = Without(@, d)]
    /\ UNCHANGED <<docVars, sweepVars, query, more, faults>>

-----------------------------------------------------------------------------
(* RetentionService.                                                       *)

At(s, frame) == sweep' = [sweep EXCEPT ![s] = frame]

\* 3am: SET NX, and now = new Date().  A SET that throws may leave the lock
\* to nobody.
Nightly(s) ==
    /\ enabled /\ sweep[s].pc = "idle" /\ ~lock
    /\ lock' = TRUE
    /\ \/ At(s, [NoFrame EXCEPT !.pc = "find", !.due = expired]) /\ UNCHANGED faults
       \/ UNCHANGED sweep /\ Fails
    /\ UNCHANGED <<docVars, enabled, pageVars, removal>>

Oldest(n, S) == {d \in S : Cardinality({e \in S : e < d}) < n}

\* Mutant: a failed delete ends the sweep.
FailureEnds(frame, d) == [NoFrame EXCEPT !.pc = "unlock"]

FindExpired(s) ==
    LET batch == Oldest(BatchSize, {d \in sweep[s].due : row[d] = "present"})
    IN  /\ sweep[s].pc = "find"
        /\ At(s, IF batch = {} \/ sweep[s].batch = MaxBatches
                 THEN [NoFrame EXCEPT !.pc = "unlock"]
                 ELSE [sweep[s] EXCEPT !.pc = "objects", !.batch = @ + 1,
                                       !.todo = batch, !.removable = {}])
        /\ UNCHANGED <<docVars, enabled, lock, pageVars, removal, faults>>

\* Mutant: the row goes although its object could not be deleted.
FailureIgnored(frame, d) ==
    [frame EXCEPT !.todo = @ \ {d}, !.removable = @ \cup {d}]

\* The catch leaves the row to the next sweep, though the object may be gone,
\* and goes on.
AfterFailure(frame, d) == [frame EXCEPT !.todo = @ \ {d}]

SweepObject(s) ==
    \E d \in sweep[s].todo :
      /\ sweep[s].pc = "objects" /\ \A e \in sweep[s].todo : d <= e
      /\ \/ /\ d \in Keyless \/ d \notin refused
            /\ objects' = objects \ {d}
            /\ At(s, [sweep[s] EXCEPT !.todo = @ \ {d}, !.removable = @ \cup {d}])
            /\ UNCHANGED faults
         \/ /\ d \notin Keyless
            /\ \/ d \in refused /\ UNCHANGED <<objects, faults>>
               \/ d \notin refused /\ Fails /\ objects' \in {objects, objects \ {d}}
            /\ At(s, AfterFailure(sweep[s], d))
      /\ UNCHANGED <<row, refused, expired, enabled, lock, pageVars, removal>>

WithoutRows(ds) == [d \in Docs |-> IF d \in ds THEN "gone" ELSE row[d]]

\* Nothing removable: another pass would fetch the same rows.
SweepRows(s) ==
    LET some == sweep[s].removable # {}
    IN  /\ sweep[s].pc = "objects" /\ sweep[s].todo = {}
        /\ row' = WithoutRows(sweep[s].removable)
        /\ At(s, IF some THEN [sweep[s] EXCEPT !.pc = "find", !.removable = {}]
                 ELSE [NoFrame EXCEPT !.pc = "unlock"])
        /\ UNCHANGED <<objects, refused, expired, enabled, lock, pageVars, removal, faults>>

\* The finally deletes the lock, whoever holds it; or Redis rejects the DEL.
Unlock(s) ==
    /\ sweep[s].pc = "unlock"
    /\ \/ lock' = FALSE /\ UNCHANGED faults
       \/ Fails /\ UNCHANGED lock
    /\ At(s, NoFrame)
    /\ UNCHANGED <<docVars, enabled, pageVars, removal>>

\* PostgreSQL rejects a query of the sweep; a deletion may be done.
SweepThrows(s) ==
    /\ sweep[s].pc \in {"find", "objects"}
    /\ sweep[s].pc = "objects" => sweep[s].todo = {} /\ sweep[s].removable # {}
    /\ row' \in {row, WithoutRows(sweep[s].removable)}
    /\ At(s, [NoFrame EXCEPT !.pc = "unlock"])
    /\ Fails
    /\ UNCHANGED <<objects, refused, expired, enabled, lock, pageVars, removal>>

\* The instance dies and the lock stays.
Crash(s) ==
    /\ sweep[s].pc # "idle"
    /\ At(s, NoFrame)
    /\ Fails
    /\ UNCHANGED <<docVars, enabled, lock, pageVars, removal>>

\* LOCK_SECONDS pass, also during a long sweep.
LockExpires ==
    /\ lock
    /\ lock' = FALSE
    /\ UNCHANGED <<docVars, enabled, sweep, pageVars, removal, faults>>

-----------------------------------------------------------------------------
SweepStep(s) == FindExpired(s) \/ SweepObject(s) \/ SweepRows(s) \/ Unlock(s)

Next ==
    \/ ChangeFilter \/ LoadMore \/ ListMore \/ SettleMore \/ MoreFails
    \/ \E n \in 1..MaxQueries : ListFirst(n) \/ SettleFirst(n) \/ FirstFails(n)
    \/ \E d \in Docs : \/ Land(d) \/ Expire(d) \/ Delete(d) \/ FindRow(d)
                       \/ DeleteObject(d) \/ DeleteRow(d) \/ WriteAudit(d)
                       \/ SettleDelete(d)
    \/ \E s \in Sweepers : Nightly(s) \/ SweepStep(s) \/ SweepThrows(s) \/ Crash(s)
    \/ LockExpires

\* The cron fires every night and its calls are answered or refused, which is
\* assumed of PostgreSQL, Redis and S3; Redis drops the lock at its TTL.
\* Nobody is obliged to click, and no renders need to arrive.
Fairness ==
    /\ \A s \in Sweepers : WF_vars(Nightly(s)) /\ WF_vars(SweepStep(s))
    /\ WF_vars(LockExpires)

Spec == Init /\ [][Next]_vars /\ Fairness

-----------------------------------------------------------------------------
\* As long as no page of one query was appended to the table of another, the
\* table is a stretch of one query's results: newest first, no row twice, all
\* of them matching the filter, and no document that existed when the stretch
\* began left out of it, although renders arrive at the top and rows under the
\* cursor are deleted between the pages.
PagesJoin ==
    LET rows == page.rows
        filter == query[page.shown].filter
    IN  page.shown # 0 /\ ~page.mixed =>
          /\ \A i, j \in DOMAIN rows : i < j => Newer(rows[i], rows[j])
          /\ \A i \in DOMAIN rows : Matches(rows[i], filter)
          /\ \A d \in page.known :
               \/ row[d] # "present" \/ d \in ToSet(rows) \/ ~Matches(d, filter)
               \/ page.cursor # NoDoc /\ Newer(page.cursor, d)

\* An object outlives no row that names it: whatever fails or overlaps, there
\* is no PDF in the bucket that nothing points at.
RowOutlivesObject == \A d \in objects : row[d] = "present"

\* The newest query's answer decides what is in the table
\* (documents/page.tsx:41-42).
OnlyNewestQueryWrites ==
    page.shown = page.requestId =>
      \A d \in ToSet(page.rows) : Matches(d, page.filter)

\* A document past its expiry whose object can be deleted is removed some
\* night, if the documents the bucket refuses do not fill a whole batch.
ExpiredIsRemoved ==
    \A d \in Expiring :
      (d \in expired \ refused /\ row[d] = "present" /\ enabled
         /\ Cardinality(refused) < BatchSize)
        ~> row[d] = "gone"

-----------------------------------------------------------------------------
(* What makes RowOutlivesObject inductive (LibraryProofs).                 *)

RowStates == {"unborn", "present", "gone"}
Removals == {"none", "find", "object", "row", "audit", "answer", "done"}

\* A removal and a sweep are about documents that exist or existed, and a row
\* is deleted only when its object is gone.
RemovalInv ==
    \A d \in Docs :
        /\ removal[d] # "none" => row[d] # "unborn"
        /\ removal[d] = "row" => d \notin objects

FrameInv(frame) ==
    /\ frame.todo \subseteq {d \in Docs : row[d] # "unborn"}
    /\ frame.removable \subseteq {d \in Docs : row[d] # "unborn"} \ objects

IInv ==
    /\ row \in [Docs -> RowStates] /\ objects \subseteq Docs \ Keyless
    /\ removal \in [Docs -> Removals]
    /\ sweep \in [Sweepers -> Frame] /\ \A s \in Sweepers : FrameInv(sweep[s])
    /\ RemovalInv /\ RowOutlivesObject

-----------------------------------------------------------------------------
(* What makes PagesJoin inductive (LibraryProofs).                         *)

PageTypes ==
    /\ page \in [filter : Sources \cup {All}, rows : Seq(Docs), cursor : Docs \cup {NoDoc},
                 shown : 0..MaxQueries, requestId : 1..MaxQueries,
                 known : SUBSET Docs, mixed : BOOLEAN, clicks : 0..MaxClicks]
    /\ query \in [1..MaxQueries -> Query]
    /\ more \in More

\* Rows of one query, newest first, none of them behind the cursor.
Stretch(rows, cursor, filter) ==
    /\ \A i, j \in DOMAIN rows : i < j => Newer(rows[i], rows[j])
    /\ \A i \in DOMAIN rows : Matches(rows[i], filter)
    /\ \A i \in DOMAIN rows : cursor # NoDoc => rows[i] = cursor \/ Newer(rows[i], cursor)

\* The document is deleted, filtered out, in the rows or behind the cursor.
Covered(d, rows, cursor, filter) ==
    \/ row[d] # "present" \/ d \in ToSet(rows) \/ ~Matches(d, filter)
    \/ cursor # NoDoc /\ Newer(cursor, d)

\* Whoever was known stays born, so no later page can owe it, and a query
\* answers once.
QueryInv ==
    /\ \A n \in 1..MaxQueries : page.requestId < n => query[n].pc = "none"
    /\ \A n \in 1..MaxQueries : \A d \in query[n].known : row[d] # "unborn"
    /\ \A n \in 1..MaxQueries : query[n].pc = "answered" =>
         /\ Stretch(query[n].data, query[n].next, query[n].filter)
         /\ \A d \in query[n].known :
              Covered(d, query[n].data, query[n].next, query[n].filter)

\* The page asked for continues the table it was asked under.
MoreInv ==
    /\ more.pc # "none" =>
         /\ more.cursor # NoDoc
         /\ more.from # 0 /\ query[more.from].pc = "settled"
         /\ more.from = page.shown => more.cursor = page.cursor
    /\ more.pc = "answered" =>
         /\ Stretch(more.data, more.next, more.filter)
         /\ \A i \in DOMAIN more.data : Newer(more.cursor, more.data[i])
         /\ more.next # NoDoc => Newer(more.cursor, more.next)
         /\ more.from = page.shown =>
              \A d \in page.known :
                ~Newer(more.cursor, d) \/ Covered(d, more.data, more.next, more.filter)

TableInv ==
    /\ page.shown = 0 => page.cursor = NoDoc /\ more.pc = "none"
    /\ page.shown # 0 => query[page.shown].pc = "settled"
    /\ \A d \in page.known : row[d] # "unborn"
    /\ page.shown # 0 /\ ~page.mixed =>
         /\ Stretch(page.rows, page.cursor, query[page.shown].filter)
         /\ \A d \in page.known :
              Covered(d, page.rows, page.cursor, query[page.shown].filter)

\* The page hears of a deletion when the row is gone.
AnswerInv == \A d \in Docs : removal[d] \in {"audit", "answer"} => row[d] = "gone"

PageInv == PageTypes /\ QueryInv /\ MoreInv /\ TableInv /\ AnswerInv

=============================================================================
