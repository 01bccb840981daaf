---------------------------- MODULE UsageMetering ----------------------------
(***************************************************************************)
(* Usage metering (usage/usage.service.ts): every render adds to a hash of *)
(* counters in Redis and marks its day dirty; flushes, on every instance   *)
(* and every minute, take dirty days, drain their hashes and add what they *)
(* drained to the usage_daily rows; the dashboard reads the rows and then  *)
(* the hashes.                                                             *)
(*                                                                         *)
(* The four counters of a day are moved together, so one number stands for *)
(* them.  A call that rejects may have taken effect before its reply was   *)
(* lost.                                                                   *)
(***************************************************************************)
EXTENDS Naturals, FiniteSets, FiniteSetsExt, Functions

CONSTANTS
    Days,        \* the <orgId>:<date> entries of one organization
    Flushes,     \* flush() calls that may overlap: instances, and slow ticks
    Batch,       \* how many entries one SPOP takes (100 in the code)
    MaxRenders,  \* bound: renders recorded per day
    MaxCrashes,  \* bound: process deaths in a behaviour
    MaxErrors    \* bound: rejected calls in a behaviour

ASSUME ConstantsAssumption ==
    /\ IsFiniteSet(Days) /\ Days # {}
    /\ IsFiniteSet(Flushes)
    /\ Batch \in Nat \ {0}
    /\ MaxRenders \in Nat
    /\ MaxCrashes \in Nat
    /\ MaxErrors \in Nat

VARIABLES
    recorded,   \* renders Redis accepted for the day (history)
    counters,   \* the day's hash in Redis; 0 when there is none
    dirty,      \* the set usage:dirty
    usageDaily, \* the usage_daily rows
    flush,      \* where every flush is
    reader,     \* where a dashboard load is, and the series it has built
    crashes,
    errors

vars == <<recorded, counters, dirty, usageDaily, flush, reader, crashes, errors>>

redisVars == <<recorded, counters, dirty>>
faultVars == <<crashes, errors>>

\* pending: popped entries still to be drained; taken: what the script
\* returned, until the upsert settles (on "requeue", what a failed upsert had).
Flush  == [pc : {"loop", "upsert", "requeue"}, pending : SUBSET Days,
           entry : Days, taken : 0..MaxRenders]
Reader == [pc : {"idle", "rows", "done"}, left : SUBSET Days, shown : [Days -> Nat]]

TypeOK ==
    /\ recorded \in [Days -> 0..MaxRenders]
    /\ counters \in [Days -> 0..MaxRenders]
    /\ dirty \subseteq Days
    /\ usageDaily \in [Days -> 0..MaxRenders]
    /\ flush \in [Flushes -> Flush]
    /\ reader \in Reader
    /\ crashes \in 0..MaxCrashes
    /\ errors \in 0..MaxErrors

Zero == [e \in Days |-> 0]

IdleFlush == [pc |-> "loop", pending |-> {}, entry |-> CHOOSE e \in Days : TRUE,
              taken |-> 0]

Init ==
    /\ recorded = Zero
    /\ counters = Zero
    /\ dirty = {}
    /\ usageDaily = Zero
    /\ flush = [f \in Flushes |-> IdleFlush]
    /\ reader = [pc |-> "idle", left |-> {}, shown |-> Zero]
    /\ crashes = 0
    /\ errors = 0

CallFails ==
    /\ errors < MaxErrors
    /\ errors' = errors + 1
    /\ UNCHANGED crashes

NoFault == UNCHANGED faultVars

-----------------------------------------------------------------------------

\* recordRender's MULTI: the counters and the dirty mark together.  When it
\* rejects, either all of it happened or the render goes uncounted.
RecordRender(e) ==
    /\ recorded[e] < MaxRenders
    /\ recorded' = [recorded EXCEPT ![e] = @ + 1]
    /\ counters' = [counters EXCEPT ![e] = @ + 1]
    /\ dirty' = dirty \cup {e}
    /\ UNCHANGED <<usageDaily, flush, reader>>
    /\ NoFault

\* A flush that waits for its next tick, or one between two entries.
IsIdle(f) == flush[f].pc = "loop" /\ flush[f].pending = {}

\* SPOP: up to Batch entries, in no particular order.  When its reply is lost
\* flush() returns, and what was popped is popped.
Pop(f) ==
    /\ IsIdle(f)
    /\ dirty # {}
    /\ \E popped \in kSubset(Min({Batch, Cardinality(dirty)}), dirty) :
          /\ dirty' = dirty \ popped
          /\ \/ flush' = [flush EXCEPT ![f].pending = popped] /\ NoFault
             \/ flush' = flush /\ CallFails
    /\ UNCHANGED <<recorded, counters, usageDaily, reader>>

\* The drain script: the hash is read and removed in one step; an empty one
\* ends the entry.  When it rejects the entry is put back.
Drain(f, e) ==
    /\ flush[f].pc = "loop"
    /\ e \in flush[f].pending
    /\ \/ /\ flush' = [flush EXCEPT ![f] =
                [pc |-> IF counters[e] = 0 THEN "loop" ELSE "upsert",
                 pending |-> @.pending \ {e}, entry |-> e, taken |-> counters[e]]]
          /\ counters' = [counters EXCEPT ![e] = 0]
          /\ NoFault
       \/ /\ flush' = [flush EXCEPT ![f] =
                [pc |-> "requeue", pending |-> @.pending \ {e}, entry |-> e,
                 taken |-> 0]]
          /\ counters' \in {counters, [counters EXCEPT ![e] = 0]}
          /\ CallFails
    /\ UNCHANGED <<recorded, dirty, usageDaily, reader>>

\* The upsert increments the row.
Increment(old, taken) == old + taken

\* Mutant: the mark is taken off the day once it is in the database.
UnmarkAfter(e) == dirty \ {e}

\* A successful upsert leaves the dirty set alone: the mark went with SPOP.
MarkAfter(e) == dirty

\* Mutant: a failed upsert puts the drained counters back.
CountersRestored(f) ==
    [counters EXCEPT ![flush[f].entry] = @ + flush[f].taken]

\* A failed upsert leaves the hash alone.
CountersAfterFailure(f) == counters

\* The upsert of usage_daily; when it rejects, committed or not, the entry is
\* put back and the drained numbers are dropped with the stack frame.
Upsert(f) ==
    /\ flush[f].pc = "upsert"
    /\ LET e == flush[f].entry
           committed == [usageDaily EXCEPT ![e] = Increment(@, flush[f].taken)]
       IN \/ /\ usageDaily' = committed
             /\ dirty' = MarkAfter(e)
             /\ counters' = counters
             /\ flush' = [flush EXCEPT ![f] = [@ EXCEPT !.pc = "loop", !.taken = 0]]
             /\ NoFault
          \/ /\ usageDaily' \in {usageDaily, committed}
             /\ dirty' = dirty
             /\ counters' = CountersAfterFailure(f)
             /\ flush' = [flush EXCEPT ![f].pc = "requeue"]
             /\ CallFails
    /\ UNCHANGED <<recorded, reader>>

\* SADD of the failed entry; its own failure is swallowed.
Requeue(f) ==
    /\ flush[f].pc = "requeue"
    /\ flush' = [flush EXCEPT ![f] = [@ EXCEPT !.pc = "loop", !.taken = 0]]
    /\ \/ dirty' = dirty \cup {flush[f].entry} /\ NoFault
       \/ dirty' = dirty /\ CallFails
    /\ UNCHANGED <<recorded, counters, usageDaily, reader>>

\* The process dies under a flush.
FlushCrash(f) ==
    /\ ~IsIdle(f)
    /\ crashes < MaxCrashes
    /\ crashes' = crashes + 1
    /\ flush' = [flush EXCEPT ![f] = IdleFlush]
    /\ UNCHANGED <<redisVars, usageDaily, reader, errors>>

\* Some flush will still drain the day.
Tracked(e) ==
    \/ e \in dirty
    \/ \E f \in Flushes : \/ e \in flush[f].pending
                          \/ flush[f].pc = "requeue" /\ flush[f].entry = e

\* The hash's seven days run out.  A flush outage that long is not modelled,
\* so this happens only to a hash no flush will look at.
CountersExpire(e) ==
    /\ counters[e] > 0
    /\ ~Tracked(e)
    /\ counters' = [counters EXCEPT ![e] = 0]
    /\ UNCHANGED <<recorded, dirty, usageDaily, flush, reader>>
    /\ NoFault

-----------------------------------------------------------------------------
(* The dashboard: GET /v1/usage, UsageService.daily.                       *)

\* What the two passes of a load read of a day: its row, then its hash.
RowsBeforeHashes(pass, e) == IF pass = 1 THEN usageDaily[e] ELSE counters[e]

\* The findMany of daily: every row of the range in one query.
ReadRows ==
    /\ reader.pc = "idle"
    /\ reader' = [pc |-> "rows", left |-> Days,
                  shown |-> [e \in Days |-> RowsBeforeHashes(1, e)]]
    /\ UNCHANGED <<redisVars, usageDaily, flush>>
    /\ NoFault

\* mergeUnflushed: one HGETALL per day, all in flight together, added to the
\* row of the day.
ReadHash(e) ==
    /\ e \in reader.left
    /\ reader' = [pc |-> IF reader.left = {e} THEN "done" ELSE "rows",
                  left |-> reader.left \ {e},
                  shown |-> [reader.shown EXCEPT ![e] = @ + RowsBeforeHashes(2, e)]]
    /\ UNCHANGED <<redisVars, usageDaily, flush>>
    /\ NoFault

\* The series is sent.
Respond ==
    /\ reader.pc = "done"
    /\ reader' = [pc |-> "idle", left |-> {}, shown |-> Zero]
    /\ UNCHANGED <<redisVars, usageDaily, flush>>
    /\ NoFault

-----------------------------------------------------------------------------

FlushStep(f) == Pop(f) \/ (\E e \in Days : Drain(f, e)) \/ Upsert(f) \/ Requeue(f)

Next ==
    \/ \E e \in Days : RecordRender(e) \/ CountersExpire(e) \/ ReadHash(e)
    \/ \E f \in Flushes : FlushStep(f) \/ FlushCrash(f)
    \/ ReadRows \/ Respond

Spec == Init /\ [][Next]_vars

\* flush() runs on a timer on every instance, and its calls settle.
LiveSpec == Spec /\ \A f \in Flushes : WF_vars(FlushStep(f))

-----------------------------------------------------------------------------
(* Properties.                                                             *)

\* What the flushes hold of a day between drain and upsert.
Held(h, e) == IF h.pc = "upsert" /\ h.entry = e THEN h.taken ELSE 0

InFlight(e) == SumFunction([f \in Flushes |-> Held(flush[f], e)])

Accounted(e) == counters[e] + InFlight(e) + usageDaily[e]

NoFaultSoFar == crashes = 0 /\ errors = 0

\* No render is counted twice, whatever fails, dies, is retried or overlaps
\* (the script of flushOne, and the drop of the counters of a failed upsert);
\* none is lost while nothing fails or dies, however flushes overlap with
\* renders and with each other: the upsert adds.  And the dashboard never shows
\* more than was recorded, although its two reads straddle flushes: rows before
\* hashes (daily, mergeUnflushed).
CountedOnce ==
    \A e \in Days :
        /\ Accounted(e) <= recorded[e]
        /\ NoFaultSoFar => Accounted(e) = recorded[e]
        /\ reader.pc = "done" => reader.shown[e] <= recorded[e]

\* While nothing fails or dies, counters in Redis are always some flush's to
\* take: a render recorded during the flush of its day is not left behind by
\* it (SPOP before drain in flush).
NothingStranded ==
    NoFaultSoFar => \A e \in Days : counters[e] > 0 => Tracked(e)

\* Counters reach the database, unless something failed or died on the way
\* (flush on every minute).
EventuallyFlushed ==
    \A e \in Days :
        (counters[e] > 0) ~> (Accounted(e) = usageDaily[e] \/ ~NoFaultSoFar)

\* What a comment claims beyond these, and a run refutes: an entry whose flush
\* failed is put back "so the next tick retries rather than dropping the day"
\* (usage.service.ts:120): when the upsert failed, its numbers are still
\* somewhere for that retry to find.
FailedFlushCanBeRetried ==
    \A f \in Flushes :
        flush[f].pc = "requeue" /\ flush[f].taken > 0
            => Accounted(flush[f].entry) = recorded[flush[f].entry]

-----------------------------------------------------------------------------
(* What makes the invariants inductive (UsageMeteringProofs).              *)

\* TypeOK without the bounds, which rest on the sums of CountedOnce.
FlushShape == [pc : {"loop", "upsert", "requeue"}, pending : SUBSET Days,
               entry : Days, taken : Nat]

Shape ==
    /\ recorded \in [Days -> Nat]
    /\ counters \in [Days -> Nat]
    /\ dirty \subseteq Days
    /\ usageDaily \in [Days -> Nat]
    /\ flush \in [Flushes -> FlushShape]
    /\ reader \in Reader
    /\ crashes \in Nat
    /\ errors \in Nat

\* Every render is in one place at most: the hash, one flush, or the row.
NoneTwice ==
    \A e \in Days : /\ Accounted(e) <= recorded[e]
                    /\ NoFaultSoFar => Accounted(e) = recorded[e]

\* What a load has read so far: of a day whose hash it has not asked for yet,
\* no more than is in its row by now.
SeriesInv ==
    \A e \in Days :
        /\ e \in reader.left => reader.shown[e] <= usageDaily[e]
        /\ e \notin reader.left => reader.shown[e] <= recorded[e]
        /\ reader.pc # "rows" => reader.left = {}

\* What was drained was recorded.
Bounded ==
    /\ \A e \in Days : recorded[e] <= MaxRenders
    /\ \A f \in Flushes : flush[f].taken <= MaxRenders
    /\ crashes <= MaxCrashes /\ errors <= MaxErrors

IInv == Shape /\ NothingStranded /\ NoneTwice /\ SeriesInv /\ Bounded

=============================================================================
