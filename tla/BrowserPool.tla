----------------------------- MODULE BrowserPool -----------------------------
(***************************************************************************)
(* The renderer's pool of Chromium processes (apps/renderer,               *)
(* browser-pool.ts), as POST /render uses it (server.ts): a call acquires  *)
(* a slot or waits its turn with a timeout, renders in a fresh context,    *)
(* and releases the slot, which may first be given a new browser.          *)
(*                                                                         *)
(* The process is single threaded: a step runs to its next await.          *)
(*                                                                         *)
(* Names that other modules have too carry the prefix Pool: the proofs     *)
(* extend this module and Pipeline together.                               *)
(***************************************************************************)
EXTENDS Naturals, Sequences, FiniteSets, SequencesExt

CONSTANTS
    Calls,          \* POST /render requests
    Slots,          \* POOL_SIZE of them
    NoSlot,
    MaxJobs,        \* POOL_MAX_JOBS_PER_BROWSER
    MaxDeaths,      \* bound: browsers that die or outgrow POOL_MAX_RSS_BYTES
    MaxFailures     \* bound: launches that fail

ASSUME PoolAssumption ==
    /\ IsFiniteSet(Slots) /\ NoSlot \notin Slots
    /\ MaxJobs \in Nat \ {0}
    /\ MaxDeaths \in Nat
    /\ MaxFailures \in Nat

VARIABLES
    slots,     \* the pool's slots: busy, the browser's state, its job count
    waiters,   \* calls that wait for a slot, oldest first
    call,      \* where every call is, and the slot it holds
    draining,  \* stop() was called
    deaths,
    failures

poolVars == <<slots, waiters, call, draining, deaths, failures>>

\* worn: the browser is disconnected, or its process is over the RSS ceiling.
Slot == [busy : BOOLEAN, browser : {"up", "down", "worn"}, jobCount : 0..MaxJobs]
Call == [pc : {"idle", "waiting", "render", "check", "recycle", "handover", "hung", "done"},
         slot : Slots \cup {NoSlot},
         outcome : {"none", "ok", "error", "pool_timeout"}]

PoolTypeOK ==
    /\ slots \in [Slots -> Slot]
    /\ waiters \in Seq(Calls)
    /\ call \in [Calls -> Call]
    /\ draining \in BOOLEAN
    /\ deaths \in 0..MaxDeaths
    /\ failures \in 0..MaxFailures

\* start() launched every browser, or the process exits.
PoolInit ==
    /\ slots = [s \in Slots |-> [busy |-> FALSE, browser |-> "up", jobCount |-> 0]]
    /\ waiters = <<>>
    /\ call = [c \in Calls |-> [pc |-> "idle", slot |-> NoSlot, outcome |-> "none"]]
    /\ draining = FALSE
    /\ deaths = 0
    /\ failures = 0

faultVars == <<deaths, failures>>

-----------------------------------------------------------------------------

Give(s, c) == call' = [call EXCEPT ![c] = [@ EXCEPT !.pc = "render", !.slot = s]]

\* acquire: a free slot at once, or a place at the end of the queue.
Acquire(c) ==
    /\ call[c].pc = "idle"
    /\ \/ \E s \in Slots :
             /\ ~slots[s].busy
             /\ slots' = [slots EXCEPT ![s].busy = TRUE]
             /\ Give(s, c)
             /\ UNCHANGED waiters
       \/ /\ \A s \in Slots : slots[s].busy
          /\ waiters' = Append(waiters, c)
          /\ call' = [call EXCEPT ![c].pc = "waiting"]
          /\ UNCHANGED slots
    /\ ~draining
    /\ UNCHANGED <<draining, faultVars>>

\* indexOf and splice: the timer takes the waiter out of the queue.
LeavesQueue(c) == RemoveFirst(waiters, c)

\* Mutant: a call waits without a time limit.
WaitsForEver(c) == FALSE /\ UNCHANGED poolVars

\* POOL_ACQUIRE_TIMEOUT_MS in the queue: pool_timeout, a 503.
AcquireTimeout(c) ==
    /\ call[c].pc = "waiting"
    /\ waiters' = LeavesQueue(c)
    /\ call' = [call EXCEPT ![c] = [@ EXCEPT !.pc = "done", !.outcome = "pool_timeout"]]
    /\ UNCHANGED <<slots, draining, faultVars>>

\* renderPdf settles; a browser that went down fails it.  The job counts
\* either way.
RenderSettles(c) ==
    /\ call[c].pc = "render"
    /\ LET s == call[c].slot
       IN /\ \E outcome \in {"ok", "error"} :
                /\ slots[s].browser = "down" => outcome = "error"
                /\ call' = [call EXCEPT ![c] = [@ EXCEPT !.pc = "check",
                                                         !.outcome = outcome]]
          /\ slots' = [slots EXCEPT ![s].jobCount = @ + 1]
    /\ UNCHANGED <<waiters, draining, faultVars>>

\* shouldRecycle: enough jobs, disconnected, or too large.
ShouldRecycle(s) == slots[s].jobCount >= MaxJobs \/ slots[s].browser # "up"

\* Mutant: the slot is marked free before the new browser is launched.
FreedToRecycle(s) == [slots EXCEPT ![s].busy = FALSE]

\* The slot stays busy while its browser is replaced.
KeptToRecycle(s) == slots

\* release, up to the end of shouldRecycle.
Check(c) ==
    /\ call[c].pc = "check"
    /\ LET s == call[c].slot
       IN \/ /\ ShouldRecycle(s)
             /\ slots' = KeptToRecycle(s)
             /\ call' = [call EXCEPT ![c].pc = "recycle"]
          \/ /\ ~ShouldRecycle(s)
             /\ slots' = slots
             /\ call' = [call EXCEPT ![c].pc = "handover"]
    /\ UNCHANGED <<waiters, draining, faultVars>>

\* recycle: a new browser takes the slot and the old one is closed.  When the
\* launch fails release throws: the call gets an error, whatever it rendered,
\* and nobody ever frees the slot.
Recycle(c) ==
    /\ call[c].pc = "recycle"
    /\ LET s == call[c].slot
       IN \/ /\ slots' = [slots EXCEPT ![s] = [@ EXCEPT !.browser = "up", !.jobCount = 0]]
             /\ call' = [call EXCEPT ![c].pc = "handover"]
             /\ UNCHANGED failures
          \/ /\ failures < MaxFailures
             /\ failures' = failures + 1
             /\ call' = [call EXCEPT ![c] = [pc |-> "done", slot |-> NoSlot,
                                             outcome |-> "error"]]
             /\ slots' = slots
    /\ UNCHANGED <<waiters, draining, deaths>>

Released(c) == [call EXCEPT ![c] = [@ EXCEPT !.pc = "done", !.slot = NoSlot]]

\* Mutant: pop where the code has shift.
NewestFirst(c) ==
    /\ call[c].pc = "handover"
    /\ LET s == call[c].slot
       IN \/ /\ waiters = <<>>
             /\ slots' = [slots EXCEPT ![s].busy = FALSE]
             /\ call' = Released(c)
             /\ waiters' = waiters
          \/ /\ waiters # <<>>
             /\ slots' = slots
             /\ call' = [Released(c) EXCEPT ![Last(waiters)] =
                           [@ EXCEPT !.pc = "render", !.slot = s]]
             /\ waiters' = SubSeq(waiters, 1, Len(waiters) - 1)
    /\ UNCHANGED <<draining, faultVars>>

\* The rest of release: the slot goes to the oldest waiter, still busy, or
\* becomes free.
Handover(c) ==
    /\ call[c].pc = "handover"
    /\ LET s == call[c].slot
       IN \/ /\ draining \/ waiters = <<>>
             /\ slots' = [slots EXCEPT ![s].busy = FALSE]
             /\ call' = Released(c)
             /\ waiters' = waiters
          \/ /\ ~draining /\ waiters # <<>>
             /\ slots' = slots
             /\ call' = IF call[Head(waiters)].pc = "waiting"
                        THEN [Released(c) EXCEPT ![Head(waiters)] =
                                 [@ EXCEPT !.pc = "render", !.slot = s]]
                        ELSE Released(c)
             /\ waiters' = Tail(waiters)
    /\ UNCHANGED <<draining, faultVars>>

\* Of all that a holder awaits only page.setContent has a timeout: newContext,
\* newPage, page.pdf, ps, the launch and every close may never settle.
Hang(c) ==
    /\ call[c].pc \in {"render", "check", "recycle"}
    /\ call' = [call EXCEPT ![c].pc = "hung"]
    /\ UNCHANGED <<slots, waiters, draining, faultVars>>

\* Chromium dies, or leaks past the ceiling, at any time.
BrowserWears(s) ==
    /\ slots[s].browser = "up"
    /\ deaths < MaxDeaths
    /\ deaths' = deaths + 1
    /\ \E state \in {"down", "worn"} : slots' = [slots EXCEPT ![s].browser = state]
    /\ UNCHANGED <<waiters, call, draining, failures>>

\* SIGTERM: app.close() waits for the requests in flight, then stop().
Stop ==
    /\ ~draining
    /\ \A c \in Calls : call[c].pc \in {"idle", "done"}
    /\ draining' = TRUE
    /\ UNCHANGED <<slots, waiters, call, faultVars>>

-----------------------------------------------------------------------------

HolderStep(c) == RenderSettles(c) \/ Check(c) \/ Recycle(c) \/ Handover(c)

PoolNext ==
    \/ \E c \in Calls : Acquire(c) \/ AcquireTimeout(c) \/ HolderStep(c) \/ Hang(c)
    \/ \E s \in Slots : BrowserWears(s)
    \/ Stop

PoolSpec == PoolInit /\ [][PoolNext]_poolVars

\* What a holder awaits settles unless it hangs, and a timer fires.
LiveSpec ==
    PoolSpec /\ \A c \in Calls : WF_poolVars(HolderStep(c)) /\ WF_poolVars(AcquireTimeout(c))

-----------------------------------------------------------------------------
(* Properties.                                                             *)

Holders(s) == {c \in Calls : call[c].slot = s}

\* A slot is in the hands of one call at a time, from acquire through render,
\* recycling and handover, and it is busy throughout (acquire, release).  A
\* busy slot has a holder who will release it, unless a launch failed: it is
\* never handed to a call that has given up waiting (the timer in acquire).
\* And a call renders on a browser with jobs left of
\* POOL_MAX_JOBS_PER_BROWSER: release recycles before it hands over.
OneHolder ==
    \A s \in Slots :
        /\ Cardinality(Holders(s)) <= 1
        /\ Holders(s) # {} => slots[s].busy
        /\ slots[s].busy /\ failures = 0 => Holders(s) # {}
        /\ \A c \in Holders(s) : call[c].pc = "render" => slots[s].jobCount < MaxJobs

\* The queue holds exactly the calls that wait, once each, and nobody waits
\* while a slot is free (release passes a slot on before it frees it).
NoIdleSlotWhileWaiting ==
    /\ ToSet(waiters) = {c \in Calls : call[c].pc = "waiting"}
    /\ Cardinality(ToSet(waiters)) = Len(waiters)
    /\ waiters # <<>> => \A s \in Slots : slots[s].busy

Holding == {"render", "check", "recycle", "handover", "hung"}

InHand == {c \in Calls : call[c].pc \in Holding}

Semaphore ==
    INSTANCE FairSemaphore WITH
        Permits <- Cardinality(Slots), inside <- InHand, line <- waiters, lost <- failures

\* For its callers the pool is a fair semaphore: as many renders at once as
\* there are slots, callers served in the order they came, nobody overtaken
\* while timers take others out of the queue, and a failed launch costs exactly
\* one slot (acquire, release, recycle).
SemaphoreSpec == Semaphore!Spec

\* Every call is answered but one whose own browser never answers: it gets a
\* slot in its turn or times out, even when launches fail and when other calls
\* keep their slots for ever.
EveryCallSettles ==
    \A c \in Calls : (call[c].pc # "idle") ~> (call[c].pc \in {"done", "hung"})

\* What the code does not promise, though config.ts:17 calls the render
\* timeout hard: that every call is answered.
EveryCallIsAnswered ==
    \A c \in Calls : (call[c].pc # "idle") ~> (call[c].pc = "done")

-----------------------------------------------------------------------------
(* What makes the two invariants inductive (PipelineProofs).               *)

\* Who holds a slot is rendering or releasing it, alone.
HolderInv ==
    /\ \A c \in Calls : call[c].slot \in Slots <=> call[c].pc \in Holding
    /\ \A c, d \in Calls : call[c].slot = call[d].slot /\ call[c].slot \in Slots => c = d
    /\ \A c \in Calls : call[c].slot \in Slots => slots[call[c].slot].busy
    /\ failures = 0 =>
         \A s \in Slots : slots[s].busy => \E c \in Calls : call[c].slot = s

\* A slot that is free, or about to be handed over, has jobs left.
JobsLeft ==
    /\ \A s \in Slots : ~slots[s].busy => slots[s].jobCount < MaxJobs
    /\ \A c \in Calls : call[c].pc \in {"render", "handover"} =>
                           slots[call[c].slot].jobCount < MaxJobs

\* The queue is the calls that wait, and it is empty beside a free slot.
WaiterInv ==
    /\ \A i, j \in 1..Len(waiters) : waiters[i] = waiters[j] => i = j
    /\ \A c \in Calls : call[c].pc = "waiting" <=> \E i \in 1..Len(waiters) : waiters[i] = c
    /\ waiters # <<>> => \A s \in Slots : slots[s].busy
    /\ draining => \A c \in Calls : call[c].pc \in {"idle", "done"}

PoolInv == PoolTypeOK /\ HolderInv /\ JobsLeft /\ WaiterInv

\* What makes SemaphoreSpec inductive: every busy slot is in somebody's hands
\* or was lost with a failed launch.
Busy == {s \in Slots : slots[s].busy}

CountInv ==
    /\ IsFiniteSet(InHand)
    /\ Cardinality(InHand) + failures = Cardinality(Busy)

=============================================================================
