-------------------------------- MODULE Smtp --------------------------------
(***************************************************************************)
(* One organization's SMTP configurations: the rows, the flag that makes   *)
(* one of them the default, verifiedAt, and the transports every instance  *)
(* of the api caches (smtp.service.ts, smtp.controller.ts), together with  *)
(* the mail that goes out on them (mailer.service.ts).                     *)
(*                                                                         *)
(* The settings of a row are a version number.  A transaction runs at READ *)
(* COMMITTED: a statement sees what is committed when it starts, waits for *)
(* the rows another transaction has written, and then looks at them again. *)
(*                                                                         *)
(* Names that other modules have too carry the prefix Smtp: the proofs     *)
(* extend this module and Dashboard together.                              *)
(***************************************************************************)
EXTENDS Naturals, FiniteSets

CONSTANTS
    Ops,         \* requests, and mail to send
    Configs,     \* ids of configurations
    Instances,   \* api processes
    NoConfig,
    KindsOf      \* what every request may be

Kinds == {"create", "update", "remove", "test", "mail"}

ASSUME SmtpAssumption ==
    /\ NoConfig \notin Configs
    /\ KindsOf \in [Ops -> SUBSET Kinds]

VARIABLES
    rows,     \* smtp_configs
    cache,    \* the transports Map of every instance: the version it connects with
    op,       \* every request, up to its next await
    latest,   \* the last version written anywhere
    raced     \* history: caches no invalidation reached, or that a read overtook

smtpVars == <<rows, cache, op, latest, raced>>

\* verified is the version the last test connected with, 0 for a null
\* verifiedAt.  suspect is a history variable: that test was overtaken.
Row == [state : {"absent", "present", "removed"}, version : Nat, isDefault : BOOLEAN,
        verified : Nat, suspect : BOOLEAN]

Op == [pc : {"idle", "require", "snapshot", "lock", "count", "write", "index", "commit",
             "delete", "invalidate", "default", "fetch", "store", "verify", "mark", "send",
             "done"},
       kind : Kinds \cup {"none"},
       instance : Instances,
       config : Configs \cup {NoConfig},
       asked : {"absent", "yes", "no"},   \* isDefault in the body
       first : BOOLEAN,                   \* the count was zero
       target : SUBSET Configs,           \* what updateMany found
       cleared : SUBSET Configs,          \* rows updateMany wrote, not committed
       got : Nat,                         \* the version it read or connects with
       overlapped : BOOLEAN,              \* history: another request committed meanwhile
       since : Nat,                       \* history: the last answered update when it began
       outcome : {"none", "ok", "error", "conflict", "dropped"}]

SmtpTypeOK ==
    /\ rows \in [Configs -> Row]
    /\ cache \in [Instances -> [Configs -> Nat]]
    /\ op \in [Ops -> Op]
    /\ latest \in Nat
    /\ raced \subseteq Instances \X Configs

Absent == [state |-> "absent", version |-> 0, isDefault |-> FALSE, verified |-> 0,
           suspect |-> FALSE]

Kept(default) == [state |-> "present", version |-> 1, isDefault |-> default,
                  verified |-> 1, suspect |-> FALSE]

\* The organization has no configuration yet, one, or one for every purpose.
SmtpInit ==
    /\ \E c \in Configs, others \in {Absent, Kept(FALSE)} :
         rows \in {[d \in Configs |-> Absent],
                   [d \in Configs |-> IF d = c THEN Kept(TRUE) ELSE others]}
    /\ cache = [i \in Instances |-> [c \in Configs |-> 0]]
    /\ op \in [Ops -> {[pc |-> "idle", kind |-> "none", instance |-> i, config |-> NoConfig,
                        asked |-> "absent", first |-> FALSE, target |-> {}, cleared |-> {},
                        got |-> 0, overlapped |-> FALSE, since |-> 0, outcome |-> "none"]
                       : i \in Instances}]
    /\ latest = 1
    /\ raced = {}

-----------------------------------------------------------------------------
Present(c) == c \in Configs /\ rows[c].state = "present"
Defaults == {c \in Configs : Present(c) /\ rows[c].isDefault}

\* The rows a transaction has written and not committed: it holds their locks.
Held(o) ==
    op[o].cleared \cup (IF op[o].pc \in {"index", "commit"} THEN {op[o].config} ELSE {})

LockedByOther(o, c) == \E p \in Ops \ {o} : c \in Held(p)

Moves(o, pc) == op' = [op EXCEPT ![o] = [@ EXCEPT !.pc = pc]]

Ends(o, outcome) ==
    op' = [op EXCEPT ![o] = [@ EXCEPT !.pc = "done", !.cleared = {}, !.target = {},
                                      !.asked = "absent", !.first = FALSE, !.outcome = outcome]]

storeVars == <<rows, cache, latest, raced>>

\* The version of the default, if the update that wrote it was answered.
AnsweredDefault ==
    IF \E p \in Ops : /\ op[p].kind = "update" /\ op[p].outcome = "ok"
                      /\ op[p].config \in Defaults
                      /\ op[p].got = rows[op[p].config].version
    THEN CHOOSE v \in {rows[c].version : c \in Defaults} : TRUE
    ELSE 0

AfterRequire(kind, asked) ==
    CASE kind = "remove" -> "delete"
      [] kind = "test" -> "fetch"
      [] kind = "update" /\ asked = "yes" -> "snapshot"
      [] OTHER -> "write"

\* SmtpController, and the service up to its first await.
Begin(o) ==
    \E kind \in KindsOf[o], asked \in {"absent", "yes", "no"}, c \in Configs \cup {NoConfig} :
      /\ op[o].pc = "idle"
      /\ kind \in {"create", "update"} \/ asked = "absent"
      /\ IF kind = "mail" THEN c = NoConfig
         ELSE IF kind = "create" THEN c \in Configs /\ rows[c].state = "absent"
                                      /\ \A p \in Ops : op[p].config # c
         ELSE c \in Configs /\ rows[c].state # "absent"
      /\ op' = [op EXCEPT ![o] =
           [@ EXCEPT !.kind = kind, !.asked = asked, !.config = c,
                     !.pc = IF kind = "mail" THEN "default"
                            ELSE IF kind # "create" THEN "require"
                            ELSE IF asked = "yes" THEN "snapshot" ELSE "count",
                     !.since = AnsweredDefault]]
      /\ UNCHANGED storeVars

\* What transportFor does first: the transport the instance has, or a query.
Connects(o, c, missing) ==
    LET version == cache[op[o].instance][c]
    IN  op' = [op EXCEPT ![o] =
          [@ EXCEPT !.config = c, !.got = version,
                    !.overlapped = op[o].overlapped \/ version \notin {0, rows[c].version},
                    !.pc = IF version = 0 THEN missing
                           ELSE IF op[o].kind = "test" THEN "verify" ELSE "send"]]

\* SmtpService.require.
Require(o) ==
    /\ op[o].pc = "require"
    /\ \/ /\ ~Present(op[o].config)
          /\ Ends(o, "error")
       \/ /\ Present(op[o].config)
          /\ IF op[o].kind = "test"
             THEN Connects(o, op[o].config, "fetch")
             ELSE Moves(o, AfterRequire(op[o].kind, op[o].asked))
    /\ UNCHANGED storeVars

\* Mutant: the rows are looked up, and the new default is written over them.
ClearsNothing(o) == {}

-----------------------------------------------------------------------------
(* create and update.                                                       *)

\* Mutant: updateMany clears every row, the default or not.
AnyRow == {c \in Configs : Present(c)}

\* What updateMany matches, where isDefault is true.
Matching == Defaults

\* It finds the rows to clear: update leaves its own out.
ToClear(o) == IF op[o].kind = "update" THEN Matching \ {op[o].config} ELSE Matching

Snapshot(o) ==
    /\ op[o].pc = "snapshot"
    /\ op' = [op EXCEPT ![o] = [@ EXCEPT !.pc = "lock", !.target = ToClear(o)]]
    /\ UNCHANGED storeVars

\* ... waits for them, and clears those that still match.
Lock(o) ==
    /\ op[o].pc = "lock"
    /\ \A c \in op[o].target : ~LockedByOther(o, c)
    /\ op' = [op EXCEPT ![o] =
         [@ EXCEPT !.pc = IF op[o].kind = "create" THEN "count" ELSE "write",
                   !.cleared = op[o].target \cap Matching]]
    /\ UNCHANGED storeVars

\* Transactions do not see each other's rows before they commit.
Count(o) ==
    /\ op[o].pc = "count"
    /\ op' = [op EXCEPT ![o] =
         [@ EXCEPT !.pc = "write", !.first = \A c \in Configs : ~Present(c)]]
    /\ UNCHANGED storeVars

\* Mutant: an update keeps the result of the last test.
VerifiedKept(c) == rows[c].verified

\* isDefault of the row that is written.
BecomesDefault(o) ==
    \/ op[o].asked = "yes"
    \/ op[o].asked = "absent" /\ op[o].kind = "create" /\ op[o].first
    \/ op[o].asked = "absent" /\ op[o].kind = "update" /\ rows[op[o].config].isDefault

\* Any change invalidates the last successful test.
VerifiedAfter(c) == 0

RowAfter(o, c) ==
    [state |-> "present", version |-> latest + 1, isDefault |-> BecomesDefault(o),
     verified |-> VerifiedAfter(c), suspect |-> FALSE]

\* Every other request on its way is overlapped by this commit; a cache of
\* another instance is not told of it.
Overtake(o, next) ==
    op' = [p \in Ops |->
             IF p = o THEN next
             ELSE IF op[p].pc \in {"idle", "done"} THEN op[p]
             ELSE [op[p] EXCEPT !.overlapped = TRUE]]

\* told: the request hears of its commit, and drops its own transport.
Untold(o, c, told) ==
    {i \in Instances \ (IF told THEN {op[o].instance} ELSE {}) :
       \/ cache[i][c] # 0
       \/ \E p \in Ops : op[p].pc = "store" /\ op[p].config = c /\ op[p].instance = i}

\* The last statement waits for its own row and writes it.
Write(o) ==
    LET c == op[o].config
    IN
    /\ op[o].pc = "write"
    /\ ~LockedByOther(o, c)
    /\ \/ /\ op[o].kind = "update" /\ ~Present(c)
          /\ Ends(o, "error")
       \/ /\ op[o].kind = "create" \/ Present(c)
          /\ Moves(o, IF BecomesDefault(o) THEN "index" ELSE "commit")
    /\ UNCHANGED storeVars

\* It is in the partial unique index as a default and not committed.
Pending(o) == op[o].pc = "commit" /\ BecomesDefault(o)

\* Then the partial unique index waits for an uncommitted change of a default,
\* and refuses a second one.
CheckIndex(o) ==
    LET others == Defaults \ Held(o)
    IN
    /\ op[o].pc = "index"
    /\ \A d \in others : ~LockedByOther(o, d)
    /\ \A p \in Ops \ {o} : ~Pending(p)
    /\ \/ others # {} /\ Ends(o, "conflict")
       \/ others = {} /\ Moves(o, "commit")
    /\ UNCHANGED storeVars

\* What the request does after its commit: update drops the transport, and a
\* lost reply is an error to its caller.
AfterCommit(o, told) ==
    [op[o] EXCEPT !.cleared = {}, !.target = {}, !.got = latest + 1,
       !.pc = IF told /\ op[o].kind = "update" THEN "invalidate" ELSE "done",
       !.outcome = IF ~told THEN "error" ELSE IF op[o].kind = "update" THEN "none" ELSE "ok"]

Commit(o) ==
    LET c == op[o].config
    IN
    /\ op[o].pc = "commit"
    /\ rows' = [d \in Configs |->
         IF d = c THEN RowAfter(o, c)
         ELSE IF d \in op[o].cleared THEN [rows[d] EXCEPT !.isDefault = FALSE]
         ELSE rows[d]]
    /\ latest' = latest + 1
    /\ \E told \in BOOLEAN :
         /\ Overtake(o, AfterCommit(o, told))
         /\ raced' = raced \cup (Untold(o, c, told) \X {c})
    /\ UNCHANGED cache

\* The database fails, ends a deadlock, or the transaction times out: it is
\* rolled back.
Rollback(o) ==
    /\ op[o].pc \in {"snapshot", "lock", "count", "write", "index", "commit", "delete"}
    /\ Ends(o, "error")
    /\ UNCHANGED storeVars

\* Mutant: update and remove forget the transport.
CacheKept(i, c) == cache

Delete(o) ==
    LET c == op[o].config
    IN
    /\ op[o].pc = "delete"
    /\ ~LockedByOther(o, c)
    /\ \/ /\ ~Present(c)
          /\ Ends(o, "error")
          /\ UNCHANGED storeVars
       \/ /\ Present(c)
          /\ rows' = [rows EXCEPT ![c] = [Absent EXCEPT !.state = "removed"]]
          /\ \E told \in BOOLEAN :
               /\ Overtake(o, [op[o] EXCEPT !.pc = IF told THEN "invalidate" ELSE "done",
                                           !.outcome = IF told THEN "none" ELSE "error"])
               /\ raced' = raced \cup (Untold(o, c, told) \X {c})
          /\ UNCHANGED <<cache, latest>>

\* transports.delete(id), once the statement is answered.
CacheWithout(i, c) == [cache EXCEPT ![i] = [@ EXCEPT ![c] = 0]]

Invalidate(o) ==
    LET i == op[o].instance
        c == op[o].config
        stale == \E p \in Ops : /\ op[p].pc = "store"
                                /\ op[p].instance = i /\ op[p].config = c
                                /\ op[p].got # rows[c].version
    IN
    /\ op[o].pc = "invalidate"
    /\ cache' = CacheWithout(i, c)
    /\ raced' = IF stale THEN raced \cup {<<i, c>>} ELSE raced \ {<<i, c>>}
    /\ Ends(o, "ok")
    /\ UNCHANGED <<rows, latest>>

-----------------------------------------------------------------------------
(* test and mail.                                                           *)

\* transportForOrg: the default, or the system's transport if there is one.
FindDefault(o) ==
    /\ op[o].pc = "default"
    /\ \/ /\ Defaults = {}
          /\ \E outcome \in {"ok", "dropped"} : Ends(o, outcome)
       \/ \E c \in Defaults : Connects(o, c, "fetch")
    /\ UNCHANGED storeVars

\* transportFor reads the row ...
Fetch(o) ==
    LET c == op[o].config
    IN
    /\ op[o].pc = "fetch"
    /\ \/ /\ ~Present(c)
          /\ Ends(o, IF op[o].kind = "mail" THEN "dropped" ELSE "error")
       \/ /\ Present(c)
          /\ op' = [op EXCEPT ![o] = [@ EXCEPT !.pc = "store", !.got = rows[c].version]]
    /\ UNCHANGED storeVars

\* ... and, when the answer is back, keeps a transport of what it read.
Store(o) ==
    LET i == op[o].instance
        c == op[o].config
    IN
    /\ op[o].pc = "store"
    /\ cache' = [cache EXCEPT ![i] = [@ EXCEPT ![c] = op[o].got]]
    /\ Moves(o, IF op[o].kind = "test" THEN "verify" ELSE "send")
    /\ UNCHANGED <<rows, latest, raced>>

\* verify, and the message when the caller asked for one: the server refuses
\* either, or accepts.
Verify(o) ==
    /\ op[o].pc = "verify"
    /\ Ends(o, "error") \/ Moves(o, "mark")
    /\ UNCHANGED storeVars

Mark(o) ==
    LET c == op[o].config
    IN
    /\ op[o].pc = "mark"
    /\ ~LockedByOther(o, c)
    /\ \/ /\ ~Present(c)
          /\ Ends(o, "error")
          /\ UNCHANGED rows
       \/ /\ Present(c)
          /\ rows' = [rows EXCEPT ![c] =
               [@ EXCEPT !.verified = op[o].got, !.suspect = op[o].overlapped]]
          /\ Ends(o, "ok") \/ Ends(o, "error")
    /\ UNCHANGED <<cache, latest, raced>>

\* MailerService.send swallows the error of a message it could not send.
Send(o) ==
    /\ op[o].pc = "send"
    /\ Ends(o, "ok") \/ Ends(o, "dropped")
    /\ UNCHANGED storeVars

OpStep(o) ==
    \/ Begin(o) \/ Require(o)
    \/ Snapshot(o) \/ Lock(o) \/ Count(o) \/ Write(o) \/ CheckIndex(o) \/ Commit(o)
    \/ Rollback(o) \/ Delete(o) \/ Invalidate(o)
    \/ FindDefault(o) \/ Fetch(o) \/ Store(o) \/ Verify(o) \/ Mark(o) \/ Send(o)

SmtpNext == \E o \in Ops : OpStep(o)

SmtpSpec == SmtpInit /\ [][SmtpNext]_smtpVars

-----------------------------------------------------------------------------
(* Properties.                                                              *)

\* An instance connects with the settings of the row (smtp.service.ts:49-54),
\* but for what no invalidation reaches: a cache of another instance, a
\* transport built from a row that was read before the change and kept after
\* the invalidation, and the own cache of a request that never heard of its
\* commit.
TransportIsCurrent ==
    \A i \in Instances, c \in Configs :
        /\ cache[i][c] # 0
        /\ cache[i][c] # rows[c].version
        => \/ <<i, c>> \in raced
           \/ \E o \in Ops : /\ op[o].pc = "invalidate"
                             /\ op[o].instance = i /\ op[o].config = c

\* verifiedAt is set only for settings that a test connected with
\* (smtp.service.ts:137-138, 193), unless a change overtook the test, or the
\* test went through one of those stale transports.
VerifiedMeansTested ==
    \A c \in Configs :
        rows[c].verified # 0 => rows[c].verified = rows[c].version \/ rows[c].suspect

\* A request that runs alone is never refused by the unique index: the old
\* default is cleared before the new one is written (smtp.service.ts:75-82,
\* 114-119).
ConflictNeedsOverlap ==
    \A o \in Ops : op[o].outcome = "conflict" => op[o].overlapped

\* Whose uncommitted rows, or entry in the index, a statement waits for.
WaitsFor(o) ==
    {p \in Ops \ {o} :
       \/ op[o].pc = "lock" /\ Held(p) \cap op[o].target # {}
       \/ op[o].pc \in {"write", "delete", "mark"} /\ op[o].config \in Held(p)
       \/ op[o].pc = "index" /\ (Held(p) \cap Defaults # {} \/ Pending(p))}

\* It becomes the default and holds none: there was none when it looked, or
\* another request changed it between its look and its write.
Latecomer(o) == op[o].pc = "index" /\ Held(o) \cap Defaults = {}

\* Changes that take over the default wait for each other in chains of two at
\* most, and never in a circle: a change holds the old default first, waits for
\* its own row only after that, and then for nobody.  A circle of waits, which
\* the database has to break, goes through a latecomer, who waits in the index
\* with its own row in hand (smtp.service.ts:74-103, 113-142).
WaitsEnd ==
    \A o \in Ops : \A p \in WaitsFor(o) : \A q \in WaitsFor(p) :
        ~Latecomer(p) /\ ~Latecomer(q) => WaitsFor(q) = {}

\* What the code does not promise: that no two transactions wait for each other.
NoDeadlock == \A o \in Ops : \A p \in WaitsFor(o) : o \notin WaitsFor(p)

\* What the comment on the cache says (smtp.service.ts:49-54): a changed
\* password takes effect immediately.  Mail that began after an update was
\* answered goes out on the settings of that update or later ones.
ChangeTakesEffect ==
    \A o \in Ops : op[o].kind = "mail" /\ op[o].pc = "send" => op[o].got >= op[o].since

-----------------------------------------------------------------------------
(* What makes the four invariants inductive (DashboardProofs).              *)

Changing == {"snapshot", "lock", "count", "write", "index", "commit"}

\* A request has the row it is about, and what it read is what is there
\* unless another request committed meanwhile.
Reads(o) ==
    /\ op[o].pc \notin {"idle", "default", "done"} =>
         /\ op[o].config \in Configs
         /\ op[o].pc \notin Changing => rows[op[o].config].state # "absent"
    /\ op[o].pc \in Changing =>
         op[o].kind = IF rows[op[o].config].state = "absent" THEN "create" ELSE "update"
    /\ op[o].pc \in {"store", "verify", "mark"} /\ ~op[o].overlapped =>
         op[o].got = rows[op[o].config].version

\* Alone, a change has found, and then cleared, whatever is the default.
Clears(o) ==
    /\ op[o].pc \in {"snapshot", "lock"} => op[o].asked = "yes"
    /\ op[o].pc = "count" => op[o].kind = "create"
    /\ op[o].pc = "require" => op[o].kind \in {"update", "remove", "test"}
    /\ op[o].outcome = "conflict" => op[o].overlapped
    /\ ~op[o].overlapped =>
         /\ op[o].pc = "lock" => ToClear(o) \subseteq op[o].target
         /\ op[o].pc \in {"count", "write", "index"} /\ op[o].asked = "yes" =>
              ToClear(o) \subseteq op[o].cleared
         /\ /\ op[o].pc \in {"write", "index"}
            /\ op[o].kind = "create" /\ op[o].first
            => Defaults = {}

\* A transaction clears nothing but the default, and holds it until it ends;
\* what it writes last is there.
Locks(o) ==
    /\ op[o].cleared \subseteq Defaults
    /\ op[o].cleared # {} => op[o].pc \in {"count", "write", "index", "commit"}
    /\ op[o].pc \in {"index", "commit"} /\ op[o].kind = "update" => Present(op[o].config)
    /\ op[o].pc = "index" => BecomesDefault(o)

\* No two transactions hold a row, and none knows of a row that is not there.
Apart ==
    \A o, p \in Ops :
        o # p => /\ Held(o) \cap Held(p) = {}
                 /\ op[o].config \in Configs /\ op[o].config = op[p].config
                    => rows[op[o].config].state # "absent"

OneDefault == \A c, d \in Defaults : c = d

\* Who is in the index as the next default holds the present one, alone.
IndexInv ==
    \A o \in Ops :
        Pending(o) => /\ Defaults \subseteq Held(o)
                      /\ \A p \in Ops : Pending(p) => p = o

Untrusted(i, c) ==
    \/ <<i, c>> \in raced
    \/ \E o \in Ops : op[o].pc = "invalidate" /\ op[o].instance = i /\ op[o].config = c

\* A stale transport, kept or about to be, is one of those that may be.
CacheInv ==
    /\ TransportIsCurrent
    /\ \A i \in Instances, c \in Configs : rows[c].state = "absent" => cache[i][c] = 0
    /\ \A o \in Ops :
         /\ op[o].pc = "store"
         /\ op[o].got # rows[op[o].config].version
         => Untrusted(op[o].instance, op[o].config)

SmtpInv ==
    /\ SmtpTypeOK
    /\ \A o \in Ops : Reads(o) /\ Clears(o) /\ Locks(o)
    /\ Apart /\ OneDefault /\ IndexInv
    /\ CacheInv /\ VerifiedMeansTested

=============================================================================
