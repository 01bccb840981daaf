------------------------------ MODULE Pipeline -------------------------------
(***************************************************************************)
(* One synchronous render: POST /v1/pdf (pdf.controller.ts), the pipeline  *)
(* that renders, stamps, encrypts, stores and records (render.pipeline.ts, *)
(* protection/), the renderer's answers as the api maps them               *)
(* (renderer.client.ts, apps/renderer/src/server.ts), and the playground   *)
(* that opens the settings of the document again.                          *)
(*                                                                         *)
(* A PDF is its number of pages, the pages that carry the watermark, how   *)
(* far the stamp is from its anchor, and what its encryption allows.       *)
(***************************************************************************)
EXTENDS Integers, FiniteSets, Sequences, FiniteSetsExt

CONSTANTS
    OptionNames,   \* fields of RenderOptionsDto a request may set
    Watermarks,    \* watermark blocks the DTO accepts, and NoBlock
    Protections,   \* protection blocks it accepts, and NoBlock
    NoBlock,
    Restrictable,  \* permissions that are a plain yes or no
    PageCounts,    \* pages a render may have
    MaxPages       \* MAX_PAGES

Answers3 == {"absent", "yes", "no"}

\* A selection is a word or a set of ranges: the DTO's pattern lets page 0 and
\* reversed ranges through.  ink says whether the text or the image is there
\* ("absent": it is not) and can be drawn.  turns is the rotation in quarter
\* turns.
ASSUME ConstantsAssumption ==
    /\ \A w \in Watermarks \ {NoBlock} :
         /\ DOMAIN w = {"type", "ink", "pages", "ranges", "turns"}
         /\ w.type \in {"text", "image"} /\ w.ink \in {"absent", "undrawable", "good"}
         /\ w.pages \in {"all", "first", "last", "ranges"} /\ w.ranges \subseteq Nat \X Nat
    /\ \A p \in Protections \ {NoBlock} :
         /\ DOMAIN p = {"print", "highResolutionPrint", "others"}
         /\ p.print \in Answers3 /\ p.highResolutionPrint \in Answers3
         /\ p.others \in [Restrictable -> Answers3]
    /\ PageCounts \subseteq Nat /\ MaxPages \in Nat

VARIABLES
    dto,       \* the request
    pc,        \* the next await of RenderPipeline.run or PdfController.render
    file,      \* the PDF in memory
    temp,      \* the plain PDF in its temporary directory: none, there, or stuck
    document,  \* the row
    unheard,   \* writes of the row that took effect though their call threw
    stored,    \* the object
    metered,   \* how many renders and failures of it are counted
    reply,     \* the response, or the error that is becoming one
    carried,   \* option names the playground sends
    preview    \* what became of its last preview

vars == <<dto, pc, file, temp, document, unheard, stored, metered, reply, carried, preview>>

playgroundVars == <<carried, preview>>

NoFile == [pages |-> 0, readable |-> FALSE, stamped |-> {}, offset |-> <<0, 0>>,
           encrypted |-> FALSE, print |-> "full", denied |-> {}]

Rendered(n, readable) == [NoFile EXCEPT !.pages = n, !.readable = readable]

Problem(code, status) == [code |-> code, status |-> status]
NoReply == Problem("none", 0)
Created == Problem("none", 201)
Internal == Problem("internal_error", 500)

Init ==
    /\ dto \in [options : SUBSET OptionNames, watermark : Watermarks, protection : Protections]
    /\ pc = "create"
    /\ file = NoFile
    /\ temp = "none"
    /\ document = [status |-> "absent", errorCode |-> "none", key |-> FALSE, options |-> {}]
    /\ unheard = {}
    /\ stored = NoFile
    /\ metered = [renders |-> 0, failures |-> 0]
    /\ reply = NoReply
    /\ carried = {} /\ preview = "none"

-----------------------------------------------------------------------------
(* page-selection.ts: zero-based indices, or nonsense.                     *)

Nonsense(w) == w.pages = "ranges" /\ \E r \in w.ranges : r[1] < 1 \/ r[2] < r[1]

IndicesOf(r, n) == {page - 1 : page \in r[1]..Min({r[2], n})}

resolvePages(w, n) ==
    CASE w.pages = "all" -> 0..(n - 1)
      [] w.pages = "first" -> IF n > 0 THEN {0} ELSE {}
      [] w.pages = "last" -> IF n > 0 THEN {n - 1} ELSE {}
      [] OTHER -> UNION {IndicesOf(r, n) : r \in w.ranges}

-----------------------------------------------------------------------------
(* watermark.service.ts.  A stamp is four units wide and two high.         *)

Width == 4
Height == 2

\* textExtent: the box of a text that is turned; an image's is not.
Extent(w) ==
    IF w.type = "text" /\ w.turns % 2 = 1 THEN <<Height, Width>> ELSE <<Width, Height>>

\* anchorFor, relative to the anchor: half the extent to the left and down.
Origin(w) == <<-(Extent(w)[1] \div 2), -(Extent(w)[2] \div 2)>>

\* External: pdf-lib turns what it draws around the point it draws from.
CentreFrom(turns) ==
    CASE turns = 0 -> <<Width \div 2, Height \div 2>>
      [] turns = 1 -> <<-(Height \div 2), Width \div 2>>
      [] turns = 2 -> <<-(Width \div 2), -(Height \div 2)>>
      [] turns = 3 -> <<Height \div 2, -(Width \div 2)>>

OffsetOf(w) == <<Origin(w)[1] + CentreFrom(w.turns)[1], Origin(w)[2] + CentreFrom(w.turns)[2]>>

WithStamp(f, w) ==
    IF resolvePages(w, f.pages) = {} THEN f
    ELSE [f EXCEPT !.stamped = {i + 1 : i \in resolvePages(w, f.pages)}, !.offset = OffsetOf(w)]

\* apply, with what it throws; pdf-lib loads nothing damaged or encrypted, and
\* its Helvetica has no glyph for a text outside WinAnsi.
ApplyError(f, w) ==
    IF ~f.readable \/ f.encrypted THEN Internal
    ELSE IF Nonsense(w) THEN Problem("invalid_request", 400)
    ELSE IF resolvePages(w, f.pages) = {} \/ w.ink = "good" THEN NoReply
    ELSE IF w.type = "text" /\ w.ink = "undrawable" THEN Internal
    ELSE Problem("invalid_request", 400)

-----------------------------------------------------------------------------
(* encryption.service.ts.                                                  *)

yesNo(answer) == IF answer = "no" THEN "n" ELSE "y"

\* Mutant: high-resolution printing is looked at first.
PrintLowFirst(p) ==
    IF p.highResolutionPrint = "no" THEN "low" ELSE IF p.print = "no" THEN "none" ELSE "full"

PrintFlag(p) ==
    IF p.print = "no" THEN "none" ELSE IF p.highResolutionPrint = "no" THEN "low" ELSE "full"

Encrypted(f, p) ==
    [f EXCEPT !.encrypted = TRUE, !.print = PrintFlag(p),
              !.denied = {x \in Restrictable : yesNo(p.others[x]) = "n"}]

-----------------------------------------------------------------------------
(* renderer.client.ts: what the renderer answers, and what the api makes   *)
(* of it.  "unreachable" is a fetch that throws.                           *)

RendererCodes ==
    {"render_timeout", "invalid_html", "pool_timeout", "invalid_request", "internal_error",
     "unreachable"}

CODE_MAP(code) ==
    CASE code = "render_timeout" -> Problem("render_timeout", 504)
      [] code \in {"invalid_html", "asset_blocked"} -> Problem(code, 422)
      [] code \in {"pool_timeout", "unreachable"} -> Problem("renderer_unavailable", 503)
      [] code = "invalid_request" -> Problem("invalid_request", 400)
      [] OTHER -> Internal

-----------------------------------------------------------------------------
(* render.pipeline.ts, run.  A write that throws may have taken effect.    *)

\* Every throw inside the try block goes to the catch block.
Throw(problem) == pc' = "catch" /\ reply' = problem

reproducibleOptions ==
    dto.options \cup (IF dto.watermark # NoBlock THEN {"watermark"} ELSE {})
                \cup (IF dto.protection # NoBlock THEN {"protection"} ELSE {})

\* A write of the row that throws, done or not.
Refused(write, row) ==
    \/ UNCHANGED <<document, unheard>>
    \/ document' = row /\ unheard' = unheard \cup {write}

Begun == [document EXCEPT !.status = "rendering", !.options = reproducibleOptions]

\* The size limit on the markup, and the row.
CreateRow ==
    /\ pc = "create"
    /\ \/ /\ pc' = "done" /\ reply' = Problem("payload_too_large", 413)
          /\ UNCHANGED <<document, unheard>>
       \/ pc' = "render" /\ document' = Begun /\ UNCHANGED <<unheard, reply>>
       \/ pc' = "done" /\ reply' = Internal /\ Refused("create", Begun)
    /\ UNCHANGED <<dto, file, temp, stored, metered, playgroundVars>>

\* countPages: 0 for what pdf-lib cannot read.
CountPages(f) == IF f.readable THEN f.pages ELSE 0

\* The steps after the render that this request needs, in the code's order.
AfterRender == IF dto.watermark # NoBlock THEN "stamp"
               ELSE IF dto.protection # NoBlock THEN "temp" ELSE "store"
AfterStamp == IF dto.protection # NoBlock THEN "temp" ELSE "store"

\* The render, the page count and the page limit.
Render ==
    /\ pc = "render"
    /\ \/ \E n \in PageCounts, readable \in BOOLEAN :
            LET f == Rendered(n, readable) IN
            /\ file' = f
            /\ IF CountPages(f) > MaxPages THEN Throw(Problem("payload_too_large", 413))
               ELSE pc' = AfterRender /\ UNCHANGED reply
       \/ \E code \in RendererCodes : Throw(CODE_MAP(code)) /\ UNCHANGED file
    /\ UNCHANGED <<dto, temp, document, unheard, stored, metered, playgroundVars>>

\* apply; the save of the stamped document may fail as well.
Stamp ==
    /\ pc = "stamp"
    /\ \/ /\ ApplyError(file, dto.watermark) = NoReply
          /\ file' = WithStamp(file, dto.watermark)
          /\ pc' = AfterStamp /\ UNCHANGED reply
       \/ /\ ApplyError(file, dto.watermark) # NoReply
          /\ Throw(ApplyError(file, dto.watermark)) /\ UNCHANGED file
       \/ Throw(Internal) /\ UNCHANGED file
    /\ UNCHANGED <<dto, temp, document, unheard, stored, metered, playgroundVars>>

\* encrypt makes a directory, or cannot, and writes the plain PDF there for
\* qpdf; of a write that fails a part may be there.
WriteTemp ==
    /\ pc = "temp"
    /\ \/ temp' = "there" /\ pc' = "qpdf" /\ UNCHANGED reply
       \/ temp' = "there" /\ pc' = "rm" /\ reply' = Internal
       \/ Throw(Internal) /\ UNCHANGED temp
    /\ UNCHANGED <<dto, file, document, unheard, stored, metered, playgroundVars>>

\* qpdf succeeds (exit 0 or 3), or fails, times out or is not installed.
Qpdf ==
    /\ pc = "qpdf"
    /\ pc' = "rm"
    /\ \/ file' = Encrypted(file, dto.protection) /\ UNCHANGED reply
       \/ reply' = Internal /\ UNCHANGED file
    /\ UNCHANGED <<dto, temp, document, unheard, stored, metered, playgroundVars>>

\* Mutant: the directory is removed only when qpdf succeeded.
RemovedOnSuccess(succeeded) == IF succeeded THEN "none" ELSE "there"

\* What rm leaves, whether the try block returned or threw.
Removed(succeeded) == "none"

\* finally: rm of the directory.  When the file system refuses, the refusal is
\* what encrypt throws, even if qpdf succeeded.
RemoveTemp ==
    /\ pc = "rm"
    /\ \/ /\ temp' = Removed(reply = NoReply)
          /\ pc' = (IF reply = NoReply THEN "store" ELSE "catch") /\ UNCHANGED reply
       \/ temp' = "stuck" /\ Throw(Internal)
    /\ UNCHANGED <<dto, file, document, unheard, stored, metered, playgroundVars>>

\* putPdf; a put that throws may have stored the object.
Store ==
    /\ pc = "store"
    /\ \/ stored' = file /\ pc' = "complete" /\ UNCHANGED reply
       \/ stored' \in {stored, file} /\ Throw(Internal)
    /\ UNCHANGED <<dto, file, temp, document, unheard, metered, playgroundVars>>

Completed == [document EXCEPT !.status = "completed", !.key = TRUE]

\* The row is completed.  An update that threw is followed by the catch block,
\* even if the row is completed by then.
Complete ==
    /\ pc = "complete"
    /\ \/ document' = Completed /\ pc' = "meter" /\ UNCHANGED <<unheard, reply>>
       \/ Throw(Internal) /\ Refused("complete", Completed)
    /\ UNCHANGED <<dto, file, temp, stored, metered, playgroundVars>>

\* Mutant: an error of the metering is thrown.
MeterThrows == Throw(Internal)

\* recordRender logs its own error and returns.
MeterFailed == pc' = "fulfil" /\ UNCHANGED reply

Meter ==
    /\ pc = "meter"
    /\ \/ metered' = [metered EXCEPT !.renders = @ + 1] /\ pc' = "fulfil" /\ UNCHANGED reply
       \/ MeterFailed /\ UNCHANGED metered
    /\ UNCHANGED <<dto, file, temp, document, unheard, stored, playgroundVars>>

\* pdf.controller.ts: the document is recorded under the Idempotency-Key, if
\* there is one; a SET that rejects is what the caller hears.
Fulfil ==
    /\ pc = "fulfil"
    /\ \/ pc' = "send" /\ UNCHANGED reply
       \/ pc' = "done" /\ reply' = Internal
    /\ UNCHANGED <<dto, file, temp, document, unheard, stored, metered, playgroundVars>>

\* send: the bytes, or a link whose signing may fail.
Send ==
    /\ pc = "send"
    /\ pc' = "done"
    /\ reply' \in {Created, Internal}
    /\ UNCHANGED <<dto, file, temp, document, unheard, stored, metered, playgroundVars>>

Failed == [document EXCEPT !.status = "failed", !.errorCode = reply.code]

\* The catch block: the row is failed with the error's code; if that update
\* throws, its error is the answer and nothing is metered.
Catch ==
    /\ pc = "catch"
    /\ \/ document' = Failed /\ pc' = "meterFailure" /\ UNCHANGED <<unheard, reply>>
       \/ pc' = "done" /\ reply' = Internal /\ Refused("fail", Failed)
    /\ UNCHANGED <<dto, file, temp, stored, metered, playgroundVars>>

MeterFailure ==
    /\ pc = "meterFailure"
    /\ pc' = "done"
    /\ metered' \in {metered, [metered EXCEPT !.failures = @ + 1]}
    /\ UNCHANGED <<dto, file, temp, document, unheard, stored, reply, playgroundVars>>

\* The process stops; nothing of the request is taken up again.
Crash ==
    /\ pc \notin {"done", "down"}
    /\ pc' = "down"
    /\ UNCHANGED <<dto, file, temp, document, unheard, stored, metered, reply, playgroundVars>>

-----------------------------------------------------------------------------
(* The playground (playground/page.tsx) on the settings of the document.   *)

\* The seed effect: setOptions(document.optionsJson).
Reopen ==
    /\ document.status # "absent"
    /\ carried' = document.options
    /\ UNCHANGED <<dto, pc, file, temp, document, unheard, stored, metered, reply, preview>>

\* ValidationPipe with forbidNonWhitelisted: no option the DTO does not name.
\* preview then renders, stamps and counts, and records nothing.
Preview ==
    /\ \/ ~(carried \subseteq OptionNames) /\ preview' = "rejected"
       \/ /\ carried \subseteq OptionNames
          /\ preview' \in {"shown", "failed"}
    /\ UNCHANGED <<dto, pc, file, temp, document, unheard, stored, metered, reply, carried>>

Next ==
    \/ CreateRow \/ Render \/ Stamp \/ WriteTemp \/ Qpdf \/ RemoveTemp \/ Store \/ Complete
    \/ Meter \/ Fulfil \/ Send \/ Catch \/ MeterFailure \/ Crash
    \/ Reopen \/ Preview

Spec == Init /\ [][Next]_vars

-----------------------------------------------------------------------------
(* Properties.                                                             *)

Asked(page, w, n) ==
    CASE w = NoBlock -> FALSE
      [] w # NoBlock /\ w.pages = "all" -> TRUE
      [] w # NoBlock /\ w.pages = "first" -> page = 1
      [] w # NoBlock /\ w.pages = "last" -> page = n
      [] OTHER -> \E r \in w.ranges : r[1] <= page /\ page <= r[2]

MayPrint(p) == p.print # "no"
MayPrintWell(p) == p.print # "no" /\ p.highResolutionPrint # "no"

\* What a completed row points to is what was asked for, whatever path the
\* request took: stamped on exactly the selected pages that exist, encrypted
\* if and only if protection was asked for, every permission that was refused
\* denied and no other, printing in its three states, and no longer than the
\* limit if pdf-lib could count its pages (page-selection.ts:15-54,
\* encryption.service.ts:114-157).
DeliveredAsAsked ==
    document.status = "completed" =>
        LET w == dto.watermark
            p == dto.protection
        IN /\ stored.stamped = {page \in 1..stored.pages : Asked(page, w, stored.pages)}
           /\ stored.readable => stored.pages <= MaxPages
           /\ stored.encrypted = (p # NoBlock)
           /\ p # NoBlock =>
                /\ (stored.print # "none") = MayPrint(p)
                /\ (stored.print = "full") = MayPrintWell(p)
                /\ stored.denied = {x \in Restrictable : p.others[x] = "no"}

\* The plain PDF of a protected render is on disk only until qpdf has run: no
\* outcome of the write or of qpdf leaves it there, only a crash of the process
\* or a file system that refuses its removal does; and of a copy that got stuck
\* the caller is told 500, no object was stored and no row completed
\* (encryption.service.ts:32-49).
NoPlainCopyLeft ==
    /\ temp = "there" => pc \in {"qpdf", "rm", "down"}
    /\ temp = "stuck" =>
         reply = Internal /\ stored = NoFile /\ document.status # "completed"

\* The caller, the row and the bill tell one story, whichever await throws and
\* whether or not a write that threw took effect.  201 means a completed row
\* and its object.  A render is billed once: as a render when it completed and
\* as a failure when it did not.  A failed row carries the code the caller was
\* given, unless the write of that code is the one that threw, and it names an
\* object only if the write that completed it threw; the object is there then.
\* A row that a request leaves rendering is known to a caller that was told 500
\* (render.pipeline.ts:106-215, pdf.controller.ts:59-84).
OneStory ==
    /\ metered.renders + metered.failures <= 1
    /\ metered.renders > 0 => document.status = "completed"
    /\ metered.failures > 0 => document.status = "failed"
    /\ reply = Created /\ pc = "done" =>
         document.status = "completed" /\ document.key /\ stored = file
    /\ document.status = "failed" =>
         /\ \/ reply.code = document.errorCode
            \/ "fail" \in unheard /\ reply = Internal
         /\ document.key => "complete" \in unheard /\ stored = file
    /\ pc = "done" /\ document.status = "rendering" => reply = Internal

\* "Arriving from a document carries its settings across" (playground/
\* page.tsx:98): a preview with the settings of a document is not refused as
\* an invalid request.
SeededPreviewIsAccepted == preview # "rejected"

-----------------------------------------------------------------------------
(* What makes NoPlainCopyLeft and OneStory inductive (PipelineProofs).     *)

\* The plain PDF is there exactly while qpdf runs and until rm has, as long as
\* the process does; a stuck one ends the work on the document.
TempTracksQpdf ==
    /\ temp \in {"none", "there", "stuck"}
    /\ temp = "there" => pc \in {"qpdf", "rm", "down"}
    /\ temp = "stuck" =>
         /\ pc \in {"catch", "meterFailure", "done", "down"} /\ reply = Internal
         /\ stored = NoFile /\ document.status # "completed"
    /\ pc \in {"create", "render", "stamp", "temp", "qpdf", "rm", "store"} =>
         stored = NoFile /\ document.status # "completed"

Working == {"render", "stamp", "temp", "qpdf", "rm", "store", "complete", "catch"}

NoBill == [renders |-> 0, failures |-> 0]

Codes ==
    {"none", "render_timeout", "invalid_html", "renderer_unavailable", "invalid_request",
     "payload_too_large", "asset_blocked", "internal_error"}

Row == [status : {"absent", "rendering", "completed", "failed"}, errorCode : Codes,
        key : BOOLEAN, options : SUBSET (OptionNames \cup {"watermark", "protection"})]

Shape ==
    /\ dto.options \subseteq OptionNames
    /\ pc \in Working \cup {"create", "meter", "fulfil", "send", "meterFailure", "done", "down"}
    /\ document \in Row
    /\ reply.code \in Codes
    /\ metered \in [renders : {0, 1}, failures : {0, 1}]

\* How far the row, the object and the bill have come at every await.
StoryUntil ==
    /\ pc = "create" =>
         document.status = "absent" /\ ~document.key /\ metered = NoBill /\ reply = NoReply
    /\ pc \in Working => metered = NoBill
    /\ pc \in Working \ {"catch"} => document.status = "rendering" /\ ~document.key
    /\ pc = "rm" => reply = Internal \/ reply = NoReply
    /\ pc \in Working \ {"rm", "catch"} => reply = NoReply
    /\ pc = "complete" => stored = file
    /\ pc = "catch" =>
         \/ document.status = "rendering" /\ ~document.key
         \/ /\ document.status = "completed" /\ document.key /\ stored = file
            /\ "complete" \in unheard
    /\ pc = "meter" => metered = NoBill
    /\ pc \in {"meter", "fulfil", "send"} =>
         document.status = "completed" /\ document.key /\ stored = file
    /\ pc = "meterFailure" => document.status = "failed" /\ metered = NoBill
    /\ pc \in {"catch", "meterFailure"} => reply.code # "none"

IInv == Shape /\ TempTracksQpdf /\ StoryUntil /\ OneStory

-----------------------------------------------------------------------------
(* And what makes DeliveredAsAsked inductive.                              *)

RightlyStamped(f) ==
    f.stamped = {page \in 1..f.pages : Asked(page, dto.watermark, f.pages)}

RightlyProtected(f) ==
    LET p == dto.protection
    IN  /\ f.encrypted = (p # NoBlock)
        /\ p # NoBlock =>
             /\ (f.print # "none") = MayPrint(p)
             /\ (f.print = "full") = MayPrintWell(p)
             /\ f.denied = {x \in Restrictable : p.others[x] = "no"}

WithinLimit(f) == f.readable => f.pages <= MaxPages

FileFields == DOMAIN NoFile

\* What the steps so far have made of the PDF in memory.
FileInv ==
    /\ file = [x \in FileFields |-> file[x]] /\ file.pages \in Nat
    /\ dto.watermark \in Watermarks
    /\ pc \in {"stamp", "temp", "qpdf", "rm", "store", "complete"} => WithinLimit(file)
    /\ pc \in {"stamp", "temp", "qpdf"} => file.encrypted = FALSE
    /\ pc = "stamp" => dto.watermark # NoBlock /\ file.stamped = {}
    /\ pc \in {"temp", "qpdf"} => dto.protection # NoBlock /\ RightlyStamped(file)
    /\ pc = "rm" /\ reply = NoReply => RightlyStamped(file) /\ RightlyProtected(file)
    /\ pc \in {"store", "complete"} => RightlyStamped(file) /\ RightlyProtected(file)

DeliveredInv == FileInv /\ DeliveredAsAsked

=============================================================================
