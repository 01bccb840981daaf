---------------------------- MODULE PipelineProofs ----------------------------
(***************************************************************************)
(* Theorems about Pipeline, for every request and every number of pages,   *)
(* and about the renderer's BrowserPool, for every number of calls and     *)
(* slots.                                                                  *)
(*                                                                         *)
(* Pipeline's two invariants are about how far a run has come: StoryUntil  *)
(* says at every await what the row, the object and the bill are by then,  *)
(* and TempTracksQpdf what lies on disk.  The pool's says who holds a slot *)
(* and who waits for one.                                                  *)
(***************************************************************************)
EXTENDS Pipeline, BrowserPool, FunctionTheorems, FiniteSetTheorems, SequenceTheorems, TLAPS

\* What the api makes of the renderer's codes is one of its own codes, and an
\* error.
LEMMA MappedCode ==
    ASSUME NEW code \in RendererCodes
    PROVE  CODE_MAP(code).code \in Codes \ {"none"}
  BY DEF RendererCodes, CODE_MAP, Codes, Problem, Internal

\* So is what the watermark throws.
LEMMA StampCode ==
    ASSUME NEW f, NEW w, ApplyError(f, w) # NoReply
    PROVE  ApplyError(f, w).code \in Codes \ {"none"}
  BY DEF ApplyError, NoReply, Codes, Problem, Internal

\* The parts of IInv the story is told with.
Told == Shape /\ StoryUntil /\ OneStory

\* Until the row is completed a throw changes neither row, object nor bill.
LEMMA ThrowStep ==
    ASSUME Told, pc \in Working \ {"catch"},
           NEW problem, problem.code \in Codes \ {"none"}, Throw(problem),
           UNCHANGED <<dto, document, unheard, metered>>
    PROVE  Told'
  BY DEF Told, Shape, StoryUntil, OneStory, Throw, Working, NoBill, Created, Problem

\* A step on the way to the put moves only the control.
LEMMA WorkStep ==
    ASSUME Told, pc \in Working \ {"catch"}, pc' \in Working \ {"catch", "complete"},
           UNCHANGED <<dto, document, unheard, metered>>,
           (reply = NoReply /\ reply' = reply) \/ (pc' = "rm" /\ reply' = Internal)
    PROVE  Told'
<1>1. /\ Internal.code \in Codes \ {"none"} /\ Internal # Created /\ NoReply # Created
      /\ pc \in Working /\ pc' \in Working /\ pc' \notin {"catch", "complete", "create", "done"}
      /\ pc' \notin {"meter", "fulfil", "send", "meterFailure"}
  BY DEF Internal, Created, NoReply, Problem, Codes, Working
<1>2. document.status = "rendering" /\ ~document.key /\ metered = NoBill
  BY DEF Told, StoryUntil
<1>3. reply'.code \in Codes /\ (pc' # "rm" => reply' = NoReply)
      /\ (pc' = "rm" => reply' \in {Internal, NoReply}) /\ reply' # Created
  BY <1>1 DEF Told, Shape
<1>4. Shape'
  BY <1>1, <1>3 DEF Told, Shape
<1>5. StoryUntil'
  BY <1>1, <1>2, <1>3 DEF StoryUntil
<1>6. OneStory'
  BY <1>1, <1>2, <1>3 DEF Told, OneStory, NoBill
<1> QED
  BY <1>4, <1>5, <1>6 DEF Told

LEMMA StoryStep == Told /\ [Next]_vars => Told'
<1> SUFFICES ASSUME Told, [Next]_vars
             PROVE Told'
  OBVIOUS
<1>0. Internal.code \in Codes \ {"none"} /\ Internal # Created /\ Internal # NoReply
  BY DEF Internal, Problem, Codes, Created, NoReply
<1>a. document \in Row
  BY DEF Told, Shape
<1>1. CASE CreateRow
  <2>0. /\ pc = "create" /\ document.status = "absent" /\ ~document.key
        /\ UNCHANGED <<dto, stored, metered>> /\ metered = NoBill
    BY <1>1 DEF CreateRow, Told, StoryUntil
  <2>1. /\ Begun \in Row /\ Begun.status = "rendering" /\ ~Begun.key
    <3>1. reproducibleOptions \subseteq OptionNames \cup {"watermark", "protection"}
      BY DEF reproducibleOptions, Told, Shape
    <3> QED
      BY <1>a, <2>0, <3>1 DEF Begun, Row
  <2>2. CASE pc' = "done" /\ reply' \in {Internal, Problem("payload_too_large", 413)}
             /\ document' = document
    <3>1. reply'.code \in Codes /\ reply' # Created
      BY <2>2 DEF Internal, Problem, Codes, Created
    <3> QED
      BY <2>0, <2>2, <3>1 DEF Told, Shape, StoryUntil, OneStory, Working, NoBill
  <2>3. CASE pc' = "done" /\ reply' = Internal /\ document' = Begun
    BY <1>0, <2>0, <2>1, <2>3 DEF Told, Shape, StoryUntil, OneStory, Working, NoBill
  <2>4. CASE pc' = "render" /\ document' = Begun /\ reply' = reply
    BY <2>0, <2>1, <2>4 DEF Told, Shape, StoryUntil, OneStory, Working, NoBill
  <2> QED
    BY <1>1, <2>2, <2>3, <2>4 DEF CreateRow, Refused
<1>2. CASE Render
  <2>1. Problem("payload_too_large", 413).code \in Codes \ {"none"}
    BY DEF Problem, Codes
  <2>2. pc = "render" /\ UNCHANGED <<dto, document, unheard, metered>>
    BY <1>2 DEF Render
  <2>3. CASE \E problem : problem.code \in Codes \ {"none"} /\ Throw(problem)
    BY <2>2, <2>3, ThrowStep DEF Working
  <2>4. CASE pc' = AfterRender /\ UNCHANGED reply
    <3>1. reply = NoReply /\ AfterRender \in {"stamp", "temp", "store"}
      BY <2>2 DEF AfterRender, Told, StoryUntil, Working
    <3> QED
      BY <2>2, <2>4, <3>1, WorkStep DEF Working
  <2> QED
    BY <1>2, <2>1, <2>3, <2>4, MappedCode DEF Render
<1>3. CASE Stamp
  <2>1. pc = "stamp" /\ UNCHANGED <<dto, document, unheard, metered>>
    BY <1>3 DEF Stamp
  <2>2. CASE \E problem : problem.code \in Codes \ {"none"} /\ Throw(problem)
    BY <2>1, <2>2, ThrowStep DEF Working
  <2>3. CASE pc' = AfterStamp /\ UNCHANGED reply
    <3>1. reply = NoReply /\ AfterStamp \in {"temp", "store"}
      BY <2>1 DEF AfterStamp, Told, StoryUntil, Working
    <3> QED
      BY <2>1, <2>3, <3>1, WorkStep DEF Working
  <2> QED
    BY <1>0, <1>3, <2>2, <2>3, StampCode DEF Stamp
<1>4. CASE WriteTemp
  <2>1. pc = "temp" /\ UNCHANGED <<dto, document, unheard, metered>> /\ reply = NoReply
    BY <1>4 DEF WriteTemp, Told, StoryUntil, Working
  <2>2. CASE Throw(Internal)
    BY <1>0, <2>1, <2>2, ThrowStep DEF Working
  <2>3. CASE pc' = "qpdf" /\ UNCHANGED reply
    BY <2>1, <2>3, WorkStep DEF Working
  <2>4. CASE pc' = "rm" /\ reply' = Internal
    BY <2>1, <2>4, WorkStep DEF Working
  <2> QED
    BY <1>4, <2>2, <2>3, <2>4 DEF WriteTemp
<1>5. CASE Qpdf
  BY <1>0, <1>5, WorkStep DEF Qpdf, Working, Told, StoryUntil
<1>14. CASE RemoveTemp
  <2>1. pc = "rm" /\ UNCHANGED <<dto, document, unheard, metered>>
    BY <1>14 DEF RemoveTemp
  <2>2. CASE pc' = "store" /\ reply = NoReply /\ UNCHANGED reply
    BY <2>1, <2>2, WorkStep DEF Working
  <2>3. CASE Throw(Internal)
    BY <1>0, <2>1, <2>3, ThrowStep DEF Working
  <2>4. reply = NoReply \/ reply = Internal
    BY <2>1 DEF Told, StoryUntil
  <2> QED
    BY <1>14, <2>2, <2>3, <2>4 DEF RemoveTemp, Throw
<1>6. CASE Store
  <2>1. CASE stored' = file /\ pc' = "complete" /\ UNCHANGED reply
    BY <1>6, <2>1
       DEF Store, Told, Shape, StoryUntil, OneStory, Working, NoBill, Created, Problem
  <2> QED
    BY <1>0, <1>6, <2>1, ThrowStep DEF Store, Working
<1>7. CASE Complete
  <2>0. /\ pc = "complete" /\ document.status = "rendering" /\ ~document.key /\ stored = file
        /\ UNCHANGED <<dto, file, stored, metered>> /\ metered = NoBill /\ reply = NoReply
    BY <1>7 DEF Complete, Told, StoryUntil, Working
  <2>1. Completed \in Row /\ Completed.status = "completed" /\ Completed.key
    BY <1>a DEF Completed, Row
  <2>2. CASE Throw(Internal) /\ UNCHANGED <<document, unheard>>
    BY <1>0, <2>0, <2>2, ThrowStep DEF Working
  <2>3. CASE /\ pc' = "catch" /\ reply' = Internal /\ document' = Completed
             /\ unheard' = unheard \cup {"complete"}
    BY <1>0, <2>0, <2>1, <2>3 DEF Told, Shape, StoryUntil, OneStory, Working, NoBill
  <2>4. CASE document' = Completed /\ pc' = "meter" /\ UNCHANGED <<unheard, reply>>
    BY <1>0, <2>0, <2>1, <2>4 DEF Told, Shape, StoryUntil, OneStory, Working, NoBill
  <2> QED
    BY <1>7, <2>2, <2>3, <2>4 DEF Complete, Throw, Refused
<1>8. CASE Meter
  BY <1>8 DEF Meter, MeterFailed, Told, Shape, StoryUntil, OneStory, Working, NoBill
<1>15. CASE Fulfil
  BY <1>0, <1>15 DEF Fulfil, Told, Shape, StoryUntil, OneStory, Working, NoBill
<1>9. CASE Send
  BY <1>9 DEF Send, Told, Shape, StoryUntil, OneStory, Working, NoBill, Created, Internal,
              Problem, Codes
<1>10. CASE Catch
  <2>0. /\ pc = "catch" /\ UNCHANGED <<dto, file, stored, metered>> /\ metered = NoBill
        /\ reply.code # "none" /\ reply.code \in Codes
        /\ document.status \in {"rendering", "completed"}
        /\ document.key => "complete" \in unheard /\ stored = file
    BY <1>10 DEF Catch, Told, Shape, StoryUntil, Working
  <2>1. /\ Failed \in Row /\ Failed.status = "failed" /\ Failed.errorCode = reply.code
        /\ Failed.key = document.key
    BY <1>a, <2>0 DEF Failed, Row
  <2>2. CASE document' = Failed /\ pc' = "meterFailure" /\ UNCHANGED <<unheard, reply>>
    BY <2>0, <2>1, <2>2 DEF Told, Shape, StoryUntil, OneStory, Working, NoBill
  <2>3. CASE pc' = "done" /\ reply' = Internal /\ UNCHANGED <<document, unheard>>
    BY <1>0, <2>0, <2>3 DEF Told, Shape, StoryUntil, OneStory, Working, NoBill
  <2>4. CASE /\ pc' = "done" /\ reply' = Internal /\ document' = Failed
             /\ unheard' = unheard \cup {"fail"}
    BY <1>0, <2>0, <2>1, <2>4 DEF Told, Shape, StoryUntil, OneStory, Working, NoBill
  <2> QED
    BY <1>10, <2>2, <2>3, <2>4 DEF Catch, Refused
<1>11. CASE MeterFailure
  BY <1>11 DEF MeterFailure, Told, Shape, StoryUntil, OneStory, Working, NoBill, Created, Problem
<1>12. CASE Crash
  BY <1>12 DEF Crash, Told, Shape, StoryUntil, OneStory, Working, NoBill
<1>13. CASE Reopen \/ Preview \/ UNCHANGED vars
  BY <1>13 DEF Reopen, Preview, vars, Told, Shape, StoryUntil, OneStory
<1> QED
  BY <1>1, <1>2, <1>3, <1>4, <1>5, <1>6, <1>7, <1>8, <1>9, <1>10, <1>11, <1>12, <1>13, <1>14,
     <1>15
     DEF Next

LEMMA InitTold == Init => Told
BY DEF Init, Told, Shape, Row, StoryUntil, OneStory, Working, NoBill, NoReply, Problem, Codes,
       Created

\* Caller, row, object and bill tell one story, whichever call of a run throws,
\* and whether or not a write of the row that threw took effect
\* (render.pipeline.ts, pdf.controller.ts).
THEOREM OneStoryTold == Spec => []OneStory
<1>1. Told => OneStory
  BY DEF Told
<1> QED
  BY InitTold, StoryStep, <1>1, PTL DEF Spec

-----------------------------------------------------------------------------
\* The plain PDF appears with WriteTemp and goes with RemoveTemp, whatever the
\* outcome of qpdf, unless it gets stuck and ends the work on the document.
LEMMA TempStep == Told /\ TempTracksQpdf /\ [Next]_vars => TempTracksQpdf'
<1> SUFFICES ASSUME Told, TempTracksQpdf, [Next]_vars
             PROVE TempTracksQpdf'
  OBVIOUS
<1>0. document \in Row
  BY DEF Told, Shape
<1>1. CASE CreateRow
  <2>1. pc = "create" /\ temp' = temp /\ stored' = stored /\ pc' \in {"render", "done"}
    BY <1>1 DEF CreateRow
  <2>2. document' = document \/ document' = Begun
    BY <1>1 DEF CreateRow, Refused
  <2>3. Begun.status = "rendering"
    BY <1>0 DEF Begun, Row
  <2>4. document'.status # "completed"
    BY <2>1, <2>2, <2>3 DEF TempTracksQpdf
  <2> QED
    BY <2>1, <2>4 DEF TempTracksQpdf
<1>2. CASE Render \/ Stamp \/ WriteTemp \/ Qpdf \/ RemoveTemp \/ Store
  BY <1>2
     DEF TempTracksQpdf, Render, Stamp, WriteTemp, Qpdf, RemoveTemp, Removed, Store, AfterRender,
         AfterStamp, Throw
<1>3. CASE Complete \/ Meter \/ Fulfil \/ Send
  BY <1>3 DEF TempTracksQpdf, Complete, Meter, MeterFailed, Fulfil, Send, Throw
<1>4. CASE Catch
  <2>1. /\ pc = "catch" /\ temp' = temp /\ stored' = stored
        /\ pc' \in {"meterFailure", "done"} /\ reply' \in {reply, Internal}
    BY <1>4 DEF Catch
  <2>2. document' = document \/ document' = Failed
    BY <1>4 DEF Catch, Refused
  <2>3. Failed.status = "failed"
    BY <1>0 DEF Failed, Row
  <2> QED
    BY <2>1, <2>2, <2>3 DEF TempTracksQpdf
<1>5. CASE MeterFailure \/ Crash
  BY <1>5 DEF TempTracksQpdf, MeterFailure, Crash
<1>6. CASE Reopen \/ Preview \/ UNCHANGED vars
  BY <1>6 DEF TempTracksQpdf, Reopen, Preview, vars
<1> QED
  BY <1>1, <1>2, <1>3, <1>4, <1>5, <1>6 DEF Next

\* The plain PDF of a protected render is on disk only until rm has run after
\* qpdf, after a crash, or when the file system refused its removal, and then
\* the caller is told 500 and nothing is delivered (encryption.service.ts).
THEOREM NothingPlainRemains == Spec => []NoPlainCopyLeft
<1>1. Init => TempTracksQpdf
  BY DEF Init, TempTracksQpdf
<1>2. Told /\ TempTracksQpdf /\ [Next]_vars => TempTracksQpdf'
  BY TempStep
<1>3. TempTracksQpdf => NoPlainCopyLeft
  BY DEF TempTracksQpdf, NoPlainCopyLeft
<1> QED
  BY InitTold, StoryStep, <1>1, <1>2, <1>3, PTL DEF Spec

-----------------------------------------------------------------------------
\* The smaller of two numbers.
LEMMA MinOfTwo == ASSUME NEW a \in Int, NEW b \in Int
                  PROVE  Min({a, b}) = IF a <= b THEN a ELSE b
<1> DEFINE m == IF a <= b THEN a ELSE b
<1>1. m \in {a, b} /\ \A y \in {a, b} : m <= y
  OBVIOUS
<1>2. Min({a, b}) \in {a, b} /\ \A y \in {a, b} : Min({a, b}) <= y
  BY <1>1 DEF Min
<1> QED
  BY <1>2

\* A range selects the pages it names that exist.
LEMMA RangeIndices ==
    ASSUME NEW r \in Nat \X Nat, NEW n \in Nat, r[1] >= 1, NEW page
    PROVE  (\E i \in IndicesOf(r, n) : page = i + 1) <=>
             page \in 1..n /\ r[1] <= page /\ page <= r[2]
<1>1. r[1] \in Nat /\ r[2] \in Nat
  OBVIOUS
<1>2. Min({r[2], n}) = IF r[2] <= n THEN r[2] ELSE n
  BY <1>1, MinOfTwo
<1>3. IndicesOf(r, n) = {p - 1 : p \in r[1]..(IF r[2] <= n THEN r[2] ELSE n)}
  BY <1>2 DEF IndicesOf
<1>4. ASSUME NEW i \in IndicesOf(r, n), page = i + 1
      PROVE  page \in 1..n /\ r[1] <= page /\ page <= r[2]
  BY <1>1, <1>3, <1>4
<1>5. ASSUME page \in 1..n, r[1] <= page, page <= r[2]
      PROVE  page - 1 \in IndicesOf(r, n) /\ page = (page - 1) + 1
  BY <1>1, <1>3, <1>5
<1> QED
  BY <1>4, <1>5

\* resolvePages finds exactly the pages that were asked for, for every length
\* of a document and every selection that is not nonsense
\* (page-selection.ts).
LEMMA SelectionIsExact ==
    ASSUME NEW w \in Watermarks \ {NoBlock}, NEW n \in Nat, ~Nonsense(w)
    PROVE  {i + 1 : i \in resolvePages(w, n)} = {page \in 1..n : Asked(page, w, n)}
<1>1. w.pages \in {"all", "first", "last", "ranges"} /\ w.ranges \subseteq Nat \X Nat
  BY ConstantsAssumption
<1>2. CASE w.pages = "all"
  <2>1. resolvePages(w, n) = 0..(n - 1) /\ \A page : Asked(page, w, n)
    BY <1>2 DEF resolvePages, Asked
  <2>2. \A page \in 1..n : page - 1 \in 0..(n - 1) /\ page = (page - 1) + 1
    OBVIOUS
  <2>3. \A i \in 0..(n - 1) : i + 1 \in 1..n
    OBVIOUS
  <2>4. {i + 1 : i \in 0..(n - 1)} = 1..n
    BY <2>2, <2>3
  <2> QED
    BY <2>1, <2>4
<1>3. CASE w.pages = "first"
  BY <1>3 DEF resolvePages, Asked
<1>4. CASE w.pages = "last"
  BY <1>4 DEF resolvePages, Asked
<1>5. CASE w.pages = "ranges"
  <2>1. /\ resolvePages(w, n) = UNION {IndicesOf(r, n) : r \in w.ranges}
        /\ \A page : Asked(page, w, n) <=> \E r \in w.ranges : r[1] <= page /\ page <= r[2]
    BY <1>5 DEF resolvePages, Asked
  <2>2. ASSUME NEW r \in w.ranges PROVE r \in Nat \X Nat /\ r[1] >= 1
    BY <1>1, <1>5 DEF Nonsense
  <2>3. ASSUME NEW i \in resolvePages(w, n) PROVE i + 1 \in {page \in 1..n : Asked(page, w, n)}
    <3>1. PICK r \in w.ranges : i \in IndicesOf(r, n)
      BY <2>1
    <3> QED
      BY <2>1, <2>2, <3>1, RangeIndices
  <2>4. ASSUME NEW page \in 1..n, Asked(page, w, n)
        PROVE  \E i \in resolvePages(w, n) : page = i + 1
    <3>1. PICK r \in w.ranges : r[1] <= page /\ page <= r[2]
      BY <2>1, <2>4
    <3>2. PICK i \in IndicesOf(r, n) : page = i + 1
      BY <2>2, <3>1, RangeIndices
    <3> QED
      BY <2>1, <3>2
  <2> QED
    BY <2>3, <2>4
<1> QED
  BY <1>1, <1>2, <1>3, <1>4, <1>5

\* The flags qpdf is given say what was asked for (encryption.service.ts).
LEMMA FlagsAreRight ==
    ASSUME file = [x \in FileFields |-> file[x]], dto.protection # NoBlock
    PROVE  LET f == Encrypted(file, dto.protection)
           IN  /\ f = [x \in FileFields |-> f[x]]
               /\ f.pages = file.pages /\ f.readable = file.readable
               /\ f.stamped = file.stamped
               /\ RightlyProtected(f)
<1> DEFINE f == Encrypted(file, dto.protection)
           p == dto.protection
<1>1. FileFields = {"pages", "readable", "stamped", "offset", "encrypted", "print", "denied"}
  BY DEF FileFields, NoFile
<1>2. /\ f = [x \in FileFields |-> f[x]]
      /\ f.pages = file.pages /\ f.readable = file.readable /\ f.stamped = file.stamped
      /\ f.encrypted = TRUE /\ f.print = PrintFlag(p)
      /\ f.denied = {x \in Restrictable : yesNo(p.others[x]) = "n"}
  BY <1>1 DEF Encrypted
<1>3. /\ (PrintFlag(p) # "none") = MayPrint(p) /\ (PrintFlag(p) = "full") = MayPrintWell(p)
  BY DEF PrintFlag, MayPrint, MayPrintWell
<1>4. {x \in Restrictable : yesNo(p.others[x]) = "n"} = {x \in Restrictable : p.others[x] = "no"}
  BY DEF yesNo
<1> QED
  BY <1>2, <1>3, <1>4 DEF RightlyProtected

\* A render is stamped on the pages that were asked for, or refused
\* (watermark.service.ts).
LEMMA StampsAreRight ==
    ASSUME FileInv, pc = "stamp", ApplyError(file, dto.watermark) = NoReply
    PROVE  LET f == WithStamp(file, dto.watermark)
           IN  /\ f = [x \in FileFields |-> f[x]]
               /\ f.pages = file.pages /\ f.readable = file.readable
               /\ f.encrypted = file.encrypted
               /\ RightlyStamped(f)
<1> DEFINE w == dto.watermark
           selected == resolvePages(w, file.pages)
           f == WithStamp(file, w)
<1>1. /\ w \in Watermarks \ {NoBlock} /\ file.pages \in Nat /\ file.stamped = {}
      /\ file = [x \in FileFields |-> file[x]]
  BY DEF FileInv
<1>2. ~Nonsense(w)
  <2>1. Problem("invalid_request", 400) # NoReply /\ Internal # NoReply
    BY DEF NoReply, Internal, Problem
  <2>2. Nonsense(w) => \/ ApplyError(file, w) = Internal
                       \/ ApplyError(file, w) = Problem("invalid_request", 400)
    BY DEF ApplyError
  <2> QED
    BY <2>1, <2>2
<1>3. {i + 1 : i \in selected} = {page \in 1..file.pages : Asked(page, w, file.pages)}
  BY <1>1, <1>2, SelectionIsExact
<1>4. FileFields = {"pages", "readable", "stamped", "offset", "encrypted", "print", "denied"}
  BY DEF FileFields, NoFile
<1>5. CASE selected = {}
  <2>1. f = file /\ {i + 1 : i \in selected} = {}
    BY <1>5 DEF WithStamp
  <2> QED
    BY <1>1, <1>3, <2>1 DEF RightlyStamped
<1>6. CASE selected # {}
  <2>1. f = [file EXCEPT !.stamped = {i + 1 : i \in selected}, !.offset = OffsetOf(w)]
    BY <1>6 DEF WithStamp
  <2>2. /\ f = [x \in FileFields |-> f[x]]
        /\ f.pages = file.pages /\ f.readable = file.readable /\ f.encrypted = file.encrypted
        /\ f.stamped = {i + 1 : i \in selected}
    BY <1>1, <1>4, <2>1
  <2> QED
    BY <1>3, <2>2 DEF RightlyStamped
<1> QED
  BY <1>5, <1>6

\* The await points at which the PDF in memory matters.
Making == {"stamp", "temp", "qpdf", "rm", "store", "complete"}

\* What no longer touches the PDF leaves its invariant alone.
LEMMA PastMaking ==
    ASSUME FileInv, UNCHANGED <<dto, file>>, pc' \notin Making
    PROVE  FileInv'
  BY DEF FileInv, Making, FileFields, NoFile

\* What was delivered stays as it was.
LEMMA StillDelivered ==
    ASSUME DeliveredAsAsked, UNCHANGED <<dto, stored>>,
           document'.status = "completed" => document.status = "completed"
    PROVE  DeliveredAsAsked'
  BY DEF DeliveredAsAsked, Asked, MayPrint, MayPrintWell

\* A step of the work on the PDF keeps FileInv.
LEMMA MakingStep ==
    ASSUME FileInv, Render \/ Stamp \/ WriteTemp \/ Qpdf \/ RemoveTemp \/ Store
    PROVE  FileInv'
<1>1. CASE Render
  <2>1. ASSUME NEW n \in PageCounts, NEW readable \in BOOLEAN, file' = Rendered(n, readable),
               ~(CountPages(Rendered(n, readable)) > MaxPages), pc' = AfterRender
        PROVE  FileInv'
    <3>1. /\ file'.pages = n /\ file'.readable = readable /\ file'.stamped = {}
          /\ file'.encrypted = FALSE /\ n \in Nat
          /\ file' = [x \in FileFields |-> file'[x]]
      BY <2>1, ConstantsAssumption DEF Rendered, NoFile, FileFields
    <3>2. WithinLimit(file)'
      BY <2>1, <3>1, ConstantsAssumption DEF WithinLimit, CountPages, Rendered, NoFile
    <3>3. UNCHANGED dto /\ dto.watermark \in Watermarks
      BY <1>1 DEF Render, FileInv
    <3>4. dto.watermark = NoBlock => RightlyStamped(file)'
      BY <3>1, <3>3 DEF RightlyStamped, Asked
    <3>5. dto.protection = NoBlock => RightlyProtected(file)'
      BY <3>1, <3>3 DEF RightlyProtected
    <3>6. /\ pc' = "stamp" => dto.watermark # NoBlock
          /\ pc' = "temp" => dto.watermark = NoBlock /\ dto.protection # NoBlock
          /\ pc' = "store" => dto.watermark = NoBlock /\ dto.protection = NoBlock
          /\ pc' \in {"stamp", "temp", "store"}
      BY <2>1 DEF AfterRender
    <3> QED
      BY <3>1, <3>2, <3>3, <3>4, <3>5, <3>6 DEF FileInv, FileFields, NoFile
  <2>2. ASSUME NEW n \in PageCounts, NEW readable \in BOOLEAN, file' = Rendered(n, readable),
               pc' = "catch"
        PROVE  FileInv'
    <3>1. /\ file'.pages = n /\ n \in Nat /\ file' = [x \in FileFields |-> file'[x]]
      BY <2>2, ConstantsAssumption DEF Rendered, NoFile, FileFields
    <3> QED
      BY <1>1, <2>2, <3>1 DEF FileInv, Render, FileFields, NoFile
  <2>3. ASSUME pc' = "catch", UNCHANGED file PROVE FileInv'
    BY <1>1, <2>3, PastMaking DEF Render, Making
  <2> QED
    BY <1>1, <2>1, <2>2, <2>3 DEF Render, Throw
<1>2. CASE Stamp
  <2>1. CASE pc' = "catch" /\ UNCHANGED file
    BY <1>2, <2>1, PastMaking DEF Stamp, Making
  <2>2. CASE /\ ApplyError(file, dto.watermark) = NoReply
             /\ file' = WithStamp(file, dto.watermark) /\ pc' = AfterStamp
    <3>1. /\ pc = "stamp" /\ file' = WithStamp(file, dto.watermark) /\ pc' = AfterStamp
          /\ UNCHANGED dto
      BY <1>2, <2>2 DEF Stamp
    <3>2. /\ file' = [x \in FileFields |-> file'[x]]
          /\ file'.pages = file.pages /\ file'.readable = file.readable
          /\ file'.encrypted = file.encrypted
          /\ RightlyStamped(file')
      BY <2>2, <3>1, StampsAreRight
    <3>3. /\ file.pages \in Nat /\ WithinLimit(file) /\ file.encrypted = FALSE
          /\ dto.watermark \in Watermarks
      BY <3>1 DEF FileInv
    <3>4. RightlyStamped(file)' /\ WithinLimit(file)'
      BY <3>1, <3>2, <3>3 DEF RightlyStamped, WithinLimit
    <3>5. /\ pc' = "temp" => dto.protection # NoBlock
          /\ pc' = "store" => dto.protection = NoBlock
          /\ pc' \in {"temp", "store"}
      BY <3>1 DEF AfterStamp
    <3>6. pc' = "store" => RightlyProtected(file)'
      BY <3>1, <3>2, <3>3, <3>5 DEF RightlyProtected
    <3> QED
      BY <3>1, <3>2, <3>3, <3>4, <3>5, <3>6 DEF FileInv, FileFields, NoFile
  <2> QED
    BY <1>2, <2>1, <2>2 DEF Stamp, Throw
<1>3. CASE WriteTemp
  <2>1. CASE pc' = "catch"
    BY <1>3, <2>1, PastMaking DEF WriteTemp, Making
  <2>2. CASE pc' = "qpdf" \/ (pc' = "rm" /\ reply' = Internal)
    <3>1. Internal # NoReply
      BY DEF Internal, NoReply, Problem
    <3>2. pc = "temp" /\ UNCHANGED <<dto, file>>
      BY <1>3 DEF WriteTemp
    <3>3. UNCHANGED <<FileFields, WithinLimit(file), RightlyStamped(file)>>
      BY <3>2 DEF WithinLimit, RightlyStamped, FileFields, NoFile
    <3> QED
      BY <2>2, <3>1, <3>2, <3>3 DEF FileInv
  <2> QED
    BY <1>3, <2>1, <2>2 DEF WriteTemp, Throw
<1>4. CASE Qpdf
  <2>1. CASE pc' = "rm" /\ reply' = Internal /\ UNCHANGED file
    <3>1. Internal # NoReply
      BY DEF Internal, NoReply, Problem
    <3> QED
      BY <1>4, <2>1, <3>1 DEF Qpdf, FileInv, WithinLimit, FileFields, NoFile
  <2>2. CASE pc' = "rm" /\ file' = Encrypted(file, dto.protection)
    <3>1. /\ pc = "qpdf" /\ UNCHANGED dto /\ dto.protection # NoBlock
          /\ file = [x \in FileFields |-> file[x]] /\ file.pages \in Nat
          /\ RightlyStamped(file) /\ WithinLimit(file) /\ dto.watermark \in Watermarks
      BY <1>4 DEF Qpdf, FileInv
    <3>2. /\ file' = [x \in FileFields |-> file'[x]]
          /\ file'.pages = file.pages /\ file'.readable = file.readable
          /\ file'.stamped = file.stamped
          /\ RightlyProtected(file')
      BY <2>2, <3>1, FlagsAreRight
    <3>3. RightlyStamped(file)' /\ WithinLimit(file)' /\ RightlyProtected(file)'
      BY <3>1, <3>2 DEF RightlyStamped, WithinLimit, RightlyProtected
    <3> QED
      BY <2>2, <3>1, <3>2, <3>3 DEF FileInv, FileFields, NoFile
  <2> QED
    BY <1>4, <2>1, <2>2 DEF Qpdf
<1>6. CASE RemoveTemp
  <2>1. CASE pc' = "catch"
    BY <1>6, <2>1, PastMaking DEF RemoveTemp, Making
  <2>2. CASE pc' = "store" /\ reply = NoReply
    BY <1>6, <2>2 DEF RemoveTemp, FileInv, RightlyStamped, RightlyProtected, WithinLimit,
                      FileFields, NoFile
  <2> QED
    BY <1>6, <2>1, <2>2 DEF RemoveTemp, Throw
<1>5. CASE Store
  <2>1. CASE pc' = "catch"
    BY <1>5, <2>1, PastMaking DEF Store, Making
  <2>2. CASE pc' = "complete"
    BY <1>5, <2>2 DEF Store, FileInv, RightlyStamped, RightlyProtected, WithinLimit, FileFields,
                     NoFile
  <2> QED
    BY <1>5, <2>1, <2>2 DEF Store, Throw
<1> QED
  BY <1>1, <1>2, <1>3, <1>4, <1>5, <1>6

\* A completed row points to what was asked for.
LEMMA DeliveredStep == Told /\ DeliveredInv /\ [Next]_vars => DeliveredInv'
<1> SUFFICES ASSUME Told, DeliveredInv, [Next]_vars
             PROVE DeliveredInv'
  OBVIOUS
<1>0. FileInv /\ DeliveredAsAsked
  BY DEF DeliveredInv
<1>1. CASE Render \/ Stamp \/ WriteTemp \/ Qpdf \/ RemoveTemp
  <2>1. UNCHANGED <<dto, stored, document>>
    BY <1>1 DEF Render, Stamp, WriteTemp, Qpdf, RemoveTemp
  <2> QED
    BY <1>0, <1>1, <2>1, MakingStep, StillDelivered DEF DeliveredInv
<1>2. CASE Store
  <2>1. document'.status = "rendering"
    BY <1>2 DEF Store, Told, StoryUntil, Working
  <2> QED
    BY <1>0, <1>2, <2>1, MakingStep DEF DeliveredInv, DeliveredAsAsked
<1>3. CASE Complete
  <2>1. /\ stored = file /\ RightlyStamped(file) /\ RightlyProtected(file) /\ WithinLimit(file)
        /\ UNCHANGED <<dto, file, stored>> /\ pc' \in {"catch", "meter"}
    BY <1>3 DEF Complete, Throw, Told, StoryUntil, DeliveredInv, FileInv
  <2>2. DeliveredAsAsked'
    BY <2>1 DEF DeliveredAsAsked, RightlyStamped, RightlyProtected, WithinLimit
  <2> QED
    BY <1>0, <2>1, <2>2, PastMaking DEF Making, DeliveredInv
<1>4. CASE CreateRow \/ Meter \/ Fulfil \/ Send \/ Catch \/ MeterFailure \/ Crash
  <2>1. UNCHANGED <<dto, file, stored>> /\ pc' \notin Making
    BY <1>4 DEF CreateRow, Meter, MeterFailed, Fulfil, Send, Catch, MeterFailure, Crash, Making
  <2>2. \/ document' = document
        \/ document' = Begun \/ document' = Failed
    BY <1>4 DEF CreateRow, Meter, Fulfil, Send, Catch, Refused, MeterFailure, Crash
  <2>3. Begun.status = "rendering" /\ Failed.status = "failed"
    BY DEF Begun, Failed, Told, Shape, Row
  <2>4. document'.status = "completed" => document.status = "completed"
    BY <2>2, <2>3
  <2> QED
    BY <1>0, <2>1, <2>4, PastMaking, StillDelivered DEF DeliveredInv
<1>5. CASE Reopen \/ Preview \/ UNCHANGED vars
  <2>1. UNCHANGED <<dto, file, stored, document, pc, reply>>
    BY <1>5 DEF Reopen, Preview, vars
  <2>2. FileInv'
    BY <1>0, <2>1 DEF FileInv, RightlyStamped, RightlyProtected, WithinLimit, FileFields, NoFile
  <2> QED
    BY <1>0, <2>1, <2>2, StillDelivered DEF DeliveredInv
<1> QED
  BY <1>1, <1>2, <1>3, <1>4, <1>5 DEF Next

\* What a completed row points to is what was asked for: for every selection
\* of pages, every page limit and every length a render may have
\* (page-selection.ts, encryption.service.ts, render.pipeline.ts).
THEOREM WhatWasAskedFor == Spec => []DeliveredAsAsked
<1>1. Init => Told /\ DeliveredInv
  <2> SUFFICES ASSUME Init PROVE Told /\ DeliveredInv
    OBVIOUS
  <2>1. Told
    BY InitTold
  <2>2. file = NoFile /\ file.pages = 0 /\ dto.watermark \in Watermarks
    BY DEF Init, NoFile
  <2>3. FileInv
    BY <2>2 DEF Init, FileInv, FileFields, NoFile
  <2>4. DeliveredAsAsked
    BY DEF Init, DeliveredAsAsked
  <2> QED
    BY <2>1, <2>3, <2>4 DEF DeliveredInv
<1>2. Told /\ DeliveredInv /\ [Next]_vars => (Told /\ DeliveredInv)'
  BY StoryStep, DeliveredStep
<1>3. DeliveredInv => DeliveredAsAsked
  BY DEF DeliveredInv
<1> QED
  BY <1>1, <1>2, <1>3, PTL DEF Spec

-----------------------------------------------------------------------------
(* The renderer's pool of browsers (BrowserPool).                            *)

\* splice(i, 1) closes the gap.
LEMMA RemoveAtIs ==
    ASSUME NEW S, NEW s \in Seq(S), NEW i \in 1..Len(s)
    PROVE  /\ RemoveAt(s, i) \in Seq(S) /\ Len(RemoveAt(s, i)) = Len(s) - 1
           /\ \A j \in 1..(Len(s) - 1) :
                 RemoveAt(s, i)[j] = IF j < i THEN s[j] ELSE s[j + 1]
<1> DEFINE a == SubSeq(s, 1, i - 1)
           b == SubSeq(s, i + 1, Len(s))
<1>1. Len(s) \in Nat
  BY LenProperties
<1>2. a \in Seq(S) /\ Len(a) = i - 1 /\ \A j \in 1..(i - 1) : a[j] = s[j]
  BY <1>1, SubSeqProperties
<1>3. b \in Seq(S) /\ Len(b) = Len(s) - i /\ \A j \in 1..(Len(s) - i) : b[j] = s[i + j]
  BY <1>1, SubSeqProperties
<1> HIDE DEF a, b
<1>4. /\ a \o b \in Seq(S) /\ Len(a \o b) = Len(s) - 1
      /\ \A j \in 1..(Len(s) - 1) : (a \o b)[j] = IF j < i THEN s[j] ELSE s[j + 1]
  <2>1. /\ a \o b \in Seq(S) /\ Len(a \o b) = Len(a) + Len(b)
        /\ \A j \in 1..(Len(a) + Len(b)) :
             (a \o b)[j] = IF j <= Len(a) THEN a[j] ELSE b[j - Len(a)]
    BY <1>2, <1>3, ConcatProperties
  <2>2. Len(a) = i - 1 /\ Len(a) + Len(b) = Len(s) - 1
    BY <1>1, <1>2, <1>3
  <2>3. ASSUME NEW j \in 1..(Len(s) - 1)
        PROVE  (a \o b)[j] = IF j < i THEN s[j] ELSE s[j + 1]
    <3>1. (a \o b)[j] = IF j <= i - 1 THEN a[j] ELSE b[j - (i - 1)]
      BY <2>1, <2>2
    <3>2. CASE j < i
      BY <1>1, <1>2, <3>1, <3>2
    <3>3. CASE ~(j < i)
      <4>1. j - (i - 1) \in 1..(Len(s) - i) /\ i + (j - (i - 1)) = j + 1
        BY <1>1, <3>3
      <4> QED
        BY <1>1, <1>3, <3>1, <3>3, <4>1
    <3> QED
      BY <3>2, <3>3
  <2> QED
    BY <2>1, <2>2, <2>3
<1> QED
  BY <1>4 DEF RemoveAt, a, b

\* A waiter that is in the queue once is found where it is.
LEMMA LeavesQueueIs ==
    ASSUME PoolInv, NEW i \in 1..Len(waiters)
    PROVE  LeavesQueue(waiters[i]) = RemoveAt(waiters, i)
<1>1. {j \in 1..Len(waiters) : waiters[j] = waiters[i]} = {i}
  BY DEF PoolInv, WaiterInv
<1>2. Min({i}) = i
  BY LenProperties DEF PoolInv, PoolTypeOK, Min
<1> QED
  BY <1>1, <1>2 DEF LeavesQueue, RemoveFirst, SelectInSeq

\* The invariant, its definitions expanded.
LEMMA PoolFacts ==
    ASSUME PoolInv
    PROVE  /\ slots \in [Slots -> Slot] /\ call \in [Calls -> Call]
           /\ waiters \in Seq(Calls) /\ draining \in BOOLEAN
           /\ deaths \in 0..MaxDeaths /\ failures \in 0..MaxFailures
           /\ MaxJobs \in Nat /\ NoSlot \notin Slots
           /\ HolderInv /\ JobsLeft /\ WaiterInv
  BY PoolAssumption DEF PoolInv, PoolTypeOK

\* The record of a call, written in part.
LEMMA CallMoves ==
    \A r \in Call, s \in Slots \cup {NoSlot}, stage \in {"render", "done"} :
        LET next == [r EXCEPT !.pc = stage, !.slot = s]
        IN next \in Call /\ next.pc = stage /\ next.slot = s
  BY DEF Call

LEMMA CallEnds ==
    \A r \in Call, stage \in {"check", "done"}, o \in {"ok", "error", "pool_timeout"} :
        LET next == [r EXCEPT !.pc = stage, !.outcome = o]
        IN next \in Call /\ next.pc = stage /\ next.slot = r.slot
  BY ZenonT(60) DEF Call

LEMMA SlotRenewed ==
    \A r \in Slot :
        LET next == [r EXCEPT !.browser = "up", !.jobCount = 0]
        IN next \in Slot /\ next.busy = r.busy /\ next.jobCount = 0
<1> TAKE r \in Slot
<1> DEFINE up == [r EXCEPT !.browser = "up"]
<1>1. up \in Slot /\ up.busy = r.busy
  BY DEF Slot
<1>2. 0 \in 0..MaxJobs
  BY PoolAssumption
<1> HIDE DEF up
<1>3. /\ [up EXCEPT !.jobCount = 0] \in Slot
      /\ [up EXCEPT !.jobCount = 0].busy = up.busy
      /\ [up EXCEPT !.jobCount = 0].jobCount = 0
  BY <1>1, <1>2 DEF Slot
<1>4. [r EXCEPT !.browser = "up", !.jobCount = 0] = [up EXCEPT !.jobCount = 0]
  BY DEF up
<1> QED
  BY <1>1, <1>3, <1>4

\* One call changes.
Turns(c, stage, s) ==
    /\ call' \in [Calls -> Call]
    /\ call'[c].pc = stage /\ call'[c].slot = s
    /\ \A d \in Calls \ {c} : call'[d] = call[d]

\* One slot changes.
Writes(s, busy, count) ==
    /\ slots' \in [Slots -> Slot]
    /\ slots'[s].busy = busy /\ slots'[s].jobCount = count
    /\ \A t \in Slots \ {s} : slots'[t] = slots[t]

LEMMA TurnsByUpdate ==
    ASSUME call \in [Calls -> Call], NEW c \in Calls, NEW r \in Call,
           call' = [call EXCEPT ![c] = r]
    PROVE  Turns(c, r.pc, r.slot)
  BY DEF Turns

LEMMA WritesByUpdate ==
    ASSUME slots \in [Slots -> Slot], NEW s \in Slots, NEW r \in Slot,
           slots' = [slots EXCEPT ![s] = r]
    PROVE  Writes(s, r.busy, r.jobCount)
  BY DEF Writes

\* A call that is in the queue neither before nor after leaves it alone.
LEMMA QueueKept ==
    ASSUME WaiterInv, waiters' = waiters, draining' = draining, ~draining,
           \A s \in Slots : slots[s].busy => slots'[s].busy,
           NEW c \in Calls, NEW stage, NEW x, Turns(c, stage, x),
           call[c].pc # "waiting", stage # "waiting"
    PROVE  WaiterInv'
<1>1. ASSUME NEW d \in Calls
      PROVE  call'[d].pc = "waiting" <=> \E i \in 1..Len(waiters') : waiters'[i] = d
  <2>1. call'[d].pc = "waiting" <=> call[d].pc = "waiting"
    BY DEF Turns
  <2> QED
    BY <2>1 DEF WaiterInv
<1>2. waiters' # <<>> => \A s \in Slots : slots'[s].busy
  BY DEF WaiterInv
<1>3. \A i, j \in 1..Len(waiters') : waiters'[i] = waiters'[j] => i = j
  BY DEF WaiterInv
<1> QED
  BY <1>1, <1>2, <1>3 DEF WaiterInv

\* A call that gets a slot, waits, gives up, or moves on with its slot.
LEMMA AcquireStep ==
    ASSUME PoolInv, NEW c \in Calls, Acquire(c)
    PROVE  PoolInv'
<1>1. /\ slots \in [Slots -> Slot] /\ call \in [Calls -> Call]
      /\ waiters \in Seq(Calls) /\ draining \in BOOLEAN
      /\ deaths \in 0..MaxDeaths /\ failures \in 0..MaxFailures
      /\ MaxJobs \in Nat /\ NoSlot \notin Slots
      /\ HolderInv /\ JobsLeft /\ WaiterInv
  BY PoolFacts
<1>2. /\ call[c].pc = "idle" /\ ~draining /\ call[c].slot \notin Slots
      /\ UNCHANGED <<draining, deaths, failures>>
  BY <1>1 DEF Acquire, faultVars, HolderInv, Holding
<1>3. ASSUME NEW s \in Slots, ~slots[s].busy, slots' = [slots EXCEPT ![s].busy = TRUE],
             Give(s, c), UNCHANGED waiters
      PROVE  PoolInv'
  <2>1. Turns(c, "render", s)
    <3> DEFINE r == [call[c] EXCEPT !.pc = "render", !.slot = s]
    <3>1. r \in Call /\ r.pc = "render" /\ r.slot = s
      BY <1>1, CallMoves
    <3>2. call' = [call EXCEPT ![c] = r]
      BY <1>1, <1>3 DEF Give
    <3> HIDE DEF r
    <3> QED
      BY <1>1, <3>1, <3>2, TurnsByUpdate
  <2>2. Writes(s, TRUE, slots[s].jobCount)
    BY <1>1, <1>3 DEF Writes, Slot
  <2>3. PoolTypeOK'
    BY <1>1, <1>2, <1>3, <2>1, <2>2 DEF PoolTypeOK, Turns, Writes
  <2>4. HolderInv'
    <3>1. \A d \in Calls : call[d].slot # s
      BY <1>1, <1>3 DEF HolderInv
    <3>2. \A d \in Calls : call'[d].slot \in Slots <=> call'[d].pc \in Holding
      BY <1>1, <2>1 DEF HolderInv, Holding, Turns
    <3>3. \A d, e \in Calls :
             call'[d].slot = call'[e].slot /\ call'[d].slot \in Slots => d = e
      BY <1>1, <2>1, <3>1 DEF HolderInv, Turns
    <3>4. \A d \in Calls : call'[d].slot \in Slots => slots'[call'[d].slot].busy
      BY <1>1, <2>1, <2>2, <3>1 DEF HolderInv, Turns, Writes
    <3>5. ASSUME failures' = 0, NEW t \in Slots, slots'[t].busy
          PROVE  \E d \in Calls : call'[d].slot = t
      <4>1. CASE t = s
        BY <2>1, <4>1 DEF Turns
      <4>2. CASE t # s
        <5>1. PICK d \in Calls : call[d].slot = t
          BY <1>1, <1>2, <2>2, <3>5, <4>2 DEF HolderInv, Writes
        <5>2. call'[d] = call[d]
          BY <1>2, <2>1, <5>1 DEF Turns
        <5> QED
          BY <5>1, <5>2
      <4> QED
        BY <4>1, <4>2
    <3> QED
      BY <3>2, <3>3, <3>4, <3>5 DEF HolderInv
  <2>5. JobsLeft'
    BY <1>1, <1>2, <1>3, <2>1, <2>2 DEF JobsLeft, HolderInv, Holding, Turns, Writes
  <2>6. waiters = <<>> /\ waiters' = waiters
    BY <1>1, <1>3 DEF WaiterInv
  <2>7. \A t \in Slots : slots[t].busy => slots'[t].busy
    BY <2>2 DEF Writes
  <2>8. WaiterInv'
    BY <1>1, <1>2, <2>1, <2>6, <2>7, QueueKept
  <2> QED
    BY <2>3, <2>4, <2>5, <2>8 DEF PoolInv
<1>4. CASE /\ \A s \in Slots : slots[s].busy
           /\ waiters' = Append(waiters, c)
           /\ call' = [call EXCEPT ![c].pc = "waiting"]
           /\ UNCHANGED slots
  <2>1. Turns(c, "waiting", call[c].slot)
    BY <1>1, <1>4 DEF Turns, Call
  <2>2. /\ waiters' \in Seq(Calls) /\ Len(waiters) \in Nat
        /\ Len(waiters') = Len(waiters) + 1 /\ waiters'[Len(waiters) + 1] = c
        /\ \A i \in 1..Len(waiters) : waiters'[i] = waiters[i] /\ waiters[i] \in Calls
    BY <1>1, <1>4, AppendProperties, LenProperties, ElementOfSeq
  <2>3. PoolTypeOK'
    BY <1>1, <1>2, <1>4, <2>1, <2>2 DEF PoolTypeOK, Turns
  <2>4. HolderInv'
    BY <1>1, <1>2, <1>4, <2>1 DEF HolderInv, Holding, Turns
  <2>5. JobsLeft'
    BY <1>1, <1>2, <1>4, <2>1 DEF JobsLeft, Turns
  <2>6. \A i \in 1..Len(waiters) : waiters[i] # c
    BY <1>1, <1>2 DEF WaiterInv
  <2>7. \A i \in 1..Len(waiters') : i = Len(waiters) + 1 \/ i \in 1..Len(waiters)
    BY <2>2
  <2>8. \A i, j \in 1..Len(waiters') : waiters'[i] = waiters'[j] => i = j
    BY <1>1, <2>2, <2>6, <2>7 DEF WaiterInv
  <2>9. ASSUME NEW d \in Calls
        PROVE  call'[d].pc = "waiting" <=> \E i \in 1..Len(waiters') : waiters'[i] = d
    <3>1. CASE d = c
      BY <2>1, <2>2, <3>1 DEF Turns
    <3>2. CASE d # c
      <4>1. call'[d].pc = "waiting" <=> \E i \in 1..Len(waiters) : waiters[i] = d
        BY <1>1, <2>1, <3>2 DEF Turns, WaiterInv
      <4> QED
        BY <2>2, <2>7, <3>2, <4>1
    <3> QED
      BY <3>1, <3>2
  <2>10. WaiterInv'
    BY <1>2, <1>4, <2>8, <2>9 DEF WaiterInv
  <2> QED
    BY <2>3, <2>4, <2>5, <2>10 DEF PoolInv
<1> QED
  BY <1>3, <1>4 DEF Acquire

\* The queue without one of its members.
LEMMA QueueShrinks ==
    ASSUME PoolInv, NEW k \in 1..Len(waiters), waiters' = RemoveAt(waiters, k)
    PROVE  /\ waiters' \in Seq(Calls) /\ waiters[k] \in Calls
           /\ \A i, j \in 1..Len(waiters') : waiters'[i] = waiters'[j] => i = j
           /\ \A d \in Calls : (\E i \in 1..Len(waiters') : waiters'[i] = d)
                                 <=> d # waiters[k] /\ \E i \in 1..Len(waiters) : waiters[i] = d
           /\ waiters # <<>>
<1>1. waiters \in Seq(Calls) /\ WaiterInv /\ Len(waiters) \in Nat
  BY PoolFacts, LenProperties
<1>2. /\ waiters' \in Seq(Calls) /\ Len(waiters') = Len(waiters) - 1
      /\ \A j \in 1..(Len(waiters) - 1) :
           waiters'[j] = IF j < k THEN waiters[j] ELSE waiters[j + 1]
  BY <1>1, RemoveAtIs
<1>3. waiters[k] \in Calls /\ waiters # <<>>
  BY <1>1, ElementOfSeq, EmptySeq
<1>4. \A i, j \in 1..Len(waiters') : waiters'[i] = waiters'[j] => i = j
  <2> SUFFICES ASSUME NEW i \in 1..Len(waiters'), NEW j \in 1..Len(waiters'),
                      waiters'[i] = waiters'[j]
               PROVE  i = j
    OBVIOUS
  <2> DEFINE at(m) == IF m < k THEN m ELSE m + 1
  <2>1. waiters[at(i)] = waiters[at(j)] /\ at(i) \in 1..Len(waiters) /\ at(j) \in 1..Len(waiters)
    BY <1>1, <1>2
  <2>2. at(i) = at(j)
    BY <1>1, <2>1 DEF WaiterInv
  <2> QED
    BY <1>1, <1>2, <2>2
<1>5. ASSUME NEW d \in Calls, NEW i \in 1..Len(waiters'), waiters'[i] = d
      PROVE  d # waiters[k] /\ \E m \in 1..Len(waiters) : waiters[m] = d
  <2> DEFINE at(m) == IF m < k THEN m ELSE m + 1
  <2>1. waiters[at(i)] = d /\ at(i) \in 1..Len(waiters) /\ at(i) # k
    BY <1>1, <1>2, <1>5
  <2> HIDE DEF at
  <2> QED
    BY <1>1, <2>1 DEF WaiterInv
<1>6. ASSUME NEW d \in Calls, d # waiters[k], NEW i \in 1..Len(waiters), waiters[i] = d
      PROVE  \E m \in 1..Len(waiters') : waiters'[m] = d
  <2>1. i # k
    BY <1>6
  <2>2. CASE i < k
    <3>1. i \in 1..Len(waiters') /\ waiters'[i] = d
      BY <1>1, <1>2, <1>6, <2>2
    <3> QED
      BY <3>1
  <2>3. CASE i > k
    <3>1. i - 1 \in 1..Len(waiters') /\ waiters'[i - 1] = waiters[(i - 1) + 1]
      BY <1>1, <1>2, <2>3
    <3>2. (i - 1) + 1 = i
      BY <1>1
    <3> QED
      BY <1>6, <3>1, <3>2
  <2> QED
    BY <1>1, <2>1, <2>2, <2>3
<1> QED
  BY <1>2, <1>3, <1>4, <1>5, <1>6

LEMMA AcquireTimeoutStep ==
    ASSUME PoolInv, NEW c \in Calls, AcquireTimeout(c)
    PROVE  PoolInv'
<1>1. /\ slots \in [Slots -> Slot] /\ call \in [Calls -> Call]
      /\ waiters \in Seq(Calls) /\ draining \in BOOLEAN
      /\ deaths \in 0..MaxDeaths /\ failures \in 0..MaxFailures
      /\ MaxJobs \in Nat /\ NoSlot \notin Slots
      /\ HolderInv /\ JobsLeft /\ WaiterInv
  BY PoolFacts
<1>2. /\ call[c].pc = "waiting" /\ call[c].slot \notin Slots
      /\ UNCHANGED <<slots, draining, deaths, failures>>
  BY <1>1 DEF AcquireTimeout, faultVars, HolderInv, Holding
<1>3. Turns(c, "done", call[c].slot)
  <2> DEFINE r == [call[c] EXCEPT !.pc = "done", !.outcome = "pool_timeout"]
  <2>1. r \in Call /\ r.pc = "done" /\ r.slot = call[c].slot
    BY <1>1, CallEnds
  <2>2. call' = [call EXCEPT ![c] = r]
    BY <1>1 DEF AcquireTimeout
  <2> HIDE DEF r
  <2> QED
    BY <1>1, <2>1, <2>2, TurnsByUpdate
<1>4. PICK k \in 1..Len(waiters) : waiters[k] = c
  BY <1>1, <1>2 DEF WaiterInv
<1>5. waiters' = RemoveAt(waiters, k)
  BY <1>4, LeavesQueueIs DEF AcquireTimeout
<1>6. /\ waiters' \in Seq(Calls)
      /\ \A i, j \in 1..Len(waiters') : waiters'[i] = waiters'[j] => i = j
      /\ \A d \in Calls : (\E i \in 1..Len(waiters') : waiters'[i] = d)
                            <=> d # c /\ \E i \in 1..Len(waiters) : waiters[i] = d
      /\ waiters # <<>>
  BY <1>4, <1>5, QueueShrinks
<1>7. PoolTypeOK'
  BY <1>1, <1>2, <1>3, <1>6 DEF PoolTypeOK, Turns
<1>8. HolderInv'
  BY <1>1, <1>2, <1>3 DEF HolderInv, Holding, Turns
<1>9. JobsLeft'
  BY <1>1, <1>2, <1>3 DEF JobsLeft, Turns
<1>10. WaiterInv'
  BY <1>1, <1>2, <1>3, <1>6, SMTT(30) DEF WaiterInv, Turns
<1> QED
  BY <1>7, <1>8, <1>9, <1>10 DEF PoolInv

LEMMA RenderSettlesStep ==
    ASSUME PoolInv, NEW c \in Calls, RenderSettles(c) \/ Check(c)
    PROVE  PoolInv'
<1>1. /\ slots \in [Slots -> Slot] /\ call \in [Calls -> Call]
      /\ waiters \in Seq(Calls) /\ draining \in BOOLEAN
      /\ deaths \in 0..MaxDeaths /\ failures \in 0..MaxFailures
      /\ MaxJobs \in Nat /\ NoSlot \notin Slots
      /\ HolderInv /\ JobsLeft /\ WaiterInv
  BY PoolFacts
<1> DEFINE s == call[c].slot
<1>2. /\ call[c].pc \in {"render", "check"} /\ s \in Slots /\ slots[s] \in Slot
      /\ UNCHANGED <<waiters, draining, deaths, failures>>
  BY <1>1 DEF RenderSettles, Check, faultVars, HolderInv, Holding
<1>3. \E stage \in {"check", "recycle", "handover"} :
        /\ Turns(c, stage, s)
        /\ stage = "handover" => slots'[s].jobCount < MaxJobs
  <2>1. CASE RenderSettles(c)
    <3>1. PICK outcome \in {"ok", "error"} :
            call' = [call EXCEPT ![c] = [@ EXCEPT !.pc = "check", !.outcome = outcome]]
      BY <2>1 DEF RenderSettles
    <3> DEFINE r == [call[c] EXCEPT !.pc = "check", !.outcome = outcome]
    <3>4. outcome \in {"ok", "error", "pool_timeout"} /\ call[c] \in Call
      BY <1>1
    <3>2. r \in Call /\ r.pc = "check" /\ r.slot = call[c].slot
      BY <3>4, CallEnds
    <3>3. call' = [call EXCEPT ![c] = r]
      BY <1>1, <3>1
    <3> HIDE DEF r
    <3>5. Turns(c, "check", s)
      BY <1>1, <3>2, <3>3, TurnsByUpdate
    <3> QED
      BY <3>5
  <2>2. CASE Check(c)
    <3>1. PICK stage \in {"recycle", "handover"} :
            /\ call' = [call EXCEPT ![c].pc = stage] /\ slots' = slots
            /\ stage = "handover" => ~ShouldRecycle(s)
      BY <2>2 DEF Check, KeptToRecycle
    <3>2. Turns(c, stage, s)
      BY <1>1, <3>1 DEF Turns, Call
    <3>3. stage = "handover" => slots'[s].jobCount < MaxJobs
      BY <1>1, <1>2, <3>1 DEF ShouldRecycle, Slot
    <3> QED
      BY <3>2, <3>3
  <2> QED
    BY <2>1, <2>2
<1>4. PICK stage \in {"check", "recycle", "handover"} :
        Turns(c, stage, s) /\ (stage = "handover" => slots'[s].jobCount < MaxJobs)
  BY <1>3
<1>5. \E count \in 0..MaxJobs : Writes(s, slots[s].busy, count)
  <2>1. CASE RenderSettles(c)
    <3>1. slots' = [slots EXCEPT ![s].jobCount = @ + 1] /\ slots[s].jobCount < MaxJobs
      BY <1>1, <2>1 DEF RenderSettles, JobsLeft
    <3>2. slots[s].jobCount + 1 \in 0..MaxJobs
      BY <1>1, <1>2, <3>1 DEF Slot
    <3>3. Writes(s, slots[s].busy, slots[s].jobCount + 1)
      BY <1>1, <1>2, <3>1, <3>2 DEF Writes, Slot
    <3> QED
      BY <3>2, <3>3
  <2>2. CASE Check(c)
    <3>1. slots' = slots
      BY <2>2 DEF Check, KeptToRecycle
    <3> QED
      BY <1>1, <1>2, <3>1 DEF Writes, Slot
  <2> QED
    BY <2>1, <2>2
<1>6. PICK count \in 0..MaxJobs : Writes(s, slots[s].busy, count)
  BY <1>5
<1> HIDE DEF s
<1>7. PoolTypeOK'
  BY <1>1, <1>2, <1>4, <1>6 DEF PoolTypeOK, Turns, Writes
<1>8. HolderInv'
  BY <1>1, <1>2, <1>4, <1>6, SMTT(30) DEF HolderInv, Holding, Turns, Writes, s
<1>9. slots[s].busy /\ \A d \in Calls \ {c} : call[d].slot # s
  BY <1>1, <1>2 DEF HolderInv, s
<1>10. JobsLeft'
  <2>1. \A t \in Slots : ~slots'[t].busy => slots'[t].jobCount < MaxJobs
    BY <1>1, <1>6, <1>9 DEF JobsLeft, Writes
  <2>2. ASSUME NEW d \in Calls, call'[d].pc \in {"render", "handover"}
        PROVE  slots'[call'[d].slot].jobCount < MaxJobs
    <3>1. CASE d = c
      BY <1>4, <2>2, <3>1 DEF Turns
    <3>2. CASE d # c
      <4>1. call'[d] = call[d] /\ call[d].slot \in Slots /\ call[d].slot # s
        BY <1>1, <1>4, <1>9, <2>2, <3>2 DEF Turns, HolderInv, Holding
      <4> QED
        BY <1>1, <1>6, <2>2, <4>1 DEF Writes, JobsLeft
    <3> QED
      BY <3>1, <3>2
  <2> QED
    BY <2>1, <2>2 DEF JobsLeft
<1>11. WaiterInv'
  <2>1. \A t \in Slots : slots[t].busy => slots'[t].busy
    BY <1>6, <1>9 DEF Writes
  <2>2. ~draining
    BY <1>1, <1>2 DEF WaiterInv
  <2>3. call[c].pc # "waiting" /\ stage # "waiting"
    BY <1>2, <1>4
  <2> QED
    BY <1>1, <1>2, <1>4, <2>1, <2>2, <2>3, QueueKept
<1> QED
  BY <1>7, <1>8, <1>10, <1>11 DEF PoolInv

\* A call that hangs keeps its slot.
LEMMA HangStep ==
    ASSUME PoolInv, NEW c \in Calls, Hang(c)
    PROVE  PoolInv'
<1>1. /\ slots \in [Slots -> Slot] /\ call \in [Calls -> Call]
      /\ HolderInv /\ JobsLeft /\ WaiterInv
  BY PoolFacts
<1>2. /\ call[c].pc \in {"render", "check", "recycle"}
      /\ UNCHANGED <<slots, waiters, draining, deaths, failures>>
  BY DEF Hang, faultVars
<1>3. Turns(c, "hung", call[c].slot)
  BY <1>1 DEF Hang, Turns, Call
<1>4. PoolTypeOK'
  BY <1>2, <1>3 DEF PoolInv, PoolTypeOK, Turns
<1>5. \A d \in Calls : call'[d].slot = call[d].slot
  BY <1>3 DEF Turns
<1>6. HolderInv'
  <2>1. \A d \in Calls : call'[d].pc \in Holding <=> call[d].pc \in Holding
    BY <1>2, <1>3 DEF Turns, Holding
  <2> QED
    BY <1>1, <1>2, <1>5, <2>1 DEF HolderInv
<1>7. JobsLeft'
  BY <1>1, <1>2, <1>3 DEF JobsLeft, Turns
<1>8. ~draining
  BY <1>1, <1>2 DEF WaiterInv
<1>9. WaiterInv'
  BY <1>1, <1>2, <1>3, <1>8, QueueKept
<1> QED
  BY <1>4, <1>6, <1>7, <1>9 DEF PoolInv

LEMMA RecycleStep ==
    ASSUME PoolInv, NEW c \in Calls, Recycle(c)
    PROVE  PoolInv'
<1>1. /\ slots \in [Slots -> Slot] /\ call \in [Calls -> Call]
      /\ waiters \in Seq(Calls) /\ draining \in BOOLEAN
      /\ deaths \in 0..MaxDeaths /\ failures \in 0..MaxFailures
      /\ MaxJobs \in Nat \ {0} /\ NoSlot \notin Slots /\ MaxFailures \in Nat
      /\ HolderInv /\ JobsLeft /\ WaiterInv
  BY PoolFacts, PoolAssumption
<1> DEFINE s == call[c].slot
<1>2. /\ call[c].pc = "recycle" /\ s \in Slots /\ slots[s] \in Slot
      /\ UNCHANGED <<waiters, draining, deaths>>
  BY <1>1 DEF Recycle, HolderInv, Holding
<1>3. slots[s].busy /\ \A d \in Calls \ {c} : call[d].slot # s
  BY <1>1, <1>2 DEF HolderInv
<1>4. CASE /\ slots' = [slots EXCEPT ![s] = [@ EXCEPT !.browser = "up", !.jobCount = 0]]
           /\ call' = [call EXCEPT ![c].pc = "handover"]
           /\ UNCHANGED failures
  <2>1. Turns(c, "handover", s)
    BY <1>1, <1>4 DEF Turns, Call
  <2>2. Writes(s, slots[s].busy, 0)
    <3> DEFINE r == [slots[s] EXCEPT !.browser = "up", !.jobCount = 0]
    <3>0. slots[s] \in Slot
      BY <1>2
    <3>1. r \in Slot /\ r.busy = slots[s].busy /\ r.jobCount = 0
      BY <3>0, SlotRenewed
    <3>2. slots' = [slots EXCEPT ![s] = r]
      BY <1>1, <1>2, <1>4
    <3> HIDE DEF r, s
    <3> QED
      BY <1>1, <1>2, <3>1, <3>2, WritesByUpdate
  <2> HIDE DEF s
  <2>3. PoolTypeOK'
    BY <1>1, <1>2, <1>4, <2>1, <2>2 DEF PoolTypeOK, Turns, Writes
  <2>4. HolderInv'
    BY <1>1, <1>2, <1>4, <2>1, <2>2 DEF HolderInv, Holding, Turns, Writes, s
  <2>5. JobsLeft'
    BY <1>1, <1>2, <1>3, <2>1, <2>2 DEF JobsLeft, HolderInv, Holding, Turns, Writes
  <2>6. WaiterInv'
    <3>1. \A t \in Slots : slots[t].busy => slots'[t].busy
      BY <1>3, <2>2 DEF Writes
    <3>2. ~draining /\ call[c].pc # "waiting"
      BY <1>1, <1>2 DEF WaiterInv
    <3> QED
      BY <1>1, <1>2, <2>1, <3>1, <3>2, QueueKept
  <2> QED
    BY <2>3, <2>4, <2>5, <2>6 DEF PoolInv
<1>5. CASE /\ failures < MaxFailures /\ failures' = failures + 1 /\ slots' = slots
           /\ call' = [call EXCEPT ![c] = [pc |-> "done", slot |-> NoSlot, outcome |-> "error"]]
  <2>1. Turns(c, "done", NoSlot)
    BY <1>1, <1>5 DEF Turns, Call
  <2>2. failures' \in 0..MaxFailures /\ failures' # 0
    BY <1>1, <1>5
  <2>3. PoolTypeOK'
    BY <1>1, <1>2, <1>5, <2>1, <2>2 DEF PoolTypeOK, Turns
  <2>4. HolderInv'
    BY <1>1, <1>2, <1>5, <2>1, <2>2 DEF HolderInv, Holding, Turns
  <2>5. JobsLeft'
    BY <1>1, <1>2, <1>5, <2>1 DEF JobsLeft, Turns
  <2>6. WaiterInv'
    BY <1>1, <1>2, <1>5, <2>1 DEF WaiterInv, Turns
  <2> QED
    BY <2>3, <2>4, <2>5, <2>6 DEF PoolInv
<1> QED
  BY <1>2, <1>4, <1>5 DEF Recycle

\* The rest of release: the slot goes to the oldest waiter, or becomes free.
LEMMA HandoverStep ==
    ASSUME PoolInv, NEW c \in Calls, Handover(c)
    PROVE  PoolInv'
<1>1. /\ slots \in [Slots -> Slot] /\ call \in [Calls -> Call]
      /\ waiters \in Seq(Calls) /\ draining \in BOOLEAN
      /\ deaths \in 0..MaxDeaths /\ failures \in 0..MaxFailures
      /\ MaxJobs \in Nat /\ NoSlot \notin Slots
      /\ HolderInv /\ JobsLeft /\ WaiterInv
  BY PoolFacts
<1> DEFINE s == call[c].slot
           gone == [call[c] EXCEPT !.pc = "done", !.slot = NoSlot]
<1>2. /\ call[c].pc = "handover" /\ s \in Slots /\ slots[s] \in Slot /\ ~draining
      /\ UNCHANGED <<draining, deaths, failures>>
  BY <1>1 DEF Handover, faultVars, HolderInv, Holding, WaiterInv
<1>3. slots[s].busy /\ (\A d \in Calls \ {c} : call[d].slot # s) /\ slots[s].jobCount < MaxJobs
  BY <1>1, <1>2 DEF HolderInv, JobsLeft
<1>4. gone \in Call /\ gone.pc = "done" /\ gone.slot = NoSlot
  BY <1>1, CallMoves
<1>5. Released(c) = [call EXCEPT ![c] = gone]
  BY <1>1 DEF Released
<1> HIDE DEF s, gone
<1>6. CASE /\ waiters = <<>>
           /\ slots' = [slots EXCEPT ![s].busy = FALSE]
           /\ call' = Released(c) /\ waiters' = waiters
  <2>1. Turns(c, "done", NoSlot)
    BY <1>1, <1>4, <1>5, <1>6, TurnsByUpdate
  <2>2. Writes(s, FALSE, slots[s].jobCount)
    BY <1>1, <1>2, <1>6 DEF Writes, Slot
  <2>3. PoolTypeOK'
    BY <1>1, <1>2, <1>6, <2>1, <2>2 DEF PoolTypeOK, Turns, Writes
  <2>4. HolderInv'
    <3>1. \A d \in Calls : call'[d].slot \in Slots <=> call'[d].pc \in Holding
      BY <1>1, <2>1 DEF HolderInv, Holding, Turns
    <3>2. \A d, e \in Calls :
             call'[d].slot = call'[e].slot /\ call'[d].slot \in Slots => d = e
      BY <1>1, <2>1 DEF HolderInv, Turns
    <3>3. \A d \in Calls : call'[d].slot \in Slots => slots'[call'[d].slot].busy
      BY <1>1, <1>3, <2>1, <2>2 DEF HolderInv, Turns, Writes
    <3>4. ASSUME failures' = 0, NEW t \in Slots, slots'[t].busy
          PROVE  \E d \in Calls : call'[d].slot = t
      <4>1. t # s
        BY <2>2, <3>4 DEF Writes
      <4>2. PICK d \in Calls : call[d].slot = t
        BY <1>1, <1>2, <2>2, <3>4, <4>1 DEF HolderInv, Writes
      <4>3. call'[d] = call[d]
        BY <2>1, <4>1, <4>2 DEF Turns, s
      <4> QED
        BY <4>2, <4>3
    <3> QED
      BY <3>1, <3>2, <3>3, <3>4 DEF HolderInv
  <2>5. JobsLeft'
    <3>1. \A t \in Slots : ~slots'[t].busy => slots'[t].jobCount < MaxJobs
      BY <1>1, <1>3, <2>2 DEF JobsLeft, Writes
    <3>2. ASSUME NEW d \in Calls, call'[d].pc \in {"render", "handover"}
          PROVE  slots'[call'[d].slot].jobCount < MaxJobs
      <4>1. call'[d] = call[d] /\ call[d].slot \in Slots /\ call[d].slot # s
        BY <1>1, <1>3, <2>1, <3>2 DEF Turns, HolderInv, Holding
      <4> QED
        BY <1>1, <2>2, <3>2, <4>1 DEF Writes, JobsLeft
    <3> QED
      BY <3>1, <3>2 DEF JobsLeft
  <2>6. WaiterInv'
    <3>1. \A d \in Calls : call[d].pc # "waiting"
      BY <1>1, <1>6, LenProperties DEF WaiterInv
    <3>2. \A d \in Calls : call'[d].pc # "waiting"
      BY <2>1, <3>1 DEF Turns
    <3>3. waiters' = <<>> /\ Len(waiters') = 0
      BY <1>6
    <3> QED
      BY <1>2, <3>2, <3>3 DEF WaiterInv
  <2> QED
    BY <2>3, <2>4, <2>5, <2>6 DEF PoolInv
<1>7. CASE /\ waiters # <<>> /\ slots' = slots /\ waiters' = Tail(waiters)
           /\ call' = IF call[Head(waiters)].pc = "waiting"
                      THEN [Released(c) EXCEPT ![Head(waiters)] =
                               [@ EXCEPT !.pc = "render", !.slot = s]]
                      ELSE Released(c)
  <2> DEFINE h == Head(waiters)
             next == [call[h] EXCEPT !.pc = "render", !.slot = s]
  <2>1. /\ Len(waiters) \in Nat /\ Len(waiters) > 0 /\ 1 \in 1..Len(waiters)
        /\ waiters[1] = h /\ h \in Calls
    BY <1>1, <1>7, HeadTailProperties, LenProperties, ElementOfSeq, EmptySeq
  <2>2. call[h].pc = "waiting" /\ h # c
    BY <1>1, <1>2, <2>1 DEF WaiterInv
  <2>3. waiters' = RemoveAt(waiters, 1)
    <3>1. /\ RemoveAt(waiters, 1) \in Seq(Calls)
          /\ Len(RemoveAt(waiters, 1)) = Len(waiters) - 1
          /\ \A j \in 1..(Len(waiters) - 1) :
                RemoveAt(waiters, 1)[j] = IF j < 1 THEN waiters[j] ELSE waiters[j + 1]
      BY <1>1, <2>1, RemoveAtIs
    <3>2. /\ Tail(waiters) \in Seq(Calls) /\ Len(Tail(waiters)) = Len(waiters) - 1
          /\ \A j \in 1..(Len(waiters) - 1) : Tail(waiters)[j] = waiters[j + 1]
      BY <1>1, <1>7, HeadTailProperties
    <3>3. \A j \in 1..Len(Tail(waiters)) : Tail(waiters)[j] = RemoveAt(waiters, 1)[j]
      BY <2>1, <3>1, <3>2
    <3> QED
      BY <1>7, <3>1, <3>2, <3>3, SeqEqual
  <2>4. /\ waiters' \in Seq(Calls)
        /\ \A i, j \in 1..Len(waiters') : waiters'[i] = waiters'[j] => i = j
        /\ \A d \in Calls : (\E i \in 1..Len(waiters') : waiters'[i] = d)
                              <=> d # h /\ \E i \in 1..Len(waiters) : waiters[i] = d
    BY <2>1, <2>3, QueueShrinks
  <2>5. next \in Call /\ next.pc = "render" /\ next.slot = s
    BY <1>1, <1>2, <2>1, CallMoves
  <2>6. Released(c)[h] = call[h]
    BY <1>1, <1>5, <2>1, <2>2
  <2>7. call' = [[call EXCEPT ![c] = gone] EXCEPT ![h] = next]
    BY <1>1, <1>5, <1>7, <2>1, <2>2, <2>6
  <2> HIDE DEF h, next
  <2>8. /\ call' \in [Calls -> Call] /\ call'[c] = gone /\ call'[h] = next
        /\ \A d \in Calls : d # c /\ d # h => call'[d] = call[d]
    BY <1>1, <1>4, <2>1, <2>2, <2>5, <2>7
  <2>9. PoolTypeOK'
    BY <1>1, <1>2, <1>7, <2>4, <2>8 DEF PoolTypeOK
  <2>10. HolderInv'
    <3>1. \A d \in Calls : call'[d].slot \in Slots <=> call'[d].pc \in Holding
      BY <1>1, <1>2, <1>4, <2>5, <2>8 DEF HolderInv, Holding
    <3>2. ASSUME NEW d \in Calls, NEW e \in Calls,
                 call'[d].slot = call'[e].slot, call'[d].slot \in Slots
          PROVE  d = e
      BY <1>1, <1>3, <1>4, <2>5, <2>8, <3>2 DEF HolderInv
    <3>3. \A d \in Calls : call'[d].slot \in Slots => slots'[call'[d].slot].busy
      BY <1>1, <1>3, <1>4, <1>7, <2>5, <2>8 DEF HolderInv
    <3>4. ASSUME failures' = 0, NEW t \in Slots, slots'[t].busy
          PROVE  \E d \in Calls : call'[d].slot = t
      <4>1. CASE t = s
        BY <2>1, <2>5, <2>8, <4>1
      <4>2. CASE t # s
        <5>1. PICK d \in Calls : call[d].slot = t
          BY <1>1, <1>2, <1>7, <3>4 DEF HolderInv
        <5>2. d # c /\ d # h
          BY <1>1, <2>2, <4>2, <5>1 DEF HolderInv, Holding, s
        <5> QED
          BY <2>8, <5>1, <5>2
      <4> QED
        BY <4>1, <4>2
    <3> QED
      BY <3>1, <3>2, <3>3, <3>4 DEF HolderInv
  <2>11. JobsLeft'
    <3>1. ASSUME NEW d \in Calls, call'[d].pc \in {"render", "handover"}
          PROVE  slots'[call'[d].slot].jobCount < MaxJobs
      BY <1>1, <1>3, <1>4, <1>7, <2>5, <2>8, <3>1 DEF JobsLeft
    <3> QED
      BY <1>1, <1>7, <3>1 DEF JobsLeft
  <2>12. WaiterInv'
    <3>1. ASSUME NEW d \in Calls
          PROVE  call'[d].pc = "waiting" <=> \E i \in 1..Len(waiters') : waiters'[i] = d
      <4>1. call'[d].pc = "waiting" <=> call[d].pc = "waiting" /\ d # h
        BY <1>2, <1>4, <2>5, <2>8
      <4> QED
        BY <1>1, <2>4, <4>1 DEF WaiterInv
    <3>2. \A t \in Slots : slots'[t].busy
      BY <1>1, <1>7 DEF WaiterInv
    <3> QED
      BY <1>2, <2>4, <3>1, <3>2 DEF WaiterInv
  <2> QED
    BY <2>9, <2>10, <2>11, <2>12 DEF PoolInv
<1> QED
  BY <1>2, <1>6, <1>7 DEF Handover, s

\* A browser that dies leaves the pool's books alone, and so does stop().
LEMMA OtherPoolStep ==
    ASSUME PoolInv, (\E s \in Slots : BrowserWears(s)) \/ Stop \/ UNCHANGED poolVars
    PROVE  PoolInv'
<1>1. /\ slots \in [Slots -> Slot] /\ call \in [Calls -> Call]
      /\ waiters \in Seq(Calls) /\ draining \in BOOLEAN
      /\ deaths \in 0..MaxDeaths /\ failures \in 0..MaxFailures
      /\ MaxDeaths \in Nat
      /\ HolderInv /\ JobsLeft /\ WaiterInv
  BY PoolFacts, PoolAssumption
<1>2. ASSUME NEW s \in Slots, BrowserWears(s)
      PROVE  PoolInv'
  <2>1. PICK state \in {"down", "worn"} : slots' = [slots EXCEPT ![s].browser = state]
    BY <1>2 DEF BrowserWears
  <2>2. deaths' \in 0..MaxDeaths /\ UNCHANGED <<waiters, call, draining, failures>>
    BY <1>1, <1>2 DEF BrowserWears
  <2>3. /\ slots' \in [Slots -> Slot]
        /\ \A t \in Slots : slots'[t].busy = slots[t].busy
                            /\ slots'[t].jobCount = slots[t].jobCount
    BY <1>1, <2>1 DEF Slot
  <2>4. PoolTypeOK'
    BY <1>1, <2>2, <2>3 DEF PoolTypeOK
  <2>5. HolderInv'
    BY <1>1, <2>2, <2>3 DEF HolderInv
  <2>6. JobsLeft'
    BY <1>1, <2>2, <2>3 DEF JobsLeft, HolderInv, Holding
  <2>7. WaiterInv'
    BY <1>1, <2>2, <2>3 DEF WaiterInv
  <2> QED
    BY <2>4, <2>5, <2>6, <2>7 DEF PoolInv
<1>3. CASE Stop
  BY <1>1, <1>3 DEF Stop, faultVars, PoolInv, PoolTypeOK, HolderInv, JobsLeft, WaiterInv
<1>4. CASE UNCHANGED poolVars
  BY <1>1, <1>4 DEF poolVars, PoolInv, PoolTypeOK, HolderInv, JobsLeft, WaiterInv
<1> QED
  BY <1>2, <1>3, <1>4

LEMMA PoolInvHolds == PoolSpec => []PoolInv
<1>1. PoolInit => PoolInv
  <2> SUFFICES ASSUME PoolInit PROVE PoolInv
    OBVIOUS
  <2>1. /\ slots \in [Slots -> Slot] /\ call \in [Calls -> Call]
        /\ \A s \in Slots : ~slots[s].busy /\ slots[s].jobCount = 0
        /\ \A c \in Calls : call[c].pc = "idle" /\ call[c].slot = NoSlot
        /\ waiters = <<>> /\ Len(waiters) = 0 /\ waiters \in Seq(Calls)
        /\ draining = FALSE /\ deaths = 0 /\ failures = 0
        /\ MaxJobs \in Nat \ {0} /\ MaxDeaths \in Nat /\ MaxFailures \in Nat
        /\ NoSlot \notin Slots
    BY PoolAssumption, EmptySeq DEF PoolInit, Slot, Call
  <2>2. PoolTypeOK
    <3>1. draining \in BOOLEAN
      BY <2>1
    <3>2. deaths \in 0..MaxDeaths
      BY <2>1
    <3>3. failures \in 0..MaxFailures
      BY <2>1
    <3> QED
      BY <2>1, <3>1, <3>2, <3>3 DEF PoolTypeOK
  <2>3. HolderInv /\ JobsLeft
    BY <2>1 DEF HolderInv, JobsLeft, Holding
  <2>4. WaiterInv
    BY <2>1 DEF WaiterInv
  <2> QED
    BY <2>2, <2>3, <2>4 DEF PoolInv
<1>2. PoolInv /\ [PoolNext]_poolVars => PoolInv'
  BY AcquireStep, AcquireTimeoutStep, RenderSettlesStep, RecycleStep, HandoverStep,
     HangStep, OtherPoolStep DEF PoolNext, HolderStep
<1> QED
  BY <1>1, <1>2, PTL DEF PoolSpec

\* A slot is in one call's hands from acquire to the end of release, and a
\* call renders on a browser with jobs left (browser-pool.ts).
THEOREM SlotsAreExclusive == PoolSpec => []OneHolder
<1>1. PoolInv => OneHolder
  <2> SUFFICES ASSUME PoolInv, NEW s \in Slots
               PROVE  /\ Cardinality(Holders(s)) <= 1
                      /\ Holders(s) # {} => slots[s].busy
                      /\ slots[s].busy /\ failures = 0 => Holders(s) # {}
                      /\ \A c \in Holders(s) : call[c].pc = "render"
                                                 => slots[s].jobCount < MaxJobs
    BY DEF OneHolder
  <2>1. HolderInv /\ JobsLeft
    BY PoolFacts
  <2>2. Holders(s) = {} \/ \E c \in Calls : Holders(s) = {c}
    BY <2>1 DEF HolderInv, Holders
  <2>3. Cardinality(Holders(s)) <= 1
    <3>1. CASE Holders(s) = {}
      BY <3>1, FS_EmptySet
    <3>2. ASSUME NEW c \in Calls, Holders(s) = {c}
          PROVE  Cardinality(Holders(s)) <= 1
      <4>1. Cardinality({c}) = 1
        BY FS_Singleton
      <4>2. Cardinality(Holders(s)) = 1
        BY <3>2, <4>1
      <4> QED
        BY <4>2
    <3> QED
      BY <2>2, <3>1, <3>2
  <2>4. Holders(s) # {} => slots[s].busy
    BY <2>1 DEF HolderInv, Holders
  <2>5. slots[s].busy /\ failures = 0 => Holders(s) # {}
    BY <2>1 DEF HolderInv, Holders
  <2>6. \A c \in Holders(s) : call[c].pc = "render" => slots[s].jobCount < MaxJobs
    BY <2>1 DEF JobsLeft, Holders
  <2> QED
    BY <2>3, <2>4, <2>5, <2>6
<1> QED
  BY <1>1, PoolInvHolds, PTL

\* The queue is the calls that wait, and nobody waits beside a free slot
\* (browser-pool.ts, acquire and release).
THEOREM NobodyWaitsBesideAFreeSlot == PoolSpec => []NoIdleSlotWhileWaiting
<1>1. PoolInv => NoIdleSlotWhileWaiting
  <2> SUFFICES ASSUME PoolInv
               PROVE  NoIdleSlotWhileWaiting
    OBVIOUS
  <2>1. WaiterInv /\ waiters \in Seq(Calls) /\ Len(waiters) \in Nat
        /\ waiters \in [1..Len(waiters) -> Calls]
    BY PoolFacts, LenProperties
  <2>2. ToSet(waiters) = {waiters[i] : i \in 1..Len(waiters)}
    BY <2>1 DEF ToSet
  <2>3. ToSet(waiters) = {c \in Calls : call[c].pc = "waiting"}
    BY <2>1, <2>2 DEF WaiterInv
  <2>4. waiters \in Bijection(1..Len(waiters), ToSet(waiters))
    <3>1. waiters \in [1..Len(waiters) -> ToSet(waiters)]
      BY <2>1, <2>2
    <3> QED
      BY <2>1, <2>2, <3>1, Fun_IsBij DEF WaiterInv
  <2>5. Cardinality(ToSet(waiters)) = Len(waiters)
    BY <2>1, <2>4, FS_CountingElements DEF ExistsBijection
  <2> QED
    BY <2>1, <2>3, <2>5 DEF NoIdleSlotWhileWaiting, WaiterInv
<1> QED
  BY <1>1, PoolInvHolds, PTL

-----------------------------------------------------------------------------
(* The pool as a fair semaphore.  Each step of the pool is one of these,   *)
(* told by who is inside, which slots are busy, and who waits.             *)

Stays == UNCHANGED <<InHand, Busy, waiters, failures>>

Enters(c) ==
    /\ c \notin InHand /\ InHand' = InHand \cup {c}
    /\ \E s \in Slots \ Busy : Busy' = Busy \cup {s}
    /\ UNCHANGED <<waiters, failures>>

Joins(c) ==
    /\ call[c].pc = "idle" /\ c \notin InHand /\ Busy = Slots
    /\ waiters' = Append(waiters, c)
    /\ UNCHANGED <<InHand, Busy, failures>>

GivesUp(c) ==
    /\ \E i \in 1..Len(waiters) : waiters[i] = c /\ waiters' = RemoveAt(waiters, i)
    /\ UNCHANGED <<InHand, Busy, failures>>

Leaves(c) ==
    /\ c \in InHand /\ waiters = <<>> /\ InHand' = InHand \ {c}
    /\ \E s \in Busy : Busy' = Busy \ {s}
    /\ UNCHANGED <<waiters, failures>>

Passes(c) ==
    /\ c \in InHand /\ waiters # <<>> /\ Head(waiters) \notin InHand
    /\ InHand' = (InHand \ {c}) \cup {Head(waiters)}
    /\ waiters' = Tail(waiters)
    /\ UNCHANGED <<Busy, failures>>

Loses(c) ==
    /\ c \in InHand /\ InHand' = InHand \ {c}
    /\ failures' = failures + 1
    /\ UNCHANGED <<Busy, waiters>>

\* A call that is in no queue and holds nothing gets a slot or queues.
LEMMA AcquireShape ==
    ASSUME PoolInv, NEW c \in Calls, Acquire(c)
    PROVE  Enters(c) \/ Joins(c)
<1>1. /\ slots \in [Slots -> Slot] /\ call \in [Calls -> Call]
      /\ HolderInv /\ WaiterInv
  BY PoolFacts
<1>2. call[c].pc = "idle" /\ c \notin InHand /\ UNCHANGED failures
  BY DEF Acquire, faultVars, InHand, Holding
<1>3. ASSUME NEW s \in Slots, ~slots[s].busy, slots' = [slots EXCEPT ![s].busy = TRUE],
             Give(s, c), UNCHANGED waiters
      PROVE  Enters(c)
  <2>1. s \in Slots \ Busy /\ Busy' = Busy \cup {s}
    BY <1>1, <1>3 DEF Busy, Slot
  <2>2. call'[c].pc = "render" /\ \A d \in Calls \ {c} : call'[d] = call[d]
    BY <1>1, <1>3 DEF Give, Call
  <2>3. InHand' = InHand \cup {c}
    BY <2>2 DEF InHand, Holding
  <2> QED
    BY <1>2, <1>3, <2>1, <2>3 DEF Enters
<1>4. ASSUME \A s \in Slots : slots[s].busy, waiters' = Append(waiters, c),
             call' = [call EXCEPT ![c].pc = "waiting"], UNCHANGED slots
      PROVE  Joins(c)
  <2>1. Busy = Slots /\ Busy' = Busy
    BY <1>4 DEF Busy
  <2>2. call'[c].pc = "waiting" /\ \A d \in Calls \ {c} : call'[d] = call[d]
    BY <1>1, <1>4 DEF Call
  <2>3. InHand' = InHand
    BY <1>2, <2>2 DEF InHand, Holding
  <2> QED
    BY <1>2, <1>4, <2>1, <2>3 DEF Joins
<1> QED
  BY <1>3, <1>4 DEF Acquire

\* The timer takes exactly that call out of the queue.
LEMMA TimeoutShape ==
    ASSUME PoolInv, NEW c \in Calls, AcquireTimeout(c)
    PROVE  GivesUp(c)
<1>1. call \in [Calls -> Call] /\ WaiterInv
  BY PoolFacts
<1>2. PICK i \in 1..Len(waiters) : waiters[i] = c
  BY <1>1 DEF AcquireTimeout, WaiterInv
<1>3. waiters' = RemoveAt(waiters, i)
  BY <1>2, LeavesQueueIs DEF AcquireTimeout
<1>4. call'[c].pc = "done" /\ \A d \in Calls \ {c} : call'[d] = call[d]
  BY <1>1 DEF AcquireTimeout, Call
<1>5. InHand' = InHand
  BY <1>4 DEF AcquireTimeout, InHand, Holding
<1>6. Busy' = Busy /\ failures' = failures
  BY DEF AcquireTimeout, Busy, faultVars
<1> QED
  BY <1>2, <1>3, <1>5, <1>6 DEF GivesUp

\* A call keeps its slot, busy, while it renders, is checked and recycles.
LEMMA WorkShape ==
    ASSUME PoolInv, NEW c \in Calls,
           RenderSettles(c) \/ Check(c) \/ Recycle(c) \/ Hang(c)
    PROVE  Stays \/ Loses(c)
<1>1. /\ slots \in [Slots -> Slot] /\ call \in [Calls -> Call]
      /\ HolderInv
  BY PoolFacts
<1>2. c \in InHand /\ call[c].slot \in Slots /\ UNCHANGED waiters
  BY <1>1 DEF RenderSettles, Check, Recycle, Hang, InHand, Holding, HolderInv
<1>3. Busy' = Busy
  <2>1. \A s \in Slots : slots'[s].busy = slots[s].busy
    <3>1. CASE RenderSettles(c)
      BY <1>1, <1>2, <3>1 DEF RenderSettles, Slot
    <3>2. CASE Check(c)
      BY <3>2 DEF Check, KeptToRecycle
    <3>3. CASE Recycle(c)
      <4>1. CASE slots' = slots
        BY <4>1
      <4>2. CASE slots' = [slots EXCEPT ![call[c].slot] =
                             [@ EXCEPT !.browser = "up", !.jobCount = 0]]
        BY <1>1, <1>2, <4>2, SlotRenewed
      <4> QED
        BY <3>3, <4>1, <4>2 DEF Recycle
    <3>4. CASE Hang(c)
      BY <3>4 DEF Hang
    <3> QED
      BY <3>1, <3>2, <3>3, <3>4
  <2> QED
    BY <2>1 DEF Busy
<1>4. ASSUME call'[c].pc \in Holding, \A d \in Calls \ {c} : call'[d] = call[d],
             UNCHANGED failures
      PROVE  Stays
  <2>1. InHand' = InHand
    BY <1>2, <1>4 DEF InHand
  <2> QED
    BY <1>2, <1>3, <1>4, <2>1 DEF Stays
<1>5. CASE RenderSettles(c) \/ Check(c)
  <2>1. call'[c].pc \in Holding /\ \A d \in Calls \ {c} : call'[d] = call[d]
    <3>1. CASE Check(c)
      BY <1>1, <3>1 DEF Check, Holding, Call
    <3>2. CASE RenderSettles(c)
      <4>1. PICK outcome \in {"ok", "error"} :
              call' = [call EXCEPT ![c] = [@ EXCEPT !.pc = "check", !.outcome = outcome]]
        BY <3>2 DEF RenderSettles
      <4> DEFINE next == [call[c] EXCEPT !.pc = "check", !.outcome = outcome]
      <4>2. outcome \in {"ok", "error", "pool_timeout"} /\ call[c] \in Call
        BY <1>1
      <4>3. next.pc = "check"
        BY <4>2, CallEnds
      <4>4. call' = [call EXCEPT ![c] = next]
        BY <1>1, <4>1
      <4> HIDE DEF next
      <4> QED
        BY <1>1, <4>3, <4>4 DEF Holding
    <3> QED
      BY <1>5, <3>1, <3>2
  <2> QED
    BY <1>4, <1>5, <2>1 DEF RenderSettles, Check, faultVars
<1>6. CASE Recycle(c) /\ call' = [call EXCEPT ![c].pc = "handover"] /\ UNCHANGED failures
  BY <1>1, <1>4, <1>6 DEF Holding, Call
<1>7. CASE failures' = failures + 1 /\ call' = [call EXCEPT ![c] =
             [pc |-> "done", slot |-> NoSlot, outcome |-> "error"]]
  <2>1. call'[c].pc = "done" /\ \A d \in Calls \ {c} : call'[d] = call[d]
    BY <1>1, <1>7
  <2>2. InHand' = InHand \ {c}
    BY <2>1 DEF InHand, Holding
  <2> QED
    BY <1>2, <1>3, <1>7, <2>2 DEF Loses
<1>8. CASE Hang(c)
  BY <1>1, <1>4, <1>8 DEF Hang, Holding, Call, faultVars
<1> QED
  BY <1>5, <1>6, <1>7, <1>8 DEF Recycle

\* The slot goes back, or to the head of the queue.
LEMMA HandoverShape ==
    ASSUME PoolInv, NEW c \in Calls, Handover(c)
    PROVE  Leaves(c) \/ Passes(c)
<1>1. /\ slots \in [Slots -> Slot] /\ call \in [Calls -> Call]
      /\ waiters \in Seq(Calls) /\ HolderInv /\ WaiterInv /\ NoSlot \notin Slots
  BY PoolFacts
<1> DEFINE s == call[c].slot
<1>2. /\ call[c].pc = "handover" /\ c \in InHand /\ s \in Slots /\ slots[s].busy
      /\ ~draining /\ UNCHANGED failures
  BY <1>1 DEF Handover, InHand, Holding, HolderInv, WaiterInv, faultVars
<1>3. /\ Released(c)[c].pc = "done" /\ Released(c) \in [Calls -> Call]
      /\ \A d \in Calls \ {c} : Released(c)[d] = call[d]
  <2> DEFINE gone == [call[c] EXCEPT !.pc = "done", !.slot = NoSlot]
  <2>1. gone \in Call /\ gone.pc = "done"
    BY <1>1, CallMoves
  <2>2. Released(c) = [call EXCEPT ![c] = gone]
    BY <1>1 DEF Released
  <2> HIDE DEF gone
  <2> QED
    BY <1>1, <2>1, <2>2
<1>4. CASE /\ waiters = <<>> /\ slots' = [slots EXCEPT ![s].busy = FALSE]
           /\ call' = Released(c) /\ waiters' = waiters
  <2>1. s \in Busy /\ Busy' = Busy \ {s}
    BY <1>1, <1>2, <1>4 DEF Busy, Slot
  <2>2. InHand' = InHand \ {c}
    BY <1>3, <1>4 DEF InHand, Holding
  <2> QED
    BY <1>2, <1>4, <2>1, <2>2 DEF Leaves
<1>5. CASE /\ waiters # <<>> /\ slots' = slots /\ waiters' = Tail(waiters)
           /\ call' = IF call[Head(waiters)].pc = "waiting"
                      THEN [Released(c) EXCEPT ![Head(waiters)] =
                               [@ EXCEPT !.pc = "render", !.slot = s]]
                      ELSE Released(c)
  <2> DEFINE h == Head(waiters)
             next == [call[h] EXCEPT !.pc = "render", !.slot = s]
  <2>1. 1 \in 1..Len(waiters) /\ waiters[1] = h /\ h \in Calls
    BY <1>1, <1>5, HeadTailProperties, LenProperties, ElementOfSeq, EmptySeq
  <2>2. call[h].pc = "waiting" /\ h # c /\ h \notin InHand
    BY <1>1, <1>2, <2>1 DEF WaiterInv, InHand, Holding
  <2>3. next \in Call /\ next.pc = "render"
    <3>1. call[h] \in Call /\ s \in Slots \cup {NoSlot}
      BY <1>1, <1>2, <2>1
    <3> HIDE DEF s
    <3> QED
      BY <3>1, CallMoves
  <2>4. call' = [Released(c) EXCEPT ![h] = next]
    BY <1>3, <1>5, <2>1, <2>2
  <2> HIDE DEF h, next
  <2>5. /\ call'[h].pc = "render" /\ call'[c].pc = "done"
        /\ \A d \in Calls : d # c /\ d # h => call'[d] = call[d]
    BY <1>3, <2>1, <2>2, <2>3, <2>4
  <2>6. InHand' = (InHand \ {c}) \cup {h}
    BY <2>1, <2>2, <2>5 DEF InHand, Holding
  <2>7. Busy' = Busy
    BY <1>5 DEF Busy
  <2> QED
    BY <1>2, <1>5, <2>2, <2>6, <2>7 DEF Passes, h
<1> QED
  BY <1>2, <1>4, <1>5 DEF Handover

LEMMA PoolShapes ==
    ASSUME PoolInv, [PoolNext]_poolVars
    PROVE  \/ Stays
           \/ \E c \in Calls : \/ Enters(c) \/ Joins(c) \/ GivesUp(c)
                               \/ Leaves(c) \/ Passes(c) \/ Loses(c)
<1>1. slots \in [Slots -> Slot]
  BY PoolFacts
<1>2. ASSUME NEW s \in Slots, BrowserWears(s) PROVE Stays
  <2>1. PICK state \in {"down", "worn"} : slots' = [slots EXCEPT ![s].browser = state]
    BY <1>2 DEF BrowserWears
  <2>2. \A t \in Slots : slots'[t].busy = slots[t].busy
    BY <1>1, <2>1 DEF Slot
  <2> QED
    BY <1>2, <2>2 DEF BrowserWears, Stays, InHand, Busy
<1>3. CASE Stop
  BY <1>3 DEF Stop, faultVars, Stays, InHand, Busy
<1>4. CASE UNCHANGED poolVars
  BY <1>4 DEF poolVars, Stays, InHand, Busy
<1> QED
  BY <1>2, <1>3, <1>4, AcquireShape, TimeoutShape, WorkShape, HandoverShape
     DEF PoolNext, HolderStep

\* Calls in hand and lost slots add up to the busy slots, in every step.
LEMMA CountStep ==
    ASSUME PoolInv, CountInv, [PoolNext]_poolVars
    PROVE  CountInv'
<1>1. Busy \subseteq Slots /\ IsFiniteSet(Busy) /\ IsFiniteSet(InHand)
  BY PoolAssumption, FS_Subset DEF Busy, CountInv
<1>2. Cardinality(Busy) \in Nat /\ Cardinality(InHand) \in Nat /\ failures \in Nat
  BY <1>1, FS_CardinalityType, PoolFacts, PoolAssumption
<1>3. Cardinality(InHand) + failures = Cardinality(Busy)
  BY DEF CountInv
<1>4. CASE Stays
  BY <1>4 DEF Stays, CountInv
<1>5. ASSUME NEW c \in Calls, Joins(c) \/ GivesUp(c) PROVE CountInv'
  BY <1>5 DEF Joins, GivesUp, CountInv
<1>6. ASSUME NEW c \in Calls, Enters(c) PROVE CountInv'
  <2>1. PICK s \in Slots \ Busy : Busy' = Busy \cup {s}
    BY <1>6 DEF Enters
  <2>2. Cardinality(Busy \cup {s}) = Cardinality(Busy) + 1
    BY <1>1, <2>1, FS_AddElement
  <2>3. IsFiniteSet(InHand \cup {c}) /\ Cardinality(InHand \cup {c}) = Cardinality(InHand) + 1
    BY <1>1, <1>6, FS_AddElement DEF Enters
  <2>4. InHand' = InHand \cup {c} /\ failures' = failures
    BY <1>6 DEF Enters
  <2> QED
    BY <1>2, <1>3, <2>1, <2>2, <2>3, <2>4 DEF CountInv
<1>7. ASSUME NEW c \in Calls, Leaves(c) PROVE CountInv'
  <2>1. PICK s \in Busy : Busy' = Busy \ {s}
    BY <1>7 DEF Leaves
  <2>2. Cardinality(Busy \ {s}) = Cardinality(Busy) - 1
    BY <1>1, <2>1, FS_RemoveElement
  <2>3. IsFiniteSet(InHand \ {c}) /\ Cardinality(InHand \ {c}) = Cardinality(InHand) - 1
    BY <1>1, <1>7, FS_RemoveElement DEF Leaves
  <2>4. InHand' = InHand \ {c} /\ failures' = failures
    BY <1>7 DEF Leaves
  <2> QED
    BY <1>2, <1>3, <2>1, <2>2, <2>3, <2>4 DEF CountInv
<1>8. ASSUME NEW c \in Calls, Passes(c) PROVE CountInv'
  <2> DEFINE rest == InHand \ {c}
  <2>1. IsFiniteSet(rest) /\ Cardinality(rest) = Cardinality(InHand) - 1
    BY <1>1, <1>8, FS_RemoveElement DEF Passes
  <2>2. Head(waiters) \notin rest
    BY <1>8 DEF Passes
  <2> HIDE DEF rest
  <2>3. /\ IsFiniteSet(rest \cup {Head(waiters)})
        /\ Cardinality(rest \cup {Head(waiters)}) = Cardinality(rest) + 1
    BY <2>1, <2>2, FS_AddElement
  <2>4. InHand' = rest \cup {Head(waiters)} /\ UNCHANGED <<Busy, failures>>
    BY <1>8 DEF Passes, rest
  <2> QED
    BY <1>2, <1>3, <2>1, <2>3, <2>4 DEF CountInv
<1>9. ASSUME NEW c \in Calls, Loses(c) PROVE CountInv'
  <2>1. IsFiniteSet(InHand \ {c}) /\ Cardinality(InHand \ {c}) = Cardinality(InHand) - 1
    BY <1>1, <1>9, FS_RemoveElement DEF Loses
  <2> QED
    BY <1>2, <1>3, <1>9, <2>1 DEF Loses, CountInv
<1> QED
  BY <1>4, <1>5, <1>6, <1>7, <1>8, <1>9, PoolShapes

LEMMA CountHolds == PoolSpec => [](PoolInv /\ CountInv)
<1>1. PoolInit => CountInv
  <2> SUFFICES ASSUME PoolInit PROVE CountInv
    OBVIOUS
  <2>1. InHand = {} /\ Busy = {} /\ failures = 0
    BY DEF PoolInit, InHand, Holding, Busy
  <2> QED
    BY <2>1, FS_EmptySet DEF CountInv
<1>2. PoolInv /\ CountInv /\ [PoolNext]_poolVars => CountInv'
  BY CountStep
<1> QED
  BY <1>1, <1>2, PoolInvHolds, PTL DEF PoolSpec

\* A slot is free exactly when the semaphore has a permit to spare.
LEMMA SpareIsFree ==
    ASSUME PoolInv, CountInv
    PROVE  Semaphore!Spare <=> Busy # Slots
<1>1. /\ Busy \subseteq Slots /\ Cardinality(Busy) <= Cardinality(Slots)
      /\ Cardinality(Slots) = Cardinality(Busy) => Slots = Busy
  BY PoolAssumption, FS_Subset DEF Busy
<1>2. Cardinality(Busy) \in Nat /\ Cardinality(Slots) \in Nat
  BY PoolAssumption, FS_Subset, FS_CardinalityType DEF Busy
<1>5. Busy # Slots => Cardinality(Busy) < Cardinality(Slots)
  BY <1>1, <1>2
<1>3. Cardinality(InHand) + failures = Cardinality(Busy)
  BY DEF CountInv
<1>4. Semaphore!Spare <=> Cardinality(InHand) + failures < Cardinality(Slots)
  BY DEF Semaphore!Spare, Semaphore!Cardinality, Cardinality
<1>6. Busy = Slots => ~(Cardinality(Busy) < Cardinality(Slots))
  BY <1>2
<1>7. Semaphore!Spare <=> Cardinality(Busy) < Cardinality(Slots)
  BY <1>3, <1>4
<1> QED
  BY <1>5, <1>6, <1>7

\* For POST /render the pool is a fair semaphore: as many renders as there are
\* slots, callers served in order, one slot lost with every failed launch
\* (browser-pool.ts, acquire and release).
THEOREM PoolIsAFairSemaphore == PoolSpec => SemaphoreSpec
<1>1. PoolInit => Semaphore!Init
  BY DEF PoolInit, Semaphore!Init, InHand, Holding
<1>2. PoolInv /\ CountInv /\ [PoolNext]_poolVars => [Semaphore!Next]_(Semaphore!vars)
  <2> SUFFICES ASSUME PoolInv, CountInv, [PoolNext]_poolVars
               PROVE  [Semaphore!Next]_(Semaphore!vars)
    OBVIOUS
  <2>1. WaiterInv /\ call \in [Calls -> Call]
    BY PoolFacts
  <2>2. CASE Stays
    BY <2>2 DEF Stays, Semaphore!vars
  <2>3. ASSUME NEW c \in Calls, Enters(c) PROVE Semaphore!Enter(c)
    <3>1. Busy # Slots /\ waiters = <<>>
      BY <2>1, <2>3 DEF Enters, WaiterInv, Busy
    <3>2. Semaphore!Outside(c)
      BY <2>3, <3>1 DEF Enters, Semaphore!Outside
    <3> QED
      BY <2>3, <3>1, <3>2, SpareIsFree DEF Enters, Semaphore!Enter
  <2>4. ASSUME NEW c \in Calls, Joins(c) PROVE Semaphore!Join(c)
    <3>1. Semaphore!Outside(c)
      BY <2>1, <2>4 DEF Joins, WaiterInv, Semaphore!Outside
    <3> QED
      BY <2>4, <3>1, SpareIsFree DEF Joins, Semaphore!Join
  <2>5. ASSUME NEW c \in Calls, GivesUp(c) PROVE Semaphore!GiveUp(c)
    BY <2>5 DEF GivesUp, RemoveAt, Semaphore!GiveUp, Semaphore!RemoveAt
  <2>6. ASSUME NEW c \in Calls, Leaves(c) \/ Passes(c) PROVE Semaphore!Leave(c)
    BY <2>6 DEF Leaves, Passes, Semaphore!Leave
  <2>7. ASSUME NEW c \in Calls, Loses(c) PROVE Semaphore!LosePermit(c)
    BY <2>7 DEF Loses, Semaphore!LosePermit
  <2> QED
    BY <2>2, <2>3, <2>4, <2>5, <2>6, <2>7, PoolShapes DEF Semaphore!Next
<1> QED
  BY <1>1, <1>2, CountHolds, PTL DEF PoolSpec, SemaphoreSpec, Semaphore!Spec

=============================================================================
