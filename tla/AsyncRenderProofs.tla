------------------------- MODULE AsyncRenderProofs -------------------------
(***************************************************************************)
(* Theorems about AsyncRender, for every set of documents and removers and *)
(* every bound on attempts, stalls, concurrency, crashes and errors.       *)
(*                                                                         *)
(* The invariants are proved through IInv.  There is one lemma per part of *)
(* IInv; each has a step per action that writes a variable the part reads, *)
(* and one step for all the others.                                        *)
(***************************************************************************)
EXTENDS AsyncRender, TLAPS

\* Type correctness of a step.  attemptsMade stays within Attempts because an
\* attempt runs only for a job with attempts left.
LEMMA TypeStep ==
    TypeOK /\ AttemptsAreActive /\ LiveJobsHaveAttempts /\ [Next]_vars => TypeOK'
<1> SUFFICES ASSUME TypeOK, AttemptsAreActive, LiveJobsHaveAttempts, [Next]_vars
             PROVE TypeOK'
  OBVIOUS
<1>1. request \in [Docs -> Request]
  BY DEF TypeOK
<1>2. handler \in [Docs -> HandlerPCs]
  BY DEF TypeOK
<1>3. documents \in [Docs -> DocumentRow]
  BY DEF TypeOK
<1>4. jobs \in [Docs -> JobRow]
  BY DEF TypeOK
<1>5. vault \in [Docs -> BOOLEAN]
  BY DEF TypeOK
<1>6. queue \in [Docs -> QueueJob]
  BY DEF TypeOK
<1>7. attempt \in [Docs -> Attempt]
  BY DEF TypeOK
<1>8. objects \in [Docs -> Objects]
  BY DEF TypeOK
<1>9. announced \in [Docs -> SUBSET Notices]
  BY DEF TypeOK
<1>10. removal \in [Removers -> [Docs -> Removal]]
  BY DEF TypeOK
<1>11. crashes \in 0..MaxCrashes /\ errors \in 0..MaxErrors
  BY DEF TypeOK
<1>12. ASSUME NEW d \in Docs, Reserve(d) PROVE TypeOK'
  <2>1. request' \in [Docs -> Request]
    BY <1>12, <1>1 DEF Reserve, Request
  <2>2. documents' \in [Docs -> DocumentRow]
    BY <1>12, <1>3, <1>1 DEF Reserve, Request, DocumentRow, RowStatus
  <2>3. handler' \in [Docs -> HandlerPCs]
    BY <1>12, <1>2 DEF Reserve, HandlerPCs
  <2> QED
    BY <1>12, <2>1, <2>2, <2>3
       DEF Reserve, TypeOK, requestVars, storeVars, NoFault, faultVars
<1>13. ASSUME NEW d \in Docs, StoreSecret(d) PROVE TypeOK'
  <2>1. vault' \in [Docs -> BOOLEAN]
    BY <1>13, <1>5, <1>1 DEF StoreSecret, Request
  <2>2. handler' \in [Docs -> HandlerPCs]
    BY <1>13, <1>2 DEF StoreSecret, HandlerPCs
  <2>3. crashes' \in 0..MaxCrashes /\ errors' \in 0..MaxErrors
    BY <1>13, <1>11, ConstantsAssumption
       DEF StoreSecret, CallFails, NoFault, faultVars
  <2> QED
    BY <1>13, <2>1, <2>2, <2>3 DEF StoreSecret, TypeOK, requestVars, storeVars
<1>14. ASSUME NEW d \in Docs, Enqueue(d) \/ Discard(d) PROVE TypeOK'
  <2>1. vault' \in [Docs -> BOOLEAN]
    BY <1>14, <1>5 DEF Enqueue, Discard
  <2>2. handler' \in [Docs -> HandlerPCs]
    BY <1>14, <1>2 DEF Enqueue, Discard, HandlerPCs
  <2>3. queue' \in [Docs -> QueueJob]
    BY <1>14, <1>6, ConstantsAssumption DEF Enqueue, Discard, QueueJob, QueueState
  <2>4. crashes' \in 0..MaxCrashes /\ errors' \in 0..MaxErrors
    BY <1>14, <1>11, ConstantsAssumption
       DEF Enqueue, Discard, CallFails, NoFault, faultVars
  <2> QED
    BY <1>14, <2>1, <2>2, <2>3, <2>4 DEF Enqueue, Discard, TypeOK, requestVars, storeVars
<1>15. ASSUME NEW d \in Docs, RecordJob(d) PROVE TypeOK'
  <2>1. handler' \in [Docs -> HandlerPCs]
    BY <1>15, <1>2 DEF RecordJob, RecordedJob, HandlerPCs
  <2>2. jobs' \in [Docs -> JobRow]
    BY <1>15, <1>4 DEF RecordJob, RecordedJob, JobRow, JobStatus, HookStatus
  <2>3. crashes' \in 0..MaxCrashes /\ errors' \in 0..MaxErrors
    BY <1>15, <1>11, ConstantsAssumption
       DEF RecordJob, RecordedJob, CallFails, NoFault, faultVars
  <2> QED
    BY <1>15, <2>1, <2>2, <2>3 DEF RecordJob, RecordedJob, TypeOK, requestVars, storeVars
<1>16. ASSUME NEW d \in Docs, HandlerCrash(d) PROVE TypeOK'
  <2>1. handler' \in [Docs -> HandlerPCs]
    BY <1>16, <1>2 DEF HandlerCrash, HandlerPCs
  <2>2. crashes' \in 0..MaxCrashes /\ errors' \in 0..MaxErrors
    BY <1>16, <1>11, ConstantsAssumption
       DEF HandlerCrash, CallFails, NoFault, faultVars
  <2> QED
    BY <1>16, <2>1, <2>2 DEF HandlerCrash, TypeOK, requestVars, storeVars
<1>17. ASSUME NEW d \in Docs, SecretExpires(d) PROVE TypeOK'
  <2>1. vault' \in [Docs -> BOOLEAN]
    BY <1>17, <1>5 DEF SecretExpires
  <2> QED
    BY <1>17, <2>1
       DEF SecretExpires, TypeOK, requestVars, storeVars, NoFault, faultVars
<1>18. ASSUME NEW d \in Docs, Pickup(d) PROVE TypeOK'
  <2>1. queue' \in [Docs -> QueueJob]
    BY <1>18, <1>6, ConstantsAssumption DEF Pickup, QueueJob, QueueState
  <2>2. attempt' \in [Docs -> Attempt]
    BY <1>18, <1>7 DEF Pickup, Attempt, AttemptPCs
  <2> QED
    BY <1>18, <2>1, <2>2
       DEF Pickup, TypeOK, requestVars, storeVars, NoFault, faultVars
<1>19. ASSUME NEW d \in Docs, TakeSecret(d) PROVE TypeOK'
  <2>1. attempt' \in [Docs -> Attempt]
    BY <1>19, <1>7, <1>5 DEF TakeSecret, SecretIsGone, Goto, Attempt, AttemptPCs
  <2>2. vault' \in [Docs -> BOOLEAN]
    BY <1>19, <1>5 DEF TakeSecret, AfterTake
  <2>3. crashes' \in 0..MaxCrashes /\ errors' \in 0..MaxErrors
    BY <1>19, <1>11, ConstantsAssumption
       DEF TakeSecret, CallFails, NoFault, faultVars
  <2> QED
    BY <1>19, <2>1, <2>2, <2>3 DEF TakeSecret, TypeOK, requestVars, storeVars
<1>20. ASSUME NEW d \in Docs, MarkActive(d) PROVE TypeOK'
  <2>1. jobs' \in [Docs -> JobRow]
    BY <1>20, <1>4 DEF MarkActive, JobUpdateMany, JobRow, JobStatus, HookStatus
  <2>2. attempt' \in [Docs -> Attempt]
    BY <1>20, <1>7 DEF MarkActive, Goto, Attempt, AttemptPCs
  <2>3. crashes' \in 0..MaxCrashes /\ errors' \in 0..MaxErrors
    BY <1>20, <1>11, ConstantsAssumption
       DEF MarkActive, CallFails, NoFault, faultVars
  <2> QED
    BY <1>20, <2>1, <2>2, <2>3 DEF MarkActive, TypeOK, requestVars, storeVars
<1>21. ASSUME NEW d \in Docs, StartRender(d) PROVE TypeOK'
  <2>1. documents' \in [Docs -> DocumentRow]
    BY <1>21, <1>3, <1>7, ZenonT(60)
       DEF StartRender, BeginRender, Attempt, DocumentRow, RowStatus
  <2>2. attempt' \in [Docs -> Attempt]
    BY <1>21, <1>7 DEF StartRender, Goto, Attempt, AttemptPCs
  <2>3. crashes' \in 0..MaxCrashes /\ errors' \in 0..MaxErrors
    BY <1>21, <1>11, ConstantsAssumption
       DEF StartRender, CallFails, NoFault, faultVars
  <2> QED
    BY <1>21, <2>1, <2>2, <2>3 DEF StartRender, TypeOK, requestVars, storeVars
<1>22. ASSUME NEW d \in Docs, RenderAndStore(d) PROVE TypeOK'
  <2>1. objects' \in [Docs -> Objects]
    BY <1>22, <1>8 DEF RenderAndStore, PutFails, Rendered, Objects
  <2>2. attempt' \in [Docs -> Attempt]
    BY <1>22, <1>7 DEF RenderAndStore, PutFails, Goto, Attempt, AttemptPCs
  <2>3. crashes' \in 0..MaxCrashes /\ errors' \in 0..MaxErrors
    BY <1>22, <1>11, ConstantsAssumption
       DEF RenderAndStore, PutFails, CallFails, NoFault, faultVars
  <2> QED
    BY <1>22, <2>1, <2>2, <2>3 DEF RenderAndStore, TypeOK, requestVars, storeVars
<1>23. ASSUME NEW d \in Docs, Commit(d) PROVE TypeOK'
  <2>1. documents' \in [Docs -> DocumentRow]
    BY <1>23, <1>3 DEF Commit, Committed, DocumentRow, RowStatus
  <2>2. attempt' \in [Docs -> Attempt]
    BY <1>23, <1>7 DEF Commit, Committed, Goto, Attempt, AttemptPCs
  <2>3. crashes' \in 0..MaxCrashes /\ errors' \in 0..MaxErrors
    BY <1>23, <1>11, ConstantsAssumption DEF Commit, Committed, CallFails, NoFault, faultVars
  <2> QED
    BY <1>23, <2>1, <2>2, <2>3 DEF Commit, Committed, TypeOK, requestVars, storeVars
<1>24. ASSUME NEW d \in Docs, RecordFailure(d) PROVE TypeOK'
  <2>1. documents' \in [Docs -> DocumentRow]
    BY <1>24, <1>3 DEF RecordFailure, DocumentRow, RowStatus
  <2>2. attempt' \in [Docs -> Attempt]
    BY <1>24, <1>7 DEF RecordFailure, Goto, Attempt, AttemptPCs
  <2>3. crashes' \in 0..MaxCrashes /\ errors' \in 0..MaxErrors
    BY <1>24, <1>11, ConstantsAssumption
       DEF RecordFailure, CallFails, NoFault, faultVars
  <2> QED
    BY <1>24, <2>1, <2>2, <2>3 DEF RecordFailure, TypeOK, requestVars, storeVars
<1>25. ASSUME NEW d \in Docs, JobCompleted(d) PROVE TypeOK'
  <2>1. jobs' \in [Docs -> JobRow]
    BY <1>25, <1>4 DEF JobCompleted, JobUpdateMany, JobRow, JobStatus, HookStatus
  <2>2. attempt' \in [Docs -> Attempt]
    BY <1>25, <1>7 DEF JobCompleted, Goto, Attempt, AttemptPCs
  <2>3. crashes' \in 0..MaxCrashes /\ errors' \in 0..MaxErrors
    BY <1>25, <1>11, ConstantsAssumption
       DEF JobCompleted, CallFails, NoFault, faultVars
  <2> QED
    BY <1>25, <2>1, <2>2, <2>3 DEF JobCompleted, TypeOK, requestVars, storeVars
<1>26. ASSUME NEW d \in Docs, DeliverCompleted(d) PROVE TypeOK'
  <2>1. jobs' \in [Docs -> JobRow]
    BY <1>26, <1>4 DEF DeliverCompleted, Deliver, JobRow, JobStatus, HookStatus
  <2>2. attempt' \in [Docs -> Attempt]
    BY <1>26, <1>7 DEF DeliverCompleted, Goto, Attempt, AttemptPCs
  <2>3. announced' \in [Docs -> SUBSET Notices]
    BY <1>26, <1>9 DEF DeliverCompleted, Deliver, Notices
  <2>4. crashes' \in 0..MaxCrashes /\ errors' \in 0..MaxErrors
    BY <1>26, <1>11, ConstantsAssumption
       DEF DeliverCompleted, Deliver, CallFails, NoFault, faultVars
  <2> QED
    BY <1>26, <2>1, <2>2, <2>3, <2>4
       DEF DeliverCompleted, Deliver, TypeOK, requestVars, storeVars
<1>27. ASSUME NEW d \in Docs, HandleFailure(d) PROVE TypeOK'
  <2>1. jobs' \in [Docs -> JobRow]
    BY <1>27, <1>4 DEF HandleFailure, JobUpdateMany, JobRow, JobStatus, HookStatus
  <2>2. attempt' \in [Docs -> Attempt]
    BY <1>27, <1>7 DEF HandleFailure, Goto, Attempt, AttemptPCs
  <2>3. crashes' \in 0..MaxCrashes /\ errors' \in 0..MaxErrors
    BY <1>27, <1>11, ConstantsAssumption
       DEF HandleFailure, CallFails, NoFault, faultVars
  <2> QED
    BY <1>27, <2>1, <2>2, <2>3 DEF HandleFailure, TypeOK, requestVars, storeVars
<1>28. ASSUME NEW d \in Docs, Alert(d) PROVE TypeOK'
  <2>1. announced' \in [Docs -> SUBSET Notices]
    BY <1>28, <1>9 DEF Alert, Notices
  <2>2. attempt' \in [Docs -> Attempt]
    BY <1>28, <1>7 DEF Alert, Goto, Attempt, AttemptPCs
  <2>3. crashes' \in 0..MaxCrashes /\ errors' \in 0..MaxErrors
    BY <1>28, <1>11, ConstantsAssumption DEF Alert, CallFails, NoFault, faultVars
  <2> QED
    BY <1>28, <2>1, <2>2, <2>3 DEF Alert, TypeOK, requestVars, storeVars
<1>29. ASSUME NEW d \in Docs, DeliverFailed(d) PROVE TypeOK'
  <2>1. jobs' \in [Docs -> JobRow]
    BY <1>29, <1>4 DEF DeliverFailed, Deliver, JobRow, JobStatus, HookStatus
  <2>2. attempt' \in [Docs -> Attempt]
    BY <1>29, <1>7 DEF DeliverFailed, Goto, Attempt, AttemptPCs
  <2>3. announced' \in [Docs -> SUBSET Notices]
    BY <1>29, <1>9 DEF DeliverFailed, Deliver, Notices
  <2>4. crashes' \in 0..MaxCrashes /\ errors' \in 0..MaxErrors
    BY <1>29, <1>11, ConstantsAssumption
       DEF DeliverFailed, Deliver, CallFails, NoFault, faultVars
  <2> QED
    BY <1>29, <2>1, <2>2, <2>3, <2>4
       DEF DeliverFailed, Deliver, TypeOK, requestVars, storeVars
<1>30. ASSUME NEW d \in Docs, JobReturns(d) PROVE TypeOK'
  <2>1. attempt' \in [Docs -> Attempt]
    BY <1>30, <1>7 DEF JobReturns, Idle, Attempt, AttemptPCs
  <2>2. queue' \in [Docs -> QueueJob]
    <3>1. queue[d].attemptsMade + 1 \in 0..Attempts
      BY <1>30, <1>6, ConstantsAssumption
         DEF JobReturns, AttemptsAreActive, LiveJobsHaveAttempts, Finished, QueueJob
    <3> QED
      BY <1>30, <1>6, <3>1 DEF JobReturns, QueueJob, QueueState
  <2> QED
    BY <1>30, <2>1, <2>2
       DEF JobReturns, TypeOK, requestVars, storeVars, NoFault, faultVars
<1>31. ASSUME NEW d \in Docs, JobThrows(d) PROVE TypeOK'
  <2>1. attempt' \in [Docs -> Attempt]
    BY <1>31, <1>7 DEF JobThrows, Idle, Attempt, AttemptPCs
  <2>2. queue' \in [Docs -> QueueJob]
    <3>1. queue[d].attemptsMade + 1 \in 0..Attempts
      BY <1>31, <1>6, ConstantsAssumption
         DEF JobThrows, AttemptsAreActive, LiveJobsHaveAttempts, Finished, QueueJob
    <3> QED
      BY <1>31, <1>6, <3>1 DEF JobThrows, RetriesLeft, QueueJob, QueueState
  <2> QED
    BY <1>31, <2>1, <2>2
       DEF JobThrows, TypeOK, requestVars, storeVars, NoFault, faultVars
<1>32. ASSUME NEW d \in Docs, WorkerCrash(d) PROVE TypeOK'
  <2>1. attempt' \in [Docs -> Attempt]
    BY <1>32, <1>7 DEF WorkerCrash, Idle, Attempt, AttemptPCs
  <2>2. crashes' \in 0..MaxCrashes /\ errors' \in 0..MaxErrors
    BY <1>32, <1>11, ConstantsAssumption
       DEF WorkerCrash, CallFails, NoFault, faultVars
  <2> QED
    BY <1>32, <2>1, <2>2 DEF WorkerCrash, TypeOK, requestVars, storeVars
<1>33. ASSUME NEW d \in Docs, StalledCheck(d) PROVE TypeOK'
  <2>1. queue' \in [Docs -> QueueJob]
    <3>1. queue[d].stalls < MaxStalls => queue[d].stalls + 1 \in 0..MaxStalls
      BY <1>33, <1>6, ConstantsAssumption DEF QueueJob
    <3> QED
      BY <1>33, <1>6, <3>1 DEF StalledCheck, QueueJob, QueueState
  <2> QED
    BY <1>33, <2>1
       DEF StalledCheck, TypeOK, requestVars, storeVars, NoFault, faultVars
<1>34. ASSUME NEW r \in Removers, NEW d \in Docs, RemoveRead(r, d) PROVE TypeOK'
  <2>1. removal' \in [Removers -> [Docs -> Removal]]
    BY <1>34, <1>10, <1>3 DEF RemoveRead, Reread, DocumentRow, Removal
  <2> QED
    BY <1>34, <2>1
       DEF RemoveRead, TypeOK, requestVars, storeVars, NoFault, faultVars
<1>35. ASSUME NEW r \in Removers, NEW d \in Docs, RemoveObject(r, d) PROVE TypeOK'
  <2>1. objects' \in [Docs -> Objects]
    BY <1>35, <1>8 DEF RemoveObject, Objects
  <2>2. removal' \in [Removers -> [Docs -> Removal]]
    BY <1>35, <1>10 DEF RemoveObject, Removal
  <2> QED
    BY <1>35, <2>1, <2>2
       DEF RemoveObject, TypeOK, requestVars, storeVars, NoFault, faultVars
<1>36. ASSUME NEW r \in Removers, NEW d \in Docs, RemoveRow(r, d) PROVE TypeOK'
  <2>1. removal' \in [Removers -> [Docs -> Removal]]
    BY <1>36, <1>10, SMTT(30) DEF RemoveRow, Removal
  <2>2. documents' \in [Docs -> DocumentRow]
    BY <1>36, <1>3 DEF RemoveRow, DocumentRow, RowStatus
  <2>3. jobs' \in [Docs -> JobRow]
    BY <1>36, <1>4 DEF RemoveRow, JobRow, JobStatus, HookStatus
  <2> QED
    BY <1>36, <2>1, <2>2, <2>3
       DEF RemoveRow, TypeOK, requestVars, storeVars, NoFault, faultVars
<1>37. ASSUME NEW r \in Removers, NEW d \in Docs, RemoveRetry(r, d) PROVE TypeOK'
  <2>1. removal' \in [Removers -> [Docs -> Removal]]
    BY <1>37, <1>10, <1>3 DEF RemoveRetry, Reread, DocumentRow, Removal
  <2>2. crashes' \in 0..MaxCrashes /\ errors' \in 0..MaxErrors
    BY <1>37, <1>11, ConstantsAssumption
       DEF RemoveRetry, CallFails, NoFault, faultVars
  <2> QED
    BY <1>37, <2>1, <2>2 DEF RemoveRetry, TypeOK, requestVars, storeVars
<1>38. CASE UNCHANGED vars
  BY <1>38 DEF vars, TypeOK
<1> QED
  BY <1>12, <1>13, <1>14, <1>15, <1>16, <1>17, <1>18, <1>19, <1>20, <1>21, <1>22,
     <1>23, <1>24, <1>25, <1>26, <1>27, <1>28, <1>29, <1>30, <1>31, <1>32, <1>33,
     <1>34, <1>35, <1>36, <1>37, <1>38
     DEF Next, HandlerStep, AttemptStep, RemovalStep

\* A request that was not made yet has left no trace.
LEMMA NothingBeforeRequestStep == IInv /\ [Next]_vars => NothingBeforeRequest'
<1> DEFINE P(e) == handler[e] = "idle" =>
                       /\ documents[e].status = "none" /\ ~vault[e] /\ announced[e] = {}
                       /\ \A r \in Removers : removal[r][e].pc = "idle"
<1> SUFFICES ASSUME IInv, [Next]_vars, NEW e \in Docs PROVE P(e)'
  BY DEF NothingBeforeRequest, HasRow
<1>1. /\ handler \in [Docs -> HandlerPCs]
      /\ documents \in [Docs -> DocumentRow]
      /\ vault \in [Docs -> BOOLEAN]
      /\ queue \in [Docs -> QueueJob]
      /\ attempt \in [Docs -> Attempt]
      /\ announced \in [Docs -> SUBSET Notices]
      /\ removal \in [Removers -> [Docs -> Removal]]
      /\ NothingBeforeRequest
      /\ NothingBeforeEnqueue
      /\ NoJobWithoutDocument
  BY DEF IInv, TypeOK
<1>2. ASSUME NEW d \in Docs, StoreSecret(d) \/ Enqueue(d) \/ Discard(d) \/ RecordJob(d)
       \/ HandlerCrash(d) PROVE P(e)'
  BY <1>1, <1>2
     DEF StoreSecret, Enqueue, Discard, RecordJob, RecordedJob, HandlerCrash, NothingBeforeRequest,
         NothingBeforeEnqueue, NoJobWithoutDocument, requestVars, storeVars,
         DocumentRow, QueueJob, Attempt, Removal, HasRow
<1>3. ASSUME NEW d \in Docs, Alert(d) \/ DeliverFailed(d) PROVE P(e)'
  <2>1. /\ attempt[d].pc # "idle"
        /\ handler' = handler /\ documents' = documents /\ vault' = vault /\ removal' = removal
        /\ \E told : announced' = [announced EXCEPT ![d] = told]
    <3>1. CASE Alert(d)
      <4>1. /\ attempt[d].pc = "alert"
            /\ handler' = handler /\ documents' = documents /\ vault' = vault
            /\ removal' = removal
        BY <3>1 DEF Alert, requestVars, storeVars
      <4>2. CASE announced' = announced
        BY <1>1, <4>1, <4>2
      <4>3. CASE \E told \in {{"alert"}, {"alert", "mail"}} :
                    announced' = [announced EXCEPT ![d] = IF HasRow(d) THEN @ \cup told ELSE @]
        BY <4>1, <4>3
      <4> QED
        BY <3>1, <4>2, <4>3 DEF Alert
    <3>2. CASE DeliverFailed(d)
      BY <3>2 DEF DeliverFailed, Deliver, requestVars
    <3> QED
      BY <1>3, <3>1, <3>2
  <2>2. handler[d] # "idle"
    BY <1>1, <2>1 DEF NothingBeforeEnqueue
  <2>3. CASE e = d
    BY <2>1, <2>2, <2>3
  <2>4. CASE e # d
    BY <1>1, <2>1, <2>4 DEF NothingBeforeRequest, HasRow
  <2> QED
    BY <2>3, <2>4
<1>4. ASSUME NEW d \in Docs, Reserve(d) PROVE P(e)'
  BY <1>1, <1>4
     DEF Reserve, NothingBeforeRequest, NothingBeforeEnqueue,
         NoJobWithoutDocument, requestVars, storeVars, DocumentRow, QueueJob,
         Attempt, Removal, HasRow
<1>5. ASSUME NEW d \in Docs, SecretExpires(d) PROVE P(e)'
  BY <1>1, <1>5
     DEF SecretExpires, NothingBeforeRequest, NothingBeforeEnqueue,
         NoJobWithoutDocument, requestVars, storeVars, DocumentRow, QueueJob,
         Attempt, Removal, HasRow
<1>6. ASSUME NEW d \in Docs, TakeSecret(d) PROVE P(e)'
  BY <1>1, <1>6, ZenonT(60)
     DEF TakeSecret, SecretIsGone, AfterTake, Goto, NothingBeforeRequest,
         NothingBeforeEnqueue, NoJobWithoutDocument, requestVars, storeVars,
         DocumentRow, QueueJob, Attempt, Removal, HasRow
<1>7. ASSUME NEW d \in Docs, StartRender(d) PROVE P(e)'
  <2>1. handler'[e] = "idle" => e # d /\ handler[e] = "idle"
    BY <1>1, <1>7 DEF StartRender, requestVars, NothingBeforeEnqueue
  <2>2. e # d => documents'[e] = documents[e]
    BY <1>1, <1>7 DEF StartRender
  <2> QED
    BY <1>1, <1>7, <2>1, <2>2 DEF StartRender, NothingBeforeRequest
<1>8. ASSUME NEW d \in Docs, Commit(d) PROVE P(e)'
  <2>1. handler'[e] = "idle" => e # d /\ handler[e] = "idle"
    BY <1>1, <1>8 DEF Commit, Committed, requestVars, NothingBeforeEnqueue
  <2>2. e # d => documents'[e] = documents[e]
    BY <1>1, <1>8 DEF Commit, Committed
  <2> QED
    BY <1>1, <1>8, <2>1, <2>2 DEF Commit, Committed, NothingBeforeRequest
<1>9. ASSUME NEW d \in Docs, RecordFailure(d) PROVE P(e)'
  <2>1. handler'[e] = "idle" => e # d /\ handler[e] = "idle"
    BY <1>1, <1>9 DEF RecordFailure, requestVars, NothingBeforeEnqueue
  <2>2. e # d => documents'[e] = documents[e]
    BY <1>1, <1>9 DEF RecordFailure
  <2> QED
    BY <1>1, <1>9, <2>1, <2>2 DEF RecordFailure, NothingBeforeRequest
<1>10. ASSUME NEW d \in Docs, DeliverCompleted(d) PROVE P(e)'
  BY <1>1, <1>10
     DEF DeliverCompleted, Deliver, Goto, NothingBeforeRequest,
         NothingBeforeEnqueue, NoJobWithoutDocument, requestVars, storeVars,
         DocumentRow, QueueJob, Attempt, Removal, HasRow
<1>11. ASSUME NEW r \in Removers, NEW d \in Docs, RemoveRead(r, d) PROVE P(e)'
  BY <1>1, <1>11
     DEF RemoveRead, Reread, NothingBeforeRequest, NothingBeforeEnqueue,
         NoJobWithoutDocument, requestVars, storeVars, DocumentRow, QueueJob,
         Attempt, Removal, HasRow
<1>12. ASSUME NEW r \in Removers, NEW d \in Docs, RemoveObject(r, d) PROVE P(e)'
  BY <1>1, <1>12
     DEF RemoveObject, NothingBeforeRequest, NothingBeforeEnqueue,
         NoJobWithoutDocument, requestVars, storeVars, DocumentRow, QueueJob,
         Attempt, Removal, HasRow
<1>13. ASSUME NEW r \in Removers, NEW d \in Docs, RemoveRow(r, d) PROVE P(e)'
  BY <1>1, <1>13
     DEF RemoveRow, NothingBeforeRequest, NothingBeforeEnqueue,
         NoJobWithoutDocument, requestVars, storeVars, DocumentRow, QueueJob,
         Attempt, Removal, HasRow
<1>14. ASSUME NEW r \in Removers, NEW d \in Docs, RemoveRetry(r, d) PROVE P(e)'
  BY <1>1, <1>14
     DEF RemoveRetry, Reread, NothingBeforeRequest, NothingBeforeEnqueue,
         NoJobWithoutDocument, requestVars, storeVars, DocumentRow, QueueJob,
         Attempt, Removal, HasRow
<1>15. UNCHANGED <<handler, documents, vault, announced, removal>> => P(e)'
  BY <1>1 DEF NothingBeforeRequest, HasRow
<1>16. ASSUME NEW d \in Docs, Pickup(d) \/ MarkActive(d) \/ RenderAndStore(d)
       \/ JobCompleted(d) \/ HandleFailure(d) \/ JobReturns(d) \/ JobThrows(d)
       \/ WorkerCrash(d) \/ StalledCheck(d) PROVE UNCHANGED <<handler, documents,
       vault, announced, removal>>
  BY <1>16 DEF Pickup, MarkActive, RenderAndStore, JobCompleted, HandleFailure,
       JobReturns, JobThrows, WorkerCrash, StalledCheck, requestVars, storeVars
<1>17. CASE UNCHANGED vars
  BY <1>15, <1>17 DEF vars
<1> QED
  BY <1>2, <1>3, <1>4, <1>5, <1>6, <1>7, <1>8, <1>9, <1>10, <1>11, <1>12, <1>13,
       <1>14, <1>15, <1>16, <1>17
     DEF Next, HandlerStep, AttemptStep, RemovalStep

\* Before the enqueue there is no attempt, and nothing an attempt makes.
LEMMA NothingBeforeEnqueueStep == IInv /\ [Next]_vars => NothingBeforeEnqueue'
<1> DEFINE P(e) == handler[e] \in {"idle", "store", "enqueue"} =>
                       /\ queue[e].state = "none" /\ objects[e] = "none"
                       /\ attempt[e].pc = "idle" /\ ~attempt[e].protection
<1> SUFFICES ASSUME IInv, [Next]_vars, NEW e \in Docs PROVE P(e)'
  BY DEF NothingBeforeEnqueue, Idle
<1>1. /\ handler \in [Docs -> HandlerPCs]
      /\ queue \in [Docs -> QueueJob]
      /\ attempt \in [Docs -> Attempt]
      /\ objects \in [Docs -> Objects]
      /\ NothingBeforeEnqueue
  BY DEF IInv, TypeOK
<1>2. ASSUME NEW d \in Docs, StoreSecret(d) \/ Enqueue(d) \/ Discard(d) \/ RecordJob(d)
       \/ HandlerCrash(d) PROVE P(e)'
  BY <1>1, <1>2
     DEF StoreSecret, Enqueue, Discard, RecordJob, RecordedJob, HandlerCrash, NothingBeforeEnqueue,
         requestVars, storeVars, QueueJob, Attempt, Idle
<1>3. ASSUME NEW d \in Docs, MarkActive(d) \/ StartRender(d)
       \/ RenderAndStore(d) \/ Commit(d) PROVE P(e)'
  BY <1>1, <1>3
     DEF MarkActive, JobUpdateMany, Goto, StartRender, BeginRender,
         RenderAndStore, PutFails, Rendered, Commit, Committed, NothingBeforeEnqueue,
         requestVars, storeVars, QueueJob, Attempt, Idle
<1>4. ASSUME NEW d \in Docs, RecordFailure(d) \/ JobCompleted(d)
       \/ DeliverCompleted(d) \/ HandleFailure(d) PROVE P(e)'
  BY <1>1, <1>4
     DEF RecordFailure, Goto, JobCompleted, JobUpdateMany, DeliverCompleted,
         Deliver, HandleFailure, NothingBeforeEnqueue, requestVars, storeVars,
         QueueJob, Attempt, Idle
<1>5. ASSUME NEW d \in Docs, Alert(d) \/ DeliverFailed(d)
       \/ JobReturns(d) PROVE P(e)'
  BY <1>1, <1>5
     DEF Alert, Goto, DeliverFailed, Deliver, JobReturns, Idle,
         NothingBeforeEnqueue, requestVars, storeVars, QueueJob, Attempt, Idle
<1>6. ASSUME NEW d \in Docs, JobThrows(d) \/ WorkerCrash(d) PROVE P(e)'
  BY <1>1, <1>6
     DEF JobThrows, Idle, RetriesLeft, WorkerCrash, NothingBeforeEnqueue,
         requestVars, storeVars, QueueJob, Attempt, Idle
<1>7. ASSUME NEW d \in Docs, Reserve(d) PROVE P(e)'
  BY <1>1, <1>7
     DEF Reserve, NothingBeforeEnqueue, requestVars, storeVars, QueueJob,
         Attempt, Idle
<1>8. ASSUME NEW d \in Docs, Pickup(d) PROVE P(e)'
  BY <1>1, <1>8
     DEF Pickup, NothingBeforeEnqueue, requestVars, storeVars, QueueJob, Attempt,
         Idle
<1>9. ASSUME NEW d \in Docs, TakeSecret(d) PROVE P(e)'
  BY <1>1, <1>9
     DEF TakeSecret, SecretIsGone, AfterTake, Goto, NothingBeforeEnqueue,
         requestVars, storeVars, QueueJob, Attempt, Idle
<1>10. ASSUME NEW d \in Docs, StalledCheck(d) PROVE P(e)'
  BY <1>1, <1>10
     DEF StalledCheck, NothingBeforeEnqueue, requestVars, storeVars, QueueJob,
         Attempt, Idle
<1>11. ASSUME NEW r \in Removers, NEW d \in Docs, RemoveObject(r, d) PROVE P(e)'
  BY <1>1, <1>11
     DEF RemoveObject, NothingBeforeEnqueue, requestVars, storeVars, QueueJob,
         Attempt, Idle
<1>12. UNCHANGED <<handler, queue, attempt, objects>> => P(e)'
  BY <1>1 DEF NothingBeforeEnqueue, Idle
<1>13. ASSUME NEW d \in Docs, SecretExpires(d) PROVE UNCHANGED <<handler, queue,
       attempt, objects>>
  BY <1>13 DEF SecretExpires, requestVars, storeVars
<1>14. ASSUME NEW r \in Removers, NEW d \in Docs, RemoveRead(r, d)
       \/ RemoveRow(r, d) \/ RemoveRetry(r, d) PROVE UNCHANGED <<handler, queue,
       attempt, objects>>
  BY <1>14 DEF RemoveRead, RemoveRow, RemoveRetry, requestVars, storeVars
<1>15. CASE UNCHANGED vars
  BY <1>12, <1>15 DEF vars
<1> QED
  BY <1>2, <1>3, <1>4, <1>5, <1>6, <1>7, <1>8, <1>9, <1>10, <1>11, <1>12, <1>13,
       <1>14, <1>15
     DEF Next, HandlerStep, AttemptStep, RemovalStep

\* An attempt runs only for an active job.
LEMMA AttemptsAreActiveStep == IInv /\ [Next]_vars => AttemptsAreActive'
<1> DEFINE P(e) == attempt[e].pc # "idle" => queue[e].state = "active"
<1> SUFFICES ASSUME IInv, [Next]_vars, NEW e \in Docs PROVE P(e)'
  BY DEF AttemptsAreActive
<1>1. /\ handler \in [Docs -> HandlerPCs]
      /\ queue \in [Docs -> QueueJob]
      /\ attempt \in [Docs -> Attempt]
      /\ AttemptsAreActive
      /\ NothingBeforeEnqueue
  BY DEF IInv, TypeOK
<1>2. ASSUME NEW d \in Docs, MarkActive(d) \/ StartRender(d)
       \/ RenderAndStore(d) \/ Commit(d) PROVE P(e)'
  BY <1>1, <1>2
     DEF MarkActive, JobUpdateMany, Goto, StartRender, BeginRender,
         RenderAndStore, PutFails, Rendered, Commit, Committed, AttemptsAreActive,
         NothingBeforeEnqueue, requestVars, storeVars, QueueJob, Attempt
<1>3. ASSUME NEW d \in Docs, RecordFailure(d) \/ JobCompleted(d)
       \/ DeliverCompleted(d) \/ HandleFailure(d) PROVE P(e)'
  BY <1>1, <1>3
     DEF RecordFailure, Goto, JobCompleted, JobUpdateMany, DeliverCompleted,
         Deliver, HandleFailure, AttemptsAreActive, NothingBeforeEnqueue,
         requestVars, storeVars, QueueJob, Attempt
<1>4. ASSUME NEW d \in Docs, Alert(d) \/ DeliverFailed(d)
       \/ JobReturns(d) PROVE P(e)'
  BY <1>1, <1>4
     DEF Alert, Goto, DeliverFailed, Deliver, JobReturns, Idle,
         AttemptsAreActive, NothingBeforeEnqueue, requestVars, storeVars,
         QueueJob, Attempt
<1>5. ASSUME NEW d \in Docs, JobThrows(d) \/ WorkerCrash(d) PROVE P(e)'
  BY <1>1, <1>5
     DEF JobThrows, Idle, RetriesLeft, WorkerCrash, AttemptsAreActive,
         NothingBeforeEnqueue, requestVars, storeVars, QueueJob, Attempt
<1>6. ASSUME NEW d \in Docs, Enqueue(d) \/ Discard(d) PROVE P(e)'
  BY <1>1, <1>6, ZenonT(60)
     DEF Enqueue, Discard, AttemptsAreActive, NothingBeforeEnqueue, requestVars,
         storeVars, QueueJob, Attempt
<1>7. ASSUME NEW d \in Docs, Pickup(d) PROVE P(e)'
  BY <1>1, <1>7
     DEF Pickup, AttemptsAreActive, NothingBeforeEnqueue, requestVars, storeVars,
         QueueJob, Attempt
<1>8. ASSUME NEW d \in Docs, TakeSecret(d) PROVE P(e)'
  BY <1>1, <1>8
     DEF TakeSecret, SecretIsGone, AfterTake, Goto, AttemptsAreActive,
         NothingBeforeEnqueue, requestVars, storeVars, QueueJob, Attempt
<1>9. ASSUME NEW d \in Docs, StalledCheck(d) PROVE P(e)'
  BY <1>1, <1>9
     DEF StalledCheck, AttemptsAreActive, NothingBeforeEnqueue, requestVars,
         storeVars, QueueJob, Attempt
<1>10. UNCHANGED <<queue, attempt>> => P(e)'
  BY <1>1 DEF AttemptsAreActive
<1>11. ASSUME NEW d \in Docs, Reserve(d) \/ StoreSecret(d) \/ RecordJob(d)
       \/ HandlerCrash(d) \/ SecretExpires(d) PROVE UNCHANGED <<queue, attempt>>
  BY <1>11 DEF Reserve, StoreSecret, RecordJob, RecordedJob, HandlerCrash, SecretExpires,
       requestVars, storeVars
<1>12. ASSUME NEW r \in Removers, NEW d \in Docs, RemoveRead(r, d)
       \/ RemoveObject(r, d) \/ RemoveRow(r, d) \/ RemoveRetry(r,
       d) PROVE UNCHANGED <<queue, attempt>>
  BY <1>12 DEF RemoveRead, RemoveObject, RemoveRow, RemoveRetry, requestVars,
       storeVars
<1>13. CASE UNCHANGED vars
  BY <1>10, <1>13 DEF vars
<1> QED
  BY <1>2, <1>3, <1>4, <1>5, <1>6, <1>7, <1>8, <1>9, <1>10, <1>11, <1>12, <1>13
     DEF Next, HandlerStep, AttemptStep, RemovalStep

\* A job that is not finished has attempts left.
LEMMA LiveJobsHaveAttemptsStep == IInv /\ [Next]_vars => LiveJobsHaveAttempts'
<1> DEFINE P(e) == ~Finished(e) => queue[e].attemptsMade < Attempts
<1> SUFFICES ASSUME IInv, [Next]_vars, NEW e \in Docs PROVE P(e)'
  BY DEF LiveJobsHaveAttempts, Finished
<1>1. /\ handler \in [Docs -> HandlerPCs]
      /\ queue \in [Docs -> QueueJob]
      /\ attempt \in [Docs -> Attempt]
      /\ LiveJobsHaveAttempts
      /\ AttemptsAreActive
      /\ NothingBeforeEnqueue
  BY DEF IInv, TypeOK
<1>2. ASSUME NEW d \in Docs, Enqueue(d) \/ Discard(d) PROVE P(e)'
  BY <1>1, <1>2, ZenonT(60)
     DEF Enqueue, Discard, LiveJobsHaveAttempts, AttemptsAreActive, NothingBeforeEnqueue,
         requestVars, storeVars, QueueJob, Attempt, Finished
<1>3. ASSUME NEW d \in Docs, Pickup(d) PROVE P(e)'
  BY <1>1, <1>3
     DEF Pickup, LiveJobsHaveAttempts, AttemptsAreActive, NothingBeforeEnqueue,
         requestVars, storeVars, QueueJob, Attempt, Finished
<1>4. ASSUME NEW d \in Docs, JobReturns(d) PROVE P(e)'
  BY <1>1, <1>4
     DEF JobReturns, Idle, LiveJobsHaveAttempts, AttemptsAreActive,
         NothingBeforeEnqueue, requestVars, storeVars, QueueJob, Attempt,
         Finished
<1>5. ASSUME NEW d \in Docs, JobThrows(d) PROVE P(e)'
  <2>1. queue'[d].state # "failed" => queue[d].attemptsMade + 1 < Attempts
    BY <1>1, <1>5 DEF JobThrows, RetriesLeft, QueueJob
  <2>2. queue'[d].attemptsMade = queue[d].attemptsMade + 1
    BY <1>1, <1>5 DEF JobThrows, QueueJob
  <2>3. e # d => queue'[e] = queue[e]
    BY <1>1, <1>5 DEF JobThrows
  <2> QED
    BY <1>1, <2>1, <2>2, <2>3 DEF LiveJobsHaveAttempts, Finished
<1>6. ASSUME NEW d \in Docs, StalledCheck(d) PROVE P(e)'
  BY <1>1, <1>6
     DEF StalledCheck, LiveJobsHaveAttempts, AttemptsAreActive,
         NothingBeforeEnqueue, requestVars, storeVars, QueueJob, Attempt,
         Finished
<1>7. UNCHANGED <<queue>> => P(e)'
  BY <1>1 DEF LiveJobsHaveAttempts, Finished
<1>8. ASSUME NEW d \in Docs, Reserve(d) \/ StoreSecret(d) \/ RecordJob(d)
       \/ HandlerCrash(d) \/ SecretExpires(d) \/ TakeSecret(d)
       \/ MarkActive(d) \/ StartRender(d) \/ RenderAndStore(d) \/ Commit(d)
       \/ RecordFailure(d) \/ JobCompleted(d) \/ DeliverCompleted(d)
       \/ HandleFailure(d) \/ Alert(d) \/ DeliverFailed(d)
       \/ WorkerCrash(d) PROVE UNCHANGED <<queue>>
  BY <1>8 DEF Reserve, StoreSecret, RecordJob, RecordedJob, HandlerCrash, SecretExpires,
       TakeSecret, MarkActive, StartRender, RenderAndStore, Commit, Committed,
       RecordFailure, JobCompleted, DeliverCompleted, Deliver, HandleFailure,
       Alert, DeliverFailed, WorkerCrash, requestVars, storeVars
<1>9. ASSUME NEW r \in Removers, NEW d \in Docs, RemoveRead(r, d)
       \/ RemoveObject(r, d) \/ RemoveRow(r, d) \/ RemoveRetry(r,
       d) PROVE UNCHANGED <<queue>>
  BY <1>9 DEF RemoveRead, RemoveObject, RemoveRow, RemoveRetry, requestVars,
       storeVars
<1>10. CASE UNCHANGED vars
  BY <1>7, <1>10 DEF vars
<1> QED
  BY <1>2, <1>3, <1>4, <1>5, <1>6, <1>7, <1>8, <1>9, <1>10
     DEF Next, HandlerStep, AttemptStep, RemovalStep

\* The vault holds only passwords that were asked for.
LEMMA VaultWasAskedStep == IInv /\ [Next]_vars => VaultWasAsked'
<1> DEFINE P(e) == vault[e] => request[e].protected /\ handler[e] # "store"
<1> SUFFICES ASSUME IInv, [Next]_vars, NEW e \in Docs PROVE P(e)'
  BY DEF VaultWasAsked
<1>1. /\ request \in [Docs -> Request]
      /\ handler \in [Docs -> HandlerPCs]
      /\ vault \in [Docs -> BOOLEAN]
      /\ VaultWasAsked
      /\ NothingBeforeRequest
  BY DEF IInv, TypeOK
<1>2. ASSUME NEW d \in Docs,
             StoreSecret(d) \/ Enqueue(d) \/ Discard(d) \/ RecordJob(d) \/ HandlerCrash(d)
      PROVE  P(e)'
  BY <1>1, <1>2
     DEF StoreSecret, Enqueue, Discard, RecordJob, RecordedJob, HandlerCrash, VaultWasAsked, NothingBeforeRequest, requestVars,
         storeVars, Request
<1>3. ASSUME NEW d \in Docs, Reserve(d) PROVE P(e)'
  BY <1>1, <1>3
     DEF Reserve, VaultWasAsked, NothingBeforeRequest, requestVars, storeVars,
         Request
<1>4. ASSUME NEW d \in Docs, SecretExpires(d) PROVE P(e)'
  BY <1>1, <1>4
     DEF SecretExpires, VaultWasAsked, NothingBeforeRequest, requestVars,
         storeVars, Request
<1>5. ASSUME NEW d \in Docs, TakeSecret(d) PROVE P(e)'
  BY <1>1, <1>5
     DEF TakeSecret, SecretIsGone, AfterTake, Goto, VaultWasAsked,
         NothingBeforeRequest, requestVars, storeVars, Request
<1>6. UNCHANGED <<requestVars, vault>> => P(e)'
  BY <1>1 DEF requestVars, VaultWasAsked
<1>7. ASSUME NEW d \in Docs, Pickup(d) \/ MarkActive(d) \/ StartRender(d) \/ RenderAndStore(d) \/ Commit(d)
       \/ RecordFailure(d) \/ JobCompleted(d) \/ DeliverCompleted(d)
       \/ HandleFailure(d) \/ Alert(d) \/ DeliverFailed(d) \/ JobReturns(d)
       \/ JobThrows(d) \/ WorkerCrash(d)
       \/ StalledCheck(d) PROVE UNCHANGED <<requestVars, vault>>
  BY <1>7 DEF Pickup, MarkActive, StartRender,
       RenderAndStore, Commit, Committed, RecordFailure, JobCompleted, DeliverCompleted,
       Deliver, HandleFailure, Alert, DeliverFailed, JobReturns, JobThrows,
       WorkerCrash, StalledCheck, requestVars, storeVars
<1>8. ASSUME NEW r \in Removers, NEW d \in Docs, RemoveRead(r, d)
       \/ RemoveObject(r, d) \/ RemoveRow(r, d) \/ RemoveRetry(r,
       d) PROVE UNCHANGED <<requestVars, vault>>
  BY <1>8 DEF RemoveRead, RemoveObject, RemoveRow, RemoveRetry, requestVars,
       storeVars
<1>9. CASE UNCHANGED vars
  BY <1>6, <1>9 DEF vars, requestVars
<1> QED
  BY <1>2, <1>3, <1>4, <1>5, <1>6, <1>7, <1>8, <1>9
     DEF Next, HandlerStep, AttemptStep, RemovalStep

\* An attempt past take holds the password exactly when it was asked for:
\* the throw of SecretIsGone keeps the others from getting there.
LEMMA AttemptHasPasswordStep == IInv /\ [Next]_vars => AttemptHasPassword'
<1> DEFINE P(e) == attempt[e].pc \in {"mark", "start", "render"} =>
                       (attempt[e].protection <=> request[e].protected)
<1> SUFFICES ASSUME IInv, [Next]_vars, NEW e \in Docs PROVE P(e)'
  BY DEF AttemptHasPassword
<1>1. /\ request \in [Docs -> Request]
      /\ handler \in [Docs -> HandlerPCs]
      /\ vault \in [Docs -> BOOLEAN]
      /\ attempt \in [Docs -> Attempt]
      /\ AttemptHasPassword
      /\ VaultWasAsked
      /\ NothingBeforeEnqueue
  BY DEF IInv, TypeOK
<1>2. ASSUME NEW d \in Docs, JobThrows(d) \/ WorkerCrash(d) PROVE P(e)'
  BY <1>1, <1>2
     DEF JobThrows, Idle, RetriesLeft, WorkerCrash, AttemptHasPassword,
         VaultWasAsked, NothingBeforeEnqueue, requestVars, storeVars, Request,
         Attempt
<1>3. ASSUME NEW d \in Docs, Reserve(d) PROVE P(e)'
  BY <1>1, <1>3
     DEF Reserve, AttemptHasPassword, VaultWasAsked, NothingBeforeEnqueue,
         requestVars, storeVars, Request, Attempt
<1>4. ASSUME NEW d \in Docs, Pickup(d) PROVE P(e)'
  BY <1>1, <1>4
     DEF Pickup, AttemptHasPassword, VaultWasAsked, NothingBeforeEnqueue,
         requestVars, storeVars, Request, Attempt
<1>5. ASSUME NEW d \in Docs, TakeSecret(d) PROVE P(e)'
  <2>1. CASE e = d
    BY <1>1, <1>5, <2>1
       DEF TakeSecret, SecretIsGone, AfterTake, Goto, AttemptHasPassword,
           VaultWasAsked, NothingBeforeEnqueue, requestVars, storeVars, Request,
           Attempt
  <2>2. CASE e # d
    BY <1>1, <1>5, <2>2
       DEF TakeSecret, SecretIsGone, AfterTake, Goto, AttemptHasPassword,
           VaultWasAsked, NothingBeforeEnqueue, requestVars, storeVars, Request,
           Attempt
  <2> QED
    BY <2>1, <2>2
<1>6. ASSUME NEW d \in Docs, MarkActive(d) PROVE P(e)'
  <2>1. CASE e = d
    BY <1>1, <1>6, <2>1
       DEF MarkActive, JobUpdateMany, Goto, AttemptHasPassword, VaultWasAsked,
           NothingBeforeEnqueue, requestVars, storeVars, Request, Attempt
  <2>2. CASE e # d
    BY <1>1, <1>6, <2>2
       DEF MarkActive, JobUpdateMany, Goto, AttemptHasPassword, VaultWasAsked,
           NothingBeforeEnqueue, requestVars, storeVars, Request, Attempt
  <2> QED
    BY <2>1, <2>2
<1>7. ASSUME NEW d \in Docs, StartRender(d) PROVE P(e)'
  BY <1>1, <1>7, SMTT(30)
     DEF StartRender, BeginRender, Goto, AttemptHasPassword, VaultWasAsked,
         NothingBeforeEnqueue, requestVars, storeVars, Request, Attempt
<1>8. ASSUME NEW d \in Docs, RenderAndStore(d) PROVE P(e)'
  BY <1>1, <1>8
     DEF RenderAndStore, PutFails, Rendered, Goto, AttemptHasPassword,
         VaultWasAsked, NothingBeforeEnqueue, requestVars, storeVars, Request,
         Attempt
<1>9. ASSUME NEW d \in Docs, Commit(d) PROVE P(e)'
  <2>1. \E pc \in {"done", "fail"} : attempt' = [attempt EXCEPT ![d].pc = pc]
    BY <1>9 DEF Commit, Goto
  <2>2. request' = request
    BY <1>9 DEF Commit, requestVars
  <2> QED
    BY <1>1, <2>1, <2>2 DEF AttemptHasPassword, Request, Attempt
<1>10. ASSUME NEW d \in Docs, RecordFailure(d) PROVE P(e)'
  BY <1>1, <1>10
     DEF RecordFailure, Goto, AttemptHasPassword, VaultWasAsked,
         NothingBeforeEnqueue, requestVars, storeVars, Request, Attempt
<1>11. ASSUME NEW d \in Docs, JobCompleted(d) PROVE P(e)'
  BY <1>1, <1>11, SMTT(30)
     DEF JobCompleted, JobUpdateMany, Goto, AttemptHasPassword, VaultWasAsked,
         NothingBeforeEnqueue, requestVars, storeVars, Request, Attempt
<1>12. ASSUME NEW d \in Docs, DeliverCompleted(d) PROVE P(e)'
  BY <1>1, <1>12
     DEF DeliverCompleted, Deliver, Goto, AttemptHasPassword, VaultWasAsked,
         NothingBeforeEnqueue, requestVars, storeVars, Request, Attempt
<1>13. ASSUME NEW d \in Docs, HandleFailure(d) PROVE P(e)'
  <2>1. CASE e = d
    BY <1>1, <1>13, <2>1
       DEF HandleFailure, JobUpdateMany, Goto, AttemptHasPassword, VaultWasAsked,
           NothingBeforeEnqueue, requestVars, storeVars, Request, Attempt
  <2>2. CASE e # d
    BY <1>1, <1>13, <2>2
       DEF HandleFailure, JobUpdateMany, Goto, AttemptHasPassword, VaultWasAsked,
           NothingBeforeEnqueue, requestVars, storeVars, Request, Attempt
  <2> QED
    BY <2>1, <2>2
<1>14. ASSUME NEW d \in Docs, Alert(d) PROVE P(e)'
  <2>1. CASE e = d
    BY <1>1, <1>14, <2>1
       DEF Alert, Goto, AttemptHasPassword, VaultWasAsked, NothingBeforeEnqueue,
           requestVars, storeVars, Request, Attempt
  <2>2. CASE e # d
    BY <1>1, <1>14, <2>2
       DEF Alert, Goto, AttemptHasPassword, VaultWasAsked, NothingBeforeEnqueue,
           requestVars, storeVars, Request, Attempt
  <2> QED
    BY <2>1, <2>2
<1>15. ASSUME NEW d \in Docs, DeliverFailed(d) PROVE P(e)'
  BY <1>1, <1>15
     DEF DeliverFailed, Deliver, Goto, AttemptHasPassword, VaultWasAsked,
         NothingBeforeEnqueue, requestVars, storeVars, Request, Attempt
<1>16. ASSUME NEW d \in Docs, JobReturns(d) PROVE P(e)'
  BY <1>1, <1>16
     DEF JobReturns, Idle, AttemptHasPassword, VaultWasAsked,
         NothingBeforeEnqueue, requestVars, storeVars, Request, Attempt
<1>17. UNCHANGED <<request, attempt>> => P(e)'
  BY <1>1 DEF AttemptHasPassword
<1>18. ASSUME NEW d \in Docs, StoreSecret(d) \/ Enqueue(d) \/ Discard(d) \/ RecordJob(d)
       \/ HandlerCrash(d) \/ SecretExpires(d)
       \/ StalledCheck(d) PROVE UNCHANGED <<request, attempt>>
  BY <1>18 DEF StoreSecret, Enqueue, Discard, RecordJob, RecordedJob, HandlerCrash, SecretExpires,
       StalledCheck, requestVars, storeVars
<1>19. ASSUME NEW r \in Removers, NEW d \in Docs, RemoveRead(r, d)
       \/ RemoveObject(r, d) \/ RemoveRow(r, d) \/ RemoveRetry(r,
       d) PROVE UNCHANGED <<request, attempt>>
  BY <1>19 DEF RemoveRead, RemoveObject, RemoveRow, RemoveRetry, requestVars,
       storeVars
<1>20. CASE UNCHANGED vars
  BY <1>17, <1>20 DEF vars
<1> QED
  BY <1>2, <1>3, <1>4, <1>5, <1>6, <1>7, <1>8, <1>9, <1>10, <1>11, <1>12, <1>13,
       <1>14, <1>15, <1>16, <1>17, <1>18, <1>19, <1>20
     DEF Next, HandlerStep, AttemptStep, RemovalStep

\* GETDEL leaves nothing for a second reader, and only an attempt that holds
\* the password encrypts.
LEMMA SecretInOnePlaceStep == IInv /\ [Next]_vars => SecretInOnePlace'
<1> DEFINE P(e) == vault[e] => ~attempt[e].protection /\ objects[e] # "encrypted"
<1> SUFFICES ASSUME IInv, [Next]_vars, NEW e \in Docs PROVE P(e)'
  BY DEF SecretInOnePlace
<1>1. /\ handler \in [Docs -> HandlerPCs]
      /\ vault \in [Docs -> BOOLEAN]
      /\ attempt \in [Docs -> Attempt]
      /\ objects \in [Docs -> Objects]
      /\ SecretInOnePlace
      /\ NothingBeforeEnqueue
  BY DEF IInv, TypeOK
<1>2. ASSUME NEW d \in Docs, StoreSecret(d) \/ Enqueue(d) \/ Discard(d) PROVE P(e)'
  BY <1>1, <1>2
     DEF StoreSecret, Enqueue, Discard, SecretInOnePlace, NothingBeforeEnqueue,
         requestVars, storeVars, Attempt
<1>3. ASSUME NEW d \in Docs, SecretExpires(d) \/ Pickup(d) PROVE P(e)'
  BY <1>1, <1>3
     DEF SecretExpires, Pickup, SecretInOnePlace, NothingBeforeEnqueue,
         requestVars, storeVars, Attempt
<1>4. ASSUME NEW d \in Docs, MarkActive(d) \/ StartRender(d)
       \/ RenderAndStore(d) \/ Commit(d) PROVE P(e)'
  BY <1>1, <1>4
     DEF MarkActive, JobUpdateMany, Goto, StartRender, BeginRender,
         RenderAndStore, PutFails, Rendered, Commit, Committed, SecretInOnePlace,
         NothingBeforeEnqueue, requestVars, storeVars, Attempt
<1>5. ASSUME NEW d \in Docs, RecordFailure(d) \/ JobCompleted(d)
       \/ DeliverCompleted(d) \/ HandleFailure(d) PROVE P(e)'
  BY <1>1, <1>5, SMTT(30)
     DEF RecordFailure, Goto, JobCompleted, JobUpdateMany, DeliverCompleted,
         Deliver, HandleFailure, SecretInOnePlace, NothingBeforeEnqueue,
         requestVars, storeVars, Attempt
<1>6. ASSUME NEW d \in Docs, Alert(d) \/ DeliverFailed(d)
       \/ JobReturns(d) PROVE P(e)'
  BY <1>1, <1>6
     DEF Alert, Goto, DeliverFailed, Deliver, JobReturns, Idle, SecretInOnePlace,
         NothingBeforeEnqueue, requestVars, storeVars, Attempt
<1>7. ASSUME NEW d \in Docs, JobThrows(d) \/ WorkerCrash(d) PROVE P(e)'
  BY <1>1, <1>7
     DEF JobThrows, Idle, RetriesLeft, WorkerCrash, SecretInOnePlace,
         NothingBeforeEnqueue, requestVars, storeVars, Attempt
<1>8. ASSUME NEW d \in Docs, TakeSecret(d) PROVE P(e)'
  BY <1>1, <1>8
     DEF TakeSecret, SecretIsGone, AfterTake, Goto, SecretInOnePlace,
         NothingBeforeEnqueue, requestVars, storeVars, Attempt
<1>9. ASSUME NEW r \in Removers, NEW d \in Docs, RemoveObject(r, d) PROVE P(e)'
  BY <1>1, <1>9
     DEF RemoveObject, SecretInOnePlace, NothingBeforeEnqueue, requestVars,
         storeVars, Attempt
<1>10. UNCHANGED <<vault, attempt, objects>> => P(e)'
  BY <1>1 DEF SecretInOnePlace
<1>11. ASSUME NEW d \in Docs, Reserve(d) \/ RecordJob(d) \/ HandlerCrash(d)
       \/ StalledCheck(d) PROVE UNCHANGED <<vault, attempt, objects>>
  BY <1>11 DEF Reserve, RecordJob, RecordedJob, HandlerCrash, StalledCheck, requestVars,
       storeVars
<1>12. ASSUME NEW r \in Removers, NEW d \in Docs, RemoveRead(r, d)
       \/ RemoveRow(r, d) \/ RemoveRetry(r, d) PROVE UNCHANGED <<vault, attempt,
       objects>>
  BY <1>12 DEF RemoveRead, RemoveRow, RemoveRetry, requestVars, storeVars
<1>13. CASE UNCHANGED vars
  BY <1>10, <1>13 DEF vars
<1> QED
  BY <1>2, <1>3, <1>4, <1>5, <1>6, <1>7, <1>8, <1>9, <1>10, <1>11, <1>12, <1>13
     DEF Next, HandlerStep, AttemptStep, RemovalStep

\* What is stored follows the password the attempt holds.
LEMMA NeverUnprotectedStep == IInv /\ [Next]_vars => NeverUnprotected'
<1> DEFINE P(e) == objects[e] # "none" => (objects[e] = "encrypted" <=> request[e].protected)
<1> SUFFICES ASSUME IInv, [Next]_vars, NEW e \in Docs PROVE P(e)'
  BY DEF NeverUnprotected
<1>1. /\ request \in [Docs -> Request]
      /\ handler \in [Docs -> HandlerPCs]
      /\ attempt \in [Docs -> Attempt]
      /\ objects \in [Docs -> Objects]
      /\ NeverUnprotected
      /\ AttemptHasPassword
      /\ NothingBeforeEnqueue
  BY DEF IInv, TypeOK
<1>2. ASSUME NEW d \in Docs, Reserve(d) PROVE P(e)'
  BY <1>1, <1>2
     DEF Reserve, NeverUnprotected, AttemptHasPassword, NothingBeforeEnqueue,
         requestVars, storeVars, Request, Attempt
<1>3. ASSUME NEW d \in Docs, RenderAndStore(d) PROVE P(e)'
  BY <1>1, <1>3
     DEF RenderAndStore, PutFails, Rendered, Goto, NeverUnprotected,
         AttemptHasPassword, NothingBeforeEnqueue, requestVars, storeVars,
         Request, Attempt
<1>4. ASSUME NEW r \in Removers, NEW d \in Docs, RemoveObject(r, d) PROVE P(e)'
  BY <1>1, <1>4
     DEF RemoveObject, NeverUnprotected, AttemptHasPassword,
         NothingBeforeEnqueue, requestVars, storeVars, Request, Attempt
<1>5. UNCHANGED <<request, objects>> => P(e)'
  BY <1>1 DEF NeverUnprotected
<1>6. ASSUME NEW d \in Docs, StoreSecret(d) \/ Enqueue(d) \/ Discard(d) \/ RecordJob(d)
       \/ HandlerCrash(d) \/ SecretExpires(d) \/ Pickup(d) \/ TakeSecret(d)
       \/ MarkActive(d) \/ StartRender(d) \/ Commit(d) \/ RecordFailure(d)
       \/ JobCompleted(d) \/ DeliverCompleted(d) \/ HandleFailure(d)
       \/ Alert(d) \/ DeliverFailed(d) \/ JobReturns(d) \/ JobThrows(d)
       \/ WorkerCrash(d) \/ StalledCheck(d) PROVE UNCHANGED <<request, objects>>
  BY <1>6 DEF StoreSecret, Enqueue, Discard, RecordJob, RecordedJob, HandlerCrash, SecretExpires,
       Pickup, TakeSecret, MarkActive, StartRender, Commit, Committed, RecordFailure,
       JobCompleted, DeliverCompleted, Deliver, HandleFailure, Alert,
       DeliverFailed, JobReturns, JobThrows, WorkerCrash, StalledCheck,
       requestVars, storeVars
<1>7. ASSUME NEW r \in Removers, NEW d \in Docs, RemoveRead(r, d) \/ RemoveRow(r,
       d) \/ RemoveRetry(r, d) PROVE UNCHANGED <<request, objects>>
  BY <1>7 DEF RemoveRead, RemoveRow, RemoveRetry, requestVars, storeVars
<1>8. CASE UNCHANGED vars
  BY <1>5, <1>8 DEF vars
<1> QED
  BY <1>2, <1>3, <1>4, <1>5, <1>6, <1>7, <1>8
     DEF Next, HandlerStep, AttemptStep, RemovalStep

\* Only Commit leads to done and hook, and no step but a removal clears the key.
LEMMA CommittedNamesFileStep == IInv /\ [Next]_vars => CommittedNamesFile'
<1> DEFINE P(e) == attempt[e].pc \in {"done", "hook"} =>
                       documents[e].storageKey \/ documents[e].status = "removed"
<1> SUFFICES ASSUME IInv, [Next]_vars, NEW e \in Docs PROVE P(e)'
  BY DEF CommittedNamesFile, HasRow
<1>1. /\ handler \in [Docs -> HandlerPCs]
      /\ documents \in [Docs -> DocumentRow]
      /\ attempt \in [Docs -> Attempt]
      /\ CommittedNamesFile
      /\ NothingBeforeEnqueue
  BY DEF IInv, TypeOK
<1>2. ASSUME NEW d \in Docs, RecordFailure(d) \/ JobCompleted(d)
       \/ DeliverCompleted(d) \/ HandleFailure(d) PROVE P(e)'
  BY <1>1, <1>2, SMTT(30)
     DEF RecordFailure, Goto, JobCompleted, JobUpdateMany, DeliverCompleted,
         Deliver, HandleFailure, CommittedNamesFile, NothingBeforeEnqueue,
         requestVars, storeVars, DocumentRow, Attempt, HasRow
<1>3. ASSUME NEW d \in Docs, Alert(d) \/ DeliverFailed(d)
       \/ JobReturns(d) PROVE P(e)'
  BY <1>1, <1>3
     DEF Alert, Goto, DeliverFailed, Deliver, JobReturns, Idle,
         CommittedNamesFile, NothingBeforeEnqueue, requestVars, storeVars,
         DocumentRow, Attempt, HasRow
<1>4. ASSUME NEW d \in Docs, JobThrows(d) \/ WorkerCrash(d) PROVE P(e)'
  BY <1>1, <1>4
     DEF JobThrows, Idle, RetriesLeft, WorkerCrash, CommittedNamesFile,
         NothingBeforeEnqueue, requestVars, storeVars, DocumentRow, Attempt,
         HasRow
<1>5. ASSUME NEW d \in Docs, Reserve(d) PROVE P(e)'
  BY <1>1, <1>5
     DEF Reserve, CommittedNamesFile, NothingBeforeEnqueue, requestVars,
         storeVars, DocumentRow, Attempt, HasRow
<1>6. ASSUME NEW d \in Docs, Pickup(d) PROVE P(e)'
  BY <1>1, <1>6
     DEF Pickup, CommittedNamesFile, NothingBeforeEnqueue, requestVars,
         storeVars, DocumentRow, Attempt, HasRow
<1>7. ASSUME NEW d \in Docs, TakeSecret(d) PROVE P(e)'
  BY <1>1, <1>7
     DEF TakeSecret, SecretIsGone, AfterTake, Goto, CommittedNamesFile,
         NothingBeforeEnqueue, requestVars, storeVars, DocumentRow, Attempt,
         HasRow
<1>8. ASSUME NEW d \in Docs, MarkActive(d) PROVE P(e)'
  BY <1>1, <1>8
     DEF MarkActive, JobUpdateMany, Goto, CommittedNamesFile,
         NothingBeforeEnqueue, requestVars, storeVars, DocumentRow, Attempt,
         HasRow
<1>9. ASSUME NEW d \in Docs, StartRender(d) PROVE P(e)'
  BY <1>1, <1>9, ZenonT(60)
     DEF StartRender, BeginRender, Goto, CommittedNamesFile,
         NothingBeforeEnqueue, requestVars, storeVars, DocumentRow, Attempt,
         HasRow
<1>10. ASSUME NEW d \in Docs, RenderAndStore(d) PROVE P(e)'
  <2>1. CASE e = d
    BY <1>1, <1>10, <2>1
       DEF RenderAndStore, PutFails, Rendered, Goto, CommittedNamesFile,
           NothingBeforeEnqueue, requestVars, storeVars, DocumentRow, Attempt,
           HasRow
  <2>2. CASE e # d
    BY <1>1, <1>10, <2>2
       DEF RenderAndStore, PutFails, Rendered, Goto, CommittedNamesFile,
           NothingBeforeEnqueue, requestVars, storeVars, DocumentRow, Attempt,
           HasRow
  <2> QED
    BY <2>1, <2>2
<1>11. ASSUME NEW d \in Docs, Commit(d) PROVE P(e)'
  BY <1>1, <1>11, ZenonT(60)
     DEF Commit, Committed, Goto, CommittedNamesFile, NothingBeforeEnqueue, requestVars,
         storeVars, DocumentRow, Attempt, HasRow
<1>12. ASSUME NEW r \in Removers, NEW d \in Docs, RemoveRow(r, d) PROVE P(e)'
  BY <1>1, <1>12
     DEF RemoveRow, CommittedNamesFile, NothingBeforeEnqueue, requestVars,
         storeVars, DocumentRow, Attempt, HasRow
<1>13. UNCHANGED <<documents, attempt>> => P(e)'
  BY <1>1 DEF CommittedNamesFile, HasRow
<1>14. ASSUME NEW d \in Docs, StoreSecret(d) \/ Enqueue(d) \/ Discard(d) \/ RecordJob(d)
       \/ HandlerCrash(d) \/ SecretExpires(d)
       \/ StalledCheck(d) PROVE UNCHANGED <<documents, attempt>>
  BY <1>14 DEF StoreSecret, Enqueue, Discard, RecordJob, RecordedJob, HandlerCrash, SecretExpires,
       StalledCheck, requestVars, storeVars
<1>15. ASSUME NEW r \in Removers, NEW d \in Docs, RemoveRead(r, d)
       \/ RemoveObject(r, d) \/ RemoveRetry(r, d) PROVE UNCHANGED <<documents,
       attempt>>
  BY <1>15 DEF RemoveRead, RemoveObject, RemoveRetry, requestVars, storeVars
<1>16. CASE UNCHANGED vars
  BY <1>13, <1>16 DEF vars
<1> QED
  BY <1>2, <1>3, <1>4, <1>5, <1>6, <1>7, <1>8, <1>9, <1>10, <1>11, <1>12, <1>13,
       <1>14, <1>15, <1>16
     DEF Next, HandlerStep, AttemptStep, RemovalStep

\* The completed event leaves from hook, where the row names its file.
LEMMA CompletedEventMeansFileStep == IInv /\ [Next]_vars => CompletedEventMeansFile'
<1> DEFINE P(e) == "document.completed" \in announced[e] =>
                       documents[e].storageKey \/ documents[e].status = "removed"
<1> SUFFICES ASSUME IInv, [Next]_vars, NEW e \in Docs PROVE P(e)'
  BY DEF CompletedEventMeansFile, HasRow
<1>1. /\ handler \in [Docs -> HandlerPCs]
      /\ documents \in [Docs -> DocumentRow]
      /\ attempt \in [Docs -> Attempt]
      /\ announced \in [Docs -> SUBSET Notices]
      /\ CompletedEventMeansFile
      /\ NothingBeforeRequest
      /\ CommittedNamesFile
  BY DEF IInv, TypeOK
<1>2. ASSUME NEW d \in Docs, Reserve(d) PROVE P(e)'
  BY <1>1, <1>2
     DEF Reserve, CompletedEventMeansFile, NothingBeforeRequest,
         CommittedNamesFile, requestVars, storeVars, DocumentRow, Attempt,
         HasRow
<1>3. ASSUME NEW d \in Docs, StartRender(d) PROVE P(e)'
  <2>1. documents'[e].storageKey = documents[e].storageKey \/ documents'[e].storageKey
    BY <1>1, <1>3 DEF StartRender, BeginRender, DocumentRow
  <2>2. documents[e].status = "removed" => documents'[e].status = "removed"
    BY <1>1, <1>3 DEF StartRender, HasRow
  <2> QED
    BY <1>1, <1>3, <2>1, <2>2 DEF StartRender, CompletedEventMeansFile
<1>4. ASSUME NEW d \in Docs, Commit(d) PROVE P(e)'
  <2>1. documents'[e].storageKey = documents[e].storageKey \/ documents'[e].storageKey
    BY <1>1, <1>4 DEF Commit, Committed, DocumentRow
  <2>2. documents[e].status = "removed" => documents'[e].status = "removed"
    BY <1>1, <1>4 DEF Commit, Committed, HasRow
  <2> QED
    BY <1>1, <1>4, <2>1, <2>2 DEF Commit, Committed, CompletedEventMeansFile
<1>5. ASSUME NEW d \in Docs, RecordFailure(d) PROVE P(e)'
  <2>1. CASE e = d
    BY <1>1, <1>5, <2>1
       DEF RecordFailure, Goto, CompletedEventMeansFile, NothingBeforeRequest,
           CommittedNamesFile, requestVars, storeVars, DocumentRow, Attempt,
           HasRow
  <2>2. CASE e # d
    BY <1>1, <1>5, <2>2
       DEF RecordFailure, Goto, CompletedEventMeansFile, NothingBeforeRequest,
           CommittedNamesFile, requestVars, storeVars, DocumentRow, Attempt,
           HasRow
  <2> QED
    BY <2>1, <2>2
<1>6. ASSUME NEW d \in Docs, DeliverCompleted(d) PROVE P(e)'
  BY <1>1, <1>6
     DEF DeliverCompleted, Deliver, Goto, CompletedEventMeansFile,
         NothingBeforeRequest, CommittedNamesFile, requestVars, storeVars,
         DocumentRow, Attempt, HasRow
<1>7. ASSUME NEW d \in Docs, Alert(d) PROVE P(e)'
  <2>1. CASE e = d
    BY <1>1, <1>7, <2>1
       DEF Alert, Goto, CompletedEventMeansFile, NothingBeforeRequest,
           CommittedNamesFile, requestVars, storeVars, DocumentRow, Attempt,
           HasRow
  <2>2. CASE e # d
    BY <1>1, <1>7, <2>2
       DEF Alert, Goto, CompletedEventMeansFile, NothingBeforeRequest,
           CommittedNamesFile, requestVars, storeVars, DocumentRow, Attempt,
           HasRow
  <2> QED
    BY <2>1, <2>2
<1>8. ASSUME NEW d \in Docs, DeliverFailed(d) PROVE P(e)'
  BY <1>1, <1>8
     DEF DeliverFailed, Deliver, Goto, CompletedEventMeansFile,
         NothingBeforeRequest, CommittedNamesFile, requestVars, storeVars,
         DocumentRow, Attempt, HasRow
<1>9. ASSUME NEW r \in Removers, NEW d \in Docs, RemoveRow(r, d) PROVE P(e)'
  BY <1>1, <1>9
     DEF RemoveRow, CompletedEventMeansFile, NothingBeforeRequest,
         CommittedNamesFile, requestVars, storeVars, DocumentRow, Attempt,
         HasRow
<1>10. UNCHANGED <<documents, announced>> => P(e)'
  BY <1>1 DEF CompletedEventMeansFile, HasRow
<1>11. ASSUME NEW d \in Docs, StoreSecret(d) \/ Enqueue(d) \/ Discard(d) \/ RecordJob(d)
       \/ HandlerCrash(d) \/ SecretExpires(d) \/ Pickup(d) \/ TakeSecret(d)
       \/ MarkActive(d) \/ RenderAndStore(d) \/ JobCompleted(d)
       \/ HandleFailure(d) \/ JobReturns(d) \/ JobThrows(d) \/ WorkerCrash(d)
       \/ StalledCheck(d) PROVE UNCHANGED <<documents, announced>>
  BY <1>11 DEF StoreSecret, Enqueue, Discard, RecordJob, RecordedJob, HandlerCrash, SecretExpires,
       Pickup, TakeSecret, MarkActive, RenderAndStore, JobCompleted,
       HandleFailure, JobReturns, JobThrows, WorkerCrash, StalledCheck,
       requestVars, storeVars
<1>12. ASSUME NEW r \in Removers, NEW d \in Docs, RemoveRead(r, d)
       \/ RemoveObject(r, d) \/ RemoveRetry(r, d) PROVE UNCHANGED <<documents,
       announced>>
  BY <1>12 DEF RemoveRead, RemoveObject, RemoveRetry, requestVars, storeVars
<1>13. CASE UNCHANGED vars
  BY <1>10, <1>13 DEF vars
<1> QED
  BY <1>2, <1>3, <1>4, <1>5, <1>6, <1>7, <1>8, <1>9, <1>10, <1>11, <1>12, <1>13
     DEF Next, HandlerStep, AttemptStep, RemovalStep

\* recordJob needs the document, and the cascade takes the job with it.
LEMMA NoJobWithoutDocumentStep == IInv /\ [Next]_vars => NoJobWithoutDocument'
<1> DEFINE P(e) == HasJob(e) => HasRow(e)
<1> SUFFICES ASSUME IInv, [Next]_vars, NEW e \in Docs PROVE P(e)'
  BY DEF NoJobWithoutDocument, HasJob, HasRow
<1>1. /\ documents \in [Docs -> DocumentRow]
      /\ jobs \in [Docs -> JobRow]
      /\ NoJobWithoutDocument
  BY DEF IInv, TypeOK
<1>2. ASSUME NEW d \in Docs, MarkActive(d) \/ StartRender(d)
       \/ Commit(d) PROVE P(e)'
  BY <1>1, <1>2, ZenonT(60)
     DEF MarkActive, JobUpdateMany, Goto, StartRender, BeginRender, Commit, Committed,
         NoJobWithoutDocument, requestVars, storeVars, DocumentRow, JobRow,
         HasJob, HasRow
<1>3. ASSUME NEW d \in Docs, RecordFailure(d) \/ JobCompleted(d)
       \/ DeliverCompleted(d) \/ HandleFailure(d) PROVE P(e)'
  BY <1>1, <1>3
     DEF RecordFailure, Goto, JobCompleted, JobUpdateMany, DeliverCompleted,
         Deliver, HandleFailure, NoJobWithoutDocument, requestVars, storeVars,
         DocumentRow, JobRow, HasJob, HasRow
<1>4. ASSUME NEW d \in Docs, Reserve(d) PROVE P(e)'
  BY <1>1, <1>4
     DEF Reserve, NoJobWithoutDocument, requestVars, storeVars, DocumentRow,
         JobRow, HasJob, HasRow
<1>5. ASSUME NEW d \in Docs, RecordJob(d) PROVE P(e)'
  BY <1>1, <1>5
     DEF RecordJob, RecordedJob, NoJobWithoutDocument, requestVars, storeVars, DocumentRow,
         JobRow, HasJob, HasRow
<1>6. ASSUME NEW d \in Docs, DeliverFailed(d) PROVE P(e)'
  BY <1>1, <1>6
     DEF DeliverFailed, Deliver, Goto, NoJobWithoutDocument, requestVars,
         storeVars, DocumentRow, JobRow, HasJob, HasRow
<1>7. ASSUME NEW r \in Removers, NEW d \in Docs, RemoveRow(r, d) PROVE P(e)'
  BY <1>1, <1>7
     DEF RemoveRow, NoJobWithoutDocument, requestVars, storeVars, DocumentRow,
         JobRow, HasJob, HasRow
<1>8. UNCHANGED <<documents, jobs>> => P(e)'
  BY <1>1 DEF NoJobWithoutDocument, HasJob, HasRow
<1>9. ASSUME NEW d \in Docs, StoreSecret(d) \/ Enqueue(d) \/ Discard(d) \/ HandlerCrash(d)
       \/ SecretExpires(d) \/ Pickup(d) \/ TakeSecret(d) \/ RenderAndStore(d)
       \/ Alert(d) \/ JobReturns(d) \/ JobThrows(d) \/ WorkerCrash(d)
       \/ StalledCheck(d) PROVE UNCHANGED <<documents, jobs>>
  BY <1>9 DEF StoreSecret, Enqueue, Discard, HandlerCrash, SecretExpires, Pickup,
       TakeSecret, RenderAndStore, Alert, JobReturns, JobThrows, WorkerCrash,
       StalledCheck, requestVars, storeVars
<1>10. ASSUME NEW r \in Removers, NEW d \in Docs, RemoveRead(r, d)
       \/ RemoveObject(r, d) \/ RemoveRetry(r, d) PROVE UNCHANGED <<documents,
       jobs>>
  BY <1>10 DEF RemoveRead, RemoveObject, RemoveRetry, requestVars, storeVars
<1>11. CASE UNCHANGED vars
  BY <1>8, <1>11 DEF vars
<1> QED
  BY <1>2, <1>3, <1>4, <1>5, <1>6, <1>7, <1>8, <1>9, <1>10, <1>11
     DEF Next, HandlerStep, AttemptStep, RemovalStep

LEMMA InitIInv == Init => IInv
<1> SUFFICES ASSUME Init PROVE IInv
  OBVIOUS
<1> USE DEF Init
<1>1. TypeOK
  BY ConstantsAssumption
     DEF TypeOK, Request, HandlerPCs, DocumentRow, RowStatus, JobRow, JobStatus,
         HookStatus, QueueJob, QueueState, Attempt, AttemptPCs, Objects, Removal
<1>2. NothingBeforeRequest /\ NothingBeforeEnqueue
  BY DEF NothingBeforeRequest, NothingBeforeEnqueue
<1>3. AttemptsAreActive /\ AttemptHasPassword /\ CommittedNamesFile
  BY DEF AttemptsAreActive, AttemptHasPassword, CommittedNamesFile
<1>4. LiveJobsHaveAttempts
  BY ConstantsAssumption DEF LiveJobsHaveAttempts
<1>5. VaultWasAsked /\ SecretInOnePlace /\ NeverUnprotected
  BY DEF VaultWasAsked, SecretInOnePlace, NeverUnprotected
<1>6. CompletedEventMeansFile /\ NoJobWithoutDocument
  BY DEF CompletedEventMeansFile, NoJobWithoutDocument, HasJob
<1> QED
  BY <1>1, <1>2, <1>3, <1>4, <1>5, <1>6 DEF IInv

LEMMA IInvStep == IInv /\ [Next]_vars => IInv'
<1> SUFFICES ASSUME IInv, [Next]_vars PROVE IInv'
  OBVIOUS
<1>1. TypeOK'
  BY TypeStep DEF IInv
<1>2. NothingBeforeRequest' /\ NothingBeforeEnqueue'
  BY NothingBeforeRequestStep, NothingBeforeEnqueueStep
<1>3. AttemptsAreActive' /\ LiveJobsHaveAttempts'
  BY AttemptsAreActiveStep, LiveJobsHaveAttemptsStep
<1>4. VaultWasAsked' /\ AttemptHasPassword'
  BY VaultWasAskedStep, AttemptHasPasswordStep
<1>5. SecretInOnePlace' /\ NeverUnprotected'
  BY SecretInOnePlaceStep, NeverUnprotectedStep
<1>6. CommittedNamesFile' /\ CompletedEventMeansFile'
  BY CommittedNamesFileStep, CompletedEventMeansFileStep
<1>7. NoJobWithoutDocument'
  BY NoJobWithoutDocumentStep
<1> QED
  BY <1>1, <1>2, <1>3, <1>4, <1>5, <1>6, <1>7 DEF IInv

LEMMA Inductive == Spec => []IInv
<1> QED
  BY InitIInv, IInvStep, PTL DEF Spec

\* Every row, job, attempt and counter keeps its type; in particular no job
\* makes more than Attempts attempts (render.queue.ts, attempts: 3).
THEOREM TypeCorrect == Spec => []TypeOK
<1>1. IInv => TypeOK
  BY DEF IInv
<1> QED
  BY Inductive, <1>1, PTL

\* No interleaving of attempts, expiries, retries and crashes stores an
\* unprotected PDF for a request that asked for protection (secrets.vault.ts).
THEOREM ProtectionHolds == Spec => []NeverUnprotected
<1>1. IInv => NeverUnprotected
  BY DEF IInv
<1> QED
  BY Inductive, <1>1, PTL

\* The password is never both in the vault and with an attempt, nor in the
\* vault after a file was encrypted with it (secrets.vault.ts take).
THEOREM SecretReadOnce == Spec => []SecretInOnePlace
<1>1. IInv => SecretInOnePlace
  BY DEF IInv
<1> QED
  BY Inductive, <1>1, PTL

\* document.completed is sent only for a document whose row names its file,
\* and the row goes on naming it until it is removed (render.worker.ts).
THEOREM CompletedEventIsTrue == Spec => []CompletedEventMeansFile
<1>1. IInv => CompletedEventMeansFile
  BY DEF IInv
<1> QED
  BY Inductive, <1>1, PTL

\* A step of the system leaves a removed document removed, and without a job.
LEMMA RemovedStep ==
    ASSUME IInv, [Next]_vars, NEW e \in Docs, documents[e].status = "removed"
    PROVE documents'[e].status = "removed" /\ jobs'[e].status = "none"
<1>1. NoJobWithoutDocument'
  BY NoJobWithoutDocumentStep
<1>2. SUFFICES documents'[e].status = "removed"
  BY <1>1, <1>2 DEF NoJobWithoutDocument, HasJob, HasRow
<1>3. /\ documents \in [Docs -> DocumentRow]
      /\ NothingBeforeRequest
  BY DEF IInv, TypeOK
<1>4. ASSUME NEW d \in Docs, Reserve(d) PROVE documents'[e].status = "removed"
  BY <1>3, <1>4 DEF Reserve, NothingBeforeRequest
<1>5. ASSUME NEW d \in Docs, StartRender(d) PROVE documents'[e].status = "removed"
  BY <1>3, <1>5 DEF StartRender, HasRow
<1>6. ASSUME NEW d \in Docs, Commit(d) PROVE documents'[e].status = "removed"
  BY <1>3, <1>6 DEF Commit, Committed, HasRow
<1>7. ASSUME NEW d \in Docs, RecordFailure(d) PROVE documents'[e].status = "removed"
  BY <1>3, <1>7 DEF RecordFailure, HasRow
<1>8. ASSUME NEW r \in Removers, NEW d \in Docs, RemoveRow(r, d)
      PROVE documents'[e].status = "removed"
  BY <1>3, <1>8 DEF RemoveRow
<1>9. ASSUME NEW d \in Docs, StoreSecret(d) \/ Enqueue(d) \/ Discard(d) \/ RecordJob(d)
       \/ HandlerCrash(d) \/ SecretExpires(d) \/ Pickup(d) \/ TakeSecret(d)
       \/ MarkActive(d) \/ RenderAndStore(d) \/ JobCompleted(d)
       \/ DeliverCompleted(d) \/ HandleFailure(d) \/ Alert(d)
       \/ DeliverFailed(d) \/ JobReturns(d) \/ JobThrows(d) \/ WorkerCrash(d)
       \/ StalledCheck(d) PROVE documents' = documents
  BY <1>9
     DEF StoreSecret, Enqueue, Discard, RecordJob, RecordedJob, HandlerCrash, SecretExpires, Pickup,
         TakeSecret, MarkActive, RenderAndStore, JobCompleted, DeliverCompleted,
         Deliver, HandleFailure, Alert, DeliverFailed, JobReturns, JobThrows,
         WorkerCrash, StalledCheck, storeVars
<1>10. ASSUME NEW r \in Removers, NEW d \in Docs, RemoveRead(r, d)
       \/ RemoveObject(r, d) \/ RemoveRetry(r, d) PROVE documents' = documents
  BY <1>10 DEF RemoveRead, RemoveObject, RemoveRetry, storeVars
<1>11. CASE UNCHANGED vars
  BY <1>11 DEF vars
<1> QED
  BY <1>4, <1>5, <1>6, <1>7, <1>8, <1>9, <1>10, <1>11
     DEF Next, HandlerStep, AttemptStep, RemovalStep

\* A running attempt never brings a removed document back: update, not upsert,
\* on every write of the worker (pipeline.run, recordJob).
THEOREM NoResurrection == Spec => RemovedStaysRemoved
<1> DEFINE A == \A d \in Docs : documents[d].status = "removed" =>
                    documents'[d].status = "removed" /\ jobs'[d].status = "none"
<1>1. IInv /\ [Next]_vars => [A]_vars
  BY RemovedStep
<1> QED
  BY Inductive, <1>1, PTL DEF Spec, RemovedStaysRemoved

-----------------------------------------------------------------------------
\* What a step does not touch: everything of the other documents.
Same(e) ==
    /\ request'[e] = request[e] /\ handler'[e] = handler[e]
    /\ documents'[e] = documents[e] /\ queue'[e] = queue[e]
    /\ attempt'[e] = attempt[e] /\ objects'[e] = objects[e]
    /\ announced'[e] = announced[e] /\ vault'[e] = vault[e]

\* Faults and removals only accumulate.
Accumulates ==
    /\ NoFaultSoFar' => NoFaultSoFar
    /\ crashes' = 0 => crashes = 0
    /\ \A e \in Docs : Taken(e) => Taken(e)'

\* A step of the handler, the queue or the worker for one document.
DocStep(d) ==
    \/ Reserve(d) \/ HandlerStep(d) \/ HandlerCrash(d) \/ SecretExpires(d)
    \/ Pickup(d) \/ AttemptStep(d) \/ WorkerCrash(d) \/ StalledCheck(d)

\* No step takes back a fault, or a removal that started.
LEMMA StepAccumulates == ASSUME IInv, [Next]_vars PROVE Accumulates
<1>1. /\ crashes \in Nat /\ errors \in Nat
      /\ removal \in [Removers -> [Docs -> Removal]]
  BY ConstantsAssumption DEF IInv, TypeOK
<1>2. ASSUME NEW d \in Docs,
             Reserve(d) \/ StoreSecret(d) \/ Enqueue(d) \/ Discard(d)
             \/ RecordJob(d) \/ HandlerCrash(d) \/ SecretExpires(d)
      PROVE Accumulates
  BY <1>1, <1>2
     DEF Reserve, StoreSecret, Enqueue, Discard, RecordJob, RecordedJob, HandlerCrash, SecretExpires,
         CallFails, NoFault, faultVars, requestVars, storeVars, Accumulates,
         NoFaultSoFar, Taken
<1>3. ASSUME NEW d \in Docs,
             Pickup(d) \/ TakeSecret(d) \/ MarkActive(d)
             \/ StartRender(d) \/ RenderAndStore(d) \/ Commit(d)
      PROVE Accumulates
  BY <1>1, <1>3
     DEF Pickup, TakeSecret, MarkActive, StartRender, RenderAndStore, Commit, Committed,
         CallFails, NoFault, faultVars, requestVars, storeVars, Accumulates,
         NoFaultSoFar, Taken, PutFails
<1>4. ASSUME NEW d \in Docs,
             RecordFailure(d) \/ JobCompleted(d) \/ DeliverCompleted(d)
             \/ HandleFailure(d) \/ Alert(d) \/ DeliverFailed(d)
      PROVE Accumulates
  BY <1>1, <1>4
     DEF RecordFailure, JobCompleted, DeliverCompleted, HandleFailure, Alert,
         DeliverFailed, CallFails, NoFault, faultVars, requestVars, storeVars,
         Accumulates, NoFaultSoFar, Taken, Deliver
<1>5. ASSUME NEW d \in Docs,
             JobReturns(d) \/ JobThrows(d) \/ WorkerCrash(d)
             \/ StalledCheck(d)
      PROVE Accumulates
  BY <1>1, <1>5
     DEF JobReturns, JobThrows, WorkerCrash, StalledCheck, CallFails, NoFault,
         faultVars, requestVars, storeVars, Accumulates, NoFaultSoFar, Taken
<1>6. ASSUME NEW r \in Removers, NEW d \in Docs, RemovalStep(r, d)
      PROVE Accumulates
  <2>1. (NoFaultSoFar' => NoFaultSoFar) /\ (crashes' = 0 => crashes = 0)
    BY <1>1, <1>6
       DEF RemovalStep, RemoveRead, RemoveObject, RemoveRow, RemoveRetry,
           CallFails, NoFault, faultVars, NoFaultSoFar
  <2>2. removal'[r][d].pc # "idle"
    BY <1>1, <1>6
       DEF RemovalStep, RemoveRead, RemoveObject, RemoveRow, RemoveRetry, Reread,
           Removal
  <2>3. ASSUME NEW q \in Removers, NEW e \in Docs, q # r \/ e # d
        PROVE removal'[q][e] = removal[q][e]
    BY <1>1, <1>6, <2>3
       DEF RemovalStep, RemoveRead, RemoveObject, RemoveRow, RemoveRetry, Reread
  <2>4. ASSUME NEW e \in Docs, Taken(e) PROVE Taken(e)'
    BY <2>2, <2>3, <2>4 DEF Taken
  <2> QED
    BY <2>1, <2>4 DEF Accumulates
<1>7. CASE UNCHANGED vars
  BY <1>7 DEF vars, Accumulates, NoFaultSoFar, Taken
<1> QED
  BY <1>2, <1>3, <1>4, <1>5, <1>6, <1>7
     DEF Next, HandlerStep, AttemptStep

\* A step for one document leaves every other document alone.
LEMMA OthersSame ==
    ASSUME IInv, NEW d \in Docs, NEW e \in Docs, e # d,
           DocStep(d) \/ \E r \in Removers : RemovalStep(r, d)
    PROVE Same(e)
<1>1. /\ request \in [Docs -> Request] /\ handler \in [Docs -> HandlerPCs]
      /\ documents \in [Docs -> DocumentRow] /\ queue \in [Docs -> QueueJob]
      /\ attempt \in [Docs -> Attempt] /\ objects \in [Docs -> Objects]
      /\ announced \in [Docs -> SUBSET Notices] /\ vault \in [Docs -> BOOLEAN]
  BY DEF IInv, TypeOK
<1>2. CASE Reserve(d)
  BY <1>1, <1>2
     DEF Reserve, Request, requestVars, storeVars, Same
<1>3. CASE StoreSecret(d)
  BY <1>1, <1>3
     DEF StoreSecret, requestVars, storeVars, Same
<1>4. CASE Enqueue(d) \/ Discard(d)
  BY <1>1, <1>4
     DEF Enqueue, Discard, requestVars, storeVars, Same
<1>5. CASE RecordJob(d)
  BY <1>1, <1>5
     DEF RecordJob, RecordedJob, requestVars, storeVars, Same
<1>6. CASE HandlerCrash(d)
  BY <1>1, <1>6
     DEF HandlerCrash, requestVars, storeVars, Same
<1>7. CASE SecretExpires(d)
  BY <1>1, <1>7
     DEF SecretExpires, requestVars, storeVars, Same
<1>8. CASE Pickup(d)
  BY <1>1, <1>8
     DEF Pickup, requestVars, storeVars, Same
<1>9. CASE TakeSecret(d)
  BY <1>1, <1>9
     DEF TakeSecret, SecretIsGone, AfterTake, Goto, requestVars, storeVars,
         Same
<1>10. CASE MarkActive(d)
  BY <1>1, <1>10
     DEF MarkActive, JobUpdateMany, Goto, requestVars, storeVars, Same
<1>11. CASE StartRender(d)
  BY <1>1, <1>11
     DEF StartRender, BeginRender, Goto, requestVars, storeVars, Same
<1>12. CASE RenderAndStore(d)
  BY <1>1, <1>12
     DEF RenderAndStore, PutFails, Rendered, Goto, requestVars, storeVars, Same
<1>13. CASE Commit(d)
  BY <1>1, <1>13
     DEF Commit, Committed, Goto, requestVars, storeVars, Same
<1>14. CASE RecordFailure(d)
  BY <1>1, <1>14
     DEF RecordFailure, Goto, requestVars, storeVars, Same
<1>15. CASE JobCompleted(d)
  BY <1>1, <1>15
     DEF JobCompleted, JobUpdateMany, Goto, requestVars, storeVars, Same
<1>16. CASE DeliverCompleted(d)
  BY <1>1, <1>16
     DEF DeliverCompleted, Deliver, Goto, requestVars, storeVars, Same
<1>17. CASE HandleFailure(d)
  BY <1>1, <1>17
     DEF HandleFailure, JobUpdateMany, Goto, requestVars, storeVars, Same
<1>18. CASE Alert(d)
  BY <1>1, <1>18
     DEF Alert, Goto, requestVars, storeVars, Same
<1>19. CASE DeliverFailed(d)
  BY <1>1, <1>19
     DEF DeliverFailed, Deliver, Goto, requestVars, storeVars, Same
<1>20. CASE JobReturns(d)
  BY <1>1, <1>20
     DEF JobReturns, Idle, requestVars, storeVars, Same
<1>21. CASE JobThrows(d)
  BY <1>1, <1>21
     DEF JobThrows, Idle, RetriesLeft, requestVars, storeVars, Same
<1>22. CASE WorkerCrash(d)
  BY <1>1, <1>22
     DEF WorkerCrash, Idle, requestVars, storeVars, Same
<1>23. CASE StalledCheck(d)
  BY <1>1, <1>23
     DEF StalledCheck, requestVars, storeVars, Same
<1>24. ASSUME NEW r \in Removers, RemovalStep(r, d) PROVE Same(e)
  BY <1>1, <1>24
     DEF RemovalStep, RemoveRead, RemoveObject, RemoveRow, RemoveRetry,
         requestVars, storeVars, Same
<1> QED
  BY <1>2, <1>3, <1>4, <1>5, <1>6, <1>7, <1>8, <1>9, <1>10, <1>11, <1>12,
     <1>13, <1>14, <1>15, <1>16, <1>17, <1>18, <1>19, <1>20, <1>21, <1>22,
     <1>23, <1>24
     DEF DocStep, HandlerStep, AttemptStep

\* What is untouched keeps the invariant, whatever failed meanwhile.
LEMMA SameKeepsOutcome ==
    ASSUME OutcomeInv, Accumulates, NEW e \in Docs, Same(e)
    PROVE StoreInv(e)' /\ QueueInv(e)' /\ NoticeInv(e)'
<1>1. StoreInv(e)'
  BY DEF OutcomeInv, Accumulates, Same, StoreInv, HasRow
<1>2. QueueInv(e)'
  BY DEF OutcomeInv, Accumulates, Same, QueueInv, HasRow
<1>3. NoticeInv(e)'
  BY DEF OutcomeInv, Accumulates, Same, NoticeInv, HasRow, IsFinal, Reported
<1> QED
  BY <1>1, <1>2, <1>3

\* Each action and what it leaves in the store and in the row.  The row's flag
\* changes only at start, where the attempt holds what was asked for.
LEMMA StoreInvStep ==
    ASSUME IInv, OutcomeInv, Accumulates, NEW d \in Docs,
           DocStep(d) \/ \E r \in Removers : RemovalStep(r, d)
    PROVE StoreInv(d)'
<1>1. /\ request \in [Docs -> Request] /\ handler \in [Docs -> HandlerPCs]
      /\ documents \in [Docs -> DocumentRow] /\ queue \in [Docs -> QueueJob]
      /\ attempt \in [Docs -> Attempt] /\ objects \in [Docs -> Objects]
      /\ announced \in [Docs -> SUBSET Notices]
      /\ removal \in [Removers -> [Docs -> Removal]]
      /\ errors \in Nat /\ crashes \in Nat
      /\ NothingBeforeRequest /\ NothingBeforeEnqueue /\ AttemptsAreActive
      /\ AttemptHasPassword
  BY ConstantsAssumption DEF IInv, TypeOK
<1>2. StoreInv(d) /\ QueueInv(d) /\ NoticeInv(d)
  BY DEF OutcomeInv
<1> USE DEF HasRow, NoFaultSoFar, NoFault, faultVars, CallFails, requestVars,
            storeVars
<1>3. CASE Reserve(d)
  BY <1>1, <1>2, <1>3, ConstantsAssumption
     DEF Reserve, Request, StoreInv, Accumulates, Taken, NothingBeforeRequest,
         NothingBeforeEnqueue, AttemptsAreActive, AttemptHasPassword,
         DocumentRow, QueueJob, Attempt
<1>4. CASE StoreSecret(d)
  BY <1>1, <1>2, <1>4, ConstantsAssumption
     DEF StoreSecret, StoreInv, Accumulates, Taken, NothingBeforeRequest,
         NothingBeforeEnqueue, AttemptsAreActive, AttemptHasPassword,
         DocumentRow, QueueJob, Attempt
<1>5. CASE Enqueue(d) \/ Discard(d)
  BY <1>1, <1>2, <1>5, ConstantsAssumption
     DEF Enqueue, Discard, StoreInv, Accumulates, Taken, NothingBeforeRequest,
         NothingBeforeEnqueue, AttemptsAreActive, AttemptHasPassword,
         DocumentRow, QueueJob, Attempt
<1>6. CASE RecordJob(d)
  BY <1>1, <1>2, <1>6, ConstantsAssumption
     DEF RecordJob, RecordedJob, StoreInv, Accumulates, Taken, NothingBeforeRequest,
         NothingBeforeEnqueue, AttemptsAreActive, AttemptHasPassword,
         DocumentRow, QueueJob, Attempt
<1>7. CASE HandlerCrash(d)
  BY <1>1, <1>2, <1>7, ConstantsAssumption
     DEF HandlerCrash, StoreInv, Accumulates, Taken, NothingBeforeRequest,
         NothingBeforeEnqueue, AttemptsAreActive, AttemptHasPassword,
         DocumentRow, QueueJob, Attempt
<1>8. CASE SecretExpires(d)
  BY <1>1, <1>2, <1>8, ConstantsAssumption
     DEF SecretExpires, StoreInv, Accumulates, Taken, NothingBeforeRequest,
         NothingBeforeEnqueue, AttemptsAreActive, AttemptHasPassword,
         DocumentRow, QueueJob, Attempt
<1>9. CASE Pickup(d)
  BY <1>1, <1>2, <1>9, ConstantsAssumption
     DEF Pickup, StoreInv, Accumulates, Taken, NothingBeforeRequest,
         NothingBeforeEnqueue, AttemptsAreActive, AttemptHasPassword,
         DocumentRow, QueueJob, Attempt
<1>10. CASE TakeSecret(d)
  BY <1>1, <1>2, <1>10, ConstantsAssumption
     DEF TakeSecret, SecretIsGone, AfterTake, Goto, StoreInv, Accumulates,
         Taken, NothingBeforeRequest, NothingBeforeEnqueue, AttemptsAreActive,
         AttemptHasPassword, DocumentRow, QueueJob, Attempt
<1>11. CASE MarkActive(d)
  BY <1>1, <1>2, <1>11, ConstantsAssumption
     DEF MarkActive, JobUpdateMany, Goto, StoreInv, Accumulates, Taken,
         NothingBeforeRequest, NothingBeforeEnqueue, AttemptsAreActive,
         AttemptHasPassword, DocumentRow, QueueJob, Attempt
<1>12. CASE StartRender(d)
  <2>1. /\ attempt[d].pc = "start" /\ queue'[d] = queue[d] /\ handler'[d] = handler[d]
        /\ request'[d] = request[d] /\ objects'[d] = objects[d]
        /\ queue[d].state = "active" /\ handler[d] \notin {"store", "enqueue"}
    BY <1>1, <1>12 DEF StartRender, AttemptsAreActive, NothingBeforeEnqueue
  <2>2. CASE /\ HasRow(d) /\ attempt'[d].pc = "render"
             /\ documents'[d] = [documents[d] EXCEPT !.status = "rendering",
                                             !.isEncrypted = attempt[d].protection]
    <3>1. documents[d] \in DocumentRow /\ attempt[d] \in Attempt /\ request[d] \in Request
      BY <1>1
    <3>2. /\ documents'[d].status = "rendering" /\ documents'[d].storageKey = documents[d].storageKey
          /\ documents'[d].isEncrypted = attempt[d].protection
      BY <1>1, <3>1, <2>2 DEF DocumentRow
    <3>3. attempt[d].pc = "start" => attempt[d].protection = request[d].protected
      BY <1>1, <3>1 DEF AttemptHasPassword, Attempt, Request
    <3> QED
      BY <1>2, <2>1, <2>2, <3>2, <3>3 DEF StoreInv, Accumulates
  <2>3. CASE /\ documents'[d] = documents[d] /\ attempt'[d].pc = "caught"
             /\ HasRow(d) => errors' > 0
    BY <1>1, <1>2, <2>1, <2>3 DEF StoreInv, Accumulates
  <2>4. CASE /\ HasRow(d) /\ attempt'[d].pc = "caught" /\ errors' > 0
             /\ documents'[d] = [documents[d] EXCEPT !.status = "rendering",
                                             !.isEncrypted = attempt[d].protection]
    <3>1. documents[d] \in DocumentRow /\ attempt[d] \in Attempt /\ request[d] \in Request
      BY <1>1
    <3>2. /\ documents'[d].status = "rendering" /\ documents'[d].storageKey = documents[d].storageKey
          /\ documents'[d].isEncrypted = attempt[d].protection
      BY <1>1, <3>1, <2>4 DEF DocumentRow
    <3>3. attempt[d].pc = "start" => attempt[d].protection = request[d].protected
      BY <1>1, <3>1 DEF AttemptHasPassword, Attempt, Request
    <3>4. ~NoFaultSoFar'
      BY <2>4 DEF NoFaultSoFar
    <3> QED
      BY <1>2, <2>1, <2>4, <3>2, <3>3, <3>4 DEF StoreInv, Accumulates
  <2>5. documents[d] \in DocumentRow /\ attempt[d] \in Attempt /\ errors \in Nat
    BY <1>1
  <2> QED
    BY <1>1, <1>12, <2>2, <2>3, <2>4, <2>5
       DEF CallFails, StartRender, Goto, BeginRender, Attempt
<1>13. CASE RenderAndStore(d)
  BY <1>1, <1>2, <1>13, ConstantsAssumption
     DEF RenderAndStore, PutFails, Rendered, Goto, StoreInv, Accumulates,
         Taken, NothingBeforeRequest, NothingBeforeEnqueue, AttemptsAreActive,
         AttemptHasPassword, DocumentRow, QueueJob, Attempt
<1>14. CASE Commit(d)
  <2>1. /\ attempt[d].pc = "commit" /\ queue'[d] = queue[d] /\ handler'[d] = handler[d]
        /\ request'[d] = request[d] /\ objects'[d] = objects[d]
        /\ queue[d].state = "active" /\ handler[d] \notin {"store", "enqueue"}
    BY <1>1, <1>14 DEF Commit, Committed, AttemptsAreActive, NothingBeforeEnqueue
  <2>2. CASE /\ HasRow(d) /\ attempt'[d].pc = "done"
             /\ documents'[d] = [documents[d] EXCEPT !.status = "completed", !.storageKey = TRUE]
    <3>1. documents[d] \in DocumentRow /\ attempt[d] \in Attempt /\ request[d] \in Request
      BY <1>1
    <3>2. /\ documents'[d].status = "completed" /\ documents'[d].storageKey
          /\ documents'[d].isEncrypted = documents[d].isEncrypted
      BY <1>1, <3>1, <2>2 DEF DocumentRow
    <3>3. attempt[d].pc = "start" => attempt[d].protection = request[d].protected
      BY <1>1, <3>1 DEF AttemptHasPassword, Attempt, Request
    <3> QED
      BY <1>2, <2>1, <2>2, <3>2, <3>3 DEF StoreInv, Accumulates
  <2>3. CASE /\ documents'[d] = documents[d] /\ attempt'[d].pc = "fail"
             /\ HasRow(d) => errors' > 0
    BY <1>1, <1>2, <2>1, <2>3 DEF StoreInv, Accumulates
  <2>4. CASE /\ HasRow(d) /\ attempt'[d].pc = "fail" /\ errors' > 0
             /\ documents'[d] = [documents[d] EXCEPT !.status = "completed", !.storageKey = TRUE]
    <3>1. documents[d] \in DocumentRow
      BY <1>1
    <3>2. /\ documents'[d].status = "completed" /\ documents'[d].storageKey
          /\ documents'[d].isEncrypted = documents[d].isEncrypted
      BY <1>1, <3>1, <2>4 DEF DocumentRow
    <3>3. ~NoFaultSoFar'
      BY <2>4 DEF NoFaultSoFar
    <3> QED
      BY <1>2, <2>1, <2>4, <3>2, <3>3 DEF StoreInv, Accumulates
  <2>5. documents[d] \in DocumentRow /\ attempt[d] \in Attempt /\ errors \in Nat
    BY <1>1
  <2> QED
    BY <1>1, <1>14, <2>2, <2>3, <2>4, <2>5
       DEF CallFails, Commit, Committed, Goto, Attempt
<1>15. CASE RecordFailure(d)
  <2>1. /\ attempt[d].pc = "fail" /\ queue'[d] = queue[d] /\ handler'[d] = handler[d]
        /\ request'[d] = request[d] /\ objects'[d] = objects[d]
        /\ queue[d].state = "active" /\ handler[d] \notin {"store", "enqueue"}
    BY <1>1, <1>15 DEF RecordFailure, AttemptsAreActive, NothingBeforeEnqueue
  <2>2. CASE /\ HasRow(d) /\ attempt'[d].pc = "caught"
             /\ documents'[d] = [documents EXCEPT ![d].status = "failed"][d]
    <3>1. documents[d] \in DocumentRow /\ attempt[d] \in Attempt /\ request[d] \in Request
      BY <1>1
    <3>2. /\ documents'[d].status = "failed" /\ documents'[d].storageKey = documents[d].storageKey
          /\ documents'[d].isEncrypted = documents[d].isEncrypted
      BY <1>1, <3>1, <2>2 DEF DocumentRow
    <3>3. attempt[d].pc = "start" => attempt[d].protection = request[d].protected
      BY <1>1, <3>1 DEF AttemptHasPassword, Attempt, Request
    <3> QED
      BY <1>2, <2>1, <2>2, <3>2, <3>3 DEF StoreInv, Accumulates
  <2>3. CASE /\ documents'[d] = documents[d] /\ attempt'[d].pc = "caught"
             /\ HasRow(d) => errors' > 0
    BY <1>1, <1>2, <2>1, <2>3 DEF StoreInv, Accumulates
  <2>4. attempt'[d].pc = "caught"
    BY <1>1, <1>15 DEF RecordFailure, Goto, Attempt
  <2>5. CASE HasRow(d) /\ documents' = [documents EXCEPT ![d].status = "failed"]
    BY <2>2, <2>4, <2>5
  <2>6. CASE documents' = documents /\ (HasRow(d) => errors' = errors + 1)
    BY <1>1, <2>3, <2>4, <2>6
  <2> QED
    BY <1>15, <2>5, <2>6 DEF RecordFailure
<1>16. CASE JobCompleted(d)
  BY <1>1, <1>2, <1>16, ConstantsAssumption
     DEF JobCompleted, JobUpdateMany, Goto, StoreInv, Accumulates, Taken,
         NothingBeforeRequest, NothingBeforeEnqueue, AttemptsAreActive,
         AttemptHasPassword, DocumentRow, QueueJob, Attempt
<1>17. CASE DeliverCompleted(d)
  BY <1>1, <1>2, <1>17, ConstantsAssumption
     DEF DeliverCompleted, Deliver, Goto, StoreInv, Accumulates, Taken,
         NothingBeforeRequest, NothingBeforeEnqueue, AttemptsAreActive,
         AttemptHasPassword, DocumentRow, QueueJob, Attempt
<1>18. CASE HandleFailure(d)
  BY <1>1, <1>2, <1>18, ConstantsAssumption
     DEF HandleFailure, JobUpdateMany, Goto, StoreInv, Accumulates, Taken,
         NothingBeforeRequest, NothingBeforeEnqueue, AttemptsAreActive,
         AttemptHasPassword, DocumentRow, QueueJob, Attempt
<1>19. CASE Alert(d)
  BY <1>1, <1>2, <1>19, ConstantsAssumption
     DEF Alert, Goto, StoreInv, Accumulates, Taken, NothingBeforeRequest,
         NothingBeforeEnqueue, AttemptsAreActive, AttemptHasPassword,
         DocumentRow, QueueJob, Attempt
<1>20. CASE DeliverFailed(d)
  BY <1>1, <1>2, <1>20, ConstantsAssumption
     DEF DeliverFailed, Deliver, Goto, StoreInv, Accumulates, Taken,
         NothingBeforeRequest, NothingBeforeEnqueue, AttemptsAreActive,
         AttemptHasPassword, DocumentRow, QueueJob, Attempt
<1>21. CASE JobReturns(d)
  BY <1>1, <1>2, <1>21, ConstantsAssumption
     DEF JobReturns, Idle, StoreInv, Accumulates, Taken, NothingBeforeRequest,
         NothingBeforeEnqueue, AttemptsAreActive, AttemptHasPassword,
         DocumentRow, QueueJob, Attempt
<1>22. CASE JobThrows(d)
  BY <1>1, <1>2, <1>22, ConstantsAssumption
     DEF JobThrows, Idle, RetriesLeft, StoreInv, Accumulates, Taken,
         NothingBeforeRequest, NothingBeforeEnqueue, AttemptsAreActive,
         AttemptHasPassword, DocumentRow, QueueJob, Attempt
<1>23. CASE WorkerCrash(d)
  BY <1>1, <1>2, <1>23, ConstantsAssumption
     DEF WorkerCrash, Idle, StoreInv, Accumulates, Taken, NothingBeforeRequest,
         NothingBeforeEnqueue, AttemptsAreActive, AttemptHasPassword,
         DocumentRow, QueueJob, Attempt
<1>24. CASE StalledCheck(d)
  BY <1>1, <1>2, <1>24, ConstantsAssumption
     DEF StalledCheck, StoreInv, Accumulates, Taken, NothingBeforeRequest,
         NothingBeforeEnqueue, AttemptsAreActive, AttemptHasPassword,
         DocumentRow, QueueJob, Attempt
<1>25. ASSUME NEW r \in Removers, RemovalStep(r, d) PROVE StoreInv(d)'
  BY <1>1, <1>2, <1>25
     DEF RemovalStep, RemoveRead, RemoveObject, RemoveRow, RemoveRetry, Reread,
         StoreInv, Accumulates, Taken, DocumentRow, QueueJob, Attempt, Removal
<1> QED
  BY <1>3, <1>4, <1>5, <1>6, <1>7, <1>8, <1>9, <1>10, <1>11, <1>12, <1>13,
     <1>14, <1>15, <1>16, <1>17, <1>18, <1>19, <1>20, <1>21, <1>22, <1>23,
     <1>24, <1>25
     DEF DocStep, HandlerStep, AttemptStep

\* Each action and what queue and row say after it.  A job is finished only
\* from return, throw or a stall; without a fault there are no stalls.
LEMMA QueueInvStep ==
    ASSUME IInv, OutcomeInv, Accumulates, NEW d \in Docs,
           DocStep(d) \/ \E r \in Removers : RemovalStep(r, d)
    PROVE QueueInv(d)'
<1>1. /\ request \in [Docs -> Request] /\ handler \in [Docs -> HandlerPCs]
      /\ documents \in [Docs -> DocumentRow] /\ queue \in [Docs -> QueueJob]
      /\ attempt \in [Docs -> Attempt] /\ objects \in [Docs -> Objects]
      /\ announced \in [Docs -> SUBSET Notices]
      /\ removal \in [Removers -> [Docs -> Removal]]
      /\ errors \in Nat /\ crashes \in Nat
      /\ NothingBeforeRequest /\ NothingBeforeEnqueue /\ AttemptsAreActive
      /\ AttemptHasPassword
  BY ConstantsAssumption DEF IInv, TypeOK
<1>2. StoreInv(d) /\ QueueInv(d) /\ NoticeInv(d)
  BY DEF OutcomeInv
<1> USE DEF HasRow, NoFaultSoFar, NoFault, faultVars, CallFails, requestVars,
            storeVars
<1>3. CASE Reserve(d)
  BY <1>1, <1>2, <1>3, ConstantsAssumption
     DEF Reserve, Request, QueueInv, Accumulates, Taken, NothingBeforeRequest,
         NothingBeforeEnqueue, AttemptsAreActive, AttemptHasPassword,
         DocumentRow, QueueJob, Attempt
<1>4. CASE StoreSecret(d)
  BY <1>1, <1>2, <1>4, ConstantsAssumption
     DEF StoreSecret, QueueInv, Accumulates, Taken, NothingBeforeRequest,
         NothingBeforeEnqueue, AttemptsAreActive, AttemptHasPassword,
         DocumentRow, QueueJob, Attempt
<1>5. CASE Enqueue(d) \/ Discard(d)
  BY <1>1, <1>2, <1>5, ConstantsAssumption
     DEF Enqueue, Discard, QueueInv, Accumulates, Taken, NothingBeforeRequest,
         NothingBeforeEnqueue, AttemptsAreActive, AttemptHasPassword,
         DocumentRow, QueueJob, Attempt
<1>6. CASE RecordJob(d)
  BY <1>1, <1>2, <1>6, ConstantsAssumption
     DEF RecordJob, RecordedJob, QueueInv, Accumulates, Taken, NothingBeforeRequest,
         NothingBeforeEnqueue, AttemptsAreActive, AttemptHasPassword,
         DocumentRow, QueueJob, Attempt
<1>7. CASE HandlerCrash(d)
  BY <1>1, <1>2, <1>7, ConstantsAssumption
     DEF HandlerCrash, QueueInv, Accumulates, Taken, NothingBeforeRequest,
         NothingBeforeEnqueue, AttemptsAreActive, AttemptHasPassword,
         DocumentRow, QueueJob, Attempt
<1>8. CASE SecretExpires(d)
  BY <1>1, <1>2, <1>8, ConstantsAssumption
     DEF SecretExpires, QueueInv, Accumulates, Taken, NothingBeforeRequest,
         NothingBeforeEnqueue, AttemptsAreActive, AttemptHasPassword,
         DocumentRow, QueueJob, Attempt
<1>9. CASE Pickup(d)
  BY <1>1, <1>2, <1>9, ConstantsAssumption
     DEF Pickup, QueueInv, Accumulates, Taken, NothingBeforeRequest,
         NothingBeforeEnqueue, AttemptsAreActive, AttemptHasPassword,
         DocumentRow, QueueJob, Attempt
<1>10. CASE TakeSecret(d)
  BY <1>1, <1>2, <1>10, ConstantsAssumption
     DEF TakeSecret, SecretIsGone, AfterTake, Goto, QueueInv, Accumulates,
         Taken, NothingBeforeRequest, NothingBeforeEnqueue, AttemptsAreActive,
         AttemptHasPassword, DocumentRow, QueueJob, Attempt
<1>11. CASE MarkActive(d)
  BY <1>1, <1>2, <1>11, ConstantsAssumption
     DEF MarkActive, JobUpdateMany, Goto, QueueInv, Accumulates, Taken,
         NothingBeforeRequest, NothingBeforeEnqueue, AttemptsAreActive,
         AttemptHasPassword, DocumentRow, QueueJob, Attempt
<1>12. CASE StartRender(d)
  BY <1>1, <1>2, <1>12, ConstantsAssumption
     DEF StartRender, BeginRender, Goto, QueueInv, Accumulates, Taken,
         NothingBeforeRequest, NothingBeforeEnqueue, AttemptsAreActive,
         AttemptHasPassword, DocumentRow, QueueJob, Attempt
<1>13. CASE RenderAndStore(d)
  BY <1>1, <1>2, <1>13, ConstantsAssumption
     DEF RenderAndStore, PutFails, Rendered, Goto, QueueInv, Accumulates,
         Taken, NothingBeforeRequest, NothingBeforeEnqueue, AttemptsAreActive,
         AttemptHasPassword, DocumentRow, QueueJob, Attempt
<1>14. CASE Commit(d)
  <2>1. /\ attempt[d].pc = "commit" /\ queue'[d] = queue[d] /\ handler'[d] = handler[d]
        /\ request'[d] = request[d] /\ objects'[d] = objects[d]
        /\ queue[d].state = "active" /\ handler[d] \notin {"store", "enqueue"}
    BY <1>1, <1>14 DEF Commit, Committed, AttemptsAreActive, NothingBeforeEnqueue
  <2>2. CASE /\ HasRow(d) /\ attempt'[d].pc = "done"
             /\ documents'[d] = [documents[d] EXCEPT !.status = "completed", !.storageKey = TRUE]
    <3>1. documents[d] \in DocumentRow /\ attempt[d] \in Attempt /\ request[d] \in Request
      BY <1>1
    <3>2. /\ documents'[d].status = "completed" /\ documents'[d].storageKey
          /\ documents'[d].isEncrypted = documents[d].isEncrypted
      BY <1>1, <3>1, <2>2 DEF DocumentRow
    <3>3. attempt[d].pc = "start" => attempt[d].protection = request[d].protected
      BY <1>1, <3>1 DEF AttemptHasPassword, Attempt, Request
    <3> QED
      BY <1>2, <2>1, <2>2, <3>2, <3>3 DEF QueueInv, Accumulates
  <2>3. CASE /\ documents'[d] = documents[d] /\ attempt'[d].pc = "fail"
             /\ HasRow(d) => errors' > 0
    BY <1>1, <1>2, <2>1, <2>3 DEF QueueInv, Accumulates
  <2>4. CASE /\ HasRow(d) /\ attempt'[d].pc = "fail" /\ errors' > 0
             /\ documents'[d] = [documents[d] EXCEPT !.status = "completed", !.storageKey = TRUE]
    <3>1. documents[d] \in DocumentRow
      BY <1>1
    <3>2. /\ documents'[d].status = "completed" /\ documents'[d].storageKey
          /\ documents'[d].isEncrypted = documents[d].isEncrypted
      BY <1>1, <3>1, <2>4 DEF DocumentRow
    <3>3. ~NoFaultSoFar'
      BY <2>4 DEF NoFaultSoFar
    <3> QED
      BY <1>2, <2>1, <2>4, <3>2, <3>3 DEF QueueInv, Accumulates
  <2>5. documents[d] \in DocumentRow /\ attempt[d] \in Attempt /\ errors \in Nat
    BY <1>1
  <2> QED
    BY <1>1, <1>14, <2>2, <2>3, <2>4, <2>5
       DEF CallFails, Commit, Committed, Goto, Attempt
<1>15. CASE RecordFailure(d)
  <2>1. /\ attempt[d].pc = "fail" /\ queue'[d] = queue[d] /\ handler'[d] = handler[d]
        /\ request'[d] = request[d] /\ objects'[d] = objects[d]
        /\ queue[d].state = "active" /\ handler[d] \notin {"store", "enqueue"}
    BY <1>1, <1>15 DEF RecordFailure, AttemptsAreActive, NothingBeforeEnqueue
  <2>2. CASE /\ HasRow(d) /\ attempt'[d].pc = "caught"
             /\ documents'[d] = [documents EXCEPT ![d].status = "failed"][d]
    <3>1. documents[d] \in DocumentRow /\ attempt[d] \in Attempt /\ request[d] \in Request
      BY <1>1
    <3>2. /\ documents'[d].status = "failed" /\ documents'[d].storageKey = documents[d].storageKey
          /\ documents'[d].isEncrypted = documents[d].isEncrypted
      BY <1>1, <3>1, <2>2 DEF DocumentRow
    <3>3. attempt[d].pc = "start" => attempt[d].protection = request[d].protected
      BY <1>1, <3>1 DEF AttemptHasPassword, Attempt, Request
    <3> QED
      BY <1>2, <2>1, <2>2, <3>2, <3>3 DEF QueueInv, Accumulates
  <2>3. CASE /\ documents'[d] = documents[d] /\ attempt'[d].pc = "caught"
             /\ HasRow(d) => errors' > 0
    BY <1>1, <1>2, <2>1, <2>3 DEF QueueInv, Accumulates
  <2>4. attempt'[d].pc = "caught"
    BY <1>1, <1>15 DEF RecordFailure, Goto, Attempt
  <2>5. CASE HasRow(d) /\ documents' = [documents EXCEPT ![d].status = "failed"]
    BY <2>2, <2>4, <2>5
  <2>6. CASE documents' = documents /\ (HasRow(d) => errors' = errors + 1)
    BY <1>1, <2>3, <2>4, <2>6
  <2> QED
    BY <1>15, <2>5, <2>6 DEF RecordFailure
<1>16. CASE JobCompleted(d)
  BY <1>1, <1>2, <1>16, ConstantsAssumption
     DEF JobCompleted, JobUpdateMany, Goto, QueueInv, Accumulates, Taken,
         NothingBeforeRequest, NothingBeforeEnqueue, AttemptsAreActive,
         AttemptHasPassword, DocumentRow, QueueJob, Attempt
<1>17. CASE DeliverCompleted(d)
  BY <1>1, <1>2, <1>17, ConstantsAssumption
     DEF DeliverCompleted, Deliver, Goto, QueueInv, Accumulates, Taken,
         NothingBeforeRequest, NothingBeforeEnqueue, AttemptsAreActive,
         AttemptHasPassword, DocumentRow, QueueJob, Attempt
<1>18. CASE HandleFailure(d)
  BY <1>1, <1>2, <1>18, ConstantsAssumption
     DEF HandleFailure, JobUpdateMany, Goto, QueueInv, Accumulates, Taken,
         NothingBeforeRequest, NothingBeforeEnqueue, AttemptsAreActive,
         AttemptHasPassword, DocumentRow, QueueJob, Attempt
<1>19. CASE Alert(d)
  BY <1>1, <1>2, <1>19, ConstantsAssumption
     DEF Alert, Goto, QueueInv, Accumulates, Taken, NothingBeforeRequest,
         NothingBeforeEnqueue, AttemptsAreActive, AttemptHasPassword,
         DocumentRow, QueueJob, Attempt
<1>20. CASE DeliverFailed(d)
  BY <1>1, <1>2, <1>20, ConstantsAssumption
     DEF DeliverFailed, Deliver, Goto, QueueInv, Accumulates, Taken,
         NothingBeforeRequest, NothingBeforeEnqueue, AttemptsAreActive,
         AttemptHasPassword, DocumentRow, QueueJob, Attempt
<1>21. CASE JobReturns(d)
  BY <1>1, <1>2, <1>21, ConstantsAssumption
     DEF JobReturns, Idle, QueueInv, Accumulates, Taken, NothingBeforeRequest,
         NothingBeforeEnqueue, AttemptsAreActive, AttemptHasPassword,
         DocumentRow, QueueJob, Attempt
<1>22. CASE JobThrows(d)
  BY <1>1, <1>2, <1>22, ConstantsAssumption
     DEF JobThrows, Idle, RetriesLeft, QueueInv, Accumulates, Taken,
         NothingBeforeRequest, NothingBeforeEnqueue, AttemptsAreActive,
         AttemptHasPassword, DocumentRow, QueueJob, Attempt
<1>23. CASE WorkerCrash(d)
  BY <1>1, <1>2, <1>23, ConstantsAssumption
     DEF WorkerCrash, Idle, QueueInv, Accumulates, Taken, NothingBeforeRequest,
         NothingBeforeEnqueue, AttemptsAreActive, AttemptHasPassword,
         DocumentRow, QueueJob, Attempt
<1>24. CASE StalledCheck(d)
  BY <1>1, <1>2, <1>24, ConstantsAssumption
     DEF StalledCheck, QueueInv, Accumulates, Taken, NothingBeforeRequest,
         NothingBeforeEnqueue, AttemptsAreActive, AttemptHasPassword,
         DocumentRow, QueueJob, Attempt
<1>25. ASSUME NEW r \in Removers, RemovalStep(r, d) PROVE QueueInv(d)'
  BY <1>1, <1>2, <1>25
     DEF RemovalStep, RemoveRead, RemoveObject, RemoveRow, RemoveRetry, Reread,
         QueueInv, Accumulates, Taken, DocumentRow, QueueJob, Attempt, Removal
<1> QED
  BY <1>3, <1>4, <1>5, <1>6, <1>7, <1>8, <1>9, <1>10, <1>11, <1>12, <1>13,
     <1>14, <1>15, <1>16, <1>17, <1>18, <1>19, <1>20, <1>21, <1>22, <1>23,
     <1>24, <1>25
     DEF DocStep, HandlerStep, AttemptStep

\* Each action and what has been announced after it.  IsFinal at the catch
\* block is the negation of RetriesLeft at the throw.
LEMMA NoticeInvStep ==
    ASSUME IInv, OutcomeInv, Accumulates, NEW d \in Docs,
           DocStep(d) \/ \E r \in Removers : RemovalStep(r, d)
    PROVE NoticeInv(d)'
<1>1. /\ request \in [Docs -> Request] /\ handler \in [Docs -> HandlerPCs]
      /\ documents \in [Docs -> DocumentRow] /\ queue \in [Docs -> QueueJob]
      /\ attempt \in [Docs -> Attempt] /\ objects \in [Docs -> Objects]
      /\ announced \in [Docs -> SUBSET Notices]
      /\ removal \in [Removers -> [Docs -> Removal]]
      /\ errors \in Nat /\ crashes \in Nat
      /\ NothingBeforeRequest /\ NothingBeforeEnqueue /\ AttemptsAreActive
      /\ AttemptHasPassword
  BY ConstantsAssumption DEF IInv, TypeOK
<1>2. StoreInv(d) /\ QueueInv(d) /\ NoticeInv(d)
  BY DEF OutcomeInv
<1> USE DEF HasRow, NoFaultSoFar, NoFault, faultVars, CallFails, requestVars,
            storeVars
<1>3. CASE Reserve(d)
  BY <1>1, <1>2, <1>3, ConstantsAssumption
     DEF Reserve, Request, NoticeInv, Reported, IsFinal, Accumulates, Taken,
         NothingBeforeRequest, NothingBeforeEnqueue, AttemptsAreActive,
         AttemptHasPassword, DocumentRow, QueueJob, Attempt
<1>4. CASE StoreSecret(d)
  BY <1>1, <1>2, <1>4, ConstantsAssumption
     DEF StoreSecret, NoticeInv, Reported, IsFinal, Accumulates, Taken,
         NothingBeforeRequest, NothingBeforeEnqueue, AttemptsAreActive,
         AttemptHasPassword, DocumentRow, QueueJob, Attempt
<1>5. CASE Enqueue(d) \/ Discard(d)
  BY <1>1, <1>2, <1>5, ConstantsAssumption
     DEF Enqueue, Discard, NoticeInv, Reported, IsFinal, Accumulates, Taken,
         NothingBeforeRequest, NothingBeforeEnqueue, AttemptsAreActive,
         AttemptHasPassword, DocumentRow, QueueJob, Attempt
<1>6. CASE RecordJob(d)
  BY <1>1, <1>2, <1>6, ConstantsAssumption
     DEF RecordJob, RecordedJob, NoticeInv, Reported, IsFinal, Accumulates, Taken,
         NothingBeforeRequest, NothingBeforeEnqueue, AttemptsAreActive,
         AttemptHasPassword, DocumentRow, QueueJob, Attempt
<1>7. CASE HandlerCrash(d)
  BY <1>1, <1>2, <1>7, ConstantsAssumption
     DEF HandlerCrash, NoticeInv, Reported, IsFinal, Accumulates, Taken,
         NothingBeforeRequest, NothingBeforeEnqueue, AttemptsAreActive,
         AttemptHasPassword, DocumentRow, QueueJob, Attempt
<1>8. CASE SecretExpires(d)
  BY <1>1, <1>2, <1>8, ConstantsAssumption
     DEF SecretExpires, NoticeInv, Reported, IsFinal, Accumulates, Taken,
         NothingBeforeRequest, NothingBeforeEnqueue, AttemptsAreActive,
         AttemptHasPassword, DocumentRow, QueueJob, Attempt
<1>9. CASE Pickup(d)
  BY <1>1, <1>2, <1>9, ConstantsAssumption
     DEF Pickup, NoticeInv, Reported, IsFinal, Accumulates, Taken,
         NothingBeforeRequest, NothingBeforeEnqueue, AttemptsAreActive,
         AttemptHasPassword, DocumentRow, QueueJob, Attempt
<1>10. CASE TakeSecret(d)
  BY <1>1, <1>2, <1>10, ConstantsAssumption
     DEF TakeSecret, SecretIsGone, AfterTake, Goto, NoticeInv, Reported,
         IsFinal, Accumulates, Taken, NothingBeforeRequest,
         NothingBeforeEnqueue, AttemptsAreActive, AttemptHasPassword,
         DocumentRow, QueueJob, Attempt
<1>11. CASE MarkActive(d)
  BY <1>1, <1>2, <1>11, ConstantsAssumption
     DEF MarkActive, JobUpdateMany, Goto, NoticeInv, Reported, IsFinal,
         Accumulates, Taken, NothingBeforeRequest, NothingBeforeEnqueue,
         AttemptsAreActive, AttemptHasPassword, DocumentRow, QueueJob, Attempt
<1>12. CASE StartRender(d)
  BY <1>1, <1>2, <1>12, ConstantsAssumption
     DEF StartRender, BeginRender, Goto, NoticeInv, Reported, IsFinal,
         Accumulates, Taken, NothingBeforeRequest, NothingBeforeEnqueue,
         AttemptsAreActive, AttemptHasPassword, DocumentRow, QueueJob, Attempt
<1>13. CASE RenderAndStore(d)
  BY <1>1, <1>2, <1>13, ConstantsAssumption
     DEF RenderAndStore, PutFails, Rendered, Goto, NoticeInv, Reported,
         IsFinal, Accumulates, Taken, NothingBeforeRequest,
         NothingBeforeEnqueue, AttemptsAreActive, AttemptHasPassword,
         DocumentRow, QueueJob, Attempt
<1>14. CASE Commit(d)
  BY <1>1, <1>2, <1>14, ConstantsAssumption
     DEF Commit, Committed, Goto, NoticeInv, Reported, IsFinal, Accumulates, Taken,
         NothingBeforeRequest, NothingBeforeEnqueue, AttemptsAreActive,
         AttemptHasPassword, DocumentRow, QueueJob, Attempt
<1>15. CASE RecordFailure(d)
  BY <1>1, <1>2, <1>15, ConstantsAssumption
     DEF RecordFailure, Goto, NoticeInv, Reported, IsFinal, Accumulates, Taken,
         NothingBeforeRequest, NothingBeforeEnqueue, AttemptsAreActive,
         AttemptHasPassword, DocumentRow, QueueJob, Attempt
<1>16. CASE JobCompleted(d)
  BY <1>1, <1>2, <1>16, ConstantsAssumption
     DEF JobCompleted, JobUpdateMany, Goto, NoticeInv, Reported, IsFinal,
         Accumulates, Taken, NothingBeforeRequest, NothingBeforeEnqueue,
         AttemptsAreActive, AttemptHasPassword, DocumentRow, QueueJob, Attempt
<1>17. CASE DeliverCompleted(d)
  BY <1>1, <1>2, <1>17, ConstantsAssumption
     DEF DeliverCompleted, Deliver, Goto, NoticeInv, Reported, IsFinal,
         Accumulates, Taken, NothingBeforeRequest, NothingBeforeEnqueue,
         AttemptsAreActive, AttemptHasPassword, DocumentRow, QueueJob, Attempt
<1>18. CASE HandleFailure(d)
  BY <1>1, <1>2, <1>18, ConstantsAssumption
     DEF HandleFailure, JobUpdateMany, Goto, NoticeInv, Reported, IsFinal,
         Accumulates, Taken, NothingBeforeRequest, NothingBeforeEnqueue,
         AttemptsAreActive, AttemptHasPassword, DocumentRow, QueueJob, Attempt
<1>19. CASE Alert(d)
  <2>1. /\ attempt[d].pc = "alert" /\ queue'[d] = queue[d] /\ request'[d] = request[d]
        /\ documents'[d] = documents[d] /\ queue[d].state = "active"
        /\ attempt'[d].pc \in {"failedHook", "throw"}
    BY <1>1, <1>19 DEF Alert, Goto, AttemptsAreActive, Attempt, requestVars, storeVars
  <2>2. IsFinal(d) /\ IsFinal(d)'
    BY <1>2, <2>1 DEF NoticeInv, IsFinal
  <2>3. CASE announced'[d] = announced[d] /\ attempt'[d].pc = "throw" /\ errors' > 0
    <3>1. ~NoFaultSoFar'
      BY <2>3 DEF NoFaultSoFar
    <3> QED
      BY <1>2, <2>1, <2>2, <2>3, <3>1 DEF NoticeInv, Accumulates
  <2>4. CASE /\ announced'[d] \cap {"document.completed", "document.failed"}
                   = announced[d] \cap {"document.completed", "document.failed"}
             /\ HasRow(d) => "alert" \in announced'[d]
             /\ ~HasRow(d) => announced'[d] = announced[d]
             /\ attempt'[d].pc = IF request[d].webhook THEN "failedHook" ELSE "throw"
    <3>1. /\ "document.completed" \in announced'[d] => "document.completed" \in announced[d]
          /\ "document.failed" \in announced'[d] => "document.failed" \in announced[d]
      BY <2>4
    <3>2. HasRow(d)' = HasRow(d)
      BY <2>1 DEF HasRow
    <3> QED
      BY <1>2, <2>1, <2>2, <2>4, <3>1, <3>2 DEF NoticeInv, Reported, Accumulates
  <2>5. \/ \E told \in {{"alert"}, {"alert", "mail"}} :
              /\ announced' = [announced EXCEPT ![d] = IF HasRow(d) THEN @ \cup told ELSE @]
              /\ Goto(d, IF request[d].webhook THEN "failedHook" ELSE "throw")
        \/ announced' = announced /\ Goto(d, "throw") /\ errors' = errors + 1
    BY <1>19 DEF Alert, CallFails
  <2>6. announced[d] \in SUBSET Notices /\ errors \in Nat /\ attempt[d] \in Attempt
    BY <1>1
  <2> QED
    BY <1>1, <2>3, <2>4, <2>5, <2>6 DEF Goto, Attempt
<1>20. CASE DeliverFailed(d)
  BY <1>1, <1>2, <1>20, ConstantsAssumption
     DEF DeliverFailed, Deliver, Goto, NoticeInv, Reported, IsFinal,
         Accumulates, Taken, NothingBeforeRequest, NothingBeforeEnqueue,
         AttemptsAreActive, AttemptHasPassword, DocumentRow, QueueJob, Attempt
<1>21. CASE JobReturns(d)
  BY <1>1, <1>2, <1>21, ConstantsAssumption
     DEF JobReturns, Idle, NoticeInv, Reported, IsFinal, Accumulates, Taken,
         NothingBeforeRequest, NothingBeforeEnqueue, AttemptsAreActive,
         AttemptHasPassword, DocumentRow, QueueJob, Attempt
<1>22. CASE JobThrows(d)
  BY <1>1, <1>2, <1>22, ConstantsAssumption, SMTT(30)
     DEF JobThrows, Idle, RetriesLeft, NoticeInv, Reported, IsFinal,
         Accumulates, Taken, NothingBeforeRequest, NothingBeforeEnqueue,
         AttemptsAreActive, AttemptHasPassword, DocumentRow, QueueJob, Attempt
<1>23. CASE WorkerCrash(d)
  BY <1>1, <1>2, <1>23, ConstantsAssumption
     DEF WorkerCrash, Idle, NoticeInv, Reported, IsFinal, Accumulates, Taken,
         NothingBeforeRequest, NothingBeforeEnqueue, AttemptsAreActive,
         AttemptHasPassword, DocumentRow, QueueJob, Attempt
<1>24. CASE StalledCheck(d)
  <2>1. /\ crashes' # 0 /\ attempt'[d] = attempt[d] /\ attempt[d].pc = "idle"
    BY <1>1, <1>2, <1>24 DEF StalledCheck, QueueInv
  <2> QED
    BY <2>1 DEF NoticeInv
<1>25. ASSUME NEW r \in Removers, RemovalStep(r, d) PROVE NoticeInv(d)'
  BY <1>1, <1>2, <1>25
     DEF RemovalStep, RemoveRead, RemoveObject, RemoveRow, RemoveRetry, Reread,
         NoticeInv, Reported, IsFinal, Accumulates, Taken, DocumentRow,
         QueueJob, Attempt, Removal
<1> QED
  BY <1>3, <1>4, <1>5, <1>6, <1>7, <1>8, <1>9, <1>10, <1>11, <1>12, <1>13,
     <1>14, <1>15, <1>16, <1>17, <1>18, <1>19, <1>20, <1>21, <1>22, <1>23,
     <1>24, <1>25
     DEF DocStep, HandlerStep, AttemptStep

LEMMA InitOutcome == Init => OutcomeInv
<1> SUFFICES ASSUME Init, NEW d \in Docs
             PROVE StoreInv(d) /\ QueueInv(d) /\ NoticeInv(d)
  BY DEF OutcomeInv
<1> QED
  BY DEF Init, StoreInv, QueueInv, NoticeInv, HasRow

\* One document moves and the others stay.
LEMMA OutcomeStep == IInv /\ OutcomeInv /\ [Next]_vars => OutcomeInv'
<1> SUFFICES ASSUME IInv, OutcomeInv, [Next]_vars PROVE OutcomeInv'
  OBVIOUS
<1>1. Accumulates
  BY StepAccumulates
<1>2. CASE UNCHANGED vars
  <2>1. ASSUME NEW e \in Docs PROVE Same(e)
    BY <1>2 DEF vars, Same
  <2> QED
    BY <1>1, <2>1, SameKeepsOutcome DEF OutcomeInv
<1>3. ASSUME NEW d \in Docs, DocStep(d) \/ \E r \in Removers : RemovalStep(r, d)
      PROVE OutcomeInv'
  <2>1. StoreInv(d)' /\ QueueInv(d)' /\ NoticeInv(d)'
    BY <1>1, <1>3, StoreInvStep, QueueInvStep, NoticeInvStep
  <2>2. ASSUME NEW e \in Docs, e # d
        PROVE StoreInv(e)' /\ QueueInv(e)' /\ NoticeInv(e)'
    <3>1. Same(e)
      BY <1>3, <2>2, OthersSame
    <3> QED
      BY <1>1, <3>1, SameKeepsOutcome
  <2> QED
    BY <2>1, <2>2 DEF OutcomeInv
<1> QED
  BY <1>2, <1>3 DEF Next, DocStep

LEMMA OutcomeInductive == Spec => [](IInv /\ OutcomeInv)
<1> QED
  BY InitIInv, IInvStep, InitOutcome, OutcomeStep, PTL DEF Spec

\* Row and object tell the same of a file, whatever fails, dies or is removed
\* meanwhile: a file a row names is there until a removal takes it, and a
\* completed row says truly whether it is encrypted (pipeline.run).
THEOREM RowAndFileAgree == Spec => []StoreAgreesWithRow
<1>1. IInv /\ OutcomeInv => StoreAgreesWithRow
  <2> SUFFICES ASSUME IInv, OutcomeInv, NEW d \in Docs
               PROVE /\ documents[d].storageKey /\ objects[d] = "none" => Taken(d)
                     /\ documents[d].status = "completed"
                           => /\ documents[d].storageKey
                              /\ documents[d].isEncrypted = request[d].protected
                     /\ NoFaultSoFar /\ objects[d] # "none" /\ HasRow(d)
                           /\ ~documents[d].storageKey => attempt[d].pc = "commit"
    BY DEF StoreAgreesWithRow, Taken
  <2> QED
    BY DEF OutcomeInv, StoreInv, HasRow
<1> QED
  BY OutcomeInductive, <1>1, PTL

\* A finished job and its row agree.  A completed job has a completed row
\* whatever happened; a failed job left a failed row, unless its secret expired
\* before anything started, only until a process died or a call was refused
\* (NoFaultSoFar; render.worker.ts process, pipeline.run).
THEOREM FinishedJobsAgree == Spec => []QueueAgreesWithDocument
<1>1. OutcomeInv => QueueAgreesWithDocument
  BY DEF OutcomeInv, QueueInv, QueueAgreesWithDocument
<1> QED
  BY OutcomeInductive, <1>1, PTL

\* Until a process died or a call was refused, an unprotected job that used up
\* its attempts was reported: the mailer was asked, and the failed event sent to
\* a webhook.  Without a process death no mail and no failed event follow a
\* completed event (process()'s catch block).
THEOREM FailuresAreReported == Spec => []FailureIsReported
<1>1. IInv /\ OutcomeInv => FailureIsReported
  <2> SUFFICES ASSUME IInv, OutcomeInv, NEW d \in Docs
               PROVE /\ queue[d].state = "failed" /\ ~request[d].protected
                           /\ NoFaultSoFar => Reported(d)
                     /\ crashes = 0 /\ "document.completed" \in announced[d] =>
                           announced[d] \cap {"mail", "document.failed"} = {}
    BY DEF FailureIsReported, Reported
  <2>1. NoticeInv(d) /\ (attempt[d].pc # "idle" => queue[d].state = "active")
    BY DEF IInv, AttemptsAreActive, OutcomeInv
  <2> QED
    BY <2>1 DEF NoticeInv
<1> QED
  BY OutcomeInductive, <1>1, PTL

-----------------------------------------------------------------------------
(* The password, as OneTimeSecret sees it.                                 *)

Sealed(d) == objects[d] = "encrypted"

\* The stage of a password that is in one place.
Stage(d) ==
    IF vault[d] THEN "kept"
    ELSE IF attempt[d].protection THEN "held"
    ELSE IF handler[d] \in {"idle", "store"} THEN "new"
    ELSE "spent"

\* What a step may do with one password, in the words of OneTimeSecret.
StageMoves(d) ==
    /\ Sealed(d)' = Sealed(d)
    /\ \/ Stage(d)' = Stage(d)
       \/ Stage(d) = "new" /\ Stage(d)' = "kept"
       \/ Stage(d) = "kept" /\ Stage(d)' = "held"
       \/ Stage(d)' = "spent"

FileMoves(d) ==
    /\ Stage(d)' = Stage(d)
    /\ Sealed(d)' => Sealed(d) \/ Stage(d) = "held"

\* Such a step of one document is a step of OneTimeSecret.
LEMMA OneSecretMoves ==
    ASSUME SecretInOnePlace, SecretInOnePlace', NEW d \in Docs,
           \A e \in Docs \ {d} : Same(e), StageMoves(d) \/ FileMoves(d)
    PROVE  [Secret!Next]_(Secret!vars)
<1> DEFINE stage == [e \in Docs |-> SecretStage(e)]
           sealed == [e \in Docs |-> Sealed(e)]
<1>0. \A e \in Docs : SecretStage(e) = Stage(e) /\ SecretStage(e)' = Stage(e)'
  BY DEF SecretInOnePlace, SecretStage, Stage
<1>1. \A e \in Docs \ {d} : Stage(e)' = Stage(e) /\ Sealed(e)' = Sealed(e)
  BY DEF Same, Stage, Sealed
<1>2. stage' = [stage EXCEPT ![d] = Stage(d)']
  BY <1>0, <1>1
<1>3. Sealed(d)' \in BOOLEAN /\ sealed' = [sealed EXCEPT ![d] = Sealed(d)']
  BY <1>1 DEF Sealed
<1>4. stage[d] = Stage(d) /\ sealed[d] = Sealed(d)
  BY <1>0
<1>5. ASSUME Stage(d)' = Stage(d) PROVE stage' = stage
  BY <1>0, <1>1, <1>5
<1>6. ASSUME Sealed(d)' = Sealed(d) PROVE sealed' = sealed
  BY <1>1, <1>6
<1>7. CASE StageMoves(d)
  <2>1. sealed' = sealed
    BY <1>6, <1>7 DEF StageMoves
  <2> HIDE DEF stage, sealed
  <2>2. \/ stage' = stage
        \/ stage[d] = "new" /\ stage' = [stage EXCEPT ![d] = "kept"]
        \/ stage[d] = "kept" /\ stage' = [stage EXCEPT ![d] = "held"]
        \/ stage' = [stage EXCEPT ![d] = "spent"]
    BY <1>2, <1>4, <1>5, <1>7 DEF StageMoves
  <2> QED
    BY <2>1, <2>2 DEF stage, sealed, Sealed, Secret!Next, Secret!vars, Secret!Keep,
       Secret!Take, Secret!Forget
<1>8. CASE FileMoves(d)
  <2>1. stage' = stage
    BY <1>5, <1>8 DEF FileMoves
  <2> HIDE DEF stage, sealed
  <2>2. \/ sealed' = sealed
        \/ stage[d] = "held" /\ sealed' = [sealed EXCEPT ![d] = TRUE]
        \/ sealed' = [sealed EXCEPT ![d] = FALSE]
    BY <1>3, <1>4, <1>6, <1>8 DEF FileMoves, Sealed
  <2> QED
    BY <2>1, <2>2 DEF stage, sealed, Sealed, Secret!Next, Secret!vars, Secret!Seal,
       Secret!RemoveFile
<1> QED
  BY <1>7, <1>8

\* What the handler does with the password of its request.
LEMMA HandlerKeepsSecret ==
    ASSUME IInv, NEW d \in Docs, Reserve(d) \/ HandlerStep(d) \/ HandlerCrash(d)
    PROVE  StageMoves(d)
<1>1. handler \in [Docs -> HandlerPCs] /\ vault \in [Docs -> BOOLEAN]
  BY DEF IInv, TypeOK
<1>2. handler[d] = "idle" => ~vault[d]
  BY DEF IInv, NothingBeforeRequest
<1>3. handler[d] \in {"idle", "store", "enqueue"} => ~attempt[d].protection
  BY DEF IInv, NothingBeforeEnqueue
<1>4. CASE Reserve(d)
  BY <1>1, <1>2, <1>3, <1>4 DEF Reserve, StageMoves, Stage, Sealed
<1>5. CASE StoreSecret(d)
  BY <1>1, <1>3, <1>5 DEF StoreSecret, storeVars, StageMoves, Stage, Sealed
<1>6. CASE Enqueue(d) \/ Discard(d)
  BY <1>1, <1>3, <1>6 DEF Enqueue, Discard, storeVars, StageMoves, Stage, Sealed
<1>7. CASE RecordJob(d)
  BY <1>1, <1>7 DEF RecordJob, RecordedJob, StageMoves, Stage, Sealed
<1>8. CASE HandlerCrash(d)
  BY <1>1, <1>8 DEF HandlerCrash, storeVars, StageMoves, Stage, Sealed
<1> QED
  BY <1>4, <1>5, <1>6, <1>7, <1>8 DEF HandlerStep

\* What an attempt does with it: take, hold, and let go at its end.
LEMMA AttemptTakesSecret ==
    ASSUME IInv, NEW d \in Docs,
           \/ SecretExpires(d) \/ Pickup(d) \/ TakeSecret(d)
           \/ JobReturns(d) \/ JobThrows(d) \/ WorkerCrash(d)
    PROVE  StageMoves(d)
<1>1. /\ handler \in [Docs -> HandlerPCs] /\ vault \in [Docs -> BOOLEAN]
      /\ attempt \in [Docs -> Attempt]
  BY DEF IInv, TypeOK
<1>2. attempt[d].pc # "idle" \/ queue[d].state # "none" => handler[d] \notin {"idle", "store"}
  BY DEF IInv, NothingBeforeEnqueue
<1>3. vault[d] => ~attempt[d].protection
  BY DEF IInv, SecretInOnePlace
<1>4. CASE SecretExpires(d)
  <2>1. vault[d] /\ ~attempt[d].protection /\ handler[d] \notin {"idle", "store"}
    BY <1>3, <1>4 DEF SecretExpires, IInv, NothingBeforeRequest, VaultWasAsked
  <2> QED
    BY <1>1, <1>4, <2>1
       DEF SecretExpires, requestVars, storeVars, StageMoves, Stage, Sealed
<1>5. CASE Pickup(d)
  BY <1>1, <1>2, <1>5 DEF Pickup, requestVars, storeVars, StageMoves, Stage, Sealed
<1>6. CASE TakeSecret(d)
  BY <1>1, <1>2, <1>6 DEF TakeSecret, AfterTake, Goto, Attempt, requestVars, storeVars,
     StageMoves, Stage, Sealed
<1>7. CASE JobReturns(d) \/ JobThrows(d) \/ WorkerCrash(d)
  BY <1>1, <1>2, <1>7 DEF JobReturns, JobThrows, WorkerCrash, Idle, requestVars, storeVars,
     StageMoves, Stage, Sealed
<1> QED
  BY <1>4, <1>5, <1>6, <1>7

\* The steps that leave the password where it is, and perhaps write the file:
\* only an attempt that holds it encrypts.
LEMMA OthersKeepSecret ==
    ASSUME IInv, NEW d \in Docs,
           \/ MarkActive(d) \/ StartRender(d) \/ RenderAndStore(d) \/ Commit(d)
           \/ RecordFailure(d) \/ JobCompleted(d) \/ DeliverCompleted(d)
           \/ HandleFailure(d) \/ Alert(d) \/ DeliverFailed(d) \/ StalledCheck(d)
           \/ \E r \in Removers : RemovalStep(r, d)
    PROVE  FileMoves(d)
<1>1. attempt \in [Docs -> Attempt] /\ objects \in [Docs -> Objects]
  BY DEF IInv, TypeOK
<1>2. vault[d] => ~attempt[d].protection
  BY DEF IInv, SecretInOnePlace
<1>3. CASE RenderAndStore(d)
  <2>1. /\ attempt'[d].protection = attempt[d].protection
        /\ UNCHANGED <<handler, vault>>
    BY <1>1, <1>3 DEF RenderAndStore, PutFails, Goto, Attempt, requestVars
  <2>2. objects'[d] = objects[d] \/ objects'[d] = Rendered(d)
    BY <1>1, <1>3 DEF RenderAndStore, PutFails
  <2> QED
    BY <1>2, <2>1, <2>2 DEF Rendered, FileMoves, Stage, Sealed
<1>4. CASE \/ MarkActive(d) \/ StartRender(d) \/ Commit(d) \/ RecordFailure(d)
           \/ JobCompleted(d) \/ DeliverCompleted(d) \/ HandleFailure(d) \/ Alert(d)
           \/ DeliverFailed(d) \/ StalledCheck(d)
  <2>1. /\ attempt'[d].protection = attempt[d].protection
        /\ UNCHANGED <<handler, vault, objects>>
    BY <1>1, <1>4 DEF MarkActive, StartRender, Commit, Committed, RecordFailure, JobCompleted,
       DeliverCompleted, HandleFailure, Alert, DeliverFailed, Deliver, StalledCheck, Goto,
       Attempt, requestVars, storeVars
  <2> QED
    BY <2>1 DEF FileMoves, Stage, Sealed
<1>5. ASSUME NEW r \in Removers, RemovalStep(r, d) PROVE FileMoves(d)
  <2>1. UNCHANGED <<handler, vault, attempt>> /\ (objects' = objects \/ objects'[d] = "none")
    BY <1>1, <1>5 DEF RemovalStep, RemoveRead, RemoveObject, RemoveRow, RemoveRetry, Reread,
       requestVars, storeVars
  <2> QED
    BY <2>1 DEF FileMoves, Stage, Sealed
<1> QED
  BY <1>3, <1>4, <1>5

\* The password of a queued render is kept once and taken once, and only who
\* took it encrypts with it (secrets.vault.ts, render.worker.ts).
THEOREM PasswordIsUsedOnce == Spec => SecretSpec
<1>1. Init => Secret!Init
  <2> SUFFICES ASSUME Init PROVE Secret!Init
    OBVIOUS
  <2>1. \A d \in Docs : SecretStage(d) = "new" /\ objects[d] # "encrypted"
    BY DEF Init, SecretStage
  <2> QED
    BY <2>1 DEF Secret!Init
<1>2. IInv /\ IInv' /\ [Next]_vars => [Secret!Next]_(Secret!vars)
  <2> SUFFICES ASSUME IInv, IInv', [Next]_vars PROVE [Secret!Next]_(Secret!vars)
    OBVIOUS
  <2>1. ASSUME NEW d \in Docs, DocStep(d) \/ \E r \in Removers : RemovalStep(r, d)
        PROVE  [Secret!Next]_(Secret!vars)
    <3>1. \A e \in Docs \ {d} : Same(e)
      BY <2>1, OthersSame
    <3>2. StageMoves(d) \/ FileMoves(d)
      BY <2>1, HandlerKeepsSecret, AttemptTakesSecret, OthersKeepSecret
         DEF DocStep, AttemptStep
    <3> QED
      BY <3>1, <3>2, OneSecretMoves DEF IInv
  <2>2. CASE UNCHANGED vars
    BY <2>2 DEF vars, Secret!vars, SecretStage
  <2> QED
    BY <2>1, <2>2 DEF Next, DocStep
<1> QED
  BY <1>1, <1>2, Inductive, PTL DEF Spec, SecretSpec, Secret!Spec

=============================================================================
