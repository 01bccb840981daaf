-------------------------- MODULE IdempotencyProofs --------------------------
(***************************************************************************)
(* Proofs about Idempotency, for any number of requests and any bounds on  *)
(* the faults: the inductive invariant IInv, and from it that one request  *)
(* renders at a time, that there is one document, that no failure is       *)
(* replayed and that a recorded document is final.                         *)
(***************************************************************************)
EXTENDS Idempotency, FiniteSetTheorems, TLAPS

USE DEF Reply, Goto, NoFault, CallFails, faultVars

\* Every step keeps the types.
LEMMA TypeStep == ASSUME TypeOK, FulfilHasDocument, [Next]_vars PROVE TypeOK'
<1> USE ConstantsAssumption DEF TypeOK, Working
<1>1. CASE UNCHANGED vars
  BY <1>1 DEF vars
<1>2. ASSUME NEW r \in Requests, Send(r) PROVE TypeOK'
  BY <1>2 DEF Send
<1>3. ASSUME NEW r \in Requests, SetNX(r) PROVE TypeOK'
  BY <1>3 DEF SetNX
<1>4. ASSUME NEW r \in Requests, Get(r) PROVE TypeOK'
  BY <1>4 DEF Get
<1>12. ASSUME NEW r \in Requests, ReadDocument(r) PROVE TypeOK'
  BY <1>12 DEF ReadDocument
<1>13. ASSUME NEW r \in Requests, SignUrl(r) PROVE TypeOK'
  BY <1>13 DEF SignUrl, FulfilHasDocument
<1>5. ASSUME NEW r \in Requests, Render(r) PROVE TypeOK'
  BY <1>5 DEF Render
<1>6. ASSUME NEW r \in Requests, Fulfil(r) PROVE TypeOK'
  BY <1>6 DEF Fulfil, Fulfilled
<1>7. ASSUME NEW r \in Requests, Release(r) PROVE TypeOK'
  BY <1>7 DEF Release, KeyReleased
<1>8. ASSUME NEW r \in Requests, Crash(r) PROVE TypeOK'
  BY <1>8 DEF Crash
<1>9. ASSUME NEW r \in Requests, Remove(r) PROVE TypeOK'
  BY <1>9 DEF Remove
<1>10. CASE ClaimExpires
  BY <1>10 DEF ClaimExpires
<1>11. QED
  BY <1>1, <1>2, <1>3, <1>4, <1>5, <1>6, <1>7, <1>8, <1>9, <1>10, <1>12, <1>13
  DEF Next, RequestStep

\* The claim comes before the work, whatever a step does.
LEMMA ClaimStep == ASSUME TypeOK, ClaimBeforeWork, [Next]_vars PROVE ClaimBeforeWork'
<1> USE DEF TypeOK, ClaimBeforeWork, Working
<1>1. CASE UNCHANGED vars
  BY <1>1 DEF vars
<1>2. ASSUME NEW r \in Requests, Send(r) PROVE ClaimBeforeWork'
  BY <1>2 DEF Send
<1>3. ASSUME NEW r \in Requests, SetNX(r) PROVE ClaimBeforeWork'
  BY <1>3 DEF SetNX
<1>4. ASSUME NEW r \in Requests, Get(r) PROVE ClaimBeforeWork'
  BY <1>4 DEF Get
<1>12. ASSUME NEW r \in Requests, ReadDocument(r) PROVE ClaimBeforeWork'
  BY <1>12 DEF ReadDocument
<1>13. ASSUME NEW r \in Requests, SignUrl(r) PROVE ClaimBeforeWork'
  BY <1>13 DEF SignUrl
<1>5. ASSUME NEW r \in Requests, Render(r) PROVE ClaimBeforeWork'
  BY <1>5 DEF Render
<1>6. ASSUME NEW r \in Requests, Fulfil(r) PROVE ClaimBeforeWork'
  BY <1>6 DEF Fulfil
<1>7. ASSUME NEW r \in Requests, Release(r) PROVE ClaimBeforeWork'
  BY <1>7 DEF Release
<1>8. ASSUME NEW r \in Requests, Crash(r) PROVE ClaimBeforeWork'
  BY <1>8 DEF Crash
<1>9. ASSUME NEW r \in Requests, Remove(r) PROVE ClaimBeforeWork'
  BY <1>9 DEF Remove
<1>10. CASE ClaimExpires
  BY <1>10 DEF ClaimExpires
<1>11. QED
  BY <1>1, <1>2, <1>3, <1>4, <1>5, <1>6, <1>7, <1>8, <1>9, <1>10, <1>12, <1>13
  DEF Next, RequestStep

\* A step after which claims hold began in a state where they held: nothing
\* takes an expiry or a let-through request back.
LEMMA ClaimsHeldBefore ==
  ASSUME TypeOK, ClaimBeforeWork, [Next]_vars, ClaimsHold' PROVE ClaimsHold
<1> USE DEF TypeOK, ClaimBeforeWork, Working, ClaimsHold
<1>1. CASE UNCHANGED vars
  BY <1>1 DEF vars
<1>2. ASSUME NEW r \in Requests, Send(r) PROVE ClaimsHold
  BY <1>2 DEF Send
<1>3. ASSUME NEW r \in Requests, SetNX(r) PROVE ClaimsHold
  BY <1>3 DEF SetNX
<1>4. ASSUME NEW r \in Requests, Get(r) PROVE ClaimsHold
  BY <1>4 DEF Get
<1>12. ASSUME NEW r \in Requests, ReadDocument(r) PROVE ClaimsHold
  BY <1>12 DEF ReadDocument
<1>13. ASSUME NEW r \in Requests, SignUrl(r) PROVE ClaimsHold
  BY <1>13 DEF SignUrl
<1>5. ASSUME NEW r \in Requests, Render(r) PROVE ClaimsHold
  BY <1>5 DEF Render
<1>6. ASSUME NEW r \in Requests, Fulfil(r) PROVE ClaimsHold
  BY <1>6 DEF Fulfil
<1>7. ASSUME NEW r \in Requests, Release(r) PROVE ClaimsHold
  BY <1>7 DEF Release
<1>8. ASSUME NEW r \in Requests, Crash(r) PROVE ClaimsHold
  BY <1>8 DEF Crash
<1>9. ASSUME NEW r \in Requests, Remove(r) PROVE ClaimsHold
  BY <1>9 DEF Remove
<1>10. CASE ClaimExpires
  BY <1>10 DEF ClaimExpires
<1>11. QED
  BY <1>1, <1>2, <1>3, <1>4, <1>5, <1>6, <1>7, <1>8, <1>9, <1>10, <1>12, <1>13
  DEF Next, RequestStep

\* While claims hold, the one request that renders does so under the key's
\* claim, so no step brings a second one and none but its own moves the key.
LEMMA OneWinsStep ==
  ASSUME TypeOK, ClaimBeforeWork, ExactlyOneWins, [Next]_vars
  PROVE  ExactlyOneWins'
<1> SUFFICES ASSUME ClaimsHold'
             PROVE  \A r \in Requests :
                       pc'[r] \in Working =>
                         key' = Pending
                         /\ \A s \in Requests : pc'[s] \in Working => s = r
  BY DEF ExactlyOneWins
<1>0. ClaimsHold
  BY ClaimsHeldBefore
<1>a. ASSUME NEW r \in Requests, pc[r] \in Working
      PROVE  /\ key = Pending
             /\ \A s \in Requests : pc[s] \in Working => s = r
  BY <1>0, <1>a DEF ExactlyOneWins
<1> HIDE DEF ClaimsHold
<1> USE ConstantsAssumption DEF TypeOK, Working
<1>1. CASE UNCHANGED vars
  BY <1>1, <1>a DEF vars
<1>2. ASSUME NEW r \in Requests, Send(r)
      PROVE  \A q \in Requests : pc'[q] \in Working =>
               key' = Pending /\ \A s \in Requests : pc'[s] \in Working => s = q
  BY <1>2, <1>a DEF Send
<1>3. ASSUME NEW r \in Requests, SetNX(r)
      PROVE  \A q \in Requests : pc'[q] \in Working =>
               key' = Pending /\ \A s \in Requests : pc'[s] \in Working => s = q
  BY <1>3, <1>a DEF SetNX
<1>4. ASSUME NEW r \in Requests, Get(r)
      PROVE  \A q \in Requests : pc'[q] \in Working =>
               key' = Pending /\ \A s \in Requests : pc'[s] \in Working => s = q
  <2>1. ~(key = Absent /\ claimedBy' = [claimedBy EXCEPT ![r] = "get"])
    BY DEF ClaimsHold
  <2>2. key' = key /\ \E to \in {"read", "done"} : pc' = [pc EXCEPT ![r] = to]
    BY <1>4, <2>1 DEF Get
  <2>3. QED
    BY <2>2, <1>a
<1>12. ASSUME NEW r \in Requests, ReadDocument(r) \/ SignUrl(r)
       PROVE  \A q \in Requests : pc'[q] \in Working =>
                key' = Pending /\ \A s \in Requests : pc'[s] \in Working => s = q
  <2>1. key' = key /\ \E to \in {"url", "done"} : pc' = [pc EXCEPT ![r] = to]
    BY <1>12 DEF ReadDocument, SignUrl
  <2>2. QED
    BY <2>1, <1>a
<1>5. ASSUME NEW r \in Requests, Render(r)
      PROVE  \A q \in Requests : pc'[q] \in Working =>
               key' = Pending /\ \A s \in Requests : pc'[s] \in Working => s = q
  BY <1>5, <1>a DEF Render
<1>6. ASSUME NEW r \in Requests, Fulfil(r)
      PROVE  \A q \in Requests : pc'[q] \in Working =>
               key' = Pending /\ \A s \in Requests : pc'[s] \in Working => s = q
  BY <1>6, <1>a DEF Fulfil
<1>7. ASSUME NEW r \in Requests, Release(r)
      PROVE  \A q \in Requests : pc'[q] \in Working =>
               key' = Pending /\ \A s \in Requests : pc'[s] \in Working => s = q
  BY <1>7, <1>a DEF Release
<1>8. ASSUME NEW r \in Requests, Crash(r)
      PROVE  \A q \in Requests : pc'[q] \in Working =>
               key' = Pending /\ \A s \in Requests : pc'[s] \in Working => s = q
  BY <1>8, <1>a DEF Crash
<1>9. ASSUME NEW r \in Requests, Remove(r)
      PROVE  \A q \in Requests : pc'[q] \in Working =>
               key' = Pending /\ \A s \in Requests : pc'[s] \in Working => s = q
  BY <1>9, <1>a DEF Remove
<1>10. CASE ClaimExpires
  <2>1. Owners = {}
    <3>1. expiries' = 0
      BY DEF ClaimsHold
    <3>2. QED
      BY <1>10, <3>1 DEF ClaimExpires
  <2>2. \A q \in Requests : pc[q] \notin Working
    <3>1. ASSUME NEW q \in Requests, pc[q] \in Working PROVE FALSE
      <4>1. claimedBy[q] = "set"
        BY <1>0, <3>1 DEF ClaimBeforeWork, ClaimsHold
      <4>2. QED
        BY <2>1, <3>1, <4>1 DEF Owners
    <3>2. QED
      BY <3>1
  <2>3. QED
    BY <1>10, <2>2 DEF ClaimExpires
<1>11. QED
  BY <1>1, <1>2, <1>3, <1>4, <1>5, <1>6, <1>7, <1>8, <1>9, <1>10, <1>12
  DEF Next, RequestStep

\* While claims hold, no step changes a key that names a document: only the
\* request that renders would, and there is none.
LEMMA FinalStep ==
  ASSUME TypeOK, ExactlyOneWins, [Next]_vars, ClaimsHold, key \in Requests
  PROVE  key' = key
<1> USE ConstantsAssumption DEF TypeOK, Working
<1>a. \A r \in Requests : pc[r] \notin Working
  BY DEF ExactlyOneWins
<1>1. CASE UNCHANGED vars
  BY <1>1 DEF vars
<1>2. ASSUME NEW r \in Requests, Send(r) PROVE key' = key
  BY <1>2 DEF Send
<1>3. ASSUME NEW r \in Requests, SetNX(r) PROVE key' = key
  BY <1>3 DEF SetNX
<1>4. ASSUME NEW r \in Requests, Get(r) PROVE key' = key
  BY <1>4 DEF Get
<1>12. ASSUME NEW r \in Requests, ReadDocument(r) PROVE key' = key
  BY <1>12 DEF ReadDocument
<1>13. ASSUME NEW r \in Requests, SignUrl(r) PROVE key' = key
  BY <1>13 DEF SignUrl
<1>5. ASSUME NEW r \in Requests, Render(r) PROVE key' = key
  BY <1>5 DEF Render
<1>6. ASSUME NEW r \in Requests, Fulfil(r) PROVE key' = key
  BY <1>6, <1>a DEF Fulfil
<1>7. ASSUME NEW r \in Requests, Release(r) PROVE key' = key
  BY <1>7, <1>a DEF Release
<1>8. ASSUME NEW r \in Requests, Crash(r) PROVE key' = key
  BY <1>8 DEF Crash
<1>9. ASSUME NEW r \in Requests, Remove(r) PROVE key' = key
  BY <1>9 DEF Remove
<1>10. CASE ClaimExpires
  BY <1>10 DEF ClaimExpires
<1>11. QED
  BY <1>1, <1>2, <1>3, <1>4, <1>5, <1>6, <1>7, <1>8, <1>9, <1>10, <1>12, <1>13
  DEF Next, RequestStep

\* What is recorded or answered was completed, whatever a step does.
LEMMA ReplayStep ==
  ASSUME TypeOK, FulfilHasDocument, NoFailureIsReplayed, [Next]_vars
  PROVE  FulfilHasDocument' /\ NoFailureIsReplayed'
<1> USE ConstantsAssumption DEF TypeOK, FulfilHasDocument, NoFailureIsReplayed
<1> DEFINE Goal == FulfilHasDocument' /\ NoFailureIsReplayed'
<1>1. CASE UNCHANGED vars
  BY <1>1 DEF vars
<1>2. ASSUME NEW r \in Requests, Send(r) PROVE Goal
  BY <1>2 DEF Send
<1>3. ASSUME NEW r \in Requests, SetNX(r) PROVE Goal
  BY <1>3 DEF SetNX
<1>4. ASSUME NEW r \in Requests, Get(r) PROVE Goal
  BY <1>4 DEF Get
<1>12. ASSUME NEW r \in Requests, ReadDocument(r) PROVE Goal
  BY <1>12 DEF ReadDocument
<1>13. ASSUME NEW r \in Requests, SignUrl(r) PROVE Goal
  BY <1>13 DEF SignUrl
<1>5. ASSUME NEW r \in Requests, Render(r) PROVE Goal
  BY <1>5 DEF Render
<1>6. ASSUME NEW r \in Requests, Fulfil(r) PROVE Goal
  BY <1>6 DEF Fulfil, Fulfilled
<1>7. ASSUME NEW r \in Requests, Release(r) PROVE Goal
  BY <1>7 DEF Release, KeyReleased
<1>8. ASSUME NEW r \in Requests, Crash(r) PROVE Goal
  BY <1>8 DEF Crash
<1>9. ASSUME NEW r \in Requests, Remove(r) PROVE Goal
  BY <1>9 DEF Remove
<1>10. CASE ClaimExpires
  BY <1>10 DEF ClaimExpires
<1>11. QED
  BY <1>1, <1>2, <1>3, <1>4, <1>5, <1>6, <1>7, <1>8, <1>9, <1>10, <1>12, <1>13
  DEF Next, RequestStep

\* While claims hold and nothing fails or dies, every document is on its way to
\* the key or named by it.
LEMMA RecordedStep ==
  ASSUME TypeOK, ClaimBeforeWork, ExactlyOneWins, DocumentIsRecorded, [Next]_vars
  PROVE  DocumentIsRecorded'
<1> SUFFICES ASSUME ClaimsHold', crashes' = 0, errors' = 0,
                    NEW d \in Requests, rows'[d] # "none"
             PROVE  pc'[d] = "fulfil" \/ key' = d
  BY DEF DocumentIsRecorded
<1>0. ClaimsHold
  BY ClaimsHeldBefore
<1>b. key = d => key' = d
  BY <1>0, FinalStep
<1> USE DEF TypeOK
<1>1. CASE UNCHANGED vars
  BY <1>1, <1>0, <1>b DEF vars, DocumentIsRecorded
<1>2. ASSUME NEW r \in Requests, Send(r) PROVE pc'[d] = "fulfil" \/ key' = d
  BY <1>2, <1>0, <1>b DEF Send, DocumentIsRecorded
<1>3. ASSUME NEW r \in Requests, SetNX(r) PROVE pc'[d] = "fulfil" \/ key' = d
  BY <1>3, <1>0, <1>b DEF SetNX, DocumentIsRecorded
<1>4. ASSUME NEW r \in Requests, Get(r) PROVE pc'[d] = "fulfil" \/ key' = d
  BY <1>4, <1>0, <1>b DEF Get, DocumentIsRecorded
<1>12. ASSUME NEW r \in Requests, ReadDocument(r) PROVE pc'[d] = "fulfil" \/ key' = d
  BY <1>12, <1>0, <1>b DEF ReadDocument, DocumentIsRecorded
<1>13. ASSUME NEW r \in Requests, SignUrl(r) PROVE pc'[d] = "fulfil" \/ key' = d
  BY <1>13, <1>0, <1>b DEF SignUrl, DocumentIsRecorded
<1>5. ASSUME NEW r \in Requests, Render(r) PROVE pc'[d] = "fulfil" \/ key' = d
  <2>1. CASE d = r
    <3>1. key = Pending
      BY <1>5, <1>0 DEF Render, ExactlyOneWins, Working
    <3>2. rows[d] = "none"
      BY <1>5, <1>0, <2>1, <3>1, ConstantsAssumption DEF Render, DocumentIsRecorded
    <3>3. QED
      BY <1>5, <2>1, <3>2 DEF Render
  <2>2. CASE d # r
    BY <1>5, <1>0, <1>b, <2>2 DEF Render, DocumentIsRecorded
  <2>3. QED
    BY <2>1, <2>2
<1>6. ASSUME NEW r \in Requests, Fulfil(r) PROVE pc'[d] = "fulfil" \/ key' = d
  BY <1>6, <1>0, <1>b DEF Fulfil, Fulfilled, DocumentIsRecorded
<1>7. ASSUME NEW r \in Requests, Release(r) PROVE pc'[d] = "fulfil" \/ key' = d
  BY <1>7, <1>0, <1>b DEF Release, DocumentIsRecorded
<1>8. ASSUME NEW r \in Requests, Crash(r) PROVE pc'[d] = "fulfil" \/ key' = d
  BY <1>8, <1>0, <1>b DEF Crash, DocumentIsRecorded
<1>9. ASSUME NEW r \in Requests, Remove(r) PROVE pc'[d] = "fulfil" \/ key' = d
  BY <1>9, <1>0, <1>b DEF Remove, DocumentIsRecorded
<1>10. CASE ClaimExpires
  BY <1>10, <1>0, <1>b DEF ClaimExpires, DocumentIsRecorded
<1>11. QED
  BY <1>1, <1>2, <1>3, <1>4, <1>5, <1>6, <1>7, <1>8, <1>9, <1>10, <1>12, <1>13
  DEF Next, RequestStep

\* IInv holds of a key nobody has used.
LEMMA InitIInv == ASSUME Init PROVE IInv
BY ConstantsAssumption
   DEF Init, IInv, TypeOK, ClaimBeforeWork, FulfilHasDocument, ExactlyOneWins,
       NoFailureIsReplayed, DocumentIsRecorded, Working

\* Every step keeps IInv.
LEMMA IInvStep == ASSUME IInv, [Next]_vars PROVE IInv'
BY TypeStep, ClaimStep, OneWinsStep, ReplayStep, RecordedStep DEF IInv

\* IInv holds in every reachable state.
THEOREM Inductive == Spec => []IInv
<1>1. Init => IInv
  BY InitIInv
<1>2. IInv /\ [Next]_vars => IInv'
  BY IInvStep
<1>3. QED
  BY <1>1, <1>2, PTL DEF Spec

\* Every variable keeps its type, for any number of retries.
THEOREM TypeCorrect == Spec => []TypeOK
<1>1. IInv => TypeOK
  BY DEF IInv
<1>2. QED
  BY <1>1, Inductive, PTL

\* While claims hold, however many requests retry a call, one renders at a
\* time and the key is its claim (IdempotencyService.claim).
THEOREM OneWinner == Spec => []ExactlyOneWins
<1>1. IInv => ExactlyOneWins
  BY DEF IInv
<1>2. QED
  BY <1>1, Inductive, PTL

\* No failed render is ever recorded or replayed, without any assumption on
\* claims, faults or expiries (PdfController.render).
THEOREM NoFailureReplayed == Spec => []NoFailureIsReplayed
<1>1. IInv => NoFailureIsReplayed
  BY DEF IInv
<1>2. QED
  BY <1>1, Inductive, PTL

\* While claims hold and nothing fails or dies, however many requests retry a
\* call there is at most one document and all answers name it.
THEOREM OneDocumentPerKey == Spec => []OneDocument
<1>1. ASSUME IInv PROVE OneDocument
  <2> SUFFICES ASSUME ClaimsHold, crashes = 0, errors = 0
               PROVE  /\ Cardinality({r \in Requests : rows[r] # "none"}) <= 1
                      /\ \A r, s \in Requests :
                            answer[r] \in Requests /\ answer[s] \in Requests
                               => answer[r] = answer[s]
    BY DEF OneDocument
  <2>1. ASSUME NEW r \in Requests, NEW s \in Requests,
               rows[r] # "none", rows[s] # "none"
        PROVE  r = s
    <3>1. pc[r] = "fulfil" \/ key = r
      BY <1>1, <2>1 DEF IInv, DocumentIsRecorded
    <3>2. pc[s] = "fulfil" \/ key = s
      BY <1>1, <2>1 DEF IInv, DocumentIsRecorded
    <3>3. \A q \in Requests : pc[q] = "fulfil" =>
             key = Pending /\ \A u \in Requests : pc[u] = "fulfil" => u = q
      BY <1>1 DEF IInv, ExactlyOneWins, Working
    <3>4. QED
      BY <3>1, <3>2, <3>3, ConstantsAssumption
  <2>2. Cardinality({r \in Requests : rows[r] # "none"}) <= 1
    <3> DEFINE D == {r \in Requests : rows[r] # "none"}
    <3>1. CASE D = {}
      BY <3>1, FS_EmptySet
    <3>2. ASSUME NEW d \in D PROVE Cardinality(D) <= 1
      <4>1. D = {d}
        BY <2>1, <3>2
      <4>2. QED
        BY <4>1, FS_Singleton
    <3>3. QED
      BY <3>1, <3>2
  <2>3. ASSUME NEW r \in Requests, NEW s \in Requests,
               answer[r] \in Requests, answer[s] \in Requests
        PROVE  answer[r] = answer[s]
    <3>1. rows[answer[r]] # "none" /\ rows[answer[s]] # "none"
      BY <1>1, <2>3 DEF IInv, NoFailureIsReplayed
    <3>2. QED
      BY <2>1, <2>3, <3>1
  <2>4. QED
    BY <2>2, <2>3
<1>2. QED
  BY <1>1, Inductive, PTL

\* While claims hold, a key that names a document names it for good.
THEOREM RecordedForGood == Spec => RecordedIsFinal
<1>1. ASSUME IInv, [Next]_vars
      PROVE  [ClaimsHold /\ key \in Requests => key' = key]_vars
  BY <1>1, FinalStep DEF IInv
<1>2. QED
  BY <1>1, Inductive, PTL DEF Spec, RecordedIsFinal

=============================================================================
