---------------------------- MODULE LibraryProofs ----------------------------
(***************************************************************************)
(* Theorems about Library, for every set of documents, every number of     *)
(* instances and every limit.                                              *)
(***************************************************************************)
EXTENDS Library, FiniteSetTheorems, SequenceTheorems, TLAPS

USE DEF RowStates, Removals

\* A step of the page, of a clock or of a timer touches none of it.
LEMMA StutterStep ==
    ASSUME IInv, UNCHANGED <<row, objects, removal, sweep>>
    PROVE  IInv'
  BY DEF IInv, FrameInv, RemovalInv, RowOutlivesObject

\* A frame replaces another while the documents stay.
LEMMA FrameStep ==
    ASSUME IInv, NEW s \in Sweepers, NEW frame \in Frame, FrameInv(frame),
           sweep' = [sweep EXCEPT ![s] = frame], UNCHANGED <<row, objects, removal>>
    PROVE  IInv'
<1>1. sweep' \in [Sweepers -> Frame]
  BY DEF IInv
<1>2. ASSUME NEW z \in Sweepers PROVE FrameInv(sweep[z])'
  BY DEF IInv, FrameInv
<1> QED
  BY <1>1, <1>2 DEF IInv, RemovalInv, RowOutlivesObject

\* A frame at its start holds no documents.
LEMMA EmptyFrame ==
    ASSUME NEW frame \in Frame, frame.todo = {}, frame.removable = {}
    PROVE  FrameInv(frame)
  BY DEF FrameInv

\* A render arrives with its row and its object in one step.
LEMMA LandStep == ASSUME IInv, NEW d \in Docs, Land(d) PROVE IInv'
<1>1. row' \in [Docs -> RowStates] /\ objects' \subseteq Docs \ Keyless
  BY DEF IInv, Land
<1>2. /\ UNCHANGED <<removal, sweep>> /\ row[d] = "unborn"
      /\ \A e \in Docs \ {d} : row'[e] = row[e]
      /\ row'[d] = "present" /\ objects' \subseteq objects \cup {d}
  BY DEF IInv, Land, sweepVars
<1>3. ASSUME NEW s \in Sweepers PROVE FrameInv(sweep[s])'
  BY <1>2 DEF IInv, FrameInv
<1>4. RemovalInv'
  BY <1>1, <1>2 DEF IInv, RemovalInv
<1>5. RowOutlivesObject'
  BY <1>1, <1>2 DEF IInv, RowOutlivesObject
<1> QED
  BY <1>1, <1>2, <1>3, <1>4, <1>5 DEF IInv

\* A user's deletion: the object first, the row only when it is gone.
LEMMA RemovalStep ==
    ASSUME IInv, NEW d \in Docs,
           Delete(d) \/ FindRow(d) \/ DeleteObject(d) \/ WriteAudit(d) \/ SettleDelete(d)
    PROVE  IInv'
<1>1. PICK pc \in Removals \ {"none"} : removal' = [removal EXCEPT ![d] = pc]
  BY DEF Delete, FindRow, DeleteObject, WriteAudit, SettleDelete, Step
<1>2. UNCHANGED <<row, sweep>> /\ objects' \subseteq objects
  BY DEF Delete, FindRow, DeleteObject, WriteAudit, SettleDelete, docVars, sweepVars
<1>3. row[d] # "unborn"
  BY DEF IInv, RemovalInv, Delete, FindRow, DeleteObject, WriteAudit, SettleDelete
<1>4. removal'[d] = "row" => d \notin objects'
  <2>1. CASE FindRow(d)
    BY <2>1 DEF IInv, FindRow, Step, docVars
  <2>2. CASE DeleteObject(d)
    BY <2>2 DEF IInv, DeleteObject, Step
  <2>3. CASE Delete(d) \/ WriteAudit(d) \/ SettleDelete(d)
    BY <2>3 DEF IInv, Delete, WriteAudit, SettleDelete, Step
  <2> QED
    BY <2>1, <2>2, <2>3
<1>5. removal' \in [Docs -> Removals] /\ objects' \subseteq Docs \ Keyless
  BY <1>1, <1>2 DEF IInv
<1>6. ASSUME NEW s \in Sweepers PROVE FrameInv(sweep[s])'
  BY <1>2 DEF IInv, FrameInv
<1>7. RemovalInv'
  BY <1>1, <1>2, <1>3, <1>4 DEF IInv, RemovalInv
<1>8. RowOutlivesObject'
  BY <1>2 DEF IInv, RowOutlivesObject
<1> QED
  BY <1>2, <1>5, <1>6, <1>7, <1>8 DEF IInv

\* The row of an object that is gone.
LEMMA DeleteRowStep == ASSUME IInv, NEW d \in Docs, DeleteRow(d) PROVE IInv'
<1>1. /\ row' \in {row, [row EXCEPT ![d] = "gone"]} /\ d \notin objects
      /\ UNCHANGED <<objects, sweep>>
  BY DEF IInv, RemovalInv, DeleteRow, sweepVars
<1>2. PICK pc \in {"audit", "done"} : removal' = [removal EXCEPT ![d] = pc]
  BY DEF DeleteRow, Step
<1>3. /\ row' \in [Docs -> RowStates] /\ removal' \in [Docs -> Removals]
      /\ objects' \subseteq Docs \ Keyless
  BY <1>1, <1>2 DEF IInv
<1>4. ASSUME NEW s \in Sweepers PROVE FrameInv(sweep[s])'
  <2>1. \A e \in Docs : row[e] # "unborn" => row'[e] # "unborn"
    BY <1>1 DEF IInv
  <2>2. FrameInv(sweep[s]) /\ sweep'[s] = sweep[s] /\ objects' = objects
    BY <1>1 DEF IInv
  <2> QED
    BY <2>1, <2>2 DEF FrameInv
<1>5. RemovalInv'
  <2>1. \A e \in Docs : row[e] # "unborn" => row'[e] # "unborn"
    BY <1>1 DEF IInv
  <2>2. row[d] # "unborn"
    BY DEF IInv, RemovalInv, DeleteRow
  <2> QED
    BY <1>1, <1>2, <2>1, <2>2 DEF IInv, RemovalInv
<1>6. RowOutlivesObject'
  BY <1>1 DEF IInv, RowOutlivesObject
<1> QED
  BY <1>1, <1>3, <1>4, <1>5, <1>6 DEF IInv

\* The sweep takes rows that are there.
LEMMA FindStep == ASSUME IInv, NEW s \in Sweepers, FindExpired(s) PROVE IInv'
<1> DEFINE batch == Oldest(BatchSize, {d \in sweep[s].due : row[d] = "present"})
           frame == IF batch = {} \/ sweep[s].batch = MaxBatches
                    THEN [NoFrame EXCEPT !.pc = "unlock"]
                    ELSE [sweep[s] EXCEPT !.pc = "objects", !.batch = @ + 1,
                                          !.todo = batch, !.removable = {}]
<1>1. sweep' = [sweep EXCEPT ![s] = frame] /\ UNCHANGED <<row, objects, removal>>
  BY DEF FindExpired, At, docVars
<1>2. sweep[s] \in Frame
  BY DEF IInv
<1>3. batch \subseteq {d \in Docs : row[d] # "unborn"}
  BY <1>2 DEF Oldest, Frame
<1> HIDE DEF batch
<1>4. CASE batch = {} \/ sweep[s].batch = MaxBatches
  <2>1. frame \in Frame /\ frame.todo = {} /\ frame.removable = {}
    BY <1>4 DEF Frame, NoFrame
  <2> QED
    BY <1>1, <2>1, EmptyFrame, FrameStep
<1>5. CASE ~(batch = {} \/ sweep[s].batch = MaxBatches)
  <2>1. /\ frame = [sweep[s] EXCEPT !.pc = "objects", !.batch = @ + 1,
                                    !.todo = batch, !.removable = {}]
        /\ sweep[s].batch + 1 \in Nat /\ batch \in SUBSET Docs
    BY <1>2, <1>3, <1>5 DEF Frame
  <2>2. frame \in Frame /\ frame.todo = batch /\ frame.removable = {}
    BY <1>2, <2>1 DEF Frame
  <2>3. FrameInv(frame)
    BY <1>3, <2>2 DEF FrameInv
  <2> QED
    BY <1>1, <2>2, <2>3, FrameStep
<1> QED
  BY <1>4, <1>5

\* Its object first; a failure leaves the row out of what will be deleted.
LEMMA SweepObjectStep == ASSUME IInv, NEW s \in Sweepers, SweepObject(s) PROVE IInv'
<1>1. sweep[s] \in Frame /\ FrameInv(sweep[s])
  BY DEF IInv
<1> PICK d \in sweep[s].todo :
      /\ UNCHANGED <<row, removal>>
      /\ \/ /\ objects' = objects \ {d}
            /\ At(s, [sweep[s] EXCEPT !.todo = @ \ {d}, !.removable = @ \cup {d}])
         \/ At(s, AfterFailure(sweep[s], d)) /\ objects' \subseteq objects
  BY DEF SweepObject
<1>2. CASE /\ objects' = objects \ {d}
           /\ At(s, [sweep[s] EXCEPT !.todo = @ \ {d}, !.removable = @ \cup {d}])
  <2>1. PICK frame \in Frame : /\ sweep' = [sweep EXCEPT ![s] = frame]
                                /\ frame.todo = sweep[s].todo \ {d}
                                /\ frame.removable = sweep[s].removable \cup {d}
    <3> DEFINE frame == [sweep[s] EXCEPT !.todo = @ \ {d}, !.removable = @ \cup {d}]
    <3>1. frame \in Frame
      BY <1>1 DEF Frame, FrameInv
    <3>2. frame.todo = sweep[s].todo \ {d} /\ frame.removable = sweep[s].removable \cup {d}
      BY <1>1 DEF Frame
    <3> QED
      BY <1>2, <3>1, <3>2 DEF At
  <2>2. FrameInv(frame)'
    BY <1>1, <1>2, <2>1 DEF FrameInv
  <2>3. ASSUME NEW z \in Sweepers PROVE FrameInv(sweep[z])'
    BY <1>2, <2>1, <2>2 DEF IInv, FrameInv
  <2>4. RemovalInv' /\ RowOutlivesObject'
    BY <1>2 DEF IInv, RemovalInv, RowOutlivesObject
  <2> QED
    BY <1>2, <2>1, <2>3, <2>4 DEF IInv
<1>3. CASE At(s, AfterFailure(sweep[s], d)) /\ objects' \subseteq objects
  <2> DEFINE frame == [sweep[s] EXCEPT !.todo = @ \ {d}]
  <2>1. /\ frame \in Frame /\ frame.removable = sweep[s].removable
        /\ frame.todo = sweep[s].todo \ {d}
    BY <1>1 DEF Frame
  <2>2. sweep' = [sweep EXCEPT ![s] = frame]
    BY <1>3 DEF At, AfterFailure
  <2> HIDE DEF frame
  <2>3. ASSUME NEW z \in Sweepers PROVE FrameInv(sweep[z])'
    <3>1. FrameInv(sweep[z])
      BY DEF IInv
    <3>2. /\ sweep'[z].removable = sweep[z].removable
          /\ sweep'[z].todo \subseteq sweep[z].todo
      BY <2>1, <2>2 DEF IInv
    <3> QED
      BY <1>3, <3>1, <3>2 DEF FrameInv
  <2>4. RemovalInv' /\ RowOutlivesObject'
    BY <1>3 DEF IInv, RemovalInv, RowOutlivesObject
  <2> QED
    BY <1>3, <2>1, <2>2, <2>3, <2>4 DEF IInv
<1> QED
  BY <1>2, <1>3

\* The rows whose objects are gone go, or stay.
LEMMA RowsStep ==
    ASSUME IInv, NEW s \in Sweepers, NEW frame \in Frame,
           frame.todo = {}, frame.removable = {},
           row' \in {row, WithoutRows(sweep[s].removable)},
           sweep' = [sweep EXCEPT ![s] = frame], UNCHANGED <<objects, removal>>
    PROVE  IInv'
<1>1. sweep[s] \in Frame /\ FrameInv(sweep[s])
  BY DEF IInv
<1>2. row' \in [Docs -> RowStates] /\ sweep' \in [Sweepers -> Frame]
  BY DEF IInv, WithoutRows
<1>3. \A d \in Docs : /\ row[d] # "unborn" => row'[d] # "unborn"
                      /\ d \in objects => row'[d] = row[d]
  BY <1>1 DEF FrameInv, WithoutRows
<1>4. ASSUME NEW z \in Sweepers PROVE FrameInv(sweep[z])'
  BY <1>3 DEF IInv, FrameInv
<1>5. RemovalInv' /\ RowOutlivesObject'
  BY <1>3 DEF IInv, RemovalInv, RowOutlivesObject
<1> QED
  BY <1>2, <1>4, <1>5 DEF IInv

LEMMA SweepRowsStep == ASSUME IInv, NEW s \in Sweepers, SweepRows(s) PROVE IInv'
<1> DEFINE frame == IF sweep[s].removable # {}
                    THEN [sweep[s] EXCEPT !.pc = "find", !.removable = {}]
                    ELSE [NoFrame EXCEPT !.pc = "unlock"]
<1>1. sweep[s] \in Frame
  BY DEF IInv
<1>2. /\ row' = WithoutRows(sweep[s].removable)
      /\ UNCHANGED <<objects, removal>> /\ sweep[s].todo = {}
      /\ sweep' = [sweep EXCEPT ![s] = frame]
  BY DEF SweepRows, At
<1>3. frame \in Frame /\ frame.todo = {} /\ frame.removable = {}
  BY <1>1, <1>2 DEF Frame, NoFrame
<1> HIDE DEF frame
<1> QED
  BY <1>2, <1>3, RowsStep

\* A sweep begins, ends or dies with nothing in hand.
LEMMA FreshFrameStep ==
    ASSUME IInv, expired \subseteq Docs, NEW s \in Sweepers,
           Nightly(s) \/ Unlock(s) \/ SweepThrows(s) \/ Crash(s)
    PROVE  IInv'
<1>0. CASE UNCHANGED <<row, objects, removal, sweep>>
  BY <1>0, StutterStep
<1>1. ASSUME ~UNCHANGED <<row, objects, removal, sweep>>
      PROVE  \E frame \in {[NoFrame EXCEPT !.pc = "find", !.due = expired],
                           [NoFrame EXCEPT !.pc = "unlock"], NoFrame} :
               sweep' = [sweep EXCEPT ![s] = frame]
  BY <1>1 DEF Nightly, Unlock, SweepThrows, Crash, At, docVars
<1>2. CASE ~UNCHANGED <<row, objects, removal, sweep>>
  <2> PICK frame \in {[NoFrame EXCEPT !.pc = "find", !.due = expired],
                      [NoFrame EXCEPT !.pc = "unlock"], NoFrame} :
         sweep' = [sweep EXCEPT ![s] = frame]
    BY <1>1, <1>2
  <2>1. frame \in Frame /\ frame.todo = {} /\ frame.removable = {}
    <3>1. CASE frame = [NoFrame EXCEPT !.pc = "find", !.due = expired]
      BY <3>1 DEF Frame, NoFrame
    <3>2. CASE frame = [NoFrame EXCEPT !.pc = "unlock"]
      BY <3>2 DEF Frame, NoFrame
    <3>3. CASE frame = NoFrame
      BY <3>3 DEF Frame, NoFrame
    <3> QED
      BY <3>1, <3>2, <3>3
  <2>2. row' \in {row, WithoutRows(sweep[s].removable)} /\ UNCHANGED <<objects, removal>>
    BY DEF Nightly, Unlock, SweepThrows, Crash, docVars
  <2> QED
    BY <2>1, <2>2, RowsStep
<1> QED
  BY <1>0, <1>2

\* Only documents of the table expire.
LEMMA ExpiredExist == expired \subseteq Docs /\ [Next]_vars => (expired \subseteq Docs)'
<1> SUFFICES ASSUME expired \subseteq Docs, [Next]_vars
             PROVE (expired \subseteq Docs)'
  OBVIOUS
<1>1. ASSUME NEW d \in Docs, Expire(d) PROVE (expired \subseteq Docs)'
  BY <1>1 DEF Expire
<1>2. ASSUME NEW d \in Docs,
             \/ Land(d) \/ Delete(d) \/ FindRow(d) \/ DeleteObject(d) \/ DeleteRow(d)
             \/ WriteAudit(d) \/ SettleDelete(d)
      PROVE  UNCHANGED expired
  BY <1>2 DEF Land, Delete, FindRow, DeleteObject, DeleteRow, WriteAudit, SettleDelete, docVars
<1>3. ASSUME NEW s \in Sweepers,
             Nightly(s) \/ SweepStep(s) \/ SweepThrows(s) \/ Crash(s)
      PROVE  UNCHANGED expired
  BY <1>3 DEF Nightly, SweepStep, FindExpired, SweepObject, SweepRows, Unlock, SweepThrows,
              Crash, docVars
<1>4. ASSUME NEW n \in 1..MaxQueries, ListFirst(n) \/ SettleFirst(n) \/ FirstFails(n)
      PROVE  UNCHANGED expired
  BY <1>4 DEF ListFirst, SettleFirst, FirstFails, docVars
<1>5. ASSUME \/ ChangeFilter \/ LoadMore \/ ListMore \/ SettleMore \/ MoreFails
             \/ LockExpires \/ UNCHANGED vars
      PROVE  UNCHANGED expired
  BY <1>5 DEF ChangeFilter, LoadMore, ListMore, SettleMore, MoreFails, LockExpires, docVars, vars
<1> QED
  BY <1>1, <1>2, <1>3, <1>4, <1>5 DEF Next

\* IInv is inductive.
LEMMA InductiveStep == IInv /\ expired \subseteq Docs /\ [Next]_vars => IInv'
<1> SUFFICES ASSUME IInv, expired \subseteq Docs, [Next]_vars
             PROVE IInv'
  OBVIOUS
<1>1. ASSUME NEW d \in Docs, Expire(d) PROVE UNCHANGED <<row, objects, removal, sweep>>
  BY <1>1 DEF Expire, sweepVars
<1>2. ASSUME NEW n \in 1..MaxQueries, ListFirst(n) \/ SettleFirst(n) \/ FirstFails(n)
      PROVE  UNCHANGED <<row, objects, removal, sweep>>
  BY <1>2 DEF ListFirst, SettleFirst, FirstFails, docVars, sweepVars
<1>3. ASSUME \/ ChangeFilter \/ LoadMore \/ ListMore \/ SettleMore \/ MoreFails
             \/ LockExpires \/ UNCHANGED vars
      PROVE  UNCHANGED <<row, objects, removal, sweep>>
  BY <1>3 DEF ChangeFilter, LoadMore, ListMore, SettleMore, MoreFails, LockExpires, docVars,
              sweepVars, vars
<1>4. ASSUME NEW s \in Sweepers, SweepStep(s) PROVE IInv'
  BY <1>4, FindStep, SweepObjectStep, SweepRowsStep, FreshFrameStep DEF SweepStep
<1> QED
  BY <1>1, <1>2, <1>3, <1>4, StutterStep, LandStep, RemovalStep, DeleteRowStep, FreshFrameStep
  DEF Next

\* The first state satisfies IInv.
LEMMA InitIInv == ASSUME Init PROVE IInv /\ expired \subseteq Docs
<1>1. /\ row \in [Docs -> RowStates] /\ objects \subseteq Docs \ Keyless
      /\ removal \in [Docs -> Removals] /\ expired \subseteq Docs
  BY ConstantsAssumption DEF Init
<1>2. NoFrame \in Frame /\ NoFrame.todo = {} /\ NoFrame.removable = {}
  BY DEF Frame, NoFrame
<1>3. sweep \in [Sweepers -> Frame] /\ \A s \in Sweepers : FrameInv(sweep[s])
  BY <1>2, EmptyFrame DEF Init
<1>4. RemovalInv /\ RowOutlivesObject
  BY ConstantsAssumption DEF Init, RemovalInv, RowOutlivesObject
<1> QED
  BY <1>1, <1>3, <1>4 DEF IInv

\* No PDF stays in the bucket that no row names, whatever fails, dies or
\* overlaps (documents.service.ts, retention.service.ts: the object first, the
\* row only if that worked).
THEOREM NoOrphanedObject == Spec => []RowOutlivesObject
<1>1. Init => IInv /\ expired \subseteq Docs
  BY InitIInv
<1>2. IInv /\ expired \subseteq Docs /\ [Next]_vars => (IInv /\ expired \subseteq Docs)'
  BY InductiveStep, ExpiredExist
<1>3. IInv => RowOutlivesObject
  BY DEF IInv
<1> QED
  BY <1>1, <1>2, <1>3, PTL DEF Spec

-----------------------------------------------------------------------------
(* Sorting: members take the places their ranks give them.                 *)

Orders(order, S) ==
    /\ \A x, y \in S : x # y => <<x, y>> \in order \/ <<y, x>> \in order
    /\ \A x, y \in S : <<x, y>> \in order => <<y, x>> \notin order
    /\ \A x, y, z \in S : <<x, y>> \in order /\ <<y, z>> \in order => <<x, z>> \in order

\* A finite set with an order can be sorted: the number of members in front of
\* one is its place.
LEMMA SortedExists ==
    ASSUME NEW S, IsFiniteSet(S), NEW order, Orders(order, S)
    PROVE  \E s \in [1..Cardinality(S) -> S] :
             \A i, j \in 1..Cardinality(S) : i < j => <<s[i], s[j]>> \in order
<1> DEFINE n == Cardinality(S)
           Ahead(x) == {y \in S : <<y, x>> \in order}
           rank == [x \in S |-> Cardinality(Ahead(x)) + 1]
<1>0. n \in Nat
  BY FS_CardinalityType
<1>1. ASSUME NEW x \in S
      PROVE  IsFiniteSet(Ahead(x)) /\ Cardinality(Ahead(x)) \in Nat /\ Cardinality(Ahead(x)) < n
  <2>1. Ahead(x) \in SUBSET (S \ {x})
    BY DEF Orders
  <2>2. IsFiniteSet(S \ {x}) /\ Cardinality(S \ {x}) = n - 1
    BY FS_RemoveElement
  <2> HIDE DEF Ahead, n
  <2>3. IsFiniteSet(Ahead(x)) /\ Cardinality(Ahead(x)) <= n - 1
    BY <2>1, <2>2, FS_Subset
  <2>4. Cardinality(Ahead(x)) \in Nat
    BY <2>3, FS_CardinalityType
  <2> QED
    BY <1>0, <2>3, <2>4
<1>2. ASSUME NEW x \in S, NEW y \in S, <<x, y>> \in order
      PROVE  rank[x] < rank[y]
  <2>1. Ahead(x) \cup {x} \in SUBSET Ahead(y) /\ x \notin Ahead(x)
    BY <1>2 DEF Orders
  <2> HIDE DEF Ahead
  <2>2. Cardinality(Ahead(x) \cup {x}) = Cardinality(Ahead(x)) + 1
    BY <1>1, <2>1, FS_AddElement
  <2>3. Cardinality(Ahead(x) \cup {x}) <= Cardinality(Ahead(y))
    BY <1>1, <2>1, FS_Subset
  <2> QED
    BY <1>1, <2>2, <2>3
<1>3. rank \in [S -> 1..n]
  <2> SUFFICES ASSUME NEW x \in S PROVE Cardinality(Ahead(x)) + 1 \in 1..n
    OBVIOUS
  <2> HIDE DEF Ahead, n
  <2> QED
    BY <1>0, <1>1
<1> HIDE DEF rank, Ahead, n
<1>4. \A x \in S : rank[x] \in 1..n
  BY <1>3
<1>5. ASSUME NEW x \in S, NEW y \in S, rank[x] = rank[y] PROVE x = y
  <2>1. rank[x] \in Nat /\ ~(rank[x] < rank[y]) /\ ~(rank[y] < rank[x])
    BY <1>0, <1>4, <1>5
  <2>2. <<x, y>> \notin order /\ <<y, x>> \notin order
    BY <1>2, <2>1
  <2> QED
    BY <2>2 DEF Orders
<1>6. rank \in Injection(S, 1..n)
  BY <1>3, <1>5 DEF Injection, IsInjective
<1>7. IsFiniteSet(1..n) /\ Cardinality(1..n) = n
  BY <1>0, FS_Interval
<1>8. rank \in Surjection(S, 1..n)
  BY <1>6, <1>7, FS_Injection DEF n
<1>9. \A k \in 1..n : \E x \in S : rank[x] = k
  BY <1>8 DEF Surjection
<1> DEFINE at == [k \in 1..n |-> CHOOSE x \in S : rank[x] = k]
<1>10. at \in [1..n -> S] /\ \A k \in 1..n : rank[at[k]] = k
  BY <1>9
<1> HIDE DEF at
<1>11. ASSUME NEW i \in 1..n, NEW j \in 1..n, i < j PROVE <<at[i], at[j]>> \in order
  <2>1. at[i] \in S /\ at[j] \in S /\ rank[at[i]] = i /\ rank[at[j]] = j
    BY <1>10
  <2>2. at[i] # at[j] /\ ~(rank[at[j]] < rank[at[i]])
    BY <1>0, <1>11, <2>1
  <2> QED
    BY <1>2, <2>1, <2>2 DEF Orders
<1> QED
  BY <1>10, <1>11 DEF n

\* What Sorted returns: every member once, in order.
LEMMA SortedIsSorted ==
    ASSUME NEW S, IsFiniteSet(S), NEW order, Orders(order, S)
    PROVE  /\ Sorted(S, order) \in [1..Cardinality(S) -> S]
           /\ \A i, j \in 1..Cardinality(S) :
                i < j => <<Sorted(S, order)[i], Sorted(S, order)[j]>> \in order
           /\ \A x \in S : \E i \in 1..Cardinality(S) : Sorted(S, order)[i] = x
<1> DEFINE n == Cardinality(S)
           s == Sorted(S, order)
<1>1. s \in [1..n -> S] /\ \A i, j \in 1..n : i < j => <<s[i], s[j]>> \in order
  BY SortedExists DEF Sorted
<1>2. n \in Nat /\ IsFiniteSet(1..n) /\ Cardinality(1..n) = n
  BY FS_CardinalityType, FS_Interval
<1> HIDE DEF n, s
<1>3. ASSUME NEW i \in 1..n, NEW j \in 1..n, s[i] = s[j] PROVE i = j
  <2>1. <<s[i], s[i]>> \notin order
    BY <1>1 DEF Orders
  <2>2. ~(i < j) /\ ~(j < i)
    BY <1>1, <1>3, <2>1
  <2> QED
    BY <1>2, <2>2
<1>4. s \in Injection(1..n, S)
  BY <1>1, <1>3 DEF Injection, IsInjective
<1>5. s \in Surjection(1..n, S)
  BY <1>2, <1>4, FS_Injection DEF n
<1> QED
  BY <1>1, <1>5 DEF Surjection, n, s
\* Newer orders the documents: two of one millisecond by their ids.
LEMMA NewerOrders ==
    /\ \A x, y \in Docs : x # y => Newer(x, y) \/ Newer(y, x)
    /\ \A x, y \in Docs : Newer(x, y) => ~Newer(y, x)
    /\ \A x, y, z \in Docs : Newer(x, y) /\ Newer(y, z) => Newer(x, z)
<1>1. \A x \in Docs : x \in Nat /\ CreatedAt[x] \in Nat
  BY ConstantsAssumption
<1> QED
  BY <1>1 DEF Newer

-----------------------------------------------------------------------------
(* The list.                                                               *)

\* The rows found: all that match, behind the cursor, newest first.
LEMMA FoundRows ==
    ASSUME NEW filter, NEW cursor
    PROVE  LET S == {d \in Docs : row[d] = "present" /\ Matches(d, filter) /\ After(d, cursor)}
               F == Found(filter, cursor)
           IN  /\ F \in Seq(S) /\ F \in Seq(Docs)
               /\ \A i, j \in 1..Len(F) : i < j => Newer(F[i], F[j])
               /\ \A d \in S : \E i \in 1..Len(F) : F[i] = d
<1> DEFINE S == {d \in Docs : row[d] = "present" /\ Matches(d, filter) /\ After(d, cursor)}
           order == {p \in Docs \X Docs : Newer(p[1], p[2])}
           F == Found(filter, cursor)
<1>1. F = Sorted(S, order)
  BY DEF Found
<1>2. S \in SUBSET Docs /\ IsFiniteSet(S)
  <2>1. S \in SUBSET Docs
    OBVIOUS
  <2> QED
    BY <2>1, ConstantsAssumption, FS_Subset
<1>3. \A x, y : <<x, y>> \in order <=> x \in Docs /\ y \in Docs /\ Newer(x, y)
  OBVIOUS
<1> HIDE DEF S, order, F
<1>4. Orders(order, S)
  BY <1>2, <1>3, NewerOrders DEF Orders
<1>5. Cardinality(S) \in Nat
  BY <1>2, FS_CardinalityType
<1>6. /\ F \in [1..Cardinality(S) -> S]
      /\ \A i, j \in 1..Cardinality(S) : i < j => <<F[i], F[j]>> \in order
      /\ \A x \in S : \E i \in 1..Cardinality(S) : F[i] = x
  BY <1>1, <1>2, <1>4, SortedIsSorted
<1>7. F \in Seq(S) /\ Len(F) = Cardinality(S) /\ F \in Seq(Docs)
  <2>1. F \in [1..Cardinality(S) -> Docs]
    BY <1>2, <1>6
  <2> QED
    BY <1>5, <1>6, <2>1
<1>8. \A i, j \in 1..Len(F) : i < j => Newer(F[i], F[j])
  BY <1>3, <1>6, <1>7
<1>9. /\ F \in Seq(S) /\ F \in Seq(Docs)
      /\ \A i, j \in 1..Len(F) : i < j => Newer(F[i], F[j])
      /\ \A d \in S : \E i \in 1..Len(F) : F[i] = d
  BY <1>6, <1>7, <1>8
<1> QED
  BY <1>9 DEF S, F

\* A page of the list, and the cursor it hands out: what it leaves out is
\* behind that cursor.
LEMMA ListPage ==
    ASSUME NEW filter, NEW cursor
    PROVE  LET page0 == List(filter, cursor)
           IN  /\ page0.data \in Seq(Docs) /\ page0.next \in Docs \cup {NoDoc}
               /\ Stretch(page0.data, page0.next, filter)
               /\ \A i \in DOMAIN page0.data : After(page0.data[i], cursor)
               /\ page0.next # NoDoc => page0.next \in ToSet(page0.data)
               /\ \A d \in Docs : After(d, cursor) => Covered(d, page0.data, page0.next, filter)
<1> DEFINE S == {d \in Docs : row[d] = "present" /\ Matches(d, filter) /\ After(d, cursor)}
           F == Found(filter, cursor)
           n == Len(F)
           m == Min({PageSize, n})
           data == SubSeq(F, 1, m)
           next == IF n > PageSize THEN Last(data) ELSE NoDoc
<1>1. /\ F \in Seq(S) /\ F \in Seq(Docs)
      /\ \A i, j \in 1..n : i < j => Newer(F[i], F[j])
      /\ \A d \in S : \E i \in 1..n : F[i] = d
  BY FoundRows
<1>2. List(filter, cursor).data = data /\ List(filter, cursor).next = next
  BY DEF List
<1>3. \A d : d \in S <=> d \in Docs /\ row[d] = "present" /\ Matches(d, filter) /\ After(d, cursor)
  OBVIOUS
<1> HIDE DEF S, F
<1>4. n \in Nat /\ (\A i \in 1..n : F[i] \in S) /\ (\A i \in 1..n : F[i] \in Docs)
  BY <1>1, ElementOfSeq, LenProperties
<1> HIDE DEF n
<1>5. PageSize \in Nat /\ 0 < PageSize /\ NoDoc \notin Docs
  BY ConstantsAssumption
<1>6. m \in Nat /\ m <= n /\ m <= PageSize /\ (IF n > PageSize THEN m = PageSize ELSE m = n)
  <2>1. \E x \in {PageSize, n} : \A y \in {PageSize, n} : x =< y
    BY <1>4, <1>5
  <2>2. m \in {PageSize, n} /\ \A y \in {PageSize, n} : m =< y
    BY <2>1 DEF Min
  <2> HIDE DEF m
  <2> QED
    BY <1>4, <1>5, <2>2
<1> HIDE DEF m
<1>7. data \in Seq(Docs) /\ Len(data) = m /\ DOMAIN data = 1..m /\ \A i \in 1..m : data[i] = F[i]
  <2>1. \A i \in 1..m : F[i] \in Docs
    BY <1>4, <1>6
  <2>2. data \in Seq(Docs) /\ Len(data) = m /\ \A i \in 1..m : data[i] = F[i]
    BY <1>6, <2>1, SubSeqProperties
  <2> QED
    BY <2>2, LenProperties
<1>8. n > PageSize => next = F[m] /\ m \in 1..m
  BY <1>5, <1>6, <1>7 DEF Last
<1>9. ~(n > PageSize) => next = NoDoc
  OBVIOUS
<1> HIDE DEF data, next
<1>10. next \in Docs \cup {NoDoc} /\ (next # NoDoc => n > PageSize)
  BY <1>4, <1>6, <1>8, <1>9
<1>11. Stretch(data, next, filter)
  <2>1. \A i, j \in 1..m : i < j => Newer(data[i], data[j])
    BY <1>1, <1>4, <1>6, <1>7
  <2>2. \A i \in 1..m : Matches(data[i], filter)
    BY <1>3, <1>4, <1>6, <1>7
  <2>3. ASSUME NEW i \in 1..m, next # NoDoc PROVE data[i] = next \/ Newer(data[i], next)
    <3>1. next = data[m] /\ m \in 1..m
      BY <1>7, <1>8, <1>10, <2>3
    <3>2. i = m \/ i < m
      BY <1>6
    <3> QED
      BY <2>1, <3>1, <3>2
  <2> QED
    BY <1>7, <2>1, <2>2, <2>3 DEF Stretch
<1>12. \A i \in DOMAIN data : After(data[i], cursor)
  BY <1>3, <1>4, <1>6, <1>7
<1>13. next # NoDoc => next \in ToSet(data)
  BY <1>7, <1>8, <1>10 DEF ToSet
<1>14. ASSUME NEW d \in Docs, After(d, cursor) PROVE Covered(d, data, next, filter)
  <2> SUFFICES ASSUME row[d] = "present", Matches(d, filter)
               PROVE  d \in ToSet(data) \/ (next # NoDoc /\ Newer(next, d))
    BY DEF Covered
  <2>1. PICK i \in 1..n : F[i] = d
    BY <1>1, <1>3, <1>14
  <2>2. CASE i <= m
    <3>1. i \in 1..m
      BY <1>6, <2>2
    <3>2. i \in DOMAIN data /\ data[i] = d
      BY <1>7, <2>1, <3>1
    <3>3. d \in ToSet(data)
      BY <3>2 DEF ToSet
    <3> QED
      BY <3>3
  <2>3. CASE m < i
    <3>1. n > PageSize
      BY <1>4, <1>5, <1>6, <2>3
    <3>2. next = F[m] /\ m \in 1..n /\ next \in Docs
      BY <1>4, <1>6, <1>8, <3>1
    <3> QED
      BY <1>1, <1>5, <2>1, <2>3, <3>2
  <2> QED
    BY <1>6, <2>2, <2>3
<1> QED
  BY <1>2, <1>7, <1>10, <1>11, <1>12, <1>13, <1>14

-----------------------------------------------------------------------------
(* Taking a row out of the table.                                          *)

LEMMA RowsWithout ==
    ASSUME NEW rows \in Seq(Docs), NEW d
    PROVE  LET W == Without(rows, d)
           IN  /\ W \in Seq(Docs)
               /\ \A i \in DOMAIN W : \E k \in DOMAIN rows : W[i] = rows[k]
               /\ \A i, j \in DOMAIN W : i < j =>
                    \E k, l \in DOMAIN rows : k < l /\ W[i] = rows[k] /\ W[j] = rows[l]
               /\ \A e \in ToSet(rows) : e = d \/ e \in ToSet(W)
<1> DEFINE kept == {i \in DOMAIN rows : rows[i] # d}
           order == {p \in kept \X kept : p[1] < p[2]}
           at == Sorted(kept, order)
           n == Cardinality(kept)
           W == [k \in 1..n |-> rows[at[k]]]
<1>1. Without(rows, d) = W
  BY DEF Without
<1>2. DOMAIN rows = 1..Len(rows) /\ Len(rows) \in Nat
  BY LenProperties
<1>3. IsFiniteSet(kept)
  <2>1. kept \in SUBSET (1..Len(rows))
    BY <1>2
  <2>2. IsFiniteSet(1..Len(rows))
    BY <1>2, FS_Interval
  <2> QED
    BY <2>1, <2>2, FS_Subset
<1>4. \A x, y : <<x, y>> \in order <=> x \in kept /\ y \in kept /\ x < y
  OBVIOUS
<1>5. \A x : x \in kept <=> x \in DOMAIN rows /\ rows[x] # d
  OBVIOUS
<1> HIDE DEF kept, order, at, n
<1>6. Orders(order, kept)
  <2>1. \A x \in kept : x \in Nat
    BY <1>2, <1>5
  <2> QED
    BY <1>4, <2>1 DEF Orders
<1>7. /\ at \in [1..n -> kept]
      /\ \A i, j \in 1..n : i < j => <<at[i], at[j]>> \in order
      /\ \A x \in kept : \E i \in 1..n : at[i] = x
  BY <1>3, <1>6, SortedIsSorted DEF at, n
<1>8. n \in Nat
  BY <1>3, FS_CardinalityType DEF n
<1>9. \A i \in 1..n : at[i] \in kept /\ at[i] \in DOMAIN rows /\ rows[at[i]] \in Docs
  BY <1>2, <1>5, <1>7, ElementOfSeq
<1>10. W \in [1..n -> Docs] /\ \A i \in 1..n : W[i] = rows[at[i]]
  BY <1>9
<1> HIDE DEF W
<1>11. W \in Seq(Docs) /\ DOMAIN W = 1..n
  BY <1>8, <1>10
<1>12. \A i \in DOMAIN W : \E k \in DOMAIN rows : W[i] = rows[k]
  BY <1>9, <1>10, <1>11
<1>13. ASSUME NEW i \in DOMAIN W, NEW j \in DOMAIN W, i < j
       PROVE  \E k, l \in DOMAIN rows : k < l /\ W[i] = rows[k] /\ W[j] = rows[l]
  <2>1. at[i] < at[j]
    BY <1>4, <1>7, <1>11, <1>13
  <2> QED
    BY <1>9, <1>10, <1>11, <2>1
<1>14. ASSUME NEW e \in ToSet(rows), e # d PROVE e \in ToSet(W)
  <2>1. PICK x \in DOMAIN rows : rows[x] = e
    BY DEF ToSet
  <2>2. PICK i \in 1..n : at[i] = x
    BY <1>5, <1>7, <1>14, <2>1
  <2> QED
    BY <1>10, <1>11, <2>1, <2>2 DEF ToSet
<1> QED
  BY <1>1, <1>11, <1>12, <1>13, <1>14

-----------------------------------------------------------------------------
(* The documents grow older under the page.                                *)

\* A row that was there never returns, and none is unmade.
Aged ==
    \A d \in Docs : row[d] # "unborn" =>
      row'[d] # "unborn" /\ (row'[d] = "present" => row[d] = "present")

LEMMA CoveredAges ==
    ASSUME Aged, NEW d \in Docs, row[d] # "unborn", NEW rows, NEW cursor, NEW filter,
           Covered(d, rows, cursor, filter)
    PROVE  row'[d] # "unborn"
           /\ \/ row'[d] # "present" \/ d \in ToSet(rows) \/ ~Matches(d, filter)
              \/ cursor # NoDoc /\ Newer(cursor, d)
  BY DEF Aged, Covered

LEMMA DocsAge ==
    ASSUME PageInv, UNCHANGED pageVars, Aged, AnswerInv'
    PROVE  PageInv'
<1>1. UNCHANGED <<page, query, more>>
  BY DEF pageVars
<1>2. PageTypes /\ QueryInv /\ MoreInv /\ TableInv
  BY DEF PageInv
<1>3. PageTypes'
  BY <1>1, <1>2 DEF PageTypes
<1>4. page.known \subseteq Docs /\ \A n \in 1..MaxQueries : query[n].known \subseteq Docs
  BY <1>2 DEF PageTypes, Query
<1>5. QueryInv'
  <2>1. \A n \in 1..MaxQueries : page'.requestId < n => query'[n].pc = "none"
    BY <1>1, <1>2 DEF QueryInv
  <2>2. \A n \in 1..MaxQueries : \A d \in query'[n].known : row'[d] # "unborn"
    BY <1>1, <1>2, <1>4 DEF QueryInv, Aged
  <2>3. ASSUME NEW n \in 1..MaxQueries, query[n].pc = "answered"
        PROVE  /\ Stretch(query[n].data, query[n].next, query[n].filter)
               /\ \A d \in query[n].known :
                    Covered(d, query[n].data, query[n].next, query[n].filter)'
    <3>1. \A d \in query[n].known : d \in Docs /\ row[d] # "unborn"
              /\ Covered(d, query[n].data, query[n].next, query[n].filter)
      BY <1>2, <1>4, <2>3 DEF QueryInv
    <3>2. \A d \in query[n].known :
              \/ row'[d] # "present" \/ d \in ToSet(query[n].data) \/ ~Matches(d, query[n].filter)
              \/ query[n].next # NoDoc /\ Newer(query[n].next, d)
      BY <3>1, CoveredAges
    <3> QED
      BY <1>1, <1>2, <2>3, <3>2 DEF QueryInv, Covered
  <2> QED
    BY <1>1, <2>1, <2>2, <2>3 DEF QueryInv
<1>6. MoreInv'
  <2>1. ASSUME more.pc = "answered", more.from = page.shown, NEW d \in page.known,
               Newer(more.cursor, d)
        PROVE  Covered(d, more.data, more.next, more.filter)'
    <3>1. d \in Docs /\ row[d] # "unborn" /\ Covered(d, more.data, more.next, more.filter)
      BY <1>2, <1>4, <2>1 DEF MoreInv, TableInv
    <3> QED
      BY <1>1, <3>1, CoveredAges DEF Covered
  <2> QED
    BY <1>1, <1>2, <2>1 DEF MoreInv
<1>7. TableInv'
  <2>1. ASSUME page.shown # 0, ~page.mixed, NEW d \in page.known
        PROVE  Covered(d, page.rows, page.cursor, query[page.shown].filter)'
    <3>1. d \in Docs /\ row[d] # "unborn"
          /\ Covered(d, page.rows, page.cursor, query[page.shown].filter)
      BY <1>2, <1>4, <2>1 DEF TableInv
    <3> QED
      BY <1>1, <3>1, CoveredAges DEF Covered
  <2>2. \A d \in page.known : row'[d] # "unborn"
    BY <1>2, <1>4 DEF TableInv, Aged
  <2> QED
    BY <1>1, <1>2, <2>1, <2>2 DEF TableInv
<1> QED
  BY <1>3, <1>5, <1>6, <1>7 DEF PageInv

\* One query changes its state, and the table keeps what it shows.
LEMMA QueryMoves ==
    ASSUME PageInv, NEW n \in 1..MaxQueries, NEW q \in Query,
           query' = [query EXCEPT ![n] = q], UNCHANGED <<row, removal, more>>,
           PageTypes', page'.requestId >= page.requestId, n <= page'.requestId,
           page'.rows = page.rows, page'.cursor = page.cursor, page'.shown = page.shown,
           page'.known = page.known, page'.mixed = page.mixed,
           query[n].pc # "settled", \A d \in q.known : row[d] # "unborn",
           q.pc = "answered" =>
             /\ Stretch(q.data, q.next, q.filter)
             /\ \A d \in q.known : Covered(d, q.data, q.next, q.filter)
    PROVE  PageInv'
<1>1. PageTypes /\ QueryInv /\ MoreInv /\ TableInv /\ AnswerInv
  BY DEF PageInv
<1>2. /\ query \in [1..MaxQueries -> Query] /\ page.requestId \in Nat /\ page'.requestId \in Nat
      /\ page.shown \in 0..MaxQueries /\ more.from \in 0..MaxQueries /\ MaxQueries \in Nat
  BY <1>1, ConstantsAssumption, SMTT(30) DEF PageTypes, More
<1>3. query'[n] = q /\ \A k \in 1..MaxQueries : k # n => query'[k] = query[k]
  BY <1>2
<1>4. \A d, rows, cursor, filter :
        Covered(d, rows, cursor, filter)' <=> Covered(d, rows, cursor, filter)
  BY DEF Covered
<1>5. page.shown # 0 => page.shown \in 1..MaxQueries /\ page.shown # n
  BY <1>1, <1>2 DEF TableInv
<1>6. more.pc # "none" => more.from \in 1..MaxQueries /\ more.from # n
  BY <1>1, <1>2 DEF MoreInv
<1>7. QueryInv'
  <2>1. ASSUME NEW k \in 1..MaxQueries, page'.requestId < k PROVE query'[k].pc = "none"
    <3>1. k # n /\ page.requestId < k
      BY <1>2, <2>1
    <3> QED
      BY <1>1, <1>3, <3>1 DEF QueryInv
  <2>2. ASSUME NEW k \in 1..MaxQueries, NEW d \in query'[k].known PROVE row'[d] # "unborn"
    BY <1>1, <1>3, <2>2 DEF QueryInv
  <2>3. ASSUME NEW k \in 1..MaxQueries, query'[k].pc = "answered"
        PROVE  /\ Stretch(query'[k].data, query'[k].next, query'[k].filter)
               /\ \A d \in query'[k].known :
                    Covered(d, query[k].data, query[k].next, query[k].filter)'
    <3>1. CASE k = n
      BY <1>3, <2>3, <3>1 DEF Covered
    <3>2. CASE k # n
      BY <1>1, <1>3, <2>3, <3>2 DEF QueryInv, Covered
    <3> QED
      BY <3>1, <3>2
  <2> QED
    BY <2>1, <2>2, <2>3 DEF QueryInv
<1>8. MoreInv'
  BY <1>1, <1>3, <1>6 DEF MoreInv, Covered
<1>9. TableInv'
  BY <1>1, <1>3, <1>5 DEF TableInv, Covered
<1>10. AnswerInv'
  BY <1>1 DEF AnswerInv
<1> QED
  BY <1>7, <1>8, <1>9, <1>10 DEF PageInv

-----------------------------------------------------------------------------
(* The page.                                                               *)

\* What every step of the page may use.
LEMMA PageFields ==
    ASSUME PageInv
    PROVE  /\ PageTypes /\ QueryInv /\ MoreInv /\ TableInv /\ AnswerInv
           /\ page.filter \in Sources \cup {All} /\ page.rows \in Seq(Docs)
           /\ page.cursor \in Docs \cup {NoDoc} /\ page.shown \in 0..MaxQueries
           /\ page.requestId \in 1..MaxQueries /\ page.known \in SUBSET Docs
           /\ page.mixed \in BOOLEAN /\ page.clicks \in 0..MaxClicks
           /\ query \in [1..MaxQueries -> Query] /\ more \in More
           /\ MaxQueries \in Nat /\ MaxQueries # 0 /\ MaxClicks \in Nat
           /\ NoDoc \notin Docs
  BY ConstantsAssumption DEF PageInv, PageTypes

LEMMA Blank ==
    /\ \A filter \in Sources \cup {All}, pc \in {"none", "asked", "answered", "settled"} :
         [NoQuery EXCEPT !.pc = pc, !.filter = filter] \in Query
    /\ NoMore \in More
<1>1. <<>> \in Seq(Docs) /\ 0 \in 0..MaxQueries
  BY ConstantsAssumption
<1>2. NoMore \in More
  BY <1>1 DEF More, NoMore
<1>3. NoQuery \in Query
  BY <1>1 DEF Query, NoQuery
<1>4. ASSUME NEW filter \in Sources \cup {All}, NEW pc \in {"none", "asked", "answered", "settled"}
      PROVE  [NoQuery EXCEPT !.pc = pc, !.filter = filter] \in Query
  BY <1>3 DEF Query
<1> QED
  BY <1>2, <1>4

LEMMA FilterKeeps == ASSUME PageInv, ChangeFilter PROVE PageInv'
<1> DEFINE id == page.requestId + 1
<1>1. PICK filter \in (Sources \cup {All}) \ {page.filter} :
        /\ id <= MaxQueries
        /\ page' = [page EXCEPT !.filter = filter, !.requestId = id]
        /\ query' = [query EXCEPT ![id] = [@ EXCEPT !.pc = "asked", !.filter = filter]]
        /\ UNCHANGED <<docVars, more, removal>>
  BY DEF ChangeFilter
<1>2. id \in 1..MaxQueries /\ page.requestId < id
  BY <1>1, PageFields
<1> DEFINE q == [query[id] EXCEPT !.pc = "asked", !.filter = filter]
<1>3. q \in Query /\ query[id].pc = "none" /\ q.known = query[id].known /\ q.pc = "asked"
  <2>1. query[id] \in Query
    BY <1>2, PageFields
  <2> QED
    BY <1>2, <2>1, PageFields DEF QueryInv, Query
<1>4. query' = [query EXCEPT ![id] = q]
  BY <1>1
<1>5. PageTypes'
  BY <1>1, <1>2, <1>3, <1>4, PageFields, ZenonT(60) DEF PageTypes
<1>6. /\ page'.rows = page.rows /\ page'.cursor = page.cursor /\ page'.shown = page.shown
      /\ page'.known = page.known /\ page'.mixed = page.mixed /\ page'.requestId = id
  BY <1>1, PageFields DEF PageTypes
<1>7. \A d \in q.known : row[d] # "unborn"
  BY <1>2, <1>3, PageFields DEF QueryInv
<1>8. UNCHANGED <<row, removal, more>> /\ page'.requestId >= page.requestId
      /\ id <= page'.requestId
  BY <1>1, <1>2, <1>6, PageFields DEF docVars
<1> HIDE DEF q, id
<1> QED
  BY <1>2, <1>3, <1>4, <1>5, <1>6, <1>7, <1>8, QueryMoves

LEMMA ListFirstKeeps ==
    ASSUME PageInv, NEW n \in 1..MaxQueries, ListFirst(n) PROVE PageInv'
<1> DEFINE found == List(query[n].filter, NoDoc)
           q == [query[n] EXCEPT !.pc = "answered", !.data = found.data, !.next = found.next,
                                 !.known = {d \in Docs : row[d] = "present"}]
<1>1. /\ query[n].pc = "asked" /\ query' = [query EXCEPT ![n] = q]
      /\ UNCHANGED <<docVars, page, more, removal>>
  BY DEF ListFirst
<1>2. query[n] \in Query
  BY PageFields
<1>3. /\ found.data \in Seq(Docs) /\ found.next \in Docs \cup {NoDoc}
      /\ Stretch(found.data, found.next, query[n].filter)
      /\ \A d \in Docs : Covered(d, found.data, found.next, query[n].filter)
  BY ListPage DEF After
<1> HIDE DEF found
<1>4. q \in Query
  BY <1>2, <1>3 DEF Query
<1>5. /\ q.data = found.data /\ q.next = found.next /\ q.filter = query[n].filter
      /\ q.known = {d \in Docs : row[d] = "present"}
  BY <1>2 DEF Query
<1>6. n <= page.requestId /\ page.requestId \in Nat
  BY <1>1, PageFields DEF QueryInv
<1>7. \A d \in q.known : d \in Docs /\ row[d] # "unborn"
  BY <1>5
<1> HIDE DEF q
<1>8. PageTypes'
  BY <1>1, <1>4, PageFields DEF PageTypes
<1>9. /\ Stretch(q.data, q.next, q.filter)
      /\ \A d \in q.known : Covered(d, q.data, q.next, q.filter)
  BY <1>3, <1>5, <1>7
<1>10. UNCHANGED <<row, removal, more, page>> /\ page'.requestId >= page.requestId
       /\ n <= page'.requestId
  BY <1>1, <1>6 DEF docVars
<1> QED
  BY <1>1, <1>4, <1>7, <1>8, <1>9, <1>10, QueryMoves

\* A query ends without the table: it failed, or a newer one was sent.
LEMMA QueryEnds ==
    ASSUME PageInv, NEW n \in 1..MaxQueries, query[n].pc \in {"asked", "answered"},
           query' = [query EXCEPT ![n] =
             [NoQuery EXCEPT !.pc = "settled", !.filter = query[n].filter]],
           UNCHANGED <<docVars, page, more, removal>>
    PROVE  PageInv'
<1> DEFINE q == [NoQuery EXCEPT !.pc = "settled", !.filter = query[n].filter]
<1>1. query[n] \in Query
  BY PageFields
<1>2. q \in Query
  BY <1>1, Blank DEF Query
<1>3. q.known = {} /\ q.pc = "settled"
  BY DEF NoQuery
<1>4. n <= page.requestId /\ page.requestId \in Nat
  BY PageFields DEF QueryInv
<1> HIDE DEF q
<1>5. PageTypes'
  BY <1>2, PageFields DEF PageTypes, q
<1>6. UNCHANGED <<row, removal, more, page>> /\ page'.requestId >= page.requestId
      /\ n <= page'.requestId
  BY <1>4 DEF docVars
<1>7. query' = [query EXCEPT ![n] = q]
  BY DEF q
<1> QED
  BY <1>2, <1>3, <1>5, <1>6, <1>7, QueryMoves

\* The newest query's answer becomes the table.
LEMMA SettleFirstKeeps ==
    ASSUME PageInv, NEW n \in 1..MaxQueries, SettleFirst(n) PROVE PageInv'
<1>1. CASE ~Takes(n)
  BY <1>1, QueryEnds DEF SettleFirst
<1>2. CASE Takes(n)
  <2>1. /\ query[n].pc = "answered" /\ n = page.requestId
        /\ query' = [query EXCEPT ![n] =
             [NoQuery EXCEPT !.pc = "settled", !.filter = query[n].filter]]
        /\ page' = [page EXCEPT !.rows = query[n].data, !.cursor = query[n].next,
                                !.shown = n, !.known = query[n].known, !.mixed = FALSE]
        /\ UNCHANGED <<docVars, more, removal>>
    BY <1>2 DEF SettleFirst, Takes
  <2> DEFINE q == [NoQuery EXCEPT !.pc = "settled", !.filter = query[n].filter]
  <2>2. query[n] \in Query
    BY PageFields
  <2>3. q \in Query /\ q.known = {} /\ q.pc = "settled" /\ q.filter = query[n].filter
    BY <2>2, Blank DEF Query, NoQuery
  <2>4. query'[n] = q /\ \A k \in 1..MaxQueries : k # n => query'[k] = query[k]
    BY <2>1, PageFields
  <2>5. query' \in [1..MaxQueries -> Query]
    BY <2>1, <2>3, PageFields
  <2> HIDE DEF q
  <2>6. /\ page'.rows = query[n].data /\ page'.cursor = query[n].next /\ page'.shown = n
        /\ page'.known = query[n].known /\ page'.mixed = FALSE
        /\ page'.requestId = page.requestId
    BY <2>1, PageFields DEF PageTypes
  <2>7. PageTypes'
    <3>1. /\ query[n].data \in Seq(Docs) /\ query[n].next \in Docs \cup {NoDoc}
          /\ query[n].known \in SUBSET Docs /\ n \in 0..MaxQueries
      BY <2>2, PageFields DEF Query
    <3> QED
      BY <2>1, <2>5, <3>1, PageFields DEF PageTypes
  <2>8. more.pc # "none" => more.from \in 1..MaxQueries /\ more.from # n
    BY <2>1, PageFields DEF MoreInv, More
  <2>9. QueryInv'
    <3>1. ASSUME NEW k \in 1..MaxQueries, page'.requestId < k PROVE query'[k].pc = "none"
      BY <2>1, <2>4, <2>6, <3>1, PageFields DEF QueryInv
    <3>2. ASSUME NEW k \in 1..MaxQueries, NEW d \in query'[k].known PROVE row'[d] # "unborn"
      BY <2>1, <2>3, <2>4, <3>2, PageFields DEF QueryInv, docVars
    <3>3. ASSUME NEW k \in 1..MaxQueries, query'[k].pc = "answered"
          PROVE  /\ Stretch(query'[k].data, query'[k].next, query'[k].filter)
                 /\ \A d \in query'[k].known :
                      Covered(d, query[k].data, query[k].next, query[k].filter)'
      BY <2>1, <2>3, <2>4, <3>3, PageFields DEF QueryInv, Covered, docVars
    <3> QED
      BY <3>1, <3>2, <3>3 DEF QueryInv
  <2>10. MoreInv'
    BY <2>1, <2>4, <2>6, <2>8, PageFields DEF MoreInv
  <2>11. TableInv'
    <3>1. /\ Stretch(query[n].data, query[n].next, query[n].filter)
          /\ \A d \in query[n].known :
               row[d] # "unborn" /\ Covered(d, query[n].data, query[n].next, query[n].filter)
      BY <2>1, PageFields DEF QueryInv
    <3> QED
      BY <2>1, <2>3, <2>4, <2>6, <3>1 DEF TableInv, Covered, docVars
  <2>12. AnswerInv'
    BY <2>1, PageFields DEF AnswerInv, docVars
  <2> QED
    BY <2>7, <2>9, <2>10, <2>11, <2>12 DEF PageInv
<1> QED
  BY <1>1, <1>2

\* Steps that change nothing but the request of loadMore.
LEMMA MoreMoves ==
    ASSUME PageInv, more' \in More, UNCHANGED <<row, removal, query>>,
           \E clicks \in 0..MaxClicks : page' = [page EXCEPT !.clicks = clicks],
           MoreInv', page.shown # 0 \/ more'.pc = "none"
    PROVE  PageInv'
<1>1. PICK clicks \in 0..MaxClicks : page' = [page EXCEPT !.clicks = clicks]
  OBVIOUS
<1>2. PageTypes'
  BY <1>1, PageFields DEF PageTypes
<1>3. /\ page'.rows = page.rows /\ page'.cursor = page.cursor /\ page'.shown = page.shown
      /\ page'.known = page.known /\ page'.mixed = page.mixed
      /\ page'.requestId = page.requestId
  BY <1>1, PageFields DEF PageTypes
<1>4. QueryInv'
  BY <1>3, PageFields DEF QueryInv, Covered
<1>5. TableInv'
  BY <1>3, PageFields DEF TableInv, Covered
<1>6. AnswerInv'
  BY PageFields DEF AnswerInv
<1> QED
  BY <1>2, <1>4, <1>5, <1>6 DEF PageInv

LEMMA LoadMoreKeeps == ASSUME PageInv, LoadMore PROVE PageInv'
<1>1. /\ page.cursor # NoDoc /\ page.clicks < MaxClicks
      /\ more' = [NoMore EXCEPT !.pc = "asked", !.filter = page.filter,
                                !.from = page.shown, !.cursor = page.cursor]
      /\ page' = [page EXCEPT !.clicks = @ + 1]
      /\ UNCHANGED <<docVars, query, removal>>
  BY DEF LoadMore
<1>2. more' \in More /\ more'.pc = "asked" /\ more'.from = page.shown /\ more'.cursor = page.cursor
  BY <1>1, Blank, PageFields DEF More
<1>3. page.clicks + 1 \in 0..MaxClicks /\ page' = [page EXCEPT !.clicks = page.clicks + 1]
  BY <1>1, PageFields
<1>4. page'.shown = page.shown /\ page'.cursor = page.cursor
  BY <1>3, PageFields DEF PageTypes
<1>5. page.shown # 0 /\ query[page.shown].pc = "settled"
  BY <1>1, PageFields DEF TableInv
<1>6. MoreInv'
  BY <1>1, <1>2, <1>4, <1>5 DEF MoreInv
<1>7. UNCHANGED <<row, removal, query>>
  BY <1>1 DEF docVars
<1> QED
  BY <1>2, <1>3, <1>5, <1>6, <1>7, MoreMoves

LEMMA MoreFailsKeeps == ASSUME PageInv, MoreFails PROVE PageInv'
<1>1. more' = NoMore /\ UNCHANGED <<row, removal, query, page>>
  BY DEF MoreFails, docVars
<1>2. more'.pc = "none" /\ more' \in More
  BY <1>1, Blank DEF NoMore
<1>3. MoreInv'
  BY <1>2 DEF MoreInv
<1>4. page' = [page EXCEPT !.clicks = page.clicks] /\ page.clicks \in 0..MaxClicks
  BY <1>1, PageFields DEF PageTypes
<1> QED
  BY <1>1, <1>2, <1>3, <1>4, MoreMoves

\* The next page begins behind the cursor it was asked with.
LEMMA ListMoreKeeps == ASSUME PageInv, ListMore PROVE PageInv'
<1> DEFINE found == List(more.filter, more.cursor)
<1>1. /\ more.pc = "asked"
      /\ more' = [more EXCEPT !.pc = "answered", !.data = found.data, !.next = found.next]
      /\ UNCHANGED <<row, removal, query, page>>
  BY DEF ListMore, docVars
<1>2. /\ found.data \in Seq(Docs) /\ found.next \in Docs \cup {NoDoc}
      /\ Stretch(found.data, found.next, more.filter)
      /\ \A i \in DOMAIN found.data : After(found.data[i], more.cursor)
      /\ found.next # NoDoc => found.next \in ToSet(found.data)
      /\ \A d \in Docs : After(d, more.cursor) => Covered(d, found.data, found.next, more.filter)
  BY ListPage
<1> HIDE DEF found
<1>3. /\ more' \in More /\ more'.pc = "answered" /\ more'.data = found.data
      /\ more'.next = found.next /\ more'.cursor = more.cursor /\ more'.from = more.from
      /\ more'.filter = more.filter
  BY <1>1, <1>2, PageFields DEF More
<1>4. /\ more.cursor # NoDoc /\ more.from # 0 /\ query[more.from].pc = "settled"
      /\ more.from = page.shown => more.cursor = page.cursor
  BY <1>1, PageFields DEF MoreInv
<1>5. \A d : After(d, more.cursor) <=> Newer(more.cursor, d)
  BY <1>4 DEF After
<1>6. found.next # NoDoc => Newer(more.cursor, found.next)
  BY <1>2, <1>5 DEF ToSet
<1>7. \A d \in page.known :
        ~Newer(more.cursor, d) \/ Covered(d, found.data, found.next, more.filter)
  BY <1>2, <1>5, PageFields
<1>8. MoreInv'
  BY <1>1, <1>2, <1>3, <1>4, <1>5, <1>6, <1>7 DEF MoreInv, Covered
<1>9. page' = [page EXCEPT !.clicks = page.clicks] /\ page.clicks \in 0..MaxClicks
  BY <1>1, PageFields DEF PageTypes
<1>10. page.shown # 0
  BY <1>1, PageFields DEF TableInv
<1> QED
  BY <1>1, <1>3, <1>8, <1>9, <1>10, MoreMoves

-----------------------------------------------------------------------------
(* The table grows, and loses rows.                                        *)

\* Two stretches of one filter join: the second begins behind the cursor of the
\* first.
LEMMA StretchesJoin ==
    ASSUME NEW rows \in Seq(Docs), NEW data \in Seq(Docs), NEW filter,
           NEW cursor \in Docs, NEW next \in Docs \cup {NoDoc},
           Stretch(rows, cursor, filter), Stretch(data, next, filter),
           \A i \in DOMAIN data : Newer(cursor, data[i]),
           next # NoDoc => Newer(cursor, next)
    PROVE  /\ Stretch(rows \o data, next, filter)
           /\ ToSet(rows \o data) = ToSet(rows) \cup ToSet(data)
<1> DEFINE n == Len(rows)
           all == rows \o data
<1>1. /\ n \in Nat /\ Len(data) \in Nat /\ DOMAIN rows = 1..n /\ DOMAIN data = 1..Len(data)
      /\ \A i \in 1..n : rows[i] \in Docs
      /\ \A i \in 1..Len(data) : data[i] \in Docs
  BY LenProperties, ElementOfSeq
<1>2. /\ DOMAIN all = 1..(n + Len(data))
      /\ \A i \in 1..(n + Len(data)) : all[i] = IF i <= n THEN rows[i] ELSE data[i - n]
  BY ConcatProperties, LenProperties
<1> HIDE DEF n, all
<1>3. ASSUME NEW i \in DOMAIN all
      PROVE  \/ i \in DOMAIN rows /\ all[i] = rows[i]
             \/ i - n \in DOMAIN data /\ all[i] = data[i - n]
  BY <1>1, <1>2
<1>4. ASSUME NEW i \in DOMAIN rows, NEW j \in DOMAIN data PROVE Newer(rows[i], data[j])
  <2>1. rows[i] \in Docs /\ data[j] \in Docs /\ Newer(cursor, data[j])
    BY <1>1
  <2>2. rows[i] = cursor \/ Newer(rows[i], cursor)
    BY ConstantsAssumption DEF Stretch
  <2> QED
    BY <2>1, <2>2, NewerOrders
<1>5. ASSUME NEW i \in DOMAIN all, NEW j \in DOMAIN all, i < j PROVE Newer(all[i], all[j])
  <2>1. CASE j <= n
    <3>1. i \in DOMAIN rows /\ j \in DOMAIN rows /\ all[i] = rows[i] /\ all[j] = rows[j]
      BY <1>1, <1>2, <1>5, <2>1
    <3> QED
      BY <1>5, <3>1 DEF Stretch
  <2>2. CASE n < i
    <3>1. /\ i - n \in DOMAIN data /\ j - n \in DOMAIN data /\ i - n < j - n
          /\ all[i] = data[i - n] /\ all[j] = data[j - n]
      BY <1>1, <1>2, <1>5, <2>2
    <3> QED
      BY <3>1 DEF Stretch
  <2>3. CASE i <= n /\ n < j
    <3>1. i \in DOMAIN rows /\ j - n \in DOMAIN data /\ all[i] = rows[i] /\ all[j] = data[j - n]
      BY <1>1, <1>2, <2>3
    <3> QED
      BY <1>4, <3>1
  <2> QED
    BY <1>1, <1>2, <1>5, <2>1, <2>2, <2>3
<1>6. \A i \in DOMAIN all : Matches(all[i], filter)
  BY <1>3 DEF Stretch
<1>7. ASSUME NEW i \in DOMAIN all, next # NoDoc PROVE all[i] = next \/ Newer(all[i], next)
  <2>1. CASE i \in DOMAIN rows /\ all[i] = rows[i]
    <3>1. rows[i] = cursor \/ Newer(rows[i], cursor)
      BY <2>1, ConstantsAssumption DEF Stretch
    <3>2. rows[i] \in Docs /\ next \in Docs /\ Newer(cursor, next)
      BY <1>1, <1>7, <2>1
    <3> QED
      BY <2>1, <3>1, <3>2, NewerOrders
  <2>2. CASE i - n \in DOMAIN data /\ all[i] = data[i - n]
    BY <1>7, <2>2 DEF Stretch
  <2> QED
    BY <1>3, <2>1, <2>2
<1>8. Stretch(all, next, filter)
  BY <1>5, <1>6, <1>7 DEF Stretch
<1>9. ToSet(all) = ToSet(rows) \cup ToSet(data)
  <2>1. ASSUME NEW x \in ToSet(all) PROVE x \in ToSet(rows) \cup ToSet(data)
    BY <1>3 DEF ToSet
  <2>2. ASSUME NEW i \in DOMAIN rows PROVE rows[i] \in ToSet(all)
    <3>1. i \in DOMAIN all /\ all[i] = rows[i]
      BY <1>1, <1>2
    <3> QED
      BY <3>1 DEF ToSet
  <2>3. ASSUME NEW i \in DOMAIN data PROVE data[i] \in ToSet(all)
    <3>1. n + i \in DOMAIN all /\ all[n + i] = data[i]
      BY <1>1, <1>2
    <3> QED
      BY <3>1 DEF ToSet
  <2> QED
    BY <2>1, <2>2, <2>3 DEF ToSet
<1> QED
  BY <1>8, <1>9 DEF all

LEMMA SettleMoreKeeps == ASSUME PageInv, SettleMore PROVE PageInv'
<1>1. /\ more.pc = "answered" /\ more' = NoMore
      /\ page' = [page EXCEPT !.rows = @ \o more.data, !.cursor = more.next,
                              !.mixed = @ \/ more.from # page.shown
                                          \/ more.filter # query[page.shown].filter]
      /\ UNCHANGED <<row, removal, query>>
  BY DEF SettleMore, docVars
<1>2. more.data \in Seq(Docs) /\ more.next \in Docs \cup {NoDoc} /\ more.cursor \in Docs \cup {NoDoc}
  BY PageFields DEF More
<1>3. /\ page'.rows = page.rows \o more.data /\ page'.cursor = more.next
      /\ page'.shown = page.shown /\ page'.known = page.known
      /\ page'.requestId = page.requestId
      /\ page'.mixed = (page.mixed \/ more.from # page.shown
                                   \/ more.filter # query[page.shown].filter)
  BY <1>1, PageFields DEF PageTypes
<1>4. PageTypes'
  <2>1. page.rows \o more.data \in Seq(Docs)
    BY <1>2, ConcatProperties, PageFields
  <2> QED
    BY <1>1, <1>2, <2>1, Blank, PageFields DEF PageTypes
<1>5. QueryInv'
  BY <1>1, <1>3, PageFields DEF QueryInv, Covered
<1>6. MoreInv'
  BY <1>1 DEF MoreInv, NoMore
<1>7. /\ more.cursor # NoDoc /\ more.from # 0
      /\ more.from = page.shown => more.cursor = page.cursor
      /\ Stretch(more.data, more.next, more.filter)
      /\ \A i \in DOMAIN more.data : Newer(more.cursor, more.data[i])
      /\ more.next # NoDoc => Newer(more.cursor, more.next)
  BY <1>1, PageFields DEF MoreInv
<1>8. ASSUME page.shown # 0, ~page'.mixed
      PROVE  /\ Stretch(page'.rows, page'.cursor, query[page.shown].filter)
             /\ \A d \in page.known :
                  Covered(d, page'.rows, page'.cursor, query[page.shown].filter)
  <2>1. ~page.mixed /\ more.from = page.shown /\ more.filter = query[page.shown].filter
    BY <1>3, <1>8
  <2>2. page.cursor = more.cursor /\ page.cursor \in Docs
    BY <1>2, <1>7, <2>1
  <2>3. Stretch(page.rows, page.cursor, more.filter)
    BY <1>8, <2>1, PageFields DEF TableInv
  <2>4. /\ Stretch(page.rows \o more.data, more.next, more.filter)
        /\ ToSet(page.rows \o more.data) = ToSet(page.rows) \cup ToSet(more.data)
    BY <1>2, <1>7, <2>2, <2>3, StretchesJoin, PageFields
  <2>5. ASSUME NEW d \in page.known
        PROVE  Covered(d, page.rows \o more.data, more.next, more.filter)
    <3>1. Covered(d, page.rows, page.cursor, more.filter)
      BY <1>8, <2>1, PageFields DEF TableInv
    <3>2. ~Newer(page.cursor, d) \/ Covered(d, more.data, more.next, more.filter)
      BY <1>1, <2>1, <2>2, PageFields DEF MoreInv
    <3> QED
      BY <2>4, <3>1, <3>2 DEF Covered
  <2> QED
    BY <1>3, <2>1, <2>4, <2>5
<1>9. TableInv'
  <2>1. page.shown # 0
    BY <1>1, PageFields DEF TableInv
  <2> QED
    BY <1>1, <1>3, <1>8, <2>1, PageFields DEF TableInv, Covered
<1>10. AnswerInv'
  BY <1>1, PageFields DEF AnswerInv
<1> QED
  BY <1>4, <1>5, <1>6, <1>9, <1>10 DEF PageInv

\* The row taken out is of a document that is gone.
LEMMA SettleDeleteKeeps ==
    ASSUME PageInv, NEW d \in Docs, SettleDelete(d), removal \in [Docs -> Removals]
    PROVE  PageInv'
<1> DEFINE W == Without(page.rows, d)
<1>1. /\ removal[d] = "answer" /\ removal' = [removal EXCEPT ![d] = "done"]
      /\ page' = [page EXCEPT !.rows = W]
      /\ UNCHANGED <<row, query, more>>
  BY DEF SettleDelete, Step, docVars
<1>2. /\ W \in Seq(Docs)
      /\ \A i \in DOMAIN W : \E k \in DOMAIN page.rows : W[i] = page.rows[k]
      /\ \A i, j \in DOMAIN W : i < j =>
           \E k, l \in DOMAIN page.rows : k < l /\ W[i] = page.rows[k] /\ W[j] = page.rows[l]
      /\ \A e \in ToSet(page.rows) : e = d \/ e \in ToSet(W)
  BY PageFields, RowsWithout
<1> HIDE DEF W
<1>3. /\ page'.rows = W /\ page'.cursor = page.cursor /\ page'.shown = page.shown
      /\ page'.known = page.known /\ page'.mixed = page.mixed
      /\ page'.requestId = page.requestId
  BY <1>1, PageFields DEF PageTypes
<1>4. PageTypes'
  BY <1>1, <1>2, PageFields DEF PageTypes
<1>5. QueryInv'
  BY <1>1, <1>3, PageFields DEF QueryInv, Covered
<1>6. MoreInv'
  BY <1>1, <1>3, PageFields DEF MoreInv, Covered
<1>7. ASSUME NEW filter, Stretch(page.rows, page.cursor, filter)
      PROVE  Stretch(W, page.cursor, filter)
  BY <1>2, <1>7 DEF Stretch
<1>8. row[d] = "gone"
  BY <1>1, PageFields DEF AnswerInv
<1>9. ASSUME NEW e, NEW filter, Covered(e, page.rows, page.cursor, filter)
      PROVE  Covered(e, W, page.cursor, filter)
  BY <1>2, <1>8, <1>9 DEF Covered
<1>10. TableInv'
  BY <1>1, <1>3, <1>7, <1>9, PageFields DEF TableInv, Covered
<1>11. AnswerInv'
  BY <1>1, PageFields DEF AnswerInv
<1> QED
  BY <1>4, <1>5, <1>6, <1>10, <1>11 DEF PageInv

-----------------------------------------------------------------------------
(* Every step.                                                             *)

LEMMA RowsAge == ASSUME IInv, [Next]_vars PROVE Aged
<1>1. row \in [Docs -> RowStates]
  BY DEF IInv
<1>2. CASE UNCHANGED row
  BY <1>2 DEF Aged
<1>3. ASSUME NEW d \in Docs, Land(d) PROVE Aged
  BY <1>1, <1>3 DEF Land, Aged
<1>4. ASSUME NEW d \in Docs, DeleteRow(d) PROVE Aged
  BY <1>1, <1>4 DEF DeleteRow, Aged
<1>5. ASSUME NEW s \in Sweepers, SweepRows(s) PROVE Aged
  BY <1>1, <1>5 DEF SweepRows, WithoutRows, Aged
<1>6. CASE \/ ChangeFilter \/ LoadMore \/ ListMore \/ SettleMore \/ MoreFails \/ LockExpires
           \/ \E n \in 1..MaxQueries : ListFirst(n) \/ SettleFirst(n) \/ FirstFails(n)
  BY <1>2, <1>6 DEF ChangeFilter, LoadMore, ListMore, SettleMore, MoreFails, LockExpires,
                    ListFirst, SettleFirst, FirstFails, docVars
<1>7. ASSUME NEW d \in Docs, \/ Expire(d) \/ Delete(d) \/ FindRow(d) \/ DeleteObject(d)
                             \/ WriteAudit(d) \/ SettleDelete(d)
      PROVE  Aged
  BY <1>2, <1>7 DEF Expire, Delete, FindRow, DeleteObject, WriteAudit, SettleDelete, docVars
<1>8. ASSUME NEW s \in Sweepers, \/ Nightly(s) \/ FindExpired(s) \/ SweepObject(s) \/ Unlock(s)
                                 \/ Crash(s)
      PROVE  Aged
  BY <1>2, <1>8 DEF Nightly, FindExpired, SweepObject, Unlock, Crash, docVars
<1>10. ASSUME NEW s \in Sweepers, SweepThrows(s) PROVE Aged
  BY <1>1, <1>10 DEF SweepThrows, WithoutRows, Aged
<1>9. CASE UNCHANGED vars
  BY <1>2, <1>9 DEF vars, docVars
<1> QED
  BY <1>3, <1>4, <1>5, <1>6, <1>7, <1>8, <1>9, <1>10 DEF Next, SweepStep

\* A deletion that got as far as the audit log deleted the row.
LEMMA AnswerStep ==
    ASSUME IInv, AnswerInv, Aged, row' \in [Docs -> RowStates], NEW d \in Docs,
           \/ Delete(d) \/ FindRow(d) \/ DeleteObject(d) \/ DeleteRow(d)
           \/ WriteAudit(d) \/ SettleDelete(d)
    PROVE  AnswerInv'
<1>1. removal \in [Docs -> Removals] /\ row \in [Docs -> RowStates]
  BY DEF IInv
<1>2. \A e \in Docs : row[e] = "gone" => row'[e] = "gone"
  BY <1>1 DEF Aged
<1>3. PICK pc \in Removals : /\ removal' = [removal EXCEPT ![d] = pc]
                             /\ pc \in {"audit", "answer"} => row'[d] = "gone"
  <2>1. CASE DeleteRow(d)
    BY <1>1, <2>1 DEF DeleteRow, Step
  <2>2. CASE WriteAudit(d)
    BY <1>1, <1>2, <2>2 DEF WriteAudit, Step, AnswerInv
  <2>3. CASE Delete(d) \/ FindRow(d) \/ DeleteObject(d) \/ SettleDelete(d)
    BY <2>3 DEF Delete, FindRow, DeleteObject, SettleDelete, Step
  <2> QED
    BY <2>1, <2>2, <2>3
<1> QED
  BY <1>1, <1>2, <1>3 DEF AnswerInv

LEMMA PageStep == ASSUME IInv, IInv', PageInv, [Next]_vars PROVE PageInv'
<1>1. Aged
  BY RowsAge
<1>2. AnswerInv /\ row \in [Docs -> RowStates] /\ row' \in [Docs -> RowStates]
      /\ removal \in [Docs -> Removals]
  BY PageFields DEF IInv
<1>3. \A d \in Docs : row[d] = "gone" => row'[d] = "gone"
  BY <1>1, <1>2 DEF Aged
<1>4. CASE UNCHANGED <<pageVars, removal>>
  <2>1. AnswerInv'
    BY <1>2, <1>3, <1>4 DEF AnswerInv
  <2> QED
    BY <1>1, <1>4, <2>1, DocsAge
<1>5. CASE ChangeFilter \/ LoadMore \/ ListMore \/ SettleMore \/ MoreFails
  BY <1>5, FilterKeeps, LoadMoreKeeps, ListMoreKeeps, SettleMoreKeeps, MoreFailsKeeps
<1>6. ASSUME NEW n \in 1..MaxQueries, ListFirst(n) \/ SettleFirst(n) \/ FirstFails(n)
      PROVE  PageInv'
  <2>1. CASE FirstFails(n)
    BY <2>1, QueryEnds DEF FirstFails
  <2> QED
    BY <1>6, <2>1, ListFirstKeeps, SettleFirstKeeps
<1>7. ASSUME NEW d \in Docs, \/ Delete(d) \/ FindRow(d) \/ DeleteObject(d) \/ DeleteRow(d)
                             \/ WriteAudit(d)
      PROVE  PageInv'
  <2>1. AnswerInv'
    BY <1>1, <1>2, <1>7, AnswerStep
  <2>2. UNCHANGED pageVars
    BY <1>7 DEF Delete, FindRow, DeleteObject, DeleteRow, WriteAudit
  <2> QED
    BY <1>1, <2>1, <2>2, DocsAge
<1>8. ASSUME NEW d \in Docs, SettleDelete(d) PROVE PageInv'
  BY <1>2, <1>8, SettleDeleteKeeps
<1>9. ASSUME NEW d \in Docs, Land(d) \/ Expire(d) PROVE PageInv'
  BY <1>4, <1>9 DEF Land, Expire
<1>10. ASSUME NEW s \in Sweepers, Nightly(s) \/ SweepStep(s) \/ SweepThrows(s) \/ Crash(s)
       PROVE  PageInv'
  BY <1>4, <1>10 DEF Nightly, SweepStep, FindExpired, SweepObject, SweepRows, Unlock,
                     SweepThrows, Crash
<1>11. CASE LockExpires \/ UNCHANGED vars
  BY <1>4, <1>11 DEF LockExpires, vars
<1> QED
  BY <1>5, <1>6, <1>7, <1>8, <1>9, <1>10, <1>11 DEF Next

LEMMA PageInit == ASSUME Init PROVE PageInv
<1>1. <<>> \in Seq(Docs) /\ 0 \in 0..MaxQueries /\ 1 \in 1..MaxQueries /\ 0 \in 0..MaxClicks
  BY ConstantsAssumption
<1>2. PICK setup \in Setups :
        query = [n \in 1..MaxQueries |->
          [NoQuery EXCEPT !.pc = IF n = 1 /\ "page" \in setup THEN "asked" ELSE "none"]]
  BY DEF Init
<1>3. \A n \in 1..MaxQueries : query[n] \in Query /\ query[n].pc \in {"none", "asked"}
                               /\ query[n].known = {} /\ (query[n].pc = "asked" => n = 1)
  <2>1. NoQuery \in Query /\ NoQuery.known = {}
    BY <1>1 DEF Query, NoQuery
  <2> QED
    BY <1>2, <2>1 DEF Query
<1>4. PageTypes
  <2>1. query \in [1..MaxQueries -> Query]
    BY <1>2, <1>3
  <2>2. page \in [filter : Sources \cup {All}, rows : Seq(Docs), cursor : Docs \cup {NoDoc},
                  shown : 0..MaxQueries, requestId : 1..MaxQueries,
                  known : SUBSET Docs, mixed : BOOLEAN, clicks : 0..MaxClicks]
    BY <1>1 DEF Init
  <2> QED
    BY <2>1, <2>2, Blank DEF Init, PageTypes
<1>5. page.shown = 0 /\ page.cursor = NoDoc /\ page.known = {} /\ page.requestId = 1
      /\ more.pc = "none" /\ \A d \in Docs : removal[d] = "none"
  BY DEF Init, NoMore
<1>6. QueryInv
  BY <1>3, <1>5 DEF QueryInv
<1>7. MoreInv /\ TableInv /\ AnswerInv
  BY <1>5 DEF MoreInv, TableInv, AnswerInv
<1> QED
  BY <1>4, <1>6, <1>7 DEF PageInv

\* As long as no page of one query is appended to another's table, the table is
\* a stretch of one query's results, with no document left out that was there
\* from the start (documents/page.tsx, documents.service.ts).
THEOREM TableIsAStretch == Spec => []PagesJoin
<1>1. Init => IInv /\ expired \subseteq Docs /\ PageInv
  BY InitIInv, PageInit DEF Init
<1>2. IInv /\ expired \subseteq Docs /\ PageInv /\ [Next]_vars
        => (IInv /\ expired \subseteq Docs /\ PageInv)'
  BY InductiveStep, ExpiredExist, PageStep
<1>3. PageInv => PagesJoin
  <2> SUFFICES ASSUME PageInv, page.shown # 0, ~page.mixed PROVE PagesJoin
    BY DEF PagesJoin
  <2>1. /\ Stretch(page.rows, page.cursor, query[page.shown].filter)
        /\ \A d \in page.known :
             Covered(d, page.rows, page.cursor, query[page.shown].filter)
    BY PageFields DEF TableInv
  <2> QED
    BY <2>1 DEF PagesJoin, Stretch, Covered
<1> QED
  BY <1>1, <1>2, <1>3, PTL DEF Spec

=============================================================================
