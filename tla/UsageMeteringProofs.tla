------------------------ MODULE UsageMeteringProofs ------------------------
(***************************************************************************)
(* Proofs about usage metering, for any number of days and of overlapping  *)
(* flushes and any batch: no render is counted twice, and none is lost or  *)
(* stranded until something fails.                                         *)
(***************************************************************************)
EXTENDS UsageMetering, FiniteSetTheorems, WellFoundedInduction, TLAPS

-----------------------------------------------------------------------------
(* Sums.  SumFunction is a fold, a function that is defined by recursion on *)
(* the subsets of a domain.  That there is such a function is shown here,   *)
(* for every number of members, by the least number for which there is      *)
(* none; what changes in a sum when a summand changes, in the same way.     *)

Chosen(s) == CHOOSE x \in s : TRUE

\* h adds up g, member by member, on the sets of at most n members.
AddsUp(h, g, n) ==
    \A s \in SUBSET DOMAIN g :
        Cardinality(s) <= n =>
            h[s] = IF s = {} THEN 0 ELSE g[Chosen(s)] + h[s \ {Chosen(s)}]

\* A set of naturals that is not empty has a least element.
LEMMA LeastNatural ==
    ASSUME NEW N \in SUBSET Nat, N # {}
    PROVE  \E n \in N : \A m \in N : n <= m
<1> DEFINE R == {ss \in Nat \X Nat : ss[1] < ss[2]}
<1>1. IsWellFoundedOn(R, Nat)
  BY NatLessThanWellFounded DEF OpToRel
<1> HIDE DEF R
<1>2. PICK n \in N : \A m \in N : <<m, n>> \notin R
  BY <1>1, WFMin
<1>3. ASSUME NEW m \in N PROVE n <= m
  <2>1. <<m, n>> \notin R /\ m \in Nat /\ n \in Nat
    BY <1>2
  <2>2. <<m, n>> \in R <=> m < n
    BY <2>1 DEF R
  <2> QED
    BY <2>1, <2>2
<1> QED
  BY <1>3

\* There are such sums, up to every number of members.
LEMMA SumExists ==
    ASSUME NEW g, IsFiniteSet(DOMAIN g), NEW n \in Nat
    PROVE  \E h : h = [s \in SUBSET DOMAIN g |-> h[s]] /\ AddsUp(h, g, n)
<1> DEFINE Bad == {m \in Nat : ~ \E h : h = [s \in SUBSET DOMAIN g |-> h[s]] /\ AddsUp(h, g, m)}
<1> SUFFICES ASSUME Bad # {} PROVE FALSE
  OBVIOUS
<1>1. PICK m \in Bad : \A k \in Bad : m <= k
  BY LeastNatural
<1>2. \A s \in SUBSET DOMAIN g : /\ IsFiniteSet(s) /\ Cardinality(s) \in Nat
                                 /\ Cardinality(s) = 0 <=> s = {}
  BY FS_Subset, FS_CardinalityType, FS_EmptySet
<1>3. \A s \in SUBSET DOMAIN g : s # {} =>
        /\ Chosen(s) \in s
        /\ s \ {Chosen(s)} \in SUBSET DOMAIN g
        /\ Cardinality(s \ {Chosen(s)}) = Cardinality(s) - 1
  BY <1>2, FS_RemoveElement DEF Chosen
<1>4. CASE m = 0
  <2> DEFINE h == [s \in SUBSET DOMAIN g |-> 0]
  <2>1. AddsUp(h, g, 0)
    BY <1>2 DEF AddsUp
  <2>2. h = [s \in SUBSET DOMAIN g |-> h[s]]
    OBVIOUS
  <2> HIDE DEF h
  <2> QED
    BY <2>1, <2>2, <1>1, <1>4
<1>5. CASE m # 0
  <2>1. m - 1 \in Nat /\ m - 1 \notin Bad
    <3>1. m \in Nat
      OBVIOUS
    <3>2. m - 1 \in Nat /\ ~ m <= m - 1
      BY <3>1, <1>5
    <3> HIDE DEF Bad
    <3> QED
      BY <3>2, <1>1
  <2>2. PICK h : h = [s \in SUBSET DOMAIN g |-> h[s]] /\ AddsUp(h, g, m - 1)
    BY <2>1
  <2> DEFINE k == [s \in SUBSET DOMAIN g |->
                     IF Cardinality(s) = m THEN g[Chosen(s)] + h[s \ {Chosen(s)}] ELSE h[s]]
  <2>3. AddsUp(k, g, m)
    <3> SUFFICES ASSUME NEW s \in SUBSET DOMAIN g, Cardinality(s) <= m
                 PROVE  k[s] = IF s = {} THEN 0 ELSE g[Chosen(s)] + k[s \ {Chosen(s)}]
      BY DEF AddsUp
    <3>1. s # {} => k[s \ {Chosen(s)}] = h[s \ {Chosen(s)}]
      BY <1>2, <1>3
    <3>2. CASE Cardinality(s) = m
      BY <1>2, <1>5, <3>1, <3>2
    <3>3. CASE Cardinality(s) # m
      <4>1. Cardinality(s) <= m - 1 /\ k[s] = h[s]
        BY <1>2, <3>3
      <4> QED
        BY <2>2, <3>1, <4>1 DEF AddsUp
    <3> QED
      BY <3>2, <3>3
  <2>4. k = [s \in SUBSET DOMAIN g |-> k[s]]
    OBVIOUS
  <2> HIDE DEF k
  <2> QED
    BY <2>3, <2>4, <1>1
<1> QED
  BY <1>4, <1>5

\* SumFunction by its recursive equation.
PartialSums(h, g, X) ==
    /\ SumFunction(g) = h[X]
    /\ \A s \in SUBSET X :
         h[s] = IF s = {} THEN 0 ELSE g[Chosen(s)] + h[s \ {Chosen(s)}]

LEMMA SumUnfolds ==
    ASSUME NEW X, IsFiniteSet(X), NEW g, DOMAIN g = X
    PROVE  \E h : PartialSums(h, g, X)
<1> DEFINE Eq(h) == h = [s \in SUBSET DOMAIN g |->
                           IF s = {} THEN 0 ELSE g[Chosen(s)] + h[s \ {Chosen(s)}]]
<1>1. PICK h : h = [s \in SUBSET DOMAIN g |-> h[s]] /\ AddsUp(h, g, Cardinality(DOMAIN g))
  BY SumExists, FS_CardinalityType
<1>2. Eq(h)
  BY <1>1, FS_Subset DEF AddsUp
<1>3. Eq(CHOOSE i : Eq(i))
  <2> HIDE DEF Eq
  <2> QED
    BY <1>2
<1>4. SumFunction(g) = (CHOOSE i : Eq(i))[DOMAIN g]
  BY DEF SumFunction, SumFunctionOnSet, FoldFunctionOnSet, MapThenFoldSet, Chosen
<1>5. PICK i : Eq(i) /\ SumFunction(g) = i[DOMAIN g]
  <2> HIDE DEF Eq
  <2> QED
    BY <1>3, <1>4
<1> QED
  BY <1>5 DEF PartialSums

\* The subsets of a finite set, and what is left of one without its chosen
\* member.
LEMMA WithoutChosen ==
    ASSUME NEW X, IsFiniteSet(X), NEW s \in SUBSET X
    PROVE  /\ Cardinality(s) \in Nat
           /\ s # {} => /\ Chosen(s) \in s
                        /\ s \ {Chosen(s)} \in SUBSET X
                        /\ Cardinality(s \ {Chosen(s)}) \in Nat
                        /\ Cardinality(s \ {Chosen(s)}) < Cardinality(s)
<1>1. IsFiniteSet(s) /\ Cardinality(s) \in Nat
  BY FS_Subset, FS_CardinalityType
<1>2. ASSUME s # {} PROVE Chosen(s) \in s
  BY <1>2 DEF Chosen
<1>3. ASSUME s # {} PROVE /\ Cardinality(s \ {Chosen(s)}) \in Nat
                          /\ Cardinality(s \ {Chosen(s)}) < Cardinality(s)
  <2>1. IsFiniteSet(s \ {Chosen(s)})
    BY <1>1, FS_RemoveElement
  <2>2. Cardinality(s \ {Chosen(s)}) \in Nat
    BY <2>1, FS_CardinalityType
  <2>3. Cardinality(s \ {Chosen(s)}) = Cardinality(s) - 1
    BY <1>1, <1>2, <1>3, FS_RemoveElement
  <2> QED
    BY <1>1, <2>2, <2>3
<1> QED
  BY <1>1, <1>2, <1>3

\* A sum of naturals is one, and when one summand changes the sum changes by
\* as much.
LEMMA SumChanges ==
    ASSUME NEW X, IsFiniteSet(X), NEW g \in [X -> Nat], NEW k \in [X -> Nat],
           NEW x \in X, \A y \in X \ {x} : k[y] = g[y]
    PROVE  /\ SumFunction(g) \in Nat /\ SumFunction(k) \in Nat
           /\ SumFunction(k) + g[x] = SumFunction(g) + k[x]
<1>0. DOMAIN g = X /\ DOMAIN k = X
  OBVIOUS
<1>1. PICK sg : PartialSums(sg, g, X)
  BY <1>0, SumUnfolds
<1>2. PICK sk : PartialSums(sk, k, X)
  BY <1>0, SumUnfolds
<1> DEFINE Good(s) == /\ sg[s] \in Nat /\ sk[s] \in Nat
                      /\ x \notin s => sk[s] = sg[s]
                      /\ x \in s => sk[s] + g[x] = sg[s] + k[x]
           Bad == {Cardinality(s) : s \in {r \in SUBSET X : ~Good(r)}}
<1>3. ASSUME NEW s \in SUBSET X, s # {}, Good(s \ {Chosen(s)}) PROVE Good(s)
  <2> DEFINE c == Chosen(s)
             r == s \ {c}
  <2>1. c \in s /\ c \in X
    BY <1>3 DEF Chosen
  <2>2. sg[s] = g[c] + sg[r] /\ sk[s] = k[c] + sk[r]
    BY <1>1, <1>2, <1>3 DEF PartialSums
  <2>3. g[c] \in Nat /\ k[c] \in Nat /\ g[x] \in Nat /\ k[x] \in Nat
    BY <2>1
  <2>4. c # x => g[c] = k[c]
    BY <2>1
  <2>5. x \in r <=> x \in s /\ c # x
    OBVIOUS
  <2>6. Good(r)
    BY <1>3
  <2> HIDE DEF c, r
  <2> QED
    BY <2>1, <2>2, <2>3, <2>4, <2>5, <2>6
<1>4. Good({})
  <2>1. sg[{}] = 0 /\ sk[{}] = 0
    BY <1>1, <1>2 DEF PartialSums
  <2> QED
    BY <2>1
<1>5. Bad = {}
  <2> SUFFICES ASSUME Bad # {} PROVE FALSE
    OBVIOUS
  <2> HIDE DEF Good
  <2>1. Bad \in SUBSET Nat
    <3>1. \A s \in SUBSET X : Cardinality(s) \in Nat
      BY WithoutChosen
    <3> QED
      BY <3>1
  <2> HIDE DEF Bad
  <2>2. PICK n \in Bad : \A m \in Bad : n <= m
    BY <2>1, LeastNatural
  <2>3. PICK s \in SUBSET X : ~Good(s) /\ n = Cardinality(s)
    BY <2>2 DEF Bad
  <2>4. s # {}
    BY <1>4, <2>3
  <2>5. /\ s \ {Chosen(s)} \in SUBSET X
        /\ Cardinality(s \ {Chosen(s)}) \in Nat /\ n \in Nat
        /\ Cardinality(s \ {Chosen(s)}) < n
    BY <2>3, <2>4, WithoutChosen
  <2>6. Cardinality(s \ {Chosen(s)}) \in Bad
    BY <1>3, <2>3, <2>4, <2>5 DEF Bad
  <2> QED
    BY <2>2, <2>5, <2>6
<1>6. Good(X)
  BY <1>5
<1> QED
  BY <1>1, <1>2, <1>6 DEF PartialSums

\* Nothing adds up to nothing.
LEMMA SumOfZeros ==
    ASSUME NEW X, IsFiniteSet(X)
    PROVE  SumFunction([x \in X |-> 0]) = 0
<1> DEFINE g == [x \in X |-> 0]
<1>0. DOMAIN g = X
  OBVIOUS
<1>1. PICK sg : PartialSums(sg, g, X)
  BY <1>0, SumUnfolds
<1> DEFINE Bad == {Cardinality(s) : s \in {r \in SUBSET X : sg[r] # 0}}
<1>2. ASSUME NEW s \in SUBSET X, s # {}, sg[s \ {Chosen(s)}] = 0 PROVE sg[s] = 0
  <2>1. Chosen(s) \in X
    BY <1>2 DEF Chosen
  <2> QED
    BY <1>1, <1>2, <2>1 DEF PartialSums
<1>3. Bad = {}
  <2> SUFFICES ASSUME Bad # {} PROVE FALSE
    OBVIOUS
  <2> HIDE DEF g
  <2>1. Bad \in SUBSET Nat
    <3>1. \A s \in SUBSET X : Cardinality(s) \in Nat
      BY WithoutChosen
    <3> QED
      BY <3>1
  <2> HIDE DEF Bad
  <2>2. PICK n \in Bad : \A m \in Bad : n <= m
    BY <2>1, LeastNatural
  <2>3. PICK s \in SUBSET X : sg[s] # 0 /\ n = Cardinality(s)
    BY <2>2 DEF Bad
  <2>4. s # {}
    BY <1>1, <2>3 DEF PartialSums
  <2>5. /\ s \ {Chosen(s)} \in SUBSET X
        /\ Cardinality(s \ {Chosen(s)}) \in Nat /\ n \in Nat
        /\ Cardinality(s \ {Chosen(s)}) < n
    BY <2>3, <2>4, WithoutChosen
  <2>6. Cardinality(s \ {Chosen(s)}) \in Bad
    BY <1>2, <2>3, <2>4, <2>5 DEF Bad
  <2> QED
    BY <2>2, <2>5, <2>6
<1> QED
  BY <1>1, <1>3 DEF PartialSums

-----------------------------------------------------------------------------
(* The shape of the state, and what no flush will look at.                  *)

\* Every step keeps the shape of the state.
LEMMA ShapeStep == ASSUME Shape, [Next]_vars PROVE Shape'
<1> USE ConstantsAssumption DEF Shape, FlushShape, NoFault, CallFails, faultVars
<1>1. CASE UNCHANGED vars
  BY <1>1 DEF vars
<1>2. ASSUME NEW e \in Days, RecordRender(e) PROVE Shape'
  BY <1>2 DEF RecordRender
<1>3. ASSUME NEW e \in Days, CountersExpire(e) PROVE Shape'
  BY <1>3 DEF CountersExpire
<1>4. ASSUME NEW e \in Days, ReadHash(e) PROVE Shape'
  <2>1. reader.shown \in [Days -> Nat] /\ reader.left \in SUBSET Days
    BY DEF Reader
  <2>2. [reader.shown EXCEPT ![e] = @ + counters[e]] \in [Days -> Nat]
    BY <2>1
  <2>3. reader' \in Reader
    BY <1>4, <2>1, <2>2 DEF ReadHash, Reader, RowsBeforeHashes
  <2> QED
    BY <1>4, <2>3 DEF ReadHash, redisVars
<1>5. ASSUME NEW f \in Flushes, Pop(f) PROVE Shape'
  <2>1. PICK popped \in SUBSET dirty :
           /\ dirty' = dirty \ popped
           /\ flush' = [flush EXCEPT ![f].pending = popped] \/ flush' = flush
    BY <1>5, SMTT(30) DEF Pop, kSubset
  <2>2. flush' \in [Flushes -> FlushShape]
    BY <2>1
  <2>3. QED
    BY <1>5, <2>1, <2>2 DEF Pop
<1>6. ASSUME NEW f \in Flushes, NEW e \in Days, Drain(f, e) PROVE Shape'
  BY <1>6 DEF Drain
<1>7. ASSUME NEW f \in Flushes, Upsert(f) PROVE Shape'
  <2>1. /\ counters' = counters /\ dirty' = dirty
        /\ crashes' = crashes /\ errors' \in Nat
        /\ recorded' = recorded /\ reader' = reader
    BY <1>7 DEF Upsert, MarkAfter, CountersAfterFailure
  <2>2. \/ flush' = [flush EXCEPT ![f] = [@ EXCEPT !.pc = "loop", !.taken = 0]]
        \/ flush' = [flush EXCEPT ![f] = [@ EXCEPT !.pc = "requeue"]]
    BY <1>7 DEF Upsert
  <2>3. flush[f] \in FlushShape
    OBVIOUS
  <2>4. /\ [flush[f] EXCEPT !.pc = "loop", !.taken = 0] \in FlushShape
        /\ [flush[f] EXCEPT !.pc = "requeue"] \in FlushShape
    BY <2>3
  <2>5. flush' \in [Flushes -> FlushShape]
    <3> HIDE DEF FlushShape
    <3> QED
      BY <2>2, <2>4
  <2>6. usageDaily' \in [Days -> Nat]
    <3>1. flush[f].entry \in Days /\ flush[f].taken \in Nat
      BY <2>3
    <3>2. [usageDaily EXCEPT ![flush[f].entry] = @ + flush[f].taken] \in [Days -> Nat]
      BY <3>1
    <3> HIDE DEF FlushShape
    <3> QED
      BY <1>7, <3>2 DEF Upsert, Increment
  <2>7. QED
    BY <2>1, <2>5, <2>6
<1>8. ASSUME NEW f \in Flushes, Requeue(f) PROVE Shape'
  <2>1. flush' = [flush EXCEPT ![f] = [@ EXCEPT !.pc = "loop", !.taken = 0]]
    BY <1>8 DEF Requeue
  <2>2. flush' \in [Flushes -> FlushShape]
    BY <2>1
  <2>3. QED
    BY <1>8, <2>2 DEF Requeue
<1>9. ASSUME NEW f \in Flushes, FlushCrash(f) PROVE Shape'
  BY <1>9 DEF FlushCrash, IdleFlush, redisVars
<1>10. CASE ReadRows \/ Respond
  BY <1>10 DEF ReadRows, Respond, redisVars, Reader, RowsBeforeHashes, Zero
<1>11. QED
  BY <1>1, <1>2, <1>3, <1>4, <1>5, <1>6, <1>7, <1>8, <1>9, <1>10 DEF Next, FlushStep

\* While nothing fails, a step takes a mark, an entry or counters of a day only
\* to hand the day on: SPOP to pending, the drain with the counters themselves.
LEMMA StrandedStep ==
  ASSUME Shape, NothingStranded, [Next]_vars PROVE NothingStranded'
<1> SUFFICES ASSUME NoFaultSoFar', NEW d \in Days, counters'[d] > 0
             PROVE  Tracked(d)'
  BY DEF NothingStranded
<1>0. counters[d] > 0 /\ NoFaultSoFar => Tracked(d)
  BY DEF NothingStranded
<1> USE DEF NoFault, faultVars, NoFaultSoFar
<1>1. CASE UNCHANGED vars
  BY <1>1, <1>0 DEF vars, Tracked
<1>2. ASSUME NEW e \in Days, RecordRender(e) PROVE Tracked(d)'
  BY <1>2, <1>0 DEF RecordRender, Tracked, Shape
<1>3. ASSUME NEW e \in Days, CountersExpire(e) PROVE Tracked(d)'
  BY <1>3, <1>0 DEF CountersExpire, Tracked, Shape
<1>4. ASSUME NEW e \in Days, ReadHash(e) PROVE Tracked(d)'
  BY <1>4, <1>0 DEF ReadHash, redisVars, Tracked
<1>5. ASSUME NEW f \in Flushes, Pop(f) PROVE Tracked(d)'
  <2>1. PICK popped \in SUBSET dirty :
           /\ dirty' = dirty \ popped
           /\ \/ flush' = [flush EXCEPT ![f].pending = popped] /\ NoFault
              \/ flush' = flush /\ CallFails
    BY <1>5 DEF Pop, kSubset
  <2>2. flush' = [flush EXCEPT ![f].pending = popped] /\ NoFaultSoFar
    BY <2>1 DEF CallFails, Shape
  <2>3. Tracked(d)
    BY <1>5, <1>0, <2>2 DEF Pop
  <2>4. CASE d \in dirty
    BY <2>1, <2>2, <2>4 DEF Tracked, Shape, FlushShape
  <2>5. CASE \E g \in Flushes : \/ d \in flush[g].pending
                                \/ flush[g].pc = "requeue" /\ flush[g].entry = d
    <3>1. PICK g \in Flushes : \/ d \in flush[g].pending
                               \/ flush[g].pc = "requeue" /\ flush[g].entry = d
      BY <2>5
    <3>2. g # f
      BY <1>5, <3>1 DEF Pop, IsIdle
    <3>3. flush'[g] = flush[g]
      BY <2>2, <3>2 DEF Shape
    <3>4. QED
      BY <3>1, <3>3 DEF Tracked
  <2>6. QED
    BY <2>3, <2>4, <2>5 DEF Tracked
<1>6. ASSUME NEW f \in Flushes, NEW e \in Days, Drain(f, e) PROVE Tracked(d)'
  <2>1. /\ flush' = [flush EXCEPT ![f] =
              [pc |-> IF counters[e] = 0 THEN "loop" ELSE "upsert",
               pending |-> @.pending \ {e}, entry |-> e, taken |-> counters[e]]]
        /\ counters' = [counters EXCEPT ![e] = 0]
        /\ NoFaultSoFar
    BY <1>6 DEF Drain, CallFails, Shape
  <2>2. d # e /\ counters[d] > 0
    BY <2>1 DEF Shape
  <2>3. Tracked(d)
    BY <1>0, <2>1, <2>2
  <2>4. CASE d \in dirty
    BY <1>6, <2>4 DEF Drain, Tracked
  <2>5. CASE \E g \in Flushes : \/ d \in flush[g].pending
                                \/ flush[g].pc = "requeue" /\ flush[g].entry = d
    <3>1. PICK g \in Flushes : \/ d \in flush[g].pending
                               \/ flush[g].pc = "requeue" /\ flush[g].entry = d
      BY <2>5
    <3>2. CASE g = f
      <4>1. d \in flush[f].pending
        BY <1>6, <3>1, <3>2 DEF Drain
      <4>2. d \in flush'[f].pending
        BY <2>1, <2>2, <4>1 DEF Shape
      <4>3. QED
        BY <4>2 DEF Tracked
    <3>3. CASE g # f
      <4>1. flush'[g] = flush[g]
        BY <2>1, <3>3 DEF Shape
      <4>2. QED
        BY <3>1, <4>1 DEF Tracked
    <3>4. QED
      BY <3>2, <3>3
  <2>6. QED
    BY <2>3, <2>4, <2>5 DEF Tracked
<1>7. ASSUME NEW f \in Flushes, Upsert(f) PROVE Tracked(d)'
  <2>1. /\ flush' = [flush EXCEPT ![f] = [@ EXCEPT !.pc = "loop", !.taken = 0]]
        /\ counters' = counters /\ dirty' = dirty
        /\ NoFaultSoFar
    BY <1>7 DEF Upsert, MarkAfter, CallFails, Shape
  <2>2. Tracked(d)
    BY <1>0, <2>1
  <2>3. \A g \in Flushes : /\ flush'[g].pending = flush[g].pending
                           /\ flush[g].pc = "requeue" => flush'[g] = flush[g]
    BY <1>7, <2>1 DEF Upsert, Shape, FlushShape
  <2>4. QED
    BY <2>1, <2>2, <2>3 DEF Tracked
<1>8. ASSUME NEW f \in Flushes, Requeue(f) PROVE Tracked(d)'
  <2>1. /\ flush' = [flush EXCEPT ![f] = [@ EXCEPT !.pc = "loop", !.taken = 0]]
        /\ counters' = counters /\ dirty' = dirty \cup {flush[f].entry}
        /\ NoFaultSoFar
    BY <1>8 DEF Requeue, CallFails, Shape
  <2>2. Tracked(d)
    BY <1>0, <2>1
  <2>3. \A g \in Flushes : /\ flush'[g].pending = flush[g].pending
                           /\ g # f => flush'[g] = flush[g]
    BY <2>1 DEF Shape, FlushShape
  <2>4. QED
    BY <2>1, <2>2, <2>3 DEF Tracked
<1>9. ASSUME NEW f \in Flushes, FlushCrash(f) PROVE Tracked(d)'
  BY <1>9 DEF FlushCrash, Shape
<1>10. CASE ReadRows \/ Respond
  BY <1>10, <1>0 DEF ReadRows, Respond, redisVars, Tracked
<1>11. QED
  BY <1>1, <1>2, <1>3, <1>4, <1>5, <1>6, <1>7, <1>8, <1>9, <1>10 DEF Next, FlushStep

-----------------------------------------------------------------------------
(* Every render in one place.                                               *)

\* What the flushes hold of a day is a number, and changes by what the one
\* flush that moved holds.
LEMMA HeldChanges ==
    ASSUME Shape, NEW f \in Flushes, NEW h \in FlushShape,
           flush' = [flush EXCEPT ![f] = h], NEW e \in Days
    PROVE  /\ InFlight(e) \in Nat /\ InFlight(e)' \in Nat
           /\ InFlight(e)' + Held(flush[f], e) = InFlight(e) + Held(h, e)
<1> DEFINE g == [q \in Flushes |-> Held(flush[q], e)]
           k == [q \in Flushes |-> Held(flush'[q], e)]
<1>1. \A r \in FlushShape : Held(r, e) \in Nat
  BY DEF Held, FlushShape
<1>2. flush \in [Flushes -> FlushShape] /\ flush' \in [Flushes -> FlushShape]
  BY DEF Shape
<1>3. g \in [Flushes -> Nat] /\ k \in [Flushes -> Nat]
  BY <1>1, <1>2
<1>4. /\ \A q \in Flushes \ {f} : k[q] = g[q]
      /\ g[f] = Held(flush[f], e) /\ k[f] = Held(h, e)
  BY <1>2
<1>5. IsFiniteSet(Flushes)
  BY ConstantsAssumption
<1> HIDE DEF g, k
<1>6. /\ SumFunction(g) \in Nat /\ SumFunction(k) \in Nat
      /\ SumFunction(k) + g[f] = SumFunction(g) + k[f]
  BY <1>3, <1>4, <1>5, SumChanges
<1>7. InFlight(e) = SumFunction(g) /\ InFlight(e)' = SumFunction(k)
  BY DEF InFlight, g, k
<1> QED
  BY <1>4, <1>6, <1>7

LEMMA HeldStays ==
    ASSUME UNCHANGED flush, NEW e \in Days PROVE InFlight(e)' = InFlight(e)
BY DEF InFlight

\* The sum of no flushes is not excluded.
LEMMA HeldIsNatural == ASSUME Shape, NEW e \in Days PROVE InFlight(e) \in Nat
<1>1. CASE Flushes = {}
  <2>1. [f \in Flushes |-> Held(flush[f], e)] = [f \in Flushes |-> 0]
    BY <1>1
  <2>2. SumFunction([f \in Flushes |-> 0]) = 0
    BY ConstantsAssumption, SumOfZeros
  <2> QED
    BY <2>1, <2>2 DEF InFlight
<1>2. CASE Flushes # {}
  <2> PICK f \in Flushes : TRUE
    BY <1>2
  <2> DEFINE g == [q \in Flushes |-> Held(flush[q], e)]
  <2>1. g \in [Flushes -> Nat]
    BY DEF Shape, FlushShape, Held
  <2> HIDE DEF g
  <2>2. SumFunction(g) \in Nat
    BY <2>1, ConstantsAssumption, SumChanges
  <2> QED
    BY <2>2 DEF InFlight, g
<1> QED
  BY <1>1, <1>2

LEMMA HeldIsNaturalAfter == Shape' => (\A e \in Days : InFlight(e) \in Nat)'
<1>1. Shape => \A e \in Days : InFlight(e) \in Nat
  BY HeldIsNatural
<1> QED
  BY <1>1, PTL

\* What a step of usage metering does to the numbers of a day: nothing, or it
\* adds a render, or moves a number on, or loses it with a fault.
Moves ==
    \A e \in Days :
        /\ recorded[e] <= recorded'[e]
        /\ usageDaily[e] <= usageDaily'[e]
        /\ Accounted(e)' + recorded[e] <= Accounted(e) + recorded'[e]
        /\ NoFaultSoFar' => /\ NoFaultSoFar
                            /\ Accounted(e)' + recorded[e] = Accounted(e) + recorded'[e]

\* In numbers: a day's hash, flushes and row before and after a step.
LEMMA RecordMoves == ASSUME Shape, NEW e \in Days, RecordRender(e) PROVE Moves
<1>1. \A d \in Days : InFlight(d)' = InFlight(d) /\ InFlight(d) \in Nat
  BY HeldStays, HeldIsNatural DEF RecordRender
<1>2. /\ recorded' = [recorded EXCEPT ![e] = @ + 1]
      /\ counters' = [counters EXCEPT ![e] = @ + 1]
      /\ usageDaily' = usageDaily /\ UNCHANGED <<crashes, errors>>
  BY DEF RecordRender, NoFault, faultVars
<1>3. ASSUME NEW d \in Days
      PROVE  /\ recorded[d] \in Nat /\ counters[d] \in Nat /\ usageDaily[d] \in Nat
             /\ \/ recorded'[d] = recorded[d] /\ counters'[d] = counters[d]
                \/ recorded'[d] = recorded[d] + 1 /\ counters'[d] = counters[d] + 1
  BY <1>2 DEF Shape
<1>4. NoFaultSoFar' = NoFaultSoFar
  BY <1>2 DEF NoFaultSoFar
<1> HIDE DEF NoFaultSoFar
<1>5. ASSUME NEW d \in Days
      PROVE  /\ recorded[d] <= recorded'[d] /\ usageDaily[d] <= usageDaily'[d]
             /\ Accounted(d)' + recorded[d] = Accounted(d) + recorded'[d]
             /\ Accounted(d)' + recorded[d] <= Accounted(d) + recorded'[d]
  BY <1>1, <1>2, <1>3 DEF Accounted
<1> QED
  BY <1>4, <1>5 DEF Moves

\* Nothing is moved and a number may be lost.
LEMMA QuietMoves ==
    ASSUME Shape, UNCHANGED <<recorded, usageDaily, flush>>,
           counters' \in [Days -> Nat], \A d \in Days : counters'[d] <= counters[d],
           NoFaultSoFar' => NoFaultSoFar /\ \A d \in Days : counters'[d] = counters[d]
    PROVE  Moves
<1>1. ASSUME NEW d \in Days
      PROVE  /\ InFlight(d)' = InFlight(d) /\ InFlight(d) \in Nat
             /\ recorded[d] \in Nat /\ counters[d] \in Nat /\ usageDaily[d] \in Nat
             /\ counters'[d] \in Nat
  BY HeldStays, HeldIsNatural DEF Shape
<1> HIDE DEF NoFaultSoFar
<1>2. ASSUME NEW d \in Days
      PROVE  /\ recorded[d] <= recorded'[d] /\ usageDaily[d] <= usageDaily'[d]
             /\ Accounted(d)' + recorded[d] <= Accounted(d) + recorded'[d]
             /\ counters'[d] = counters[d] =>
                  Accounted(d)' + recorded[d] = Accounted(d) + recorded'[d]
  BY <1>1 DEF Accounted
<1> QED
  BY <1>2 DEF Moves

\* One flush moves, and with it what is in the hashes and the rows.
LEMMA FlushMoves ==
    ASSUME Shape, NEW f \in Flushes, NEW h \in FlushShape,
           flush' = [flush EXCEPT ![f] = h], UNCHANGED recorded,
           counters' \in [Days -> Nat], usageDaily' \in [Days -> Nat],
           \A d \in Days :
               /\ usageDaily[d] <= usageDaily'[d]
               /\ counters'[d] + Held(h, d) + usageDaily'[d]
                    <= counters[d] + Held(flush[f], d) + usageDaily[d],
           NoFaultSoFar' =>
               /\ NoFaultSoFar
               /\ \A d \in Days :
                    counters'[d] + Held(h, d) + usageDaily'[d]
                      = counters[d] + Held(flush[f], d) + usageDaily[d]
    PROVE  Moves
<1>1. ASSUME NEW d \in Days
      PROVE  /\ InFlight(d) \in Nat /\ InFlight(d)' \in Nat
             /\ InFlight(d)' + Held(flush[f], d) = InFlight(d) + Held(h, d)
             /\ recorded[d] \in Nat /\ counters[d] \in Nat /\ usageDaily[d] \in Nat
             /\ counters'[d] \in Nat /\ usageDaily'[d] \in Nat
             /\ Held(h, d) \in Nat /\ Held(flush[f], d) \in Nat
  <2>1. flush[f] \in FlushShape
    BY DEF Shape
  <2>2. Held(h, d) \in Nat /\ Held(flush[f], d) \in Nat
    BY <2>1 DEF Held, FlushShape
  <2>3. /\ InFlight(d) \in Nat /\ InFlight(d)' \in Nat
        /\ InFlight(d)' + Held(flush[f], d) = InFlight(d) + Held(h, d)
    BY HeldChanges
  <2> QED
    BY <2>2, <2>3 DEF Shape
<1> HIDE DEF NoFaultSoFar
<1>2. ASSUME NEW d \in Days
      PROVE  /\ recorded[d] <= recorded'[d] /\ usageDaily[d] <= usageDaily'[d]
             /\ Accounted(d)' + recorded[d] <= Accounted(d) + recorded'[d]
             /\ NoFaultSoFar' => Accounted(d)' + recorded[d] = Accounted(d) + recorded'[d]
  BY <1>1 DEF Accounted
<1> QED
  BY <1>2 DEF Moves

\* A flush whose counters nothing awaits holds nothing.
LEMMA PopMoves == ASSUME Shape, NEW f \in Flushes, Pop(f) PROVE Moves
<1>1. PICK popped \in SUBSET Days :
         \/ flush' = [flush EXCEPT ![f].pending = popped] /\ NoFault
         \/ flush' = flush /\ CallFails
  BY DEF Pop, kSubset, Shape
<1>2. UNCHANGED <<recorded, counters, usageDaily>>
  BY DEF Pop
<1>3. CASE flush' = flush /\ CallFails
  <2>1. ~NoFaultSoFar'
    BY <1>3 DEF CallFails, NoFaultSoFar, Shape
  <2>2. counters' \in [Days -> Nat] /\ \A d \in Days : counters'[d] <= counters[d]
    BY <1>2 DEF Shape
  <2> QED
    BY <1>2, <1>3, <2>1, <2>2, QuietMoves
<1>4. CASE flush' = [flush EXCEPT ![f].pending = popped] /\ NoFault
  <2> DEFINE h == [flush[f] EXCEPT !.pending = popped]
  <2>1. h \in FlushShape /\ flush' = [flush EXCEPT ![f] = h]
    BY <1>4 DEF FlushShape, Shape
  <2>2. \A d : Held(h, d) = Held(flush[f], d)
    BY DEF Held, FlushShape, Shape
  <2>3. ASSUME NEW d \in Days
        PROVE  /\ counters[d] \in Nat /\ usageDaily[d] \in Nat /\ Held(h, d) \in Nat
    BY <2>1 DEF Held, FlushShape, Shape
  <2>4. NoFaultSoFar' = NoFaultSoFar
    BY <1>4 DEF NoFault, faultVars, NoFaultSoFar
  <2>5. counters' \in [Days -> Nat] /\ usageDaily' \in [Days -> Nat]
    BY <1>2 DEF Shape
  <2> HIDE DEF h, NoFaultSoFar
  <2>6. ASSUME NEW d \in Days
        PROVE  /\ usageDaily[d] <= usageDaily'[d]
               /\ counters'[d] + Held(h, d) + usageDaily'[d]
                    = counters[d] + Held(flush[f], d) + usageDaily[d]
               /\ counters'[d] + Held(h, d) + usageDaily'[d]
                    <= counters[d] + Held(flush[f], d) + usageDaily[d]
    BY <1>2, <2>2, <2>3
  <2> QED
    BY <1>2, <2>1, <2>4, <2>5, <2>6, FlushMoves
<1> QED
  BY <1>1, <1>3, <1>4

\* The drained numbers go from the hash into the frame; when the drain rejects
\* they may be gone.
LEMMA DrainMoves ==
    ASSUME Shape, NEW f \in Flushes, NEW e \in Days, Drain(f, e) PROVE Moves
<1>0. /\ flush[f] \in FlushShape /\ flush[f].pc = "loop"
      /\ \A d \in Days : /\ Held(flush[f], d) = 0
                          /\ counters[d] \in Nat /\ usageDaily[d] \in Nat
  BY DEF Drain, Shape, Held
<1>1. UNCHANGED <<recorded, usageDaily>>
  BY DEF Drain
<1>2. CASE /\ flush' = [flush EXCEPT ![f] =
                  [pc |-> IF counters[e] = 0 THEN "loop" ELSE "upsert",
                   pending |-> @.pending \ {e}, entry |-> e, taken |-> counters[e]]]
           /\ counters' = [counters EXCEPT ![e] = 0]
           /\ NoFault
  <2> DEFINE h == [pc |-> IF counters[e] = 0 THEN "loop" ELSE "upsert",
                   pending |-> flush[f].pending \ {e}, entry |-> e, taken |-> counters[e]]
  <2>1. h \in FlushShape /\ flush' = [flush EXCEPT ![f] = h]
    BY <1>0, <1>2 DEF FlushShape
  <2>2. ASSUME NEW d \in Days
        PROVE  /\ counters'[d] \in Nat /\ Held(h, d) \in Nat
               /\ counters'[d] + Held(h, d) = counters[d]
    <3>1. CASE d = e
      BY <1>0, <1>2, <3>1 DEF Held, Shape
    <3>2. CASE d # e
      BY <1>0, <1>2, <3>2 DEF Held, Shape
    <3> QED
      BY <3>1, <3>2
  <2>3. NoFaultSoFar' = NoFaultSoFar
    BY <1>2 DEF NoFault, faultVars, NoFaultSoFar
  <2>4. counters' \in [Days -> Nat] /\ usageDaily' \in [Days -> Nat]
    BY <1>1, <1>2 DEF Shape
  <2> HIDE DEF h, NoFaultSoFar
  <2>5. ASSUME NEW d \in Days
        PROVE  /\ usageDaily[d] <= usageDaily'[d]
               /\ counters'[d] + Held(h, d) + usageDaily'[d]
                    = counters[d] + Held(flush[f], d) + usageDaily[d]
               /\ counters'[d] + Held(h, d) + usageDaily'[d]
                    <= counters[d] + Held(flush[f], d) + usageDaily[d]
    BY <1>0, <1>1, <2>2
  <2> QED
    BY <1>1, <2>1, <2>3, <2>4, <2>5, FlushMoves
<1>3. CASE /\ flush' = [flush EXCEPT ![f] =
                  [pc |-> "requeue", pending |-> @.pending \ {e}, entry |-> e,
                   taken |-> 0]]
           /\ counters' \in {counters, [counters EXCEPT ![e] = 0]}
           /\ CallFails
  <2> DEFINE h == [pc |-> "requeue", pending |-> flush[f].pending \ {e}, entry |-> e,
                   taken |-> 0]
  <2>1. h \in FlushShape /\ flush' = [flush EXCEPT ![f] = h]
    BY <1>0, <1>3 DEF FlushShape
  <2>2. \A d \in Days : Held(h, d) = 0
    BY DEF Held
  <2>3. counters' \in [Days -> Nat] /\ usageDaily' \in [Days -> Nat]
    BY <1>1, <1>3 DEF Shape
  <2>4. \A d \in Days : counters'[d] <= counters[d]
    BY <1>0, <1>3 DEF Shape
  <2>5. ~NoFaultSoFar'
    BY <1>3 DEF CallFails, NoFaultSoFar, Shape
  <2> HIDE DEF h, NoFaultSoFar
  <2>6. ASSUME NEW d \in Days
        PROVE  /\ usageDaily[d] <= usageDaily'[d]
               /\ counters'[d] + Held(h, d) + usageDaily'[d]
                    <= counters[d] + Held(flush[f], d) + usageDaily[d]
    BY <1>0, <1>1, <2>2, <2>3, <2>4
  <2> QED
    BY <1>1, <2>1, <2>3, <2>5, <2>6, FlushMoves
<1> QED
  BY <1>2, <1>3 DEF Drain

\* The numbers go from the frame into the row; when the upsert rejects they may
\* be gone.
LEMMA UpsertMoves == ASSUME Shape, NEW f \in Flushes, Upsert(f) PROVE Moves
<1> DEFINE e == flush[f].entry
           n == flush[f].taken
           committed == [usageDaily EXCEPT ![e] = Increment(@, n)]
<1>0. /\ flush[f] \in FlushShape /\ flush[f].pc = "upsert" /\ e \in Days /\ n \in Nat
      /\ \A d \in Days : counters[d] \in Nat /\ usageDaily[d] \in Nat
  BY DEF Upsert, Shape, FlushShape
<1>1. /\ UNCHANGED <<recorded, counters>>
      /\ \/ /\ usageDaily' = committed
            /\ flush' = [flush EXCEPT ![f] = [@ EXCEPT !.pc = "loop", !.taken = 0]]
            /\ NoFault
         \/ /\ usageDaily' \in {usageDaily, committed}
            /\ flush' = [flush EXCEPT ![f] = [@ EXCEPT !.pc = "requeue"]]
            /\ CallFails
  BY DEF Upsert, CountersAfterFailure
<1>2. ASSUME NEW d \in Days
      PROVE  /\ committed[d] \in Nat
             /\ committed[d] = usageDaily[d] + Held(flush[f], d)
             /\ Held(flush[f], d) \in Nat
  BY <1>0 DEF Held, Increment, Shape
<1>3. committed \in [Days -> Nat]
  BY <1>0 DEF Increment, Shape
<1>4. counters' \in [Days -> Nat]
  BY <1>1 DEF Shape
<1> HIDE DEF committed
<1>5. CASE /\ usageDaily' = committed
           /\ flush' = [flush EXCEPT ![f] = [@ EXCEPT !.pc = "loop", !.taken = 0]]
           /\ NoFault
  <2> DEFINE h == [flush[f] EXCEPT !.pc = "loop", !.taken = 0]
  <2>1. h \in FlushShape /\ flush' = [flush EXCEPT ![f] = h]
    BY <1>0, <1>5 DEF FlushShape
  <2>2. \A d : Held(h, d) = 0
    BY <1>0 DEF Held, FlushShape
  <2>3. NoFaultSoFar' = NoFaultSoFar
    BY <1>5 DEF NoFault, faultVars, NoFaultSoFar
  <2> HIDE DEF h, NoFaultSoFar, e, n
  <2>4. ASSUME NEW d \in Days
        PROVE  /\ usageDaily[d] <= usageDaily'[d]
               /\ counters'[d] + Held(h, d) + usageDaily'[d]
                    = counters[d] + Held(flush[f], d) + usageDaily[d]
               /\ counters'[d] + Held(h, d) + usageDaily'[d]
                    <= counters[d] + Held(flush[f], d) + usageDaily[d]
    BY <1>0, <1>1, <1>2, <1>5, <2>2
  <2> QED
    BY <1>1, <1>3, <1>4, <1>5, <2>1, <2>3, <2>4, FlushMoves
<1>6. CASE /\ usageDaily' \in {usageDaily, committed}
           /\ flush' = [flush EXCEPT ![f] = [@ EXCEPT !.pc = "requeue"]]
           /\ CallFails
  <2> DEFINE h == [flush[f] EXCEPT !.pc = "requeue"]
  <2>1. h \in FlushShape /\ flush' = [flush EXCEPT ![f] = h]
    BY <1>0, <1>6 DEF FlushShape
  <2>2. \A d : Held(h, d) = 0
    BY <1>0 DEF Held, FlushShape
  <2>3. ~NoFaultSoFar'
    BY <1>6 DEF CallFails, NoFaultSoFar, Shape
  <2>4. usageDaily' \in [Days -> Nat]
    BY <1>3, <1>6 DEF Shape
  <2> HIDE DEF h, NoFaultSoFar, e, n
  <2>5. ASSUME NEW d \in Days
        PROVE  /\ usageDaily[d] <= usageDaily'[d]
               /\ counters'[d] + Held(h, d) + usageDaily'[d]
                    <= counters[d] + Held(flush[f], d) + usageDaily[d]
    BY <1>0, <1>1, <1>2, <1>6, <2>2
  <2> QED
    BY <1>1, <1>4, <2>1, <2>3, <2>4, <2>5, FlushMoves
<1> QED
  BY <1>1, <1>5, <1>6

\* A frame that is left, or dies, holds nothing afterwards.
LEMMA DropMoves ==
    ASSUME Shape, NEW f \in Flushes, NEW h \in FlushShape, h.pc # "upsert",
           flush' = [flush EXCEPT ![f] = h], UNCHANGED <<recorded, counters, usageDaily>>,
           NoFaultSoFar' => NoFaultSoFar /\ flush[f].pc # "upsert"
    PROVE  Moves
<1>1. ASSUME NEW d \in Days
      PROVE  /\ counters[d] \in Nat /\ usageDaily[d] \in Nat
             /\ Held(h, d) = 0 /\ Held(flush[f], d) \in Nat
             /\ flush[f].pc # "upsert" => Held(flush[f], d) = 0
  BY DEF Shape, Held, FlushShape
<1>2. counters' \in [Days -> Nat] /\ usageDaily' \in [Days -> Nat]
  BY DEF Shape
<1> HIDE DEF NoFaultSoFar
<1>3. ASSUME NEW d \in Days
      PROVE  /\ usageDaily[d] <= usageDaily'[d]
             /\ counters'[d] + Held(h, d) + usageDaily'[d]
                  <= counters[d] + Held(flush[f], d) + usageDaily[d]
             /\ flush[f].pc # "upsert" =>
                  counters'[d] + Held(h, d) + usageDaily'[d]
                    = counters[d] + Held(flush[f], d) + usageDaily[d]
  BY <1>1
<1> QED
  BY <1>2, <1>3, FlushMoves

LEMMA RequeueMoves == ASSUME Shape, NEW f \in Flushes, Requeue(f) PROVE Moves
<1> DEFINE h == [flush[f] EXCEPT !.pc = "loop", !.taken = 0]
<1>1. /\ flush' = [flush EXCEPT ![f] = h] /\ flush[f].pc = "requeue"
      /\ UNCHANGED <<recorded, counters, usageDaily>>
      /\ NoFault \/ CallFails
  BY DEF Requeue
<1>2. h \in FlushShape /\ h.pc # "upsert"
  BY DEF Shape, FlushShape
<1>3. NoFaultSoFar' => NoFaultSoFar
  BY <1>1 DEF NoFault, CallFails, faultVars, NoFaultSoFar, Shape
<1> QED
  BY <1>1, <1>2, <1>3, DropMoves

LEMMA CrashMoves == ASSUME Shape, NEW f \in Flushes, FlushCrash(f) PROVE Moves
<1>1. IdleFlush \in FlushShape /\ IdleFlush.pc # "upsert"
  BY ConstantsAssumption DEF IdleFlush, FlushShape
<1>2. ~NoFaultSoFar'
  BY DEF FlushCrash, NoFaultSoFar, Shape
<1> QED
  BY <1>1, <1>2, DropMoves DEF FlushCrash, redisVars

\* A hash expires only when no flush will look at it, which without a fault is
\* an empty one.
LEMMA ExpireMoves ==
    ASSUME Shape, NothingStranded, NEW e \in Days, CountersExpire(e) PROVE Moves
<1>1. /\ counters[e] > 0 /\ ~Tracked(e) /\ counters' = [counters EXCEPT ![e] = 0]
      /\ UNCHANGED <<recorded, usageDaily, flush, crashes, errors>>
  BY DEF CountersExpire, NoFault, faultVars
<1>2. ~NoFaultSoFar
  BY <1>1 DEF NothingStranded
<1>3. ~NoFaultSoFar'
  BY <1>1, <1>2 DEF NoFaultSoFar
<1>4. counters' \in [Days -> Nat] /\ \A d \in Days : counters'[d] <= counters[d]
  BY <1>1 DEF Shape
<1> QED
  BY <1>1, <1>3, <1>4, QuietMoves

\* The dashboard only looks.
LEMMA LookMoves ==
    ASSUME Shape, UNCHANGED <<recorded, counters, usageDaily, flush, crashes, errors>>
    PROVE  Moves
<1>1. NoFaultSoFar' = NoFaultSoFar
  BY DEF NoFaultSoFar
<1>2. counters' \in [Days -> Nat] /\ \A d \in Days : counters'[d] <= counters[d]
  BY DEF Shape
<1> QED
  BY <1>1, <1>2, QuietMoves

LEMMA EveryStepMoves ==
    ASSUME Shape, NothingStranded, [Next]_vars PROVE Moves
<1>1. CASE UNCHANGED vars
  BY <1>1, LookMoves DEF vars
<1>2. ASSUME NEW e \in Days, ReadHash(e) PROVE Moves
  BY <1>2, LookMoves DEF ReadHash, redisVars, NoFault, faultVars
<1>3. CASE ReadRows \/ Respond
  BY <1>3, LookMoves DEF ReadRows, Respond, redisVars, NoFault, faultVars
<1> QED
  BY <1>1, <1>2, <1>3, RecordMoves, ExpireMoves, PopMoves, DrainMoves, UpsertMoves,
     RequeueMoves, CrashMoves DEF Next, FlushStep

\* So no render is counted twice, and none is lost without a fault.
LEMMA NoneTwiceStep == ASSUME Shape, Shape', NoneTwice, Moves PROVE NoneTwice'
<1> SUFFICES ASSUME NEW e \in Days
             PROVE  /\ Accounted(e)' <= recorded'[e]
                    /\ NoFaultSoFar' => Accounted(e)' = recorded'[e]
  BY DEF NoneTwice
<1>1. /\ Accounted(e) \in Nat /\ recorded[e] \in Nat /\ recorded'[e] \in Nat
  BY HeldIsNatural DEF Accounted, Shape
<1>2. Accounted(e)' \in Nat
  <2>1. InFlight(e)' \in Nat
    BY HeldIsNaturalAfter
  <2> QED
    BY <2>1 DEF Accounted, Shape
<1> HIDE DEF Accounted, NoFaultSoFar
<1>3. /\ Accounted(e)' + recorded[e] <= Accounted(e) + recorded'[e]
      /\ NoFaultSoFar' => /\ NoFaultSoFar
                          /\ Accounted(e)' + recorded[e] = Accounted(e) + recorded'[e]
  BY DEF Moves
<1>4. Accounted(e) <= recorded[e] /\ (NoFaultSoFar => Accounted(e) = recorded[e])
  BY DEF NoneTwice
<1> QED
  BY <1>1, <1>2, <1>3, <1>4

\* A load never has more than was recorded: what it read of a row is still in
\* it, and a hash holds what is not in the row.
LEMMA SeriesStep ==
    ASSUME Shape, Shape', NoneTwice, NoneTwice', SeriesInv, Moves, [Next]_vars
    PROVE  SeriesInv'
<1>1. /\ reader.left \in SUBSET Days /\ reader.shown \in [Days -> Nat]
      /\ \A d \in Days :
           /\ reader.shown[d] \in Nat /\ usageDaily[d] \in Nat /\ usageDaily'[d] \in Nat
           /\ recorded[d] \in Nat /\ recorded'[d] \in Nat /\ counters[d] \in Nat
           /\ InFlight(d) \in Nat
           /\ recorded[d] <= recorded'[d] /\ usageDaily[d] <= usageDaily'[d]
           /\ counters[d] + InFlight(d) + usageDaily[d] <= recorded[d]
  BY HeldIsNatural DEF Shape, Reader, Moves, NoneTwice, Accounted
<1>2. /\ \A d \in reader.left : reader.shown[d] <= usageDaily[d]
      /\ \A d \in Days \ reader.left : reader.shown[d] <= recorded[d]
      /\ reader.pc # "rows" => reader.left = {}
  BY DEF SeriesInv, Shape, Reader
<1>3. CASE reader' = reader
  BY <1>1, <1>2, <1>3 DEF SeriesInv
<1>4. ASSUME NEW e \in Days, ReadHash(e) PROVE SeriesInv'
  <2>1. /\ e \in reader.left
        /\ reader' = [pc |-> IF reader.left = {e} THEN "done" ELSE "rows",
                      left |-> reader.left \ {e},
                      shown |-> [reader.shown EXCEPT ![e] = @ + counters[e]]]
    BY <1>4 DEF ReadHash, RowsBeforeHashes
  <2>2. /\ reader'.left = reader.left \ {e}
        /\ reader'.pc # "rows" => reader'.left = {}
        /\ \A d \in Days : reader'.shown[d] = IF d = e THEN reader.shown[e] + counters[e]
                                               ELSE reader.shown[d]
    BY <1>1, <2>1
  <2>3. reader.shown[e] + counters[e] <= recorded'[e]
    BY <1>1, <1>2, <2>1
  <2>4. ASSUME NEW d \in Days
        PROVE  /\ d \in reader'.left => reader'.shown[d] <= usageDaily'[d]
               /\ d \notin reader'.left => reader'.shown[d] <= recorded'[d]
    <3>1. CASE d = e
      BY <2>2, <2>3, <3>1
    <3>2. CASE d # e
      BY <1>1, <1>2, <2>2, <3>2
    <3> QED
      BY <3>1, <3>2
  <2> QED
    BY <2>2, <2>4 DEF SeriesInv
<1>5. CASE ReadRows
  <2>1. /\ reader'.left = Days /\ reader'.pc = "rows"
        /\ \A d \in Days : reader'.shown[d] = usageDaily[d]
    BY <1>5 DEF ReadRows, RowsBeforeHashes
  <2> QED
    BY <1>1, <2>1 DEF SeriesInv
<1>6. CASE Respond
  BY <1>1, <1>6 DEF Respond, Zero, SeriesInv
<1>7. CASE UNCHANGED vars
  BY <1>3, <1>7 DEF vars
<1>8. ASSUME NEW f \in Flushes, FlushStep(f) \/ FlushCrash(f) PROVE reader' = reader
  BY <1>8 DEF FlushStep, FlushCrash, Pop, Drain, Upsert, Requeue
<1>9. ASSUME NEW e \in Days, RecordRender(e) \/ CountersExpire(e) PROVE reader' = reader
  BY <1>9 DEF RecordRender, CountersExpire
<1> QED
  BY <1>3, <1>4, <1>5, <1>6, <1>7, <1>8, <1>9 DEF Next

\* A hash holds no more than was recorded, so no frame does.
LEMMA BoundedStep ==
    ASSUME Shape, NoneTwice, Bounded, [Next]_vars PROVE Bounded'
<1> USE DEF Bounded
<1>0. /\ MaxRenders \in Nat /\ MaxCrashes \in Nat /\ MaxErrors \in Nat
      /\ crashes \in Nat /\ errors \in Nat
  BY ConstantsAssumption DEF Shape
<1>1. ASSUME NEW d \in Days
      PROVE  recorded[d] \in Nat /\ counters[d] \in Nat /\ counters[d] <= MaxRenders
  <2>1. /\ counters[d] \in Nat /\ InFlight(d) \in Nat /\ usageDaily[d] \in Nat
        /\ recorded[d] \in Nat /\ recorded[d] <= MaxRenders
        /\ counters[d] + InFlight(d) + usageDaily[d] <= recorded[d]
    BY HeldIsNatural DEF Shape, NoneTwice, Accounted
  <2> QED
    BY <1>0, <2>1
<1>2. ASSUME NEW f \in Flushes PROVE flush[f] \in FlushShape /\ flush[f].taken <= MaxRenders
  BY DEF Shape
<1>3. NoFault \/ CallFails => crashes' <= MaxCrashes /\ errors' <= MaxErrors
  BY <1>0 DEF NoFault, CallFails, faultVars
<1>4. ASSUME NEW f \in Flushes, NEW h \in FlushShape, h.taken <= MaxRenders,
             flush' = [flush EXCEPT ![f] = h]
      PROVE  \A q \in Flushes : flush'[q].taken <= MaxRenders
  BY <1>2, <1>4 DEF Shape
<1>5. CASE UNCHANGED vars
  BY <1>5 DEF vars
<1>6. ASSUME NEW e \in Days, RecordRender(e) PROVE Bounded'
  BY <1>0, <1>1, <1>3, <1>6 DEF RecordRender, Shape
<1>7. ASSUME NEW e \in Days, CountersExpire(e) \/ ReadHash(e) PROVE Bounded'
  BY <1>3, <1>7 DEF CountersExpire, ReadHash, redisVars
<1>8. ASSUME NEW f \in Flushes, Pop(f) PROVE Bounded'
  <2>1. PICK popped \in SUBSET Days :
          /\ flush' = [flush EXCEPT ![f].pending = popped] \/ flush' = flush
          /\ NoFault \/ CallFails
    BY <1>8 DEF Pop, kSubset, Shape
  <2>2. [flush[f] EXCEPT !.pending = popped] \in FlushShape
    BY <1>2 DEF FlushShape
  <2>3. [flush[f] EXCEPT !.pending = popped].taken <= MaxRenders
    BY <1>2 DEF FlushShape
  <2>4. \A q \in Flushes : flush'[q].taken <= MaxRenders
    BY <1>2, <1>4, <2>1, <2>2, <2>3
  <2> QED
    BY <1>3, <1>8, <2>1, <2>4 DEF Pop
<1>9. ASSUME NEW f \in Flushes, NEW e \in Days, Drain(f, e) PROVE Bounded'
  <2>1. PICK pc \in {"loop", "upsert", "requeue"}, n \in {0, counters[e]} :
          flush' = [flush EXCEPT ![f] =
                      [pc |-> pc, pending |-> @.pending \ {e}, entry |-> e, taken |-> n]]
    BY <1>9 DEF Drain
  <2> DEFINE h == [pc |-> pc, pending |-> flush[f].pending \ {e}, entry |-> e, taken |-> n]
  <2>2. h \in FlushShape /\ h.taken <= MaxRenders
    BY <1>0, <1>1, <1>2 DEF FlushShape
  <2>3. flush' = [flush EXCEPT ![f] = h]
    BY <2>1
  <2> HIDE DEF h
  <2>4. \A q \in Flushes : flush'[q].taken <= MaxRenders
    BY <1>4, <2>2, <2>3
  <2> QED
    BY <1>3, <1>9, <2>4 DEF Drain
<1>10. ASSUME NEW f \in Flushes, Upsert(f) \/ Requeue(f) PROVE Bounded'
  <2>1. \/ flush' = [flush EXCEPT ![f] = [@ EXCEPT !.pc = "loop", !.taken = 0]]
        \/ flush' = [flush EXCEPT ![f] = [@ EXCEPT !.pc = "requeue"]]
    BY <1>10 DEF Upsert, Requeue
  <2> DEFINE h == [flush[f] EXCEPT !.pc = "loop", !.taken = 0]
             i == [flush[f] EXCEPT !.pc = "requeue"]
  <2>2. /\ h \in FlushShape /\ h.taken <= MaxRenders
        /\ i \in FlushShape /\ i.taken <= MaxRenders
    <3>1. flush[f] \in FlushShape /\ flush[f].taken <= MaxRenders
      BY <1>2
    <3>2. h \in FlushShape /\ h.taken = 0 /\ i \in FlushShape /\ i.taken = flush[f].taken
      BY <3>1 DEF FlushShape
    <3> QED
      BY <1>0, <3>1, <3>2
  <2>3. flush' = [flush EXCEPT ![f] = h] \/ flush' = [flush EXCEPT ![f] = i]
    BY <2>1
  <2> HIDE DEF h, i
  <2>4. \A q \in Flushes : flush'[q].taken <= MaxRenders
    BY <1>4, <2>2, <2>3
  <2>5. recorded' = recorded /\ (NoFault \/ CallFails)
    BY <1>10 DEF Upsert, Requeue
  <2> QED
    BY <1>3, <2>4, <2>5
<1>11. ASSUME NEW f \in Flushes, FlushCrash(f) PROVE Bounded'
  <2>1. IdleFlush \in FlushShape /\ IdleFlush.taken <= MaxRenders
    BY <1>0, ConstantsAssumption DEF IdleFlush, FlushShape
  <2>2. \A q \in Flushes : flush'[q].taken <= MaxRenders
    BY <1>4, <1>11, <2>1 DEF FlushCrash
  <2> QED
    BY <1>0, <1>11, <2>2 DEF FlushCrash, redisVars
<1>12. CASE ReadRows \/ Respond
  BY <1>3, <1>12 DEF ReadRows, Respond, redisVars
<1> QED
  BY <1>5, <1>6, <1>7, <1>8, <1>9, <1>10, <1>11, <1>12 DEF Next, FlushStep

-----------------------------------------------------------------------------
(* The theorems.                                                            *)

\* IInv holds before the first render.
LEMMA InitIInv == ASSUME Init PROVE IInv
<1>1. Shape /\ NothingStranded /\ SeriesInv /\ Bounded
  BY ConstantsAssumption
     DEF Init, Shape, FlushShape, Reader, Zero, IdleFlush, NothingStranded, SeriesInv, Bounded
<1>2. ASSUME NEW e \in Days PROVE Accounted(e) = 0 /\ recorded[e] = 0
  <2>1. [f \in Flushes |-> Held(flush[f], e)] = [f \in Flushes |-> 0]
    BY DEF Init, IdleFlush, Held
  <2>2. InFlight(e) = 0
    BY <2>1, ConstantsAssumption, SumOfZeros DEF InFlight
  <2> QED
    BY <2>2 DEF Accounted, Init, Zero
<1>3. NoneTwice
  BY <1>2 DEF NoneTwice
<1> QED
  BY <1>1, <1>3 DEF IInv

\* Every step keeps all of it.
LEMMA StepIInv == ASSUME IInv, [Next]_vars PROVE IInv'
<1>1. Shape' /\ NothingStranded' /\ Bounded' /\ Moves
  BY ShapeStep, StrandedStep, BoundedStep, EveryStepMoves DEF IInv
<1>2. NoneTwice'
  BY <1>1, NoneTwiceStep DEF IInv
<1>3. SeriesInv'
  BY <1>1, <1>2, SeriesStep DEF IInv
<1> QED
  BY <1>1, <1>2, <1>3 DEF IInv

LEMMA Inductive == Spec => []IInv
<1>1. Init => IInv
  BY InitIInv
<1>2. IInv /\ [Next]_vars => IInv'
  BY StepIInv
<1> QED
  BY <1>1, <1>2, PTL DEF Spec

\* No render is counted twice, whatever fails, dies or overlaps; none is lost
\* until something does; and the dashboard never shows more than was recorded
\* (the script of flushOne, the drop of the counters of a failed upsert, daily
\* and mergeUnflushed).
THEOREM EachRenderCountsOnce == Spec => []CountedOnce
<1>1. IInv => CountedOnce
  BY DEF IInv, NoneTwice, SeriesInv, CountedOnce
<1> QED
  BY <1>1, Inductive, PTL

\* While nothing fails or dies, no render waits in Redis for a flush that will
\* not come, however many flushes overlap (SPOP before drain in flush).
THEOREM NoneStranded == Spec => []NothingStranded
<1>1. IInv => NothingStranded
  BY DEF IInv
<1> QED
  BY <1>1, Inductive, PTL

\* Every variable keeps its type, and no hash, frame or row holds more than
\* MaxRenders, the bound on what is recorded (usage.service.ts).
THEOREM TypeCorrect == Spec => []TypeOK
<1>1. ASSUME IInv PROVE TypeOK
  <2>1. ASSUME NEW d \in Days
        PROVE  /\ recorded[d] \in 0..MaxRenders /\ counters[d] \in 0..MaxRenders
               /\ usageDaily[d] \in 0..MaxRenders
    <3>1. /\ counters[d] \in Nat /\ InFlight(d) \in Nat /\ usageDaily[d] \in Nat
          /\ recorded[d] \in Nat /\ recorded[d] <= MaxRenders /\ MaxRenders \in Nat
          /\ counters[d] + InFlight(d) + usageDaily[d] <= recorded[d]
      BY <1>1, HeldIsNatural, ConstantsAssumption DEF IInv, Shape, NoneTwice, Accounted, Bounded
    <3> QED
      BY <3>1
  <2>2. /\ recorded \in [Days -> 0..MaxRenders] /\ counters \in [Days -> 0..MaxRenders]
        /\ usageDaily \in [Days -> 0..MaxRenders]
    BY <1>1, <2>1 DEF IInv, Shape
  <2>3. \A f \in Flushes : flush[f] \in Flush
    BY <1>1, ConstantsAssumption DEF IInv, Shape, FlushShape, Flush, Bounded
  <2>4. flush \in [Flushes -> Flush]
    BY <1>1, <2>3 DEF IInv, Shape
  <2>5. crashes \in 0..MaxCrashes /\ errors \in 0..MaxErrors
    BY <1>1, ConstantsAssumption DEF IInv, Shape, Bounded
  <2> QED
    BY <1>1, <2>2, <2>4, <2>5 DEF IInv, Shape, TypeOK
<1> QED
  BY <1>1, Inductive, PTL

====
