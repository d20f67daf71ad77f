--------------------------- MODULE ByteSlabProofs ---------------------------
(***************************************************************************)
(* Proofs about ByteSlab, for every number of pages, every finite set of   *)
(* handles and every set of page contents.                                 *)
(***************************************************************************)
EXTENDS ByteSlab, FiniteSetTheorems, SequenceTheorems, TLAPS

-----------------------------------------------------------------------------
(* The inductive invariant: the properties of ByteSlab together with what  *)
(* init has done so far and with what stands behind an uncounted alias.    *)

InitPhase ==
  /\ state # "INITIALIZED" => \A h \in Handles : hkind[h] = "none"
  /\ state = "UNINIT" => alloc_q = << >>
  /\ state = "INITIALIZING" => \A n \in 1 .. Len(alloc_q) : alloc_q[n] = n - 1

AliasBacked ==
  \A k \in Handles :
    hkind[k] = "alias" => hkind[lender[k]] = "arc" /\ hidx[lender[k]] = hidx[k]

IInv ==
  /\ TypeOK
  /\ InitPhase
  /\ AliasBacked
  /\ ExclusivePage
  /\ RefcountExact
  /\ FreeListSound
  /\ NoPageLost

-----------------------------------------------------------------------------
(* The two operations on the free list, position by position. *)
LEMMA AppendFacts ==
  ASSUME NEW S, NEW q \in Seq(S), NEW e \in S
  PROVE  /\ Append(q, e) \in Seq(S)
         /\ Len(Append(q, e)) = Len(q) + 1
         /\ \A n \in 1 .. Len(q) : Append(q, e)[n] = q[n]
         /\ Append(q, e)[Len(q) + 1] = e
OBVIOUS

LEMMA TailFacts ==
  ASSUME NEW S, NEW q \in Seq(S), q # << >>
  PROVE  /\ Head(q) \in S
         /\ Head(q) = q[1]
         /\ Tail(q) \in Seq(S)
         /\ Len(q) \in Nat \ {0}
         /\ Len(Tail(q)) = Len(q) - 1
         /\ \A n \in 1 .. Len(q) - 1 : Tail(q)[n] = q[n + 1]
BY HeadTailProperties, EmptySeq

(* What is in a queue, and when it holds nothing twice. *)
In(q, e) == \E n \in 1 .. Len(q) : q[n] = e

Distinct(q) == \A m, n \in 1 .. Len(q) : q[m] = q[n] => m = n

LEMMA AppendIn ==
  ASSUME NEW S, NEW q \in Seq(S), NEW e \in S
  PROVE  /\ \A x : In(Append(q, e), x) <=> In(q, x) \/ x = e
         /\ Distinct(q) /\ ~In(q, e) => Distinct(Append(q, e))
<1> DEFINE r == Append(q, e)
<1>1. /\ Len(q) \in Nat /\ Len(r) = Len(q) + 1
      /\ \A n \in 1 .. Len(q) : r[n] = q[n]
      /\ r[Len(q) + 1] = e
  BY AppendFacts
<1> HIDE DEF r
<1>2. \A n \in 1 .. Len(r) : n \in 1 .. Len(q) \/ n = Len(q) + 1
  BY <1>1
<1>3. \A n : n \in 1 .. Len(q) \/ n = Len(q) + 1 => n \in 1 .. Len(r)
  BY <1>1
<1>4. \A x : In(r, x) <=> In(q, x) \/ x = e
  BY <1>1, <1>2, <1>3 DEF In
<1>5. Distinct(q) /\ ~In(q, e) => Distinct(r)
  BY <1>1, <1>2 DEF Distinct, In
<1>6. QED
  BY <1>4, <1>5 DEF r

LEMMA TailIn ==
  ASSUME NEW S, NEW q \in Seq(S), q # << >>, Distinct(q)
  PROVE  /\ In(q, Head(q))
         /\ Distinct(Tail(q))
         /\ \A x : In(Tail(q), x) <=> In(q, x) /\ x # Head(q)
<1> DEFINE r == Tail(q)
<1>1. /\ Len(q) \in Nat \ {0} /\ Len(r) = Len(q) - 1
      /\ Head(q) = q[1]
      /\ \A n \in 1 .. Len(q) - 1 : r[n] = q[n + 1]
  BY TailFacts
<1> HIDE DEF r
<1>2. In(q, Head(q))
  BY <1>1 DEF In
<1>3. Distinct(r)
  <2>1. SUFFICES ASSUME NEW m \in 1 .. Len(r), NEW n \in 1 .. Len(r), r[m] = r[n]
                 PROVE  m = n
    BY DEF Distinct
  <2>2. m + 1 \in 1 .. Len(q) /\ n + 1 \in 1 .. Len(q) /\ q[m + 1] = q[n + 1]
    BY <1>1, <2>1
  <2>3. m + 1 = n + 1
    BY <2>2 DEF Distinct
  <2>4. QED
    BY <2>3, <1>1
<1>4. ASSUME NEW x, In(r, x)
      PROVE  In(q, x) /\ x # Head(q)
  <2>1. PICK n \in 1 .. Len(r) : r[n] = x
    BY <1>4 DEF In
  <2>2. n + 1 \in 1 .. Len(q) /\ n + 1 # 1 /\ 1 \in 1 .. Len(q) /\ q[n + 1] = x
    BY <1>1, <2>1
  <2>3. QED
    BY <1>1, <2>2 DEF In, Distinct
<1>5. ASSUME NEW x, In(q, x), x # Head(q)
      PROVE  In(r, x)
  <2>1. PICK n \in 1 .. Len(q) : q[n] = x
    BY <1>5 DEF In
  <2>2. n - 1 \in 1 .. Len(r) /\ r[n - 1] = x
    BY <1>1, <1>5, <2>1
  <2>3. QED
    BY <2>2 DEF In
<1>6. QED
  BY <1>2, <1>3, <1>4, <1>5 DEF r

(* Counting handles. *)
LEMMA CountedFinite ==
  ASSUME NEW i
  PROVE  /\ IsFiniteSet(CountedOn(i))
         /\ Cardinality(CountedOn(i)) \in Nat
<1>1. CountedOn(i) \in SUBSET Handles
  BY DEF CountedOn
<1>2. IsFiniteSet(CountedOn(i))
  BY <1>1, HandlesAssumption, FS_Subset
<1>3. QED
  BY <1>2, FS_CardinalityType

LEMMA CardAdd ==
  ASSUME NEW S, IsFiniteSet(S), NEW x, x \notin S
  PROVE  Cardinality(S \cup {x}) = Cardinality(S) + 1
BY FS_AddElement

LEMMA CardRemove ==
  ASSUME NEW S, IsFiniteSet(S), NEW x, x \in S
  PROVE  Cardinality(S \ {x}) = Cardinality(S) - 1
BY FS_RemoveElement

LEMMA ZeroIsAPage == 0 \in Idx
BY NAssumption DEF Idx

-----------------------------------------------------------------------------
(* Type correctness needs that DropArc finds a positive count. *)
LEMMA PositiveCount ==
  ASSUME TypeOK, RefcountExact, NEW h \in Handles, hkind[h] \in Counted
  PROVE  arcs[hidx[h]] \in Nat /\ arcs[hidx[h]] >= 1
<1> DEFINE i == hidx[h]
<1>1. i \in Idx
  BY DEF TypeOK
<1>2. h \in CountedOn(i)
  BY DEF CountedOn
<1>3. Cardinality(CountedOn(i)) \in Nat \ {0}
  BY <1>2, CountedFinite, FS_EmptySet
<1>4. QED
  BY <1>1, <1>3 DEF RefcountExact

LEMMA TypeInit == Init => TypeOK
BY ZeroIsAPage, EmptySeq DEF Init, TypeOK, Kinds

LEMMA TypeStep == TypeOK /\ RefcountExact /\ [Next]_vars => TypeOK'
<1> SUFFICES ASSUME TypeOK, RefcountExact, [Next]_vars
             PROVE  TypeOK'
  OBVIOUS
<1> USE DEF TypeOK, Kinds
<1>1. CASE InitBegin
  BY <1>1 DEF InitBegin
<1>2. CASE InitEnqueue
  <2>1. Len(alloc_q) \in Idx
    BY <1>2, NAssumption DEF InitEnqueue, Idx
  <2>2. QED
    BY <1>2, <2>1, AppendFacts DEF InitEnqueue
<1>3. CASE InitEnd
  BY <1>3 DEF InitEnd
<1>4. ASSUME NEW h \in Handles, AllocDequeue(h)
      PROVE  TypeOK'
  <2>1. Head(alloc_q) \in Idx /\ Tail(alloc_q) \in Seq(Idx)
    BY <1>4, TailFacts DEF AllocDequeue
  <2>2. QED
    BY <1>4, <2>1 DEF AllocDequeue
<1>5. ASSUME NEW h \in Handles, AllocStore(h)
      PROVE  TypeOK'
  BY <1>5 DEF AllocStore
<1>6. ASSUME NEW h \in Handles, Write(h)
      PROVE  TypeOK'
  BY <1>6 DEF Write
<1>7. ASSUME NEW h \in Handles, IntoArc(h)
      PROVE  TypeOK'
  BY <1>7 DEF IntoArc
<1>8. ASSUME NEW h \in Handles, NEW k \in Handles, NEW kind \in {"arc", "rejected"},
             CloneAs(h, k, kind)
      PROVE  TypeOK'
  BY <1>8 DEF CloneAs
<1>9. ASSUME NEW h \in Handles, NEW k \in Handles, RerootAlias(h, k)
      PROVE  TypeOK'
  BY <1>9 DEF RerootAlias
<1>10. ASSUME NEW h \in Handles, RerootClone(h)
       PROVE  TypeOK'
  BY <1>10 DEF RerootClone
<1>11. ASSUME NEW h \in Handles, DropBox(h)
       PROVE  TypeOK'
  BY <1>11 DEF DropBox
<1>12. ASSUME NEW h \in Handles, DropArc(h)
       PROVE  TypeOK'
  <2>1. arcs[hidx[h]] - 1 \in Nat
    BY <1>12, PositiveCount DEF DropArc, Counted
  <2>2. arcs' \in [Idx -> Nat]
    BY <1>12, <2>1 DEF DropArc
  <2>3. /\ hkind' \in [Handles -> Kinds]
        /\ hidx' \in [Handles -> Idx]
        /\ lender' \in [Handles -> Handles]
    <3>1. CASE arcs[hidx[h]] = 1
      BY <1>12, <3>1 DEF DropArc
    <3>2. CASE arcs[hidx[h]] # 1
      <4>1. Gone(h)
        BY <1>12, <3>2, Zenon DEF DropArc
      <4>2. QED
        BY <4>1, ZeroIsAPage DEF Gone
    <3>3. QED
      BY <3>1, <3>2
  <2>4. QED
    BY <1>12, <2>2, <2>3 DEF DropArc
<1>13. ASSUME NEW h \in Handles, FreeEnqueue(h)
       PROVE  TypeOK'
  BY <1>13, ZeroIsAPage, AppendFacts DEF FreeEnqueue, Gone
<1>14. CASE UNCHANGED vars
  BY <1>14 DEF vars
<1>15. QED
  BY <1>1, <1>2, <1>3, <1>4, <1>5, <1>6, <1>7, <1>8, <1>9, <1>10, <1>11,
     <1>12, <1>13, <1>14 DEF Next, Clone, SubSliceErr
-----------------------------------------------------------------------------
LEMMA InitPhaseStep == IInv /\ [Next]_vars => InitPhase'
<1> SUFFICES ASSUME IInv, [Next]_vars
             PROVE  InitPhase'
  OBVIOUS
<1> USE DEF IInv, TypeOK, InitPhase
<1>1. CASE InitBegin
  BY <1>1 DEF InitBegin
<1>2. CASE InitEnqueue
  BY <1>2, AppendFacts DEF InitEnqueue
<1>3. CASE InitEnd
  BY <1>3 DEF InitEnd
<1>4. ASSUME NEW h \in Handles, AllocDequeue(h)
      PROVE  InitPhase'
  BY <1>4 DEF AllocDequeue
<1>5. ASSUME NEW h \in Handles, AllocStore(h)
      PROVE  InitPhase'
  BY <1>5 DEF AllocStore
<1>6. ASSUME NEW h \in Handles, Write(h)
      PROVE  InitPhase'
  BY <1>6 DEF Write
<1>7. ASSUME NEW h \in Handles, IntoArc(h)
      PROVE  InitPhase'
  BY <1>7 DEF IntoArc
<1>8. ASSUME NEW h \in Handles, NEW k \in Handles, NEW kind \in {"arc", "rejected"},
             CloneAs(h, k, kind)
      PROVE  InitPhase'
  BY <1>8 DEF CloneAs
<1>9. ASSUME NEW h \in Handles, NEW k \in Handles, RerootAlias(h, k)
      PROVE  InitPhase'
  BY <1>9 DEF RerootAlias
<1>10. ASSUME NEW h \in Handles, RerootClone(h)
      PROVE  InitPhase'
  BY <1>10 DEF RerootClone
<1>11. ASSUME NEW h \in Handles, DropBox(h)
      PROVE  InitPhase'
  BY <1>11 DEF DropBox
<1>12. ASSUME NEW h \in Handles, DropArc(h)
      PROVE  InitPhase'
  BY <1>12 DEF DropArc, Gone
<1>13. ASSUME NEW h \in Handles, FreeEnqueue(h)
      PROVE  InitPhase'
  BY <1>13 DEF FreeEnqueue, Gone
<1>14. CASE UNCHANGED vars
  BY <1>14 DEF vars
<1>15. QED
  BY <1>1, <1>2, <1>3, <1>4, <1>5, <1>6, <1>7, <1>8, <1>9, <1>10, <1>11,
     <1>12, <1>13, <1>14 DEF Next, Clone, SubSliceErr

-----------------------------------------------------------------------------
(* A dropped arc is the last one on its page, or simply gone. *)
LEMMA DropArcCases ==
  ASSUME NEW h \in Handles, DropArc(h)
  PROVE  /\ hkind[h] \in {"arc", "rejected"}
         /\ ~Borrowed(h)
         /\ arcs' = [arcs EXCEPT ![hidx[h]] = @ - 1]
         /\ UNCHANGED <<state, alloc_q, bufs>>
         /\ \/ /\ arcs[hidx[h]] = 1
               /\ hkind' = [hkind EXCEPT ![h] = "freeing"]
               /\ UNCHANGED <<hidx, lender>>
            \/ arcs[hidx[h]] # 1 /\ Gone(h)
BY Zenon DEF DropArc

(* When a handle holds the only unit of its page, no other handle has      *)
(* anything to do with that page.                                          *)
LEMMA SoleOwner ==
  ASSUME IInv, NEW h \in Handles, hkind[h] \in Counted, ~Borrowed(h),
         arcs[hidx[h]] = 1,
         NEW k \in Handles, hkind[k] # "none", hidx[k] = hidx[h]
  PROVE  k = h
<1> USE DEF IInv, TypeOK
<1>1. hidx[h] \in Idx /\ IsFiniteSet(CountedOn(hidx[h]))
  BY CountedFinite
<1>2. PICK x : CountedOn(hidx[h]) = {x}
  BY <1>1, FS_Singleton DEF RefcountExact
<1>3. CountedOn(hidx[h]) = {h}
  BY <1>2 DEF CountedOn
<1>4. CASE hkind[k] \in Counted
  BY <1>3, <1>4 DEF CountedOn
<1>5. CASE hkind[k] = "alias"
  <2>1. lender[k] \in CountedOn(hidx[h])
    BY <1>5 DEF AliasBacked, CountedOn, Counted
  <2>2. QED
    BY <1>3, <1>5, <2>1 DEF Borrowed
<1>6. CASE hkind[k] \in {"dequeued", "freeing"}
  BY <1>6 DEF ExclusivePage, Counted
<1>7. QED
  BY <1>4, <1>5, <1>6 DEF Kinds, Counted

LEMMA AliasStep == IInv /\ [Next]_vars => AliasBacked'
<1> SUFFICES ASSUME IInv, [Next]_vars
             PROVE  AliasBacked'
  OBVIOUS
<1> USE DEF IInv, TypeOK, AliasBacked, Kinds
<1>1. CASE InitBegin
  BY <1>1 DEF InitBegin
<1>2. CASE InitEnqueue
  BY <1>2 DEF InitEnqueue
<1>3. CASE InitEnd
  BY <1>3 DEF InitEnd
<1>4. ASSUME NEW h \in Handles, AllocDequeue(h)
      PROVE  AliasBacked'
  BY <1>4 DEF AllocDequeue
<1>5. ASSUME NEW h \in Handles, AllocStore(h)
      PROVE  AliasBacked'
  BY <1>5 DEF AllocStore
<1>6. ASSUME NEW h \in Handles, Write(h)
      PROVE  AliasBacked'
  BY <1>6 DEF Write
<1>7. ASSUME NEW h \in Handles, IntoArc(h)
      PROVE  AliasBacked'
  BY <1>7 DEF IntoArc
<1>8. ASSUME NEW h \in Handles, NEW k \in Handles, NEW kind \in {"arc", "rejected"},
             CloneAs(h, k, kind)
      PROVE  AliasBacked'
  BY <1>8 DEF CloneAs
<1>9. ASSUME NEW h \in Handles, NEW k \in Handles, RerootAlias(h, k)
      PROVE  AliasBacked'
  BY <1>9 DEF RerootAlias
<1>10. ASSUME NEW h \in Handles, RerootClone(h)
      PROVE  AliasBacked'
  BY <1>10 DEF RerootClone
<1>11. ASSUME NEW h \in Handles, DropBox(h)
      PROVE  AliasBacked'
  BY <1>11 DEF DropBox
<1>12. ASSUME NEW h \in Handles, DropArc(h)
      PROVE  AliasBacked'
  BY <1>12, DropArcCases DEF Borrowed, Gone
<1>13. ASSUME NEW h \in Handles, FreeEnqueue(h)
      PROVE  AliasBacked'
  BY <1>13 DEF FreeEnqueue, Gone
<1>14. CASE UNCHANGED vars
  BY <1>14 DEF vars
<1>15. QED
  BY <1>1, <1>2, <1>3, <1>4, <1>5, <1>6, <1>7, <1>8, <1>9, <1>10, <1>11,
     <1>12, <1>13, <1>14 DEF Next, Clone, SubSliceErr

LEMMA ExclusiveStep == IInv /\ [Next]_vars => ExclusivePage'
<1> SUFFICES ASSUME IInv, [Next]_vars
             PROVE  ExclusivePage'
  OBVIOUS
<1> USE DEF IInv, TypeOK, ExclusivePage, Kinds
<1>1. CASE InitBegin
  BY <1>1 DEF InitBegin
<1>2. CASE InitEnqueue
  BY <1>2 DEF InitEnqueue
<1>3. CASE InitEnd
  BY <1>3 DEF InitEnd
<1>4. ASSUME NEW h \in Handles, AllocDequeue(h)
      PROVE  ExclusivePage'
  <2>1. InQueue(Head(alloc_q))
    BY <1>4, TailFacts DEF AllocDequeue, InQueue
  <2>2. QED
    BY <1>4, <2>1 DEF AllocDequeue, FreeListSound
<1>5. ASSUME NEW h \in Handles, AllocStore(h)
      PROVE  ExclusivePage'
  BY <1>5 DEF AllocStore
<1>6. ASSUME NEW h \in Handles, Write(h)
      PROVE  ExclusivePage'
  BY <1>6 DEF Write
<1>7. ASSUME NEW h \in Handles, IntoArc(h)
      PROVE  ExclusivePage'
  BY <1>7 DEF IntoArc
<1>8. ASSUME NEW h \in Handles, NEW k \in Handles, NEW kind \in {"arc", "rejected"},
             CloneAs(h, k, kind)
      PROVE  ExclusivePage'
  BY <1>8 DEF CloneAs
<1>9. ASSUME NEW h \in Handles, NEW k \in Handles, RerootAlias(h, k)
      PROVE  ExclusivePage'
  BY <1>9 DEF RerootAlias
<1>10. ASSUME NEW h \in Handles, RerootClone(h)
      PROVE  ExclusivePage'
  BY <1>10 DEF RerootClone
<1>11. ASSUME NEW h \in Handles, DropBox(h)
      PROVE  ExclusivePage'
  BY <1>11 DEF DropBox
<1>12. ASSUME NEW h \in Handles, DropArc(h)
      PROVE  ExclusivePage'
  <2>1. CASE Gone(h)
    BY <2>1 DEF Gone
  <2>2. CASE ~Gone(h)
    <3>1. /\ arcs[hidx[h]] = 1
          /\ hkind' = [hkind EXCEPT ![h] = "freeing"]
          /\ hidx' = hidx
          /\ hkind[h] \in Counted /\ ~Borrowed(h)
      BY <1>12, <2>2, DropArcCases DEF Counted
    <3>2. \A k \in Handles : hkind[k] # "none" /\ hidx[k] = hidx[h] => k = h
      BY <3>1, SoleOwner
    <3>3. QED
      BY <3>1, <3>2
  <2>3. QED
    BY <2>1, <2>2
<1>13. ASSUME NEW h \in Handles, FreeEnqueue(h)
      PROVE  ExclusivePage'
  BY <1>13 DEF FreeEnqueue, Gone
<1>14. CASE UNCHANGED vars
  BY <1>14 DEF vars
<1>15. QED
  BY <1>1, <1>2, <1>3, <1>4, <1>5, <1>6, <1>7, <1>8, <1>9, <1>10, <1>11,
     <1>12, <1>13, <1>14 DEF Next, Clone, SubSliceErr

LEMMA RefcountStep == IInv /\ [Next]_vars => RefcountExact'
<1> SUFFICES ASSUME IInv, [Next]_vars
             PROVE  RefcountExact'
  OBVIOUS
<1> USE DEF IInv, TypeOK, RefcountExact
<1>1. CASE InitBegin
  BY <1>1 DEF InitBegin, CountedOn
<1>2. CASE InitEnqueue
  BY <1>2 DEF InitEnqueue, CountedOn
<1>3. CASE InitEnd
  BY <1>3 DEF InitEnd, CountedOn
<1>4. ASSUME NEW h \in Handles, AllocDequeue(h)
      PROVE  RefcountExact'
  <2>1. arcs' = arcs /\ \A i \in Idx : CountedOn(i)' = CountedOn(i)
    BY <1>4 DEF AllocDequeue, CountedOn, Counted
  <2>2. QED
    BY <2>1
<1>5. ASSUME NEW h \in Handles, AllocStore(h)
      PROVE  RefcountExact'
  <2>1. PICK p \in Idx : p = hidx[h]
    OBVIOUS
  <2>2. CountedOn(p) = {}
    BY <1>5, <2>1 DEF AllocStore, CountedOn, Counted, ExclusivePage
  <2>3. CountedOn(p)' = {h}
    BY <1>5, <2>1, <2>2 DEF AllocStore, CountedOn, Counted
  <2>4. \A i \in Idx : i # p => CountedOn(i)' = CountedOn(i) /\ arcs'[i] = arcs[i]
    BY <1>5, <2>1 DEF AllocStore, CountedOn, Counted
  <2>5. arcs'[p] = 1
    BY <1>5, <2>1 DEF AllocStore
  <2>6. Cardinality(CountedOn(p)') = 1
    BY <2>3, FS_Singleton
  <2>7. QED
    BY <2>1, <2>4, <2>5, <2>6
<1>6. ASSUME NEW h \in Handles, Write(h)
      PROVE  RefcountExact'
  <2>1. arcs' = arcs /\ \A i \in Idx : CountedOn(i)' = CountedOn(i)
    BY <1>6 DEF Write, CountedOn, Counted
  <2>2. QED
    BY <2>1
<1>7. ASSUME NEW h \in Handles, IntoArc(h)
      PROVE  RefcountExact'
  <2>1. arcs' = arcs /\ \A i \in Idx : CountedOn(i)' = CountedOn(i)
    BY <1>7 DEF IntoArc, CountedOn, Counted
  <2>2. QED
    BY <2>1
<1>8. ASSUME NEW h \in Handles, NEW k \in Handles, NEW kind \in {"arc", "rejected"},
             CloneAs(h, k, kind)
      PROVE  RefcountExact'
  <2>1. PICK p \in Idx : p = hidx[h]
    OBVIOUS
  <2>2. k \notin CountedOn(p)
    BY <1>8, <2>1 DEF CloneAs, CountedOn, Counted
  <2>3. CountedOn(p)' = CountedOn(p) \cup {k}
    BY <1>8, <2>1 DEF CloneAs, CountedOn, Counted
  <2>4. \A i \in Idx : i # p => CountedOn(i)' = CountedOn(i) /\ arcs'[i] = arcs[i]
    BY <1>8, <2>1 DEF CloneAs, CountedOn, Counted
  <2>5. arcs'[p] = arcs[p] + 1
    BY <1>8, <2>1 DEF CloneAs
  <2>6. Cardinality(CountedOn(p)') = Cardinality(CountedOn(p)) + 1
    BY <2>2, <2>3, CountedFinite, CardAdd
  <2>7. QED
    BY <2>1, <2>4, <2>5, <2>6
<1>9. ASSUME NEW h \in Handles, NEW k \in Handles, RerootAlias(h, k)
      PROVE  RefcountExact'
  <2>1. arcs' = arcs /\ \A i \in Idx : CountedOn(i)' = CountedOn(i)
    BY <1>9 DEF RerootAlias, CountedOn, Counted
  <2>2. QED
    BY <2>1
<1>10. ASSUME NEW h \in Handles, RerootClone(h)
      PROVE  RefcountExact'
  <2>1. PICK p \in Idx : p = hidx[h]
    OBVIOUS
  <2>2. h \notin CountedOn(p)
    BY <1>10, <2>1 DEF RerootClone, CountedOn, Counted
  <2>3. CountedOn(p)' = CountedOn(p) \cup {h}
    BY <1>10, <2>1 DEF RerootClone, CountedOn, Counted
  <2>4. \A i \in Idx : i # p => CountedOn(i)' = CountedOn(i) /\ arcs'[i] = arcs[i]
    BY <1>10, <2>1 DEF RerootClone, CountedOn, Counted
  <2>5. arcs'[p] = arcs[p] + 1
    BY <1>10, <2>1 DEF RerootClone
  <2>6. Cardinality(CountedOn(p)') = Cardinality(CountedOn(p)) + 1
    BY <2>2, <2>3, CountedFinite, CardAdd
  <2>7. QED
    BY <2>1, <2>4, <2>5, <2>6
<1>11. ASSUME NEW h \in Handles, DropBox(h)
      PROVE  RefcountExact'
  <2>1. PICK p \in Idx : p = hidx[h]
    OBVIOUS
  <2>2. CountedOn(p)' = {}
    BY <1>11, <2>1 DEF DropBox, CountedOn, Counted, ExclusivePage
  <2>3. \A i \in Idx : i # p => CountedOn(i)' = CountedOn(i) /\ arcs'[i] = arcs[i]
    BY <1>11, <2>1 DEF DropBox, CountedOn, Counted
  <2>4. arcs'[p] = 0
    BY <1>11, <2>1 DEF DropBox
  <2>5. QED
    BY <2>1, <2>2, <2>3, <2>4, FS_EmptySet
<1>12. ASSUME NEW h \in Handles, DropArc(h)
      PROVE  RefcountExact'
  <2>1. PICK p \in Idx : p = hidx[h] /\ hkind[h] \in Counted
    BY <1>12 DEF DropArc, Counted
  <2>2. h \in CountedOn(p)
    BY <2>1 DEF CountedOn
  <2>3. /\ hkind' = [hkind EXCEPT ![h] = "freeing"] \/ hkind' = [hkind EXCEPT ![h] = "none"]
        /\ \A k \in Handles : k # h => hidx'[k] = hidx[k]
    BY <1>12, <2>1, DropArcCases DEF Gone
  <2>4. CountedOn(p)' = CountedOn(p) \ {h}
    BY <2>1, <2>3 DEF CountedOn, Counted
  <2>5. \A i \in Idx : i # p => CountedOn(i)' = CountedOn(i) /\ arcs'[i] = arcs[i]
    BY <1>12, <2>1, <2>3 DEF DropArc, CountedOn, Counted
  <2>6. arcs'[p] = arcs[p] - 1
    BY <1>12, <2>1 DEF DropArc
  <2>7. Cardinality(CountedOn(p)') = Cardinality(CountedOn(p)) - 1
    BY <2>2, <2>4, CountedFinite, CardRemove
  <2>8. QED
    BY <2>1, <2>5, <2>6, <2>7
<1>13. ASSUME NEW h \in Handles, FreeEnqueue(h)
      PROVE  RefcountExact'
  <2>1. arcs' = arcs /\ \A i \in Idx : CountedOn(i)' = CountedOn(i)
    BY <1>13 DEF FreeEnqueue, Gone, CountedOn, Counted
  <2>2. QED
    BY <2>1
<1>14. CASE UNCHANGED vars
  BY <1>14 DEF vars, CountedOn
<1>15. QED
  BY <1>1, <1>2, <1>3, <1>4, <1>5, <1>6, <1>7, <1>8, <1>9, <1>10, <1>11,
     <1>12, <1>13, <1>14 DEF Next, Clone, SubSliceErr

LEMMA FreeListStep == IInv /\ [Next]_vars => FreeListSound'
<1> SUFFICES ASSUME IInv, [Next]_vars
             PROVE  FreeListSound'
  OBVIOUS
<1> USE DEF IInv, TypeOK, FreeListSound
<1>1. CASE InitBegin
  BY <1>1 DEF InitBegin, InQueue
<1>2. CASE InitEnqueue
  <2>1. \A n \in 1 .. Len(alloc_q) : alloc_q[n] = n - 1
    BY <1>2 DEF InitEnqueue, InitPhase
  <2>2. ~In(alloc_q, Len(alloc_q)) /\ Len(alloc_q) \in Idx
    BY <1>2, <2>1, NAssumption, SMTT(30) DEF InitEnqueue, Idx, In
  <2>3. Distinct(alloc_q')
    <3>1. alloc_q' = Append(alloc_q, Len(alloc_q)) /\ alloc_q \in Seq(Idx)
      BY <1>2 DEF InitEnqueue
    <3>2. Distinct(alloc_q)
      BY DEF Distinct
    <3>3. QED
      BY <2>2, <3>1, <3>2, AppendIn
  <2>4. \A h \in Handles : hkind'[h] = "none"
    BY <1>2 DEF InitEnqueue, InitPhase
  <2>5. QED
    BY <2>3, <2>4 DEF Distinct
<1>3. CASE InitEnd
  BY <1>3 DEF InitEnd, InQueue
<1>4. ASSUME NEW h \in Handles, AllocDequeue(h)
      PROVE  FreeListSound'
  <2>1. /\ alloc_q \in Seq(Idx) /\ alloc_q # << >>
        /\ alloc_q' = Tail(alloc_q)
        /\ hkind' = [hkind EXCEPT ![h] = "dequeued"]
        /\ hidx' = [hidx EXCEPT ![h] = Head(alloc_q)]
    BY <1>4 DEF AllocDequeue
  <2>2. Distinct(alloc_q)
    BY DEF Distinct
  <2>3. /\ Distinct(alloc_q')
        /\ \A x : In(alloc_q', x) <=> In(alloc_q, x) /\ x # Head(alloc_q)
    BY <2>1, <2>2, TailIn
  <2>4. \A k \in Handles : hkind[k] # "none" => ~In(alloc_q, hidx[k])
    BY DEF InQueue, In
  <2>5. \A k \in Handles : hkind'[k] # "none" => ~In(alloc_q', hidx'[k])
    BY <2>1, <2>3, <2>4
  <2>6. QED
    BY <2>3, <2>5 DEF InQueue, In, Distinct
<1>5. ASSUME NEW h \in Handles, AllocStore(h)
      PROVE  FreeListSound'
  BY <1>5 DEF AllocStore, InQueue
<1>6. ASSUME NEW h \in Handles, Write(h)
      PROVE  FreeListSound'
  BY <1>6 DEF Write, InQueue
<1>7. ASSUME NEW h \in Handles, IntoArc(h)
      PROVE  FreeListSound'
  BY <1>7 DEF IntoArc, InQueue
<1>8. ASSUME NEW h \in Handles, NEW k \in Handles, NEW kind \in {"arc", "rejected"},
             CloneAs(h, k, kind)
      PROVE  FreeListSound'
  BY <1>8 DEF CloneAs, InQueue
<1>9. ASSUME NEW h \in Handles, NEW k \in Handles, RerootAlias(h, k)
      PROVE  FreeListSound'
  BY <1>9 DEF RerootAlias, InQueue
<1>10. ASSUME NEW h \in Handles, RerootClone(h)
      PROVE  FreeListSound'
  BY <1>10 DEF RerootClone, InQueue
<1>11. ASSUME NEW h \in Handles, DropBox(h)
      PROVE  FreeListSound'
  BY <1>11 DEF DropBox, InQueue
<1>12. ASSUME NEW h \in Handles, DropArc(h)
      PROVE  FreeListSound'
  <2>1. /\ alloc_q' = alloc_q
        /\ \A k \in Handles : hkind'[k] # "none" => hkind[k] # "none" /\ hidx'[k] = hidx[k]
    BY <1>12, DropArcCases DEF Gone
  <2>2. QED
    BY <2>1 DEF InQueue
<1>13. ASSUME NEW h \in Handles, FreeEnqueue(h)
      PROVE  FreeListSound'
  <2>1. /\ alloc_q \in Seq(Idx) /\ hidx[h] \in Idx
        /\ alloc_q' = Append(alloc_q, hidx[h])
        /\ hkind[h] = "freeing"
        /\ hkind' = [hkind EXCEPT ![h] = "none"]
        /\ hidx' = [hidx EXCEPT ![h] = 0]
    BY <1>13 DEF FreeEnqueue, Gone
  <2>2. Distinct(alloc_q) /\ \A k \in Handles : hkind[k] # "none" => ~In(alloc_q, hidx[k])
    BY DEF Distinct, InQueue, In
  <2>3. /\ Distinct(alloc_q')
        /\ \A x : In(alloc_q', x) <=> In(alloc_q, x) \/ x = hidx[h]
    BY <2>1, <2>2, AppendIn
  <2>4. \A k \in Handles : hkind'[k] # "none" =>
          k # h /\ hkind[k] # "none" /\ hidx'[k] = hidx[k] /\ hidx[k] # hidx[h]
    BY <2>1 DEF ExclusivePage
  <2>5. \A k \in Handles : hkind'[k] # "none" => ~In(alloc_q', hidx'[k])
    BY <2>2, <2>3, <2>4
  <2>6. QED
    BY <2>3, <2>5 DEF InQueue, In, Distinct
<1>14. CASE UNCHANGED vars
  BY <1>14 DEF vars, InQueue
<1>15. QED
  BY <1>1, <1>2, <1>3, <1>4, <1>5, <1>6, <1>7, <1>8, <1>9, <1>10, <1>11,
     <1>12, <1>13, <1>14 DEF Next, Clone, SubSliceErr

LEMMA NoPageLostStep == IInv /\ [Next]_vars => NoPageLost'
<1> SUFFICES ASSUME IInv, [Next]_vars
             PROVE  NoPageLost'
  OBVIOUS
<1> USE DEF IInv, TypeOK, NoPageLost
<1>1. CASE InitBegin
  BY <1>1 DEF InitBegin
<1>2. CASE InitEnqueue
  BY <1>2 DEF InitEnqueue
<1>3. CASE InitEnd
  <2>1. Len(alloc_q) = N /\ \A n \in 1 .. N : alloc_q[n] = n - 1
    BY <1>3 DEF InitEnd, InitPhase
  <2>2. \A i \in Idx : i + 1 \in 1 .. N /\ alloc_q[i + 1] = i
    BY <2>1, NAssumption DEF Idx
  <2>3. QED
    BY <1>3, <2>1, <2>2 DEF InitEnd, InQueue
<1>4. ASSUME NEW h \in Handles, AllocDequeue(h)
      PROVE  NoPageLost'
  <2>1. /\ alloc_q \in Seq(Idx) /\ alloc_q # << >>
        /\ alloc_q' = Tail(alloc_q)
        /\ state = "INITIALIZED"
        /\ hkind[h] = "none"
        /\ hkind' = [hkind EXCEPT ![h] = "dequeued"]
        /\ hidx' = [hidx EXCEPT ![h] = Head(alloc_q)]
    BY <1>4 DEF AllocDequeue
  <2>2. Distinct(alloc_q)
    BY DEF FreeListSound, Distinct
  <2>3. \A x : In(alloc_q, x) => In(alloc_q', x) \/ x = Head(alloc_q)
    BY <2>1, <2>2, TailIn
  <2>4. QED
    BY <2>1, <2>3 DEF InQueue, In
<1>5. ASSUME NEW h \in Handles, AllocStore(h)
      PROVE  NoPageLost'
  BY <1>5 DEF AllocStore, InQueue
<1>6. ASSUME NEW h \in Handles, Write(h)
      PROVE  NoPageLost'
  BY <1>6 DEF Write, InQueue
<1>7. ASSUME NEW h \in Handles, IntoArc(h)
      PROVE  NoPageLost'
  BY <1>7 DEF IntoArc, InQueue
<1>8. ASSUME NEW h \in Handles, NEW k \in Handles, NEW kind \in {"arc", "rejected"},
             CloneAs(h, k, kind)
      PROVE  NoPageLost'
  BY <1>8 DEF CloneAs, InQueue
<1>9. ASSUME NEW h \in Handles, NEW k \in Handles, RerootAlias(h, k)
      PROVE  NoPageLost'
  BY <1>9 DEF RerootAlias, InQueue
<1>10. ASSUME NEW h \in Handles, RerootClone(h)
      PROVE  NoPageLost'
  BY <1>10 DEF RerootClone, InQueue
<1>11. ASSUME NEW h \in Handles, DropBox(h)
      PROVE  NoPageLost'
  BY <1>11 DEF DropBox, InQueue
<1>12. ASSUME NEW h \in Handles, DropArc(h)
      PROVE  NoPageLost'
  <2>1. /\ state' = state /\ alloc_q' = alloc_q
        /\ \A k \in Handles : k # h => hkind'[k] = hkind[k] /\ hidx'[k] = hidx[k]
    BY <1>12, DropArcCases, SMTT(30) DEF Gone
  <2>2. CASE arcs[hidx[h]] = 1
    <3>1. \A k \in Handles : hkind[k] # "none" => hkind'[k] # "none" /\ hidx'[k] = hidx[k]
      BY <1>12, <2>1, <2>2, DropArcCases
    <3>2. QED
      BY <2>1, <3>1 DEF InQueue
  <2>3. CASE arcs[hidx[h]] # 1
    <3>1. PICK p \in Idx : p = hidx[h] /\ hkind[h] \in Counted
      BY <1>12 DEF DropArc, Counted
    <3>2. h \in CountedOn(p) /\ arcs[p] >= 1 /\ arcs[p] = Cardinality(CountedOn(p))
      BY <3>1, PositiveCount DEF CountedOn, RefcountExact
    <3>3. Cardinality(CountedOn(p) \ {h}) # 0
      <4>1. Cardinality(CountedOn(p) \ {h}) = Cardinality(CountedOn(p)) - 1
        BY <3>2, CountedFinite, CardRemove
      <4>2. arcs[p] # 1 /\ arcs[p] \in Nat
        BY <2>3, <3>1
      <4>3. QED
        BY <3>2, <4>1, <4>2
    <3>4. PICK k : k \in CountedOn(p) \ {h}
      BY <3>3, FS_EmptySet
    <3>5. k \in Handles /\ k # h /\ hkind'[k] # "none" /\ hidx'[k] = hidx[h]
      BY <2>1, <3>1, <3>4 DEF CountedOn, Counted
    <3>6. QED
      BY <2>1, <3>5 DEF InQueue
  <2>4. QED
    BY <2>2, <2>3
<1>13. ASSUME NEW h \in Handles, FreeEnqueue(h)
      PROVE  NoPageLost'
  <2>1. /\ alloc_q \in Seq(Idx) /\ hidx[h] \in Idx
        /\ alloc_q' = Append(alloc_q, hidx[h])
        /\ state' = state
        /\ hkind' = [hkind EXCEPT ![h] = "none"]
        /\ hidx' = [hidx EXCEPT ![h] = 0]
    BY <1>13 DEF FreeEnqueue, Gone
  <2>2. \A x : In(alloc_q', x) <=> In(alloc_q, x) \/ x = hidx[h]
    BY <2>1, AppendIn
  <2>3. QED
    BY <2>1, <2>2 DEF InQueue, In
<1>14. CASE UNCHANGED vars
  BY <1>14 DEF vars, InQueue
<1>15. QED
  BY <1>1, <1>2, <1>3, <1>4, <1>5, <1>6, <1>7, <1>8, <1>9, <1>10, <1>11,
     <1>12, <1>13, <1>14 DEF Next, Clone, SubSliceErr

-----------------------------------------------------------------------------
LEMMA IInvInit == Init => IInv
<1> SUFFICES ASSUME Init
             PROVE  IInv
  OBVIOUS
<1>1. TypeOK
  BY TypeInit
<1>2. InitPhase /\ AliasBacked /\ ExclusivePage /\ NoPageLost
  BY DEF Init, InitPhase, AliasBacked, ExclusivePage, NoPageLost
<1>3. FreeListSound
  BY EmptySeq DEF Init, FreeListSound
<1>4. \A i \in Idx : CountedOn(i) = {}
  BY DEF Init, CountedOn, Counted
<1>5. RefcountExact
  BY <1>4, FS_EmptySet DEF Init, RefcountExact
<1>6. QED
  BY <1>1, <1>2, <1>3, <1>5 DEF IInv

LEMMA IInvStep == IInv /\ [Next]_vars => IInv'
BY TypeStep, InitPhaseStep, AliasStep, ExclusiveStep, RefcountStep, FreeListStep,
   NoPageLostStep DEF IInv

(* The inductive invariant holds in every reachable state: whatever the    *)
(* order of the handles' operations, counts, free list and pages agree.    *)
THEOREM Invariance == Spec => []IInv
BY IInvInit, IInvStep, PTL DEF Spec

(* Every variable of the specification keeps its type. *)
THEOREM TypeCorrect == Spec => []TypeOK
BY Invariance, PTL DEF IInv

(* The page of a box, of an allocation or of a free under way belongs to   *)
(* that handle alone.                                                      *)
THEOREM Exclusive == Spec => []ExclusivePage
BY Invariance, PTL DEF IInv

(* The reference count of a page is the number of handles on it. *)
THEOREM Refcounts == Spec => []RefcountExact
BY Invariance, PTL DEF IInv

(* The free list holds no page twice and no page that is in use. *)
THEOREM FreeList == Spec => []FreeListSound
BY Invariance, PTL DEF IInv

(* Once init is done every page is in the free list or in the hands of a   *)
(* handle: no order of allocations, drops and re-roots loses one.          *)
THEOREM NothingLost == Spec => []NoPageLost
BY Invariance, PTL DEF IInv

(* A box or an arc is counted, so its page's count is positive. *)
LEMMA AssertsFromIInv == IInv => Asserts
<1> SUFFICES ASSUME IInv, NEW h \in Handles
             PROVE  /\ hkind[h] = "box" => arcs[hidx[h]] = 1
                    /\ hkind[h] \in {"arc", "alias"} => arcs[hidx[h]] >= 1
  BY DEF Asserts
<1> USE DEF IInv, TypeOK
<1>1. ASSUME hkind[h] = "box"
      PROVE  arcs[hidx[h]] = 1
  <2>1. CountedOn(hidx[h]) = {h}
    BY <1>1 DEF CountedOn, Counted, ExclusivePage
  <2>2. QED
    BY <2>1, FS_Singleton DEF RefcountExact
<1>2. ASSUME hkind[h] = "arc"
      PROVE  arcs[hidx[h]] >= 1
  BY <1>2, PositiveCount DEF Counted
<1>3. ASSUME hkind[h] = "alias"
      PROVE  arcs[hidx[h]] >= 1
  <2>1. lender[h] \in Handles /\ hkind[lender[h]] = "arc" /\ hidx[lender[h]] = hidx[h]
    BY <1>3 DEF AliasBacked
  <2>2. arcs[hidx[lender[h]]] >= 1
    BY <2>1, PositiveCount DEF Counted
  <2>3. QED
    BY <2>1, <2>2
<1>4. QED
  BY <1>1, <1>2, <1>3

(* No assertion of slab_box.rs and slab_arc.rs about a count can fail. *)
THEOREM AssertionsHold == Spec => []Asserts
BY Invariance, AssertsFromIInv, PTL

(* The page a drop is about to free is not in the list, and the list holds *)
(* no page twice, so the list is not full.                                 *)
LEMMA RoomFromIInv == IInv => RoomToFree
<1> SUFFICES ASSUME IInv, NEW h \in Handles, hkind[h] = "freeing"
             PROVE  Len(alloc_q) < N
  BY DEF RoomToFree
<1> DEFINE i == hidx[h]
           m == Len(alloc_q)
           rest == Idx \ {i}
<1>1. /\ alloc_q \in Seq(Idx)
      /\ i \in Idx
      /\ Distinct(alloc_q)
      /\ ~In(alloc_q, i)
  BY DEF IInv, TypeOK, FreeListSound, InQueue, In, Distinct
<1>2. m \in Nat /\ alloc_q \in [1 .. m -> Idx]
  BY <1>1, LenProperties
<1>3. alloc_q \in Injection(1 .. m, rest)
  BY <1>1, <1>2 DEF Injection, IsInjective, Distinct, In
<1>4. IsFiniteSet(rest) /\ Cardinality(rest) = N - 1
  <2>1. 0 \in Int /\ N - 1 \in Int /\ ~(0 > N - 1) /\ (N - 1) - 0 + 1 = N
    BY NAssumption
  <2>2. IsFiniteSet(0 .. N - 1) /\ Cardinality(0 .. N - 1) = N
    BY <2>1, FS_Interval
  <2>3. QED
    BY <1>1, <2>2, FS_RemoveElement DEF Idx
<1>5. Cardinality(1 .. m) <= Cardinality(rest)
  BY <1>3, <1>4, FS_Injection
<1>6. Cardinality(1 .. m) = m
  <2>1. Cardinality(1 .. m) = IF 1 > m THEN 0 ELSE m - 1 + 1
    BY <1>2, FS_Interval
  <2>2. QED
    BY <1>2, <2>1
<1>7. QED
  BY <1>2, <1>4, <1>5, <1>6, NAssumption

(* The loop around enqueue at the end of a drop finds room the first time. *)
THEOREM FreeingNeverWaits == Spec => []RoomToFree
BY Invariance, RoomFromIInv, PTL

-----------------------------------------------------------------------------
(* A step of one handle's operation changes what that handle is to the     *)
(* user, or nothing; a page is written only through the one box on it.     *)
LEMMA PromiseInit == Init => P!Init
BY DEF Init, P!Init, PromisedHeld, PromisedSeen

LEMMA PromiseStep == IInv /\ [Next]_vars => [P!Next]_(P!vars)
<1> SUFFICES ASSUME IInv, [Next]_vars
             PROVE  P!Next \/ UNCHANGED P!vars
  OBVIOUS
<1> USE DEF IInv, TypeOK, PromisedHeld, PromisedSeen, P!vars
<1>1. CASE InitBegin
  BY <1>1 DEF InitBegin, InitPhase
<1>2. CASE InitEnqueue
  BY <1>2 DEF InitEnqueue
<1>3. CASE InitEnd
  BY <1>3 DEF InitEnd
<1>4. ASSUME NEW h \in Handles, AllocDequeue(h)
      PROVE  UNCHANGED P!vars
  BY <1>4 DEF AllocDequeue
<1>5. ASSUME NEW h \in Handles, AllocStore(h)
      PROVE  P!Alloc(h)
  <2>1. bufs[hidx[h]] \in Values
    OBVIOUS
  <2>2. PromisedSeen' = [PromisedSeen EXCEPT ![h] = bufs[hidx[h]]]
    BY <1>5 DEF AllocStore
  <2>3. PromisedHeld[h] = "nothing" /\ PromisedHeld' = [PromisedHeld EXCEPT ![h] = "box"]
    BY <1>5 DEF AllocStore
  <2>4. QED
    BY <2>1, <2>2, <2>3 DEF P!Alloc
<1>6. ASSUME NEW h \in Handles, Write(h)
      PROVE  P!Write(h)
  <2>1. PICK v \in Values : bufs' = [bufs EXCEPT ![hidx[h]] = v]
    BY <1>6 DEF Write
  <2>2. \A k \in Handles : hkind[k] # "none" /\ hidx[k] = hidx[h] => k = h
    BY <1>6 DEF Write, ExclusivePage
  <2>3. PromisedSeen' = [PromisedSeen EXCEPT ![h] = v]
    BY <1>6, <2>1, <2>2 DEF Write
  <2>4. PromisedHeld[h] = "box" /\ PromisedHeld' = PromisedHeld
    BY <1>6 DEF Write
  <2>5. QED
    BY <2>3, <2>4 DEF P!Write
<1>7. ASSUME NEW h \in Handles, IntoArc(h)
      PROVE  P!Freeze(h)
  BY <1>7 DEF IntoArc, P!Freeze
<1>8. ASSUME NEW h \in Handles, NEW k \in Handles, CloneAs(h, k, "arc")
      PROVE  P!Share(h, k)
  <2>1. PromisedSeen' = [PromisedSeen EXCEPT ![k] = PromisedSeen[h]]
    BY <1>8 DEF CloneAs
  <2>2. /\ PromisedHeld[h] = "arc" /\ PromisedHeld[k] = "nothing"
        /\ PromisedHeld' = [PromisedHeld EXCEPT ![k] = "arc"]
    BY <1>8 DEF CloneAs
  <2>3. QED
    BY <2>1, <2>2 DEF P!Share
<1>9. ASSUME NEW h \in Handles, NEW k \in Handles, CloneAs(h, k, "rejected")
      PROVE  UNCHANGED P!vars
  BY <1>9 DEF CloneAs
<1>10. ASSUME NEW h \in Handles, NEW k \in Handles, RerootAlias(h, k)
       PROVE  UNCHANGED P!vars
  BY <1>10 DEF RerootAlias
<1>11. ASSUME NEW k \in Handles, RerootClone(k)
       PROVE  \E h \in Handles : P!Share(h, k)
  <2>1. PICK h \in Handles : h = lender[k] /\ hkind[h] = "arc" /\ hidx[h] = hidx[k]
    BY <1>11 DEF RerootClone, AliasBacked
  <2>2. PromisedSeen' = [PromisedSeen EXCEPT ![k] = PromisedSeen[h]]
    BY <1>11, <2>1 DEF RerootClone
  <2>3. /\ PromisedHeld[h] = "arc" /\ PromisedHeld[k] = "nothing"
        /\ PromisedHeld' = [PromisedHeld EXCEPT ![k] = "arc"]
    BY <1>11, <2>1 DEF RerootClone
  <2>4. QED
    BY <2>2, <2>3 DEF P!Share
<1>12. ASSUME NEW h \in Handles, DropBox(h)
       PROVE  P!Release(h)
  BY <1>12 DEF DropBox, P!Release
<1>13. ASSUME NEW h \in Handles, DropArc(h)
       PROVE  P!Release(h) \/ UNCHANGED P!vars
  <2>1. /\ bufs' = bufs
        /\ hkind' = [hkind EXCEPT ![h] = "freeing"] \/ hkind' = [hkind EXCEPT ![h] = "none"]
        /\ \A k \in Handles : k # h => hidx'[k] = hidx[k]
        /\ hkind[h] \in {"arc", "rejected"}
    BY <1>13, DropArcCases DEF Gone
  <2>2. CASE hkind[h] = "arc"
    <3>1. PromisedSeen' = [PromisedSeen EXCEPT ![h] = NoValue]
      BY <2>1, <2>2
    <3>2. PromisedHeld[h] = "arc" /\ PromisedHeld' = [PromisedHeld EXCEPT ![h] = "nothing"]
      BY <2>1, <2>2
    <3>3. QED
      BY <3>1, <3>2 DEF P!Release
  <2>3. CASE hkind[h] = "rejected"
    BY <2>1, <2>3
  <2>4. QED
    BY <2>1, <2>2, <2>3
<1>14. ASSUME NEW h \in Handles, FreeEnqueue(h)
       PROVE  UNCHANGED P!vars
  BY <1>14 DEF FreeEnqueue, Gone
<1>15. CASE UNCHANGED vars
  BY <1>15 DEF vars
<1>16. QED
  BY <1>1, <1>2, <1>3, <1>4, <1>5, <1>6, <1>7, <1>8, <1>9, <1>10, <1>11,
     <1>12, <1>13, <1>14, <1>15 DEF Next, Clone, SubSliceErr, P!Next

(* The slab keeps the promise of lib.rs: a box is its owner's alone, and   *)
(* what an arc shows never changes while it lives.                         *)
THEOREM Implements == Spec => Promise
<1>1. Init => P!Init
  BY PromiseInit
<1>2. IInv /\ [Next]_vars => [P!Next]_(P!vars)
  BY PromiseStep
<1>3. QED
  BY <1>1, <1>2, Invariance, PTL DEF Spec, Promise, P!Spec
=============================================================================
