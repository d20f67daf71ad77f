------------------------------ MODULE ByteSlab ------------------------------
(***************************************************************************)
(* The page pool of byte-slab: BSlab, SlabBox, SlabArc and the views that  *)
(* share an arc's reference count (SlabSliceArc, SlabStrArc, the Owned     *)
(* case of ManagedArcSlab).                                                *)
(*                                                                         *)
(* A handle is a variable of the program that may hold a SlabBox, an arc   *)
(* or nothing.  Handles belong to any thread or interrupt handler, and an  *)
(* operation that touches shared memory more than once is one action per   *)
(* atomic access, so the steps of different handles interleave.  Where a   *)
(* handle is in such an operation is part of hkind.                        *)
(*                                                                         *)
(* The free list is heapless' MpMcQueue, used as a FIFO queue of page      *)
(* indices with atomic operations.  Rust's ownership rules are guards:     *)
(* only the owner drops or converts a handle, and a handle whose bytes are *)
(* borrowed (by a RerooterKey) is not dropped.                             *)
(***************************************************************************)
EXTENDS Naturals, Sequences, FiniteSets

CONSTANTS N,        \* pages in the slab (the const generic N)
          Handles,  \* variables that may hold a handle
          Values,   \* contents of a page
          NoValue   \* stands for "no handle" in the promise to the user

ASSUME NAssumption       == N \in Nat \ {0}
ASSUME HandlesAssumption == IsFiniteSet(Handles)
ASSUME ValuesAssumption  == Values # {} /\ NoValue \notin Values

Idx == 0 .. N - 1

VARIABLES state,    \* BSlab::state
          alloc_q,  \* BSlab::alloc_q, the indices of the free pages
          arcs,     \* BSlab::arcs, the reference count of each page
          bufs,     \* BSlab::bufs, the contents of each page
          hkind,    \* what each handle is, or the operation it is in
          hidx,     \* the field idx of each handle
          lender    \* for a handle in reroot_with_key, the arc it aliases

vars == <<state, alloc_q, arcs, bufs, hkind, hidx, lender>>

(* "dequeued": alloc_box has an index and has not stored its count yet.    *)
(* "rejected": the clone of a sub_slice_arc whose range is bad, which the  *)
(*   function drops on its way out.                                        *)
(* "alias": the uncounted SlabArc reroot_with_key builds from the key.     *)
(* "freeing": a drop that took the count to zero and has not put the page  *)
(*   back in the free list yet.                                            *)
Kinds == {"none", "dequeued", "box", "arc", "rejected", "alias", "freeing"}

(* The kinds that account for one unit of the page's reference count. *)
Counted == {"box", "arc", "rejected"}

CountedOn(i) == {h \in Handles : hkind[h] \in Counted /\ hidx[h] = i}

(* Mutant of Borrowed: a RerooterKey without the lifetime of its arc. *)
NeverBorrowed(h) == FALSE

Borrowed(h) == \E k \in Handles : hkind[k] = "alias" /\ lender[k] = h

Gone(h) == /\ hkind'  = [hkind EXCEPT ![h] = "none"]
           /\ hidx'   = [hidx EXCEPT ![h] = 0]
           /\ lender' = [lender EXCEPT ![h] = h]

TypeOK ==
  /\ state \in {"UNINIT", "INITIALIZING", "INITIALIZED"}
  /\ alloc_q \in Seq(Idx)
  /\ arcs \in [Idx -> Nat]
  /\ bufs \in [Idx -> Values]
  /\ hkind \in [Handles -> Kinds]
  /\ hidx \in [Handles -> Idx]
  /\ lender \in [Handles -> Handles]

Init ==
  /\ state = "UNINIT"
  /\ alloc_q = << >>
  /\ arcs = [i \in Idx |-> 0]
  /\ bufs \in [Idx -> Values]
  /\ hkind = [h \in Handles |-> "none"]
  /\ hidx = [h \in Handles |-> 0]
  /\ lender = [h \in Handles |-> h]

-----------------------------------------------------------------------------
(* BSlab::init, by whichever thread wins the compare_exchange; the others  *)
(* return Err and change nothing.  The pages are zeroed in the same step   *)
(* that wins: nobody can reach a page before init ends.                    *)
InitBegin ==
  /\ state = "UNINIT"
  /\ state' = "INITIALIZING"
  /\ \E zero \in Values : bufs' = [i \in Idx |-> zero]
  /\ UNCHANGED <<alloc_q, arcs, hkind, hidx, lender>>

InitEnqueue ==
  /\ state = "INITIALIZING"
  /\ Len(alloc_q) < N
  /\ alloc_q' = Append(alloc_q, Len(alloc_q))
  /\ UNCHANGED <<state, arcs, bufs, hkind, hidx, lender>>

InitEnd ==
  /\ state = "INITIALIZING"
  /\ Len(alloc_q) = N
  /\ state' = "INITIALIZED"
  /\ UNCHANGED <<alloc_q, arcs, bufs, hkind, hidx, lender>>

(* Mutant of AllocDequeue: the index is read and not taken. *)
AllocPeek(h) ==
  /\ hkind[h] = "none"
  /\ state = "INITIALIZED"
  /\ alloc_q # << >>
  /\ hkind' = [hkind EXCEPT ![h] = "dequeued"]
  /\ hidx' = [hidx EXCEPT ![h] = Head(alloc_q)]
  /\ UNCHANGED <<state, alloc_q, arcs, bufs, lender>>

(* BSlab::alloc_box: take an index, then store a count of one.  Before     *)
(* init ends, or with no free page, it returns None and changes nothing.   *)
AllocDequeue(h) ==
  /\ hkind[h] = "none"
  /\ state = "INITIALIZED"
  /\ alloc_q # << >>
  /\ hkind' = [hkind EXCEPT ![h] = "dequeued"]
  /\ hidx' = [hidx EXCEPT ![h] = Head(alloc_q)]
  /\ alloc_q' = Tail(alloc_q)
  /\ UNCHANGED <<state, arcs, bufs, lender>>

AllocStore(h) ==
  /\ hkind[h] = "dequeued"
  /\ arcs' = [arcs EXCEPT ![hidx[h]] = 1]
  /\ hkind' = [hkind EXCEPT ![h] = "box"]
  /\ UNCHANGED <<state, alloc_q, bufs, hidx, lender>>

(* Mutant of Write: SlabArc dereferences mutably too. *)
WriteShared(h) ==
  /\ hkind[h] \in {"box", "arc"}
  /\ \E v \in Values : bufs' = [bufs EXCEPT ![hidx[h]] = v]
  /\ UNCHANGED <<state, alloc_q, arcs, hkind, hidx, lender>>

(* A write through SlabBox's DerefMut. *)
Write(h) ==
  /\ hkind[h] = "box"
  /\ \E v \in Values : bufs' = [bufs EXCEPT ![hidx[h]] = v]
  /\ UNCHANGED <<state, alloc_q, arcs, hkind, hidx, lender>>

(* SlabBox::into_arc.  Its assert_eq!(1, refct) is part of Asserts. *)
IntoArc(h) ==
  /\ hkind[h] = "box"
  /\ hkind' = [hkind EXCEPT ![h] = "arc"]
  /\ UNCHANGED <<state, alloc_q, arcs, bufs, hidx, lender>>

(* Mutant of CloneAs: the copy is not counted. *)
CloneUncounted(h, k, kind) ==
  /\ hkind[h] = "arc"
  /\ hkind[k] = "none"
  /\ hkind' = [hkind EXCEPT ![k] = kind]
  /\ hidx' = [hidx EXCEPT ![k] = hidx[h]]
  /\ UNCHANGED <<state, alloc_q, arcs, bufs, lender>>

(* SlabArc::clone into k, whose handle becomes one of the given kind: a    *)
(* clone the caller keeps, or the one sub_slice_arc makes before it finds  *)
(* the range bad.                                                          *)
CloneAs(h, k, kind) ==
  /\ hkind[h] = "arc"
  /\ hkind[k] = "none"
  /\ arcs' = [arcs EXCEPT ![hidx[h]] = @ + 1]
  /\ hkind' = [hkind EXCEPT ![k] = kind]
  /\ hidx' = [hidx EXCEPT ![k] = hidx[h]]
  /\ UNCHANGED <<state, alloc_q, bufs, lender>>

Clone(h, k) == CloneAs(h, k, "arc")

SubSliceErr(h, k) == CloneAs(h, k, "rejected")

(* ManagedArcSlab::reroot_with_key on bytes borrowed from the arc h: a     *)
(* SlabArc with the key's index is made up without counting it ...         *)
RerootAlias(h, k) ==
  /\ hkind[h] = "arc"
  /\ hkind[k] = "none"
  /\ hkind' = [hkind EXCEPT ![k] = "alias"]
  /\ hidx' = [hidx EXCEPT ![k] = hidx[h]]
  /\ lender' = [lender EXCEPT ![k] = h]
  /\ UNCHANGED <<state, alloc_q, arcs, bufs>>

(* Mutant of RerootClone: the aliasing arc itself becomes the result. *)
RerootKeepAlias(k) ==
  /\ hkind[k] = "alias"
  /\ hkind' = [hkind EXCEPT ![k] = "arc"]
  /\ lender' = [lender EXCEPT ![k] = k]
  /\ UNCHANGED <<state, alloc_q, arcs, bufs, hidx>>

(* ... and then its sub_slice_arc is the counted result and the made-up    *)
(* arc is forgotten.  SlabView shows that the range of borrowed bytes is   *)
(* never refused, so the branch that would drop the uncounted arc is dead. *)
RerootClone(k) ==
  /\ hkind[k] = "alias"
  /\ arcs' = [arcs EXCEPT ![hidx[k]] = @ + 1]
  /\ hkind' = [hkind EXCEPT ![k] = "arc"]
  /\ lender' = [lender EXCEPT ![k] = k]
  /\ UNCHANGED <<state, alloc_q, bufs, hidx>>

(* SlabBox's Drop: compare_exchange(1, 0), then the page goes back. *)
DropBox(h) ==
  /\ hkind[h] = "box"
  /\ arcs' = [arcs EXCEPT ![hidx[h]] = 0]
  /\ hkind' = [hkind EXCEPT ![h] = "freeing"]
  /\ UNCHANGED <<state, alloc_q, bufs, hidx, lender>>

(* Mutant of DropArc: the count after the fetch_sub decides, off by one. *)
DropArcEarly(h) ==
  /\ hkind[h] \in {"arc", "rejected"}
  /\ ~Borrowed(h)
  /\ arcs' = [arcs EXCEPT ![hidx[h]] = @ - 1]
  /\ IF arcs'[hidx[h]] = 1
       THEN /\ hkind' = [hkind EXCEPT ![h] = "freeing"]
            /\ UNCHANGED <<hidx, lender>>
       ELSE Gone(h)
  /\ UNCHANGED <<state, alloc_q, bufs>>

(* Mutant of DropArc: the one who saw a count of zero frees. *)
DropArcNever(h) ==
  /\ hkind[h] \in {"arc", "rejected"}
  /\ ~Borrowed(h)
  /\ arcs' = [arcs EXCEPT ![hidx[h]] = @ - 1]
  /\ IF arcs[hidx[h]] = 0
       THEN /\ hkind' = [hkind EXCEPT ![h] = "freeing"]
            /\ UNCHANGED <<hidx, lender>>
       ELSE Gone(h)
  /\ UNCHANGED <<state, alloc_q, bufs>>

(* SlabArc's Drop: fetch_sub, and the one who saw a count of one frees. *)
DropArc(h) ==
  /\ hkind[h] \in {"arc", "rejected"}
  /\ ~Borrowed(h)
  /\ arcs' = [arcs EXCEPT ![hidx[h]] = @ - 1]
  /\ IF arcs[hidx[h]] = 1
       THEN /\ hkind' = [hkind EXCEPT ![h] = "freeing"]
            /\ UNCHANGED <<hidx, lender>>
       ELSE Gone(h)
  /\ UNCHANGED <<state, alloc_q, bufs>>

(* Mutant of FreeEnqueue: the loop goes on after an enqueue that worked. *)
FreeAgain(h) ==
  /\ hkind[h] = "freeing"
  /\ Len(alloc_q) < N
  /\ alloc_q' = Append(alloc_q, hidx[h])
  /\ UNCHANGED <<state, arcs, bufs, hkind, hidx, lender>>

(* Mutant of FreeEnqueue: an enqueue that fails is not tried again. *)
FreeGiveUp(h) ==
  /\ hkind[h] = "freeing"
  /\ IF Len(alloc_q) < N - 1
       THEN alloc_q' = Append(alloc_q, hidx[h])
       ELSE UNCHANGED alloc_q
  /\ Gone(h)
  /\ UNCHANGED <<state, arcs, bufs>>

(* The loop both drops end in: enqueue the index until the queue takes it. *)
FreeEnqueue(h) ==
  /\ hkind[h] = "freeing"
  /\ Len(alloc_q) < N
  /\ alloc_q' = Append(alloc_q, hidx[h])
  /\ Gone(h)
  /\ UNCHANGED <<state, arcs, bufs>>

-----------------------------------------------------------------------------
(* The rest of an operation already under way. *)
Continue(h) ==
  \/ AllocStore(h)
  \/ RerootClone(h)
  \/ hkind[h] = "rejected" /\ DropArc(h)
  \/ FreeEnqueue(h)

Next ==
  \/ InitBegin \/ InitEnqueue \/ InitEnd
  \/ \E h \in Handles :
       \/ AllocDequeue(h) \/ AllocStore(h) \/ Write(h) \/ IntoArc(h)
       \/ RerootClone(h) \/ DropBox(h) \/ DropArc(h) \/ FreeEnqueue(h)
       \/ \E k \in Handles : Clone(h, k) \/ SubSliceErr(h, k) \/ RerootAlias(h, k)

Spec == Init /\ [][Next]_vars

(* A thread or handler that started an operation finishes it: none of them *)
(* waits for another, and a started init runs to its end.                  *)
Fairness == /\ WF_vars(InitEnqueue) /\ WF_vars(InitEnd)
            /\ \A h \in Handles : WF_vars(Continue(h))

FairSpec == Spec /\ Fairness

-----------------------------------------------------------------------------
InQueue(i) == \E n \in 1 .. Len(alloc_q) : alloc_q[n] = i

(* Nobody but its owner has anything to do with the page of a box, of an   *)
(* allocation or of a drop under way: the exclusive access behind          *)
(* SlabBox's DerefMut (slab_box.rs:84) and behind the plain store of the   *)
(* reference count in alloc_box (byte_slab.rs:113).                        *)
ExclusivePage ==
  \A h, k \in Handles :
    /\ hkind[h] \in {"dequeued", "box", "freeing"}
    /\ hkind[k] # "none"
    /\ hidx[h] = hidx[k]
    => h = k

(* A page's count is the number of handles that will give one unit back:   *)
(* no clone, rejected sub-slice, re-root or drop loses or invents a unit.  *)
RefcountExact == \A i \in Idx : arcs[i] = Cardinality(CountedOn(i))

(* The free list never offers a page twice, nor a page that somebody still *)
(* has: no order of drops frees a page two times or too early.             *)
FreeListSound ==
  /\ \A m, n \in 1 .. Len(alloc_q) : alloc_q[m] = alloc_q[n] => m = n
  /\ \A h \in Handles : hkind[h] # "none" => ~InQueue(hidx[h])

(* Once initialised, no page is lost: what no handle accounts for is in    *)
(* the free list.                                                          *)
NoPageLost ==
  state = "INITIALIZED" =>
    \A i \in Idx : InQueue(i) \/ \E h \in Handles : hkind[h] # "none" /\ hidx[h] = i

(* The assertions of the source hold: a box's count is one (into_arc's     *)
(* assert_eq!, slab_box.rs:100, and the compare_exchange of Drop, :62) and *)
(* a count is never raised from zero (Clone's assert!, slab_arc.rs:150).   *)
Asserts ==
  \A h \in Handles :
    /\ hkind[h] = "box" => arcs[hidx[h]] = 1
    /\ hkind[h] \in {"arc", "alias"} => arcs[hidx[h]] >= 1

(* A drop that has to free a page finds room in the free list at once: the *)
(* loop around enqueue never waits for an allocation to make room.         *)
RoomToFree ==
  \A h \in Handles : hkind[h] = "freeing" => Len(alloc_q) < N

(* "The underlying memory is freed for reuse automatically when the        *)
(* reference count reaches zero" (lib.rs:28-30): after the last drop of a  *)
(* page it is offered again.                                               *)
Freed ==
  \A h \in Handles, i \in Idx :
    (hkind[h] = "freeing" /\ hidx[h] = i) ~> InQueue(i)

(* The user's view of the slab: a handle in the middle of alloc_box or of  *)
(* reroot_with_key is not there yet, one being dropped is gone.            *)
PromisedHeld ==
  [h \in Handles |-> IF hkind[h] \in {"box", "arc"} THEN hkind[h] ELSE "nothing"]

PromisedSeen ==
  [h \in Handles |-> IF hkind[h] \in {"box", "arc"} THEN bufs[hidx[h]] ELSE NoValue]

P == INSTANCE SlabPromise WITH held <- PromisedHeld, seen <- PromisedSeen

(* Pages, counts and free list together keep the promise of SlabPromise:   *)
(* a box is its owner's alone and a shared page never changes.             *)
Promise == P!Spec
=============================================================================
