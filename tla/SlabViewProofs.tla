--------------------------- MODULE SlabViewProofs ---------------------------
(***************************************************************************)
(* With overflow checks, the views of a page stay in the page and in the   *)
(* view they come from, for any page size and any width of usize.  The     *)
(* invariant is inductive because every sum that is compared is exact: one *)
(* that wraps has panicked.                                                *)
(***************************************************************************)
EXTENDS SlabView, TLAPS

IInv == TypeOK /\ InPage /\ Narrowing /\ RerootGranted /\ StrIsText

LEMMA InitIInv == Init => IInv
BY SZAssumption, MaxUsizeAssumption
   DEF Init, IInv, TypeOK, InPage, Narrowing, RerootGranted, StrIsText, Within, Page, Ranges, Usize

(* A sum that is not reported as an overflow is not wrapped. *)
LEMMA ExactSum ==
  ASSUME NEW n \in Nat, Fits(n)
  PROVE  Wrapped(n) = n
BY DEF Wrapped

LEMMA ArcStep ==
  ASSUME OverflowChecks, IInv, NEW start \in Usize, NEW len \in Usize,
         ArcSubSlice(start, len)
  PROVE  IInv'
<1>1. CASE outcome' = "ok"
  <2>1. view' = [start |-> start, len |-> len] /\ parent' = Page /\ Fits(start + len)
    BY <1>1 DEF ArcSubSlice, Derive
  <2>2. start + len <= SZ
    BY <1>1, <2>1, ExactSum DEF ArcSubSlice, Derive, ArcGrants, Usize
  <2>3. call' = "arc" /\ kind' = "bytes"
    BY <1>1 DEF ArcSubSlice, Derive
  <2>4. QED
    BY <1>1, <2>1, <2>2, <2>3, SZAssumption, MaxUsizeAssumption
       DEF IInv, TypeOK, InPage, Narrowing, RerootGranted, StrIsText, Within, Page, Ranges, Usize
<1>2. CASE outcome' # "ok"
  BY <1>2 DEF ArcSubSlice, Derive, IInv, TypeOK, InPage, Narrowing, RerootGranted, StrIsText
<1>3. QED
  BY <1>1, <1>2

LEMMA SliceStep ==
  ASSUME OverflowChecks, IInv, NEW offset \in Usize, NEW len \in Usize,
         SliceSubSlice(offset, len)
  PROVE  IInv'
<1> DEFINE start == Wrapped(view.start + offset)
<1>1. view.start \in Nat /\ view.len \in Nat /\ offset \in Nat /\ len \in Nat
  BY MaxUsizeAssumption DEF IInv, TypeOK, Ranges, Usize
<1>2. CASE outcome' = "ok"
  <2>1. /\ view' = [start |-> start, len |-> len] /\ parent' = view
        /\ Fits(view.start + offset) /\ Fits(view.start + view.len) /\ Fits(start + len)
        /\ SliceGrants(start, len)
    BY <1>2 DEF SliceSubSlice, Derive
  <2>2. start = view.start + offset
    BY <1>1, <2>1, ExactSum
  <2>3. start + len <= view.start + view.len
    <3>1. Wrapped(view.start + view.len) = view.start + view.len
      BY <1>1, <2>1, ExactSum
    <3>2. Wrapped(start + len) = start + len
      BY <1>1, <2>1, <2>2, ExactSum
    <3>3. QED
      BY <2>1, <3>1, <3>2 DEF SliceGrants
  <2>4. call' = "slice" /\ kind' = "bytes"
    BY <1>2 DEF SliceSubSlice, Derive
  <2>5. view' \in Ranges
    BY <1>1, <2>1, <2>2, MaxUsizeAssumption DEF Ranges, Usize, Fits
  <2>6. Within(view', Page)
    BY <1>1, <2>1, <2>2, <2>3, SZAssumption DEF IInv, InPage, Within, Page
  <2>7. Within(view', parent')
    BY <1>1, <2>1, <2>2, <2>3 DEF Within
  <2>8. QED
    BY <1>2, <2>1, <2>4, <2>5, <2>6, <2>7
       DEF IInv, TypeOK, InPage, Narrowing, RerootGranted, StrIsText, Page
<1>3. CASE outcome' # "ok"
  BY <1>3 DEF SliceSubSlice, Derive, IInv, TypeOK, InPage, Narrowing, RerootGranted, StrIsText
<1>4. QED
  BY <1>2, <1>3

LEMMA TextStep ==
  ASSUME IInv, IntoStr
  PROVE  IInv'
<1>1. CASE outcome' = "ok"
  <2>1. view' = view /\ parent' = view /\ kind' = "str" /\ call' = "text" /\ view \in Utf8
    BY <1>1 DEF IntoStr, Derive
  <2>2. Within(view, view)
    BY MaxUsizeAssumption DEF IInv, TypeOK, Ranges, Usize, Within
  <2>3. QED
    BY <1>1, <2>1, <2>2
       DEF IInv, TypeOK, InPage, Narrowing, RerootGranted, StrIsText, Page
<1>2. CASE outcome' # "ok"
  BY <1>2 DEF IntoStr, Derive, IInv, TypeOK, InPage, Narrowing, RerootGranted, StrIsText
<1>3. QED
  BY <1>1, <1>2

(* What is borrowed from a view lies in the page: it is granted. *)
LEMMA BorrowGranted ==
  ASSUME IInv, NEW offset \in Usize, NEW len \in Usize,
         0 < len, offset + len <= view.len
  PROVE  /\ Fits(view.start + offset + len)
         /\ RerootGrants(view.start + offset, len)
         /\ Borrow(offset, len) \in Ranges
         /\ Within(Borrow(offset, len), Page)
         /\ Within(Borrow(offset, len), view)
<1>1. view.start \in Nat /\ view.len \in Nat /\ offset \in Nat /\ len \in Nat
  BY MaxUsizeAssumption DEF IInv, TypeOK, Ranges, Usize
<1>2. view.start + view.len <= SZ
  BY <1>1, SZAssumption DEF IInv, InPage, Within, Page
<1>3. /\ view.start + offset + len <= SZ
      /\ view.start + offset < SZ
      /\ view.start + offset \in Nat
      /\ view.start + offset + len \in Nat
  BY <1>1, <1>2, SZAssumption
<1>4. Fits(view.start + offset + len)
  BY <1>3, SZAssumption, MaxUsizeAssumption DEF Fits
<1>5. RerootGrants(view.start + offset, len)
  BY <1>3, <1>4, ExactSum DEF RerootGrants, ArcGrants
<1>6. Borrow(offset, len) \in Ranges
  BY <1>1, <1>3, SZAssumption, MaxUsizeAssumption DEF Borrow, Ranges, Usize
<1>7. Within(Borrow(offset, len), Page) /\ Within(Borrow(offset, len), view)
  BY <1>1, <1>3, SZAssumption DEF Borrow, Within, Page
<1>8. QED
  BY <1>4, <1>5, <1>6, <1>7

LEMMA RerootStep ==
  ASSUME IInv, NEW offset \in Usize, NEW len \in Usize,
         Reroot(offset, len) \/ RerootStr(offset, len)
  PROVE  IInv'
<1>1. offset + len <= view.len /\ len \in Nat
  <2>1. offset + len <= view.len
    BY Zenon DEF Reroot, RerootStr, RerootAs
  <2>2. QED
    BY <2>1, MaxUsizeAssumption DEF Usize
<1>2. CASE len = 0
  <2>1. NoArc("empty")
    BY <1>2 DEF Reroot, RerootStr, RerootAs
  <2>2. QED
    BY <2>1 DEF NoArc, IInv, TypeOK, InPage, Narrowing, RerootGranted, StrIsText
<1>3. CASE len # 0
  <2>1. 0 < len
    BY <1>1, <1>3
  <2>2. /\ Fits(view.start + offset + len) /\ RerootGrants(view.start + offset, len)
        /\ Borrow(offset, len) \in Ranges
        /\ Within(Borrow(offset, len), Page) /\ Within(Borrow(offset, len), view)
    BY <1>1, <2>1, BorrowGranted
  <2>3. ~ view.start + offset >= SZ
    <3>1. view.start + offset \in Nat
      BY MaxUsizeAssumption DEF IInv, TypeOK, Ranges, Usize
    <3>2. QED
      BY <2>2, <3>1, SZAssumption DEF RerootGrants, ArcGrants
  <2>4. /\ call' = "reroot" /\ outcome' = "ok" /\ parent' = view
        /\ view' = Borrow(offset, len)
        /\ kind' = "bytes" \/ (kind' = "str" /\ Borrow(offset, len) \in Utf8)
    BY <1>3, <2>2, <2>3 DEF Reroot, RerootStr, RerootAs, Derive
  <2>5. QED
    BY <2>2, <2>4 DEF IInv, TypeOK, InPage, Narrowing, RerootGranted, StrIsText, Page
<1>4. QED
  BY <1>2, <1>3

LEMMA StepIInv ==
  ASSUME OverflowChecks
  PROVE  IInv /\ [Next]_vars => IInv'
<1> SUFFICES ASSUME IInv, [Next]_vars PROVE IInv'
  OBVIOUS
<1>1. CASE Next
  <2>1. CASE IntoStr
    BY <2>1, TextStep
  <2>2. CASE ~IntoStr
    <3>1. PICK n \in Usize, len \in Usize :
            \/ ArcSubSlice(n, len) \/ SliceSubSlice(n, len)
            \/ Reroot(n, len) \/ RerootStr(n, len)
      BY <1>1, <2>2 DEF Next
    <3>2. QED
      BY <3>1, ArcStep, SliceStep, RerootStep
  <2>3. QED
    BY <2>1, <2>2
<1>2. CASE UNCHANGED vars
  BY <1>2 DEF vars, IInv, TypeOK, InPage, Narrowing, RerootGranted, StrIsText
<1>3. QED
  BY <1>1, <1>2

(* With overflow checks no chain of sub-slices, strings and re-roots       *)
(* leaves the invariant, whatever the page size and the width of usize.    *)
THEOREM Invariance ==
  ASSUME OverflowChecks
  PROVE  Spec => []IInv
<1>1. Init => IInv
  BY InitIInv
<1>2. IInv /\ [Next]_vars => IInv'
  BY StepIInv
<1>3. QED
  BY <1>1, <1>2, PTL DEF Spec

(* With overflow checks a view never reaches beyond the page it lies in.   *)
THEOREM StaysInPage ==
  ASSUME OverflowChecks
  PROVE  Spec => []InPage
<1>1. Spec => []IInv
  BY Invariance
<1>2. QED
  BY <1>1, PTL DEF IInv

(* With overflow checks a view lies in the view it was derived from: the   *)
(* offsets of a slice of a slice add up inside its parent.                 *)
THEOREM NeverWidens ==
  ASSUME OverflowChecks
  PROVE  Spec => []Narrowing
<1>1. Spec => []IInv
  BY Invariance
<1>2. QED
  BY <1>1, PTL DEF IInv

(* With overflow checks a re-root of what was borrowed fails only where it *)
(* is empty, before an arc is made up: the branch of reroot_with_key that  *)
(* would give back a unit nobody took is dead.                             *)
THEOREM RerootsSucceed ==
  ASSUME OverflowChecks
  PROVE  Spec => []RerootGranted
<1>1. Spec => []IInv
  BY Invariance
<1>2. QED
  BY <1>1, PTL DEF IInv

(* With overflow checks the bytes of a string have been checked, whatever  *)
(* calls made it.                                                          *)
THEOREM StringsAreText ==
  ASSUME OverflowChecks
  PROVE  Spec => []StrIsText
<1>1. Spec => []IInv
  BY Invariance
<1>2. QED
  BY <1>1, PTL DEF IInv
=============================================================================
