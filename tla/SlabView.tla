------------------------------ MODULE SlabView ------------------------------
(***************************************************************************)
(* The ranges of bytes behind the views of a page of byte-slab: how        *)
(* SlabArc::sub_slice_arc, SlabSliceArc::sub_slice_arc and the two         *)
(* reroot_with_key derive one range from another, and how a range becomes  *)
(* a string.  The arithmetic is that of usize in the two build profiles of *)
(* the firmware: with overflow checks (dev) an addition that does not fit  *)
(* panics, without (release) it wraps around.  The bytes of a page that    *)
(* has views do not change (ExclusivePage of ByteSlab).                    *)
(*                                                                         *)
(* One step is one call on the view at hand; on success the result becomes *)
(* the view at hand, so a run is a chain of views of views.                *)
(***************************************************************************)
EXTENDS Naturals

CONSTANTS SZ,             \* bytes of a page (the const generic SZ)
          MaxUsize,       \* the largest usize
          OverflowChecks, \* overflow-checks of the build profile
          Utf8            \* the ranges whose bytes are valid UTF-8

ASSUME SZAssumption       == SZ \in Nat \ {0}
ASSUME MaxUsizeAssumption == MaxUsize \in Nat /\ SZ <= MaxUsize
ASSUME ChecksAssumption   == OverflowChecks \in BOOLEAN

Usize == 0 .. MaxUsize

Ranges == [start : Usize, len : Usize]

ASSUME Utf8Assumption == Utf8 \subseteq Ranges

VARIABLES view,     \* the range of the view at hand
          kind,     \* is it of bytes or a string?
          parent,   \* the range it was derived from
          call,     \* the function called last
          outcome   \* what became of it

vars == <<view, kind, parent, call, outcome>>

Page == [start |-> 0, len |-> SZ]

TypeOK == /\ view \in Ranges /\ parent \in Ranges
          /\ kind \in {"bytes", "str"}
          /\ call \in {"arc", "slice", "reroot", "text"}
          /\ outcome \in {"ok", "err", "panic", "empty", "outside"}

(* SlabArc::full_sub_slice_arc *)
Init == /\ view = Page /\ parent = Page /\ kind = "bytes"
        /\ call = "arc" /\ outcome = "ok"

-----------------------------------------------------------------------------
Fits(n) == n <= MaxUsize

Wrapped(n) == IF Fits(n) THEN n ELSE n - (MaxUsize + 1)

(* A call f on the range of source, that asks for the range asked as k and *)
(* grants it under the given condition; sums are all that it adds up.      *)
Derive(f, k, source, asked, granted, sums) ==
  /\ call' = f
  /\ IF OverflowChecks /\ \E n \in sums : ~Fits(n)
       THEN outcome' = "panic" /\ UNCHANGED <<view, kind, parent>>
       ELSE IF granted
         THEN outcome' = "ok" /\ view' = asked /\ kind' = k /\ parent' = source
         ELSE outcome' = "err" /\ UNCHANGED <<view, kind, parent>>

(* Mutant of ArcGrants: the end is not looked at. *)
ArcGrantsStart(start, len) == start < SZ

ArcGrants(start, len) == start < SZ /\ Wrapped(start + len) <= SZ

ArcSubSlice(start, len) ==
  Derive("arc", "bytes", Page, [start |-> start, len |-> len], ArcGrants(start, len), {start + len})

(* Mutant of SliceGrants: compared with the page instead of the slice. *)
SliceGrantsPage(start, len) == ArcGrants(start, len)

(* An offset into the slice, compared with the end of the slice. *)
SliceGrants(start, len) ==
  LET new_end == Wrapped(view.start + view.len)
  IN  start < new_end /\ Wrapped(start + len) <= new_end

SliceSubSlice(offset, len) ==
  LET start == Wrapped(view.start + offset)
  IN  /\ kind = "bytes"
      /\ Derive("slice", "bytes", view, [start |-> start, len |-> len],
                SliceGrants(start, len),
                {view.start + offset, view.start + view.len, start + len})

(* into_str_arc, and from_slab_slice, which does the same on a clone. *)
IntoStr ==
  /\ kind = "bytes"
  /\ Derive("text", "str", view, view, view \in Utf8, {})

(* Mutant of RerootGrants: the last byte of the page is left out. *)
RerootGrantsShort(start, len) == ArcGrants(start, len) /\ start + len < SZ

RerootGrants(start, len) == ArcGrants(start, len)

(* reroot_with_key on what is borrowed from the view at hand: the range    *)
(* that it has in the page, by the addresses.                              *)
Borrow(offset, len) == [start |-> view.start + offset, len |-> len]

(* The two exits of reroot_with_key before it makes up an arc. *)
NoArc(exit) == call' = "reroot" /\ outcome' = exit /\ UNCHANGED <<view, kind, parent>>

RerootAs(k, offset, len, granted) ==
  LET start == view.start + offset
  IN  /\ offset + len <= view.len
      /\ \/ len = 0 /\ NoArc("empty")
         \/ len > 0 /\ start >= SZ /\ NoArc("outside")
         \/ len > 0 /\ start < SZ /\ Derive("reroot", k, view, Borrow(offset, len), granted, {start + len})

Reroot(offset, len) ==
  RerootAs("bytes", offset, len, RerootGrants(view.start + offset, len))

(* A borrowed &str has been checked, when it was deserialized or before;   *)
(* it is checked again.                                                    *)
RerootStr(offset, len) ==
  /\ Borrow(offset, len) \in Utf8
  /\ RerootAs("str", offset, len, /\ RerootGrants(view.start + offset, len)
                                  /\ Borrow(offset, len) \in Utf8)

Next == /\ outcome # "panic"
        /\ \/ IntoStr
           \/ \E n, len \in Usize :
                \/ ArcSubSlice(n, len) \/ SliceSubSlice(n, len)
                \/ Reroot(n, len) \/ RerootStr(n, len)

Spec == Init /\ [][Next]_vars

-----------------------------------------------------------------------------
Within(r, s) == s.start <= r.start /\ r.start + r.len <= s.start + s.len

(* A view is a range of the page, so that its Deref, which slices twice    *)
(* (slab_slice_arc.rs:69), never panics.                                   *)
InPage == Within(view, Page)

(* A view never shows a byte that the view it was derived from does not:   *)
(* a slice that is narrowed and handed on stays narrow.                    *)
Narrowing == Within(view, parent)

(* A re-root of what was borrowed from a view, bytes or a string, fails    *)
(* only where it is empty, before an arc is made up.  It is neither taken  *)
(* for foreign (managed_arc_slab.rs:128) nor refused later (139-141,       *)
(* 284-288), where the arc that was made up without being counted would be *)
(* dropped, and with it somebody else's unit.                              *)
RerootGranted == call = "reroot" => outcome \in {"ok", "empty"}

(* The bytes of a string were checked when it was made, so that its Deref, *)
(* which does not look at them (slab_slice_arc.rs:192-195), is sound.      *)
StrIsText == kind = "str" => view \in Utf8
=============================================================================
