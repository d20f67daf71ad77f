---------------------------- MODULE SlabPromise ----------------------------
(***************************************************************************)
(* What the byte slab promises its users (byte-slab/src/lib.rs, "Main      *)
(* components"), with no page, reference count or free list in it.  A      *)
(* SlabBox is memory only its owner reads and writes; a SlabArc (and every *)
(* view of one) is memory nobody changes for as long as the handle lives.  *)
(* ByteSlab implements this: see Promise there.                            *)
(***************************************************************************)
CONSTANTS Handles, \* the variables of the program that may hold a handle
          Values,  \* the contents of a page
          NoValue  \* what a variable with no handle reads, none of Values

VARIABLES held,    \* what each variable of the program holds
          seen     \* what a handle reads through Deref

vars == <<held, seen>>

TypeOK == /\ held \in [Handles -> {"nothing", "box", "arc"}]
          /\ seen \in [Handles -> Values \cup {NoValue}]

Init == /\ held = [h \in Handles |-> "nothing"]
        /\ seen = [h \in Handles |-> NoValue]

(* A box is handed out with whatever the memory held before. *)
Alloc(h) == /\ held[h] = "nothing"
            /\ held' = [held EXCEPT ![h] = "box"]
            /\ \E v \in Values : seen' = [seen EXCEPT ![h] = v]

(* Writing through a box changes what that box reads, and nothing else. *)
Write(h) == /\ held[h] = "box"
            /\ \E v \in Values : seen' = [seen EXCEPT ![h] = v]
            /\ UNCHANGED held

Freeze(h) == /\ held[h] = "box"
             /\ held' = [held EXCEPT ![h] = "arc"]
             /\ UNCHANGED seen

(* A copy of a shared handle reads what the original reads. *)
Share(h, k) == /\ held[h] = "arc"
               /\ held[k] = "nothing"
               /\ held' = [held EXCEPT ![k] = "arc"]
               /\ seen' = [seen EXCEPT ![k] = seen[h]]

Release(h) == /\ held[h] # "nothing"
              /\ held' = [held EXCEPT ![h] = "nothing"]
              /\ seen' = [seen EXCEPT ![h] = NoValue]

Next == \E h \in Handles :
          \/ Alloc(h)
          \/ Write(h)
          \/ Freeze(h)
          \/ \E k \in Handles : Share(h, k)
          \/ Release(h)

Spec == Init /\ [][Next]_vars
=============================================================================
