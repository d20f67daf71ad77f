----------------------------- MODULE MCSlabView -----------------------------
(* Instance of SlabView for TLC: five bytes, a character of one byte and   *)
(* one of two, a byte that is none, and another character.                 *)
EXTENDS SlabView

MCChars == {<<0, 1>>, <<1, 3>>, <<0, 3>>, <<4, 5>>}

MCUtf8 == {r \in Ranges : r.len = 0 \/ <<r.start, r.start + r.len>> \in MCChars}
=============================================================================
