---------------------------- MODULE MCBootLoader ----------------------------
(* Instances of BootLoader for TLC.  blink1 never marks itself as booted,  *)
(* like src/bin/blink_1.rs; the others do.                                 *)
EXTENDS BootLoader, TLC

MCImages  == {"blink1", "blink2", "update"}
MCLen     == ("blink1" :> 1) @@ ("blink2" :> 2) @@ ("update" :> 2)
MCDemo    == (2 :> "blink1") @@ (3 :> "blink2")
MCMarking == {"blink2", "update"}
=============================================================================
