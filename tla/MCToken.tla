------------------------------ MODULE MCToken ------------------------------
(* Instances of Token for TLC.                                             *)
EXTENDS Token, TLC

CONSTANTS s1, s2

MCSub1   == {s1}
MCSubs2  == {s1, s2}
MCAddrs2 == 1 .. 2
=============================================================================
