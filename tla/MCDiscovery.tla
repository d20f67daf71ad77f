---------------------------- MODULE MCDiscovery ----------------------------
(* Instances of Discovery for TLC.  The subs are interchangeable in the    *)
(* runs without liveness properties.                                       *)
EXTENDS Discovery, TLC

CONSTANTS s1, s2, s3

MCSubs2 == {s1, s2}
MCSubs3 == {s1, s2, s3}
MCAddrs2 == 1 .. 2
MCAddrs3 == 1 .. 3

SubSymmetry == Permutations(Subs)
=============================================================================
