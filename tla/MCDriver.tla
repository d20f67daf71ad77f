------------------------------ MODULE MCDriver ------------------------------
(* Instances of Driver for TLC: one port, of the bus management, and one   *)
(* message for it on the bus.                                              *)
EXTENDS Driver, TLC

CONSTANT v1

MCNone      == {}
MCSlots     == {1}
MCVals      == {v1}
MCSends     == [i \in MCSlots |-> MCVals]
MCIn        == [port : {1}, kind : {"all", "refused"}]
MCFrames    == [port : {1}, kind : {"all"}]
MCSending   == {"Sending"}
MCBoth      == {"Sending", "Receiving"}
=============================================================================
