----------------------------- MODULE MCDispatch -----------------------------
(* An instance of Dispatch for TLC: slot 1 is a management port's, slot 2  *)
(* an application's and slot 3 nobody's.  The bus has messages for port 0, *)
(* which go to slot 3, and for the management port.                        *)
EXTENDS Dispatch, TLC

CONSTANTS v1, v2, big

MCOne       == {1}
MCThree     == {3}
MCSlots     == 1 .. 3
MCVals      == {v1, v2, big}
MCBig       == {big}
MCSends     == [i \in MCSlots |-> IF i = 1 THEN {v1} ELSE MCVals]
MCIn        == {[port |-> 0, kind |-> "all"], [port |-> 1, kind |-> "own"],
                [port |-> 1, kind |-> "refused"]}
MCReceiving == {"Receiving"}
=============================================================================
