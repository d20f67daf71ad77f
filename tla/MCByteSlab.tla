----------------------------- MODULE MCByteSlab -----------------------------
(* Instances of ByteSlab for TLC.                                          *)
EXTENDS ByteSlab, TLC

CONSTANTS h1, h2, h3, h4, v1, v2

MCHandles4 == {h1, h2, h3, h4}
MCValues   == {v1, v2}
=============================================================================
