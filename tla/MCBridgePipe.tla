---------------------------- MODULE MCBridgePipe ----------------------------
(***************************************************************************)
(* BridgePipe for TLC: end a writes up to two bytes, end b empty Writes.   *)
(***************************************************************************)
EXTENDS BridgePipe

MCMaxBytes == [e \in End |-> IF e = "a" THEN 2 ELSE 0]
=============================================================================
