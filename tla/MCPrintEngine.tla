---------------------------- MODULE MCPrintEngine ----------------------------
(***************************************************************************)
(* PrintEngine for TLC: the code's constants scaled down, in their order   *)
(* (8 < 16 <= 30 < 105 < 400, a label longer than the distance).           *)
(***************************************************************************)
EXTENDS PrintEngine

MCLengths == {5}
=============================================================================
