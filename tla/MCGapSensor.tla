------------------------------ MODULE MCGapSensor ------------------------------
(***************************************************************************)
(* GapSensor for TLC, with the code's numbers: labels shorter than the way *)
(* from the sensor to the head (two lengths, one with a dark spot) and     *)
(* longer ones, gaps of 2 and 2.5 mm.                                      *)
(***************************************************************************)
EXTENDS GapSensor

Label(l, g, spot, late, often) ==
  [len |-> l, gap |-> g, start |-> 5, spot |-> spot, stops |-> often, late |-> late]

MCPapers == {Label(50, 20, 0, 1, 0), Label(70, 16, 0, 1, 1), Label(96, 20, 50, 1, 1),
             Label(101, 20, 0, 1, 0), Label(105, 20, 0, 0, 0), Label(150, 20, 90, 1, 1)}

MCDoubtful == 98..104

\* "10*30 = 98<100" (1080)
MCTenMillimetres == {Label(98, 20, 0, 0, 0)}
=============================================================================
