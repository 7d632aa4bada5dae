-------------------------- MODULE MCDisplayWriters --------------------------
(* Constants of the runs of DisplayWriters. *)
EXTENDS DisplayWriters

MCNames     == {<<"A", "C">>}
MCOtherPins == {<<"lab3_1", 2>>, <<"lab3_2", 5>>}
=============================================================================
