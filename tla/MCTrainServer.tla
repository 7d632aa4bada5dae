--------------------------- MODULE MCTrainServer ---------------------------
(* Constants of the run of TrainServer: numbers and model values of trains.cfg. *)
EXTENDS TrainServer
=============================================================================
