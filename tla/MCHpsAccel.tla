---------------------------- MODULE MCHpsAccel ----------------------------
(* An input layer of three rows (so that the last turn is short) followed by a
   layer of six pixels in two tranches, the second one smaller. *)
EXTENDS HpsAccel

Input0 == [mode |-> 0, height |-> 3, width |-> 4, channels |-> 8]
Layer1 == [mode |-> 1, height |-> 2, width |-> 3, channels |-> 12, tranche |-> 8, period |-> 8]

MCLayers == <<Input0, Layer1>>
=============================================================================
