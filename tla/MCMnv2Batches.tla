--------------------------- MODULE MCMnv2Batches ---------------------------
(***************************************************************************)
(* The depths of MobileNet V2's 1x1 layers and the boundaries of the three  *)
(* limits.                                                                  *)
(***************************************************************************)
EXTENDS Mnv2Batches

MCInputDepths == {8, 16, 24, 48, 56, 96, 112, 144, 192, 240, 336, 576, 960, 1024, 2040, 2048}
MCOutputDepths == {8, 16, 24, 48, 96, 112, 160, 336, 504, 512, 520, 1280}
=============================================================================
