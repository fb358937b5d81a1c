--------------------------- MODULE MCHpsFetchers ---------------------------
(* Two parts of an input layer, one begun in the middle of a block; and for mode 1
   a row shorter than a block of pixels, in an input that ends where the RAMs end,
   rows that end inside a block, a window of several blocks, and the widest row the
   registers can hold; one after the other in any order. *)
EXTENDS HpsFetchers

Shape(width, rows, depth, channels, base) ==
  [mode |-> 1, width |-> width, rows |-> rows, depth |-> depth, channels |-> channels,
   base |-> 16 * base]

Input(rows, base) == [mode |-> 0, rows |-> rows, base |-> base]

MCLayers ==
  {Input(2, 0), Input(1, 1288), Shape(5, 3, 1, 4, 16354), Shape(8, 2, 2, 8, 16), Shape(255, 2, 1, 4, 0)}

MCWide == {Shape(256, 1, 1, 4, 0)}
=============================================================================
