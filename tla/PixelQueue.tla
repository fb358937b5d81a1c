----------------------------- MODULE PixelQueue -----------------------------
(***************************************************************************)
(* What the input store of proj/mnv2_first promises its writer (the CPU)   *)
(* and its reader (the sequencer), with no buffer, bank or prefetch in it: *)
(* a queue of at most two pixels.  The writer supplies a pixel word by     *)
(* word; the reader takes the words of the oldest pixel in order, over and *)
(* over, until it releases that pixel.                                     *)
(***************************************************************************)
EXTENDS Naturals, Sequences

CONSTANTS
  Words,   \* the values of a 32 bit word
  Depths,  \* the numbers of words a pixel may have
  NoWord   \* nothing was written, or nothing was taken

VARIABLES
  depth,   \* words per pixel
  partial, \* the words of the pixel being written
  pixels,  \* the complete pixels, the oldest first
  pos,     \* words taken of pixels[1] in the current pass over it
  taken    \* the word the reader took in the last cycle

vars == <<depth, partial, pixels, pos, taken>>

Empty == partial = <<>> /\ pixels = <<>> /\ pos = 0 /\ taken = NoWord

Init == depth \in Depths /\ Empty

Restart ==
  /\ depth' \in Depths
  /\ partial' = <<>> /\ pixels' = <<>> /\ pos' = 0 /\ taken' = NoWord

Write(word, kept) ==
  LET new == IF word = NoWord THEN partial ELSE Append(partial, word)
  IN  IF Len(new) = depth
      THEN partial' = <<>> /\ pixels' = Append(kept, new)
      ELSE partial' = new /\ pixels' = kept

\* One cycle: a word may be written, a word taken and the oldest pixel released.
Cycle(word, take, release) ==
  /\ word # NoWord => Len(pixels) < 2
  /\ take \/ release => pixels # <<>>
  /\ Write(word, IF release THEN Tail(pixels) ELSE pixels)
  /\ taken' = IF take THEN pixels[1][pos + 1] ELSE NoWord
  /\ pos' = CASE release -> 0
              [] take /\ ~release -> (pos + 1) % depth
              [] OTHER -> pos
  /\ UNCHANGED depth

Next ==
  \/ Restart
  \/ \E word \in Words \cup {NoWord}, take, release \in BOOLEAN :
       Cycle(word, take, release)

Spec == Init /\ [][Next]_vars
=============================================================================
