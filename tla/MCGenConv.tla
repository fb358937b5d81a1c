----------------------------- MODULE MCGenConv -----------------------------
(***************************************************************************)
(* Layers of up to five channels and three words on two banks, in groups   *)
(* of two banks' worth of channels or in one group: a bank serves one or   *)
(* two channels, unevenly in a last group, and three without groups.       *)
(* Buffers of eight words wrap around several times in a layer.  The       *)
(* second layer of a program finds what the first one left behind.         *)
(***************************************************************************)
EXTENDS GenConv

MCShapes ==
  {[channels |-> c, words |-> w, group |-> 4] : c \in {1, 2, 3, 5}, w \in 1 .. 3} \cup
  {[channels |-> 5, words |-> 2, group |-> 5]}

MCPrograms ==
  {<<s, [channels |-> 2, words |-> 1, group |-> 4]>> : s \in MCShapes}

MCParams == {Zero} \cup 1 .. 5

MCWords ==
  {Zero, Unwritten} \cup
  {InputWord(l, p, k) : l \in 1 .. 2, p \in 1 .. PIXELS, k \in 1 .. 3} \cup
  {FilterWord(l, c, k) : l \in 1 .. 2, c \in 1 .. 5, k \in 1 .. 3}
=============================================================================
