------------------------------ MODULE GenFifo ------------------------------
(***************************************************************************)
(* The rotating word buffer of the gen_* accelerators (cfu_input_buffer.v, *)
(* cfu_filter_buffer.v): a memory, two pointers, a count, and the register *)
(* read_data, which is loaded from the read pointer's place in every cycle *)
(* and so shows a pointer that moved one cycle late.                       *)
(*                                                                         *)
(* A buffer is a value and FifoEdge what one clock edge makes of it.  The code *)
(* has every buffer twice, for the two words of a command, with the same   *)
(* strobes: one buffer of word pairs stands for both.                      *)
(***************************************************************************)
EXTENDS Naturals, Sequences

CONSTANTS
  DEPTH,  \* words a buffer holds; the pointers have log2(DEPTH) bits
  Words   \* the word pairs, that of the cleared read_data among them

ASSUME DepthAssumption == DEPTH \in Nat \ {0}

Places == 0 .. DEPTH - 1

Buffers ==
  [mem : [Places -> Words], rd_ptr : Places, wr_ptr : Places,
   cnt : 0 .. DEPTH, read_data : Words]

Cleared(b, zero) ==
  [b EXCEPT !.rd_ptr = 0, !.wr_ptr = 0, !.cnt = 0, !.read_data = zero]

\* Mutant: the pointer has a bit too many.
Succ_unwrapped(p) == p + 1

Succ(p) == IF p = DEPTH - 1 THEN 0 ELSE p + 1

\* A full buffer takes no word, not even in a cycle in which it gives one.
do_write(b, write_en) == write_en /\ b.cnt # DEPTH

do_read(b, read_en) == read_en /\ b.cnt # 0

FifoEdge(b, write_en, write_data, read_en) ==
  LET w == do_write(b, write_en)
      r == do_read(b, read_en)
  IN  [mem       |-> IF w THEN [b.mem EXCEPT ![b.wr_ptr] = write_data] ELSE b.mem,
       wr_ptr    |-> IF w THEN Succ(b.wr_ptr) ELSE b.wr_ptr,
       rd_ptr    |-> IF r THEN Succ(b.rd_ptr) ELSE b.rd_ptr,
       read_data |-> b.mem[b.rd_ptr],
       cnt       |-> IF w = r THEN b.cnt ELSE IF w THEN b.cnt + 1 ELSE b.cnt - 1]

-----------------------------------------------------------------------------
(* What a buffer holds, oldest word first.                                 *)

Place(b, i) ==
  IF b.rd_ptr + i - 1 < DEPTH THEN b.rd_ptr + i - 1 ELSE b.rd_ptr + i - 1 - DEPTH

Contents(b) == [i \in 1 .. b.cnt |-> b.mem[Place(b, i)]]

\* The pointers are as far apart as the count says, around the memory's end.
Consistent(b) ==
  b.wr_ptr = IF b.rd_ptr + b.cnt < DEPTH THEN b.rd_ptr + b.cnt ELSE b.rd_ptr + b.cnt - DEPTH
=============================================================================
