-------------------------- MODULE HpsMode0Fetcher --------------------------
(***************************************************************************)
(* gen2/mode0_input.py on the RamMux: the fetcher of the input layer,      *)
(* which reads 4x4 windows of single bytes two apart, two windows at a     *)
(* time, whose rows lie across the words and blocks of the RAMs.  One      *)
(* action is one cycle.  A byte of data is the address it is read from.    *)
(***************************************************************************)
EXTENDS HpsRamMux, Sequences

CONSTANT None  \* no data

INPUT_WIDTH == 322
NUM_ADDRESSES_X == 80
Repeats == 8         \* next_count has three bits

VARIABLES
  config,    \* the configuration registers
  pixel_ag,  \* EvenPixelAddressGenerator
  value_ag,  \* ValueAddressGenerator
  reader,    \* ValueReader's registers
  at         \* the pass now, the pass and count of this cycle's data, and of the previous

NoWord == [i \in 1 .. 4 |-> None]

InitFetcher ==
  /\ pixel_ag = [addr |-> 0, pixel_x |-> 0, row_begin |-> 0, next_count |-> 0]
  /\ value_ag = [running |-> FALSE, count |-> 0, next_row |-> 0]
  /\ reader = [byte_sel |-> 0, odd |-> NoWord]
  /\ at = [pass |-> 0, even |-> None, odd |-> None]

-----------------------------------------------------------------------------

Address(a) == a % 2^18
last == value_ag.running /\ value_ag.count = 3
addr_out == IF value_ag.count = 0 THEN pixel_ag.addr ELSE value_ag.next_row

\* Mutant: a row of pixels ends one address late.
last_x_late == pixel_ag.pixel_x = NUM_ADDRESSES_X

last_x == pixel_ag.pixel_x + 1 = NUM_ADDRESSES_X

\* Each address is produced for eight passes.
NextPixel(start) ==
  pixel_ag' =
    IF start THEN [addr |-> config.base_addr, pixel_x |-> 0, next_count |-> 0,
                   row_begin |-> Address(config.base_addr + 2 * INPUT_WIDTH)]
    ELSE IF ~last THEN pixel_ag
    ELSE IF pixel_ag.next_count < Repeats - 1 THEN [pixel_ag EXCEPT !.next_count = @ + 1]
    ELSE IF last_x
    THEN [addr |-> pixel_ag.row_begin, pixel_x |-> 0, next_count |-> 0,
          row_begin |-> Address(pixel_ag.row_begin + 2 * INPUT_WIDTH)]
    ELSE [pixel_ag EXCEPT !.addr = Address(@ + 4), !.pixel_x = @ + 1, !.next_count = 0]

NextValue(start, reset) ==
  value_ag' =
    [running |-> (value_ag.running \/ start) /\ ~reset,
     count |-> IF start \/ reset THEN 0
               ELSE IF value_ag.running THEN (value_ag.count + 1) % 4 ELSE value_ag.count,
     next_row |-> Address(addr_out + INPUT_WIDTH)]

-----------------------------------------------------------------------------
(* ValueReader: the word that holds the address and the next one, read     *)
(* through ports 0 and 3 of the RamMux; then three of their half words.    *)

phase == (addr_out \div 4) % 4
block == addr_out \div 16

second_block == IF phase = 3 THEN (block + 1) % 2^14 ELSE block

PortAddress(p) == CASE p = 0 -> block [] p = 3 -> second_block [] OTHER -> 0

ports == [addr |-> [p \in Ports |-> PortAddress(p)], phase |-> phase]

Word(p) ==
  LET k == Partner(ram.phase, p)
  IN  [i \in 1 .. 4 |-> 16 * ram.addr[k] + 4 * k + i - 1]

Mixed == SubSeq(Word(0), 3, 4) \o SubSeq(Word(3), 1, 2)

\* data_out: the even pixel's word is on the wires, the odd one's a cycle later.
data_out_0 == IF reader.byte_sel = 0 THEN Word(0) ELSE Mixed
data_out_1 == reader.odd

ReadValues ==
  reader' = [byte_sel |-> (addr_out \div 2) % 2,
             odd |-> IF reader.byte_sel = 0 THEN Mixed ELSE Word(3)]

Clocked(start, reset) ==
  /\ NextPixel(start) /\ NextValue(start, reset) /\ ReadValues
  /\ at' = [pass |-> IF start THEN 0 ELSE IF last THEN at.pass + 1 ELSE at.pass,
            even |-> IF value_ag.running THEN [pass |-> at.pass, count |-> value_ag.count]
                     ELSE None,
            odd |-> at.even]

-----------------------------------------------------------------------------
(* Properties                                                              *)

\* The registers hold values of their widths.
TypeOK ==
  /\ pixel_ag.addr \in 0 .. 2^18 - 1 /\ pixel_ag.row_begin \in 0 .. 2^18 - 1
  /\ pixel_ag.pixel_x \in 0 .. NUM_ADDRESSES_X - 1 /\ pixel_ag.next_count \in 0 .. Repeats - 1
  /\ value_ag.running \in BOOLEAN /\ value_ag.count \in 0 .. 3
  /\ value_ag.next_row \in 0 .. 2^18 - 1
  /\ reader.byte_sel \in 0 .. 1

\* Row `count` of the window of an output pixel: the layer's stride is two, and
\* a row of output has two pixels for each address.  After the last byte of the
\* RAMs comes the first.
WindowRow(pass, count, odd) ==
  LET pair == pass \div Repeats
      x == 2 * (2 * (pair % NUM_ADDRESSES_X) + odd)
      y == 2 * (pair \div NUM_ADDRESSES_X) + count
  IN  [i \in 1 .. 4 |-> Address(config.base_addr + y * INPUT_WIDTH + x + i - 1)]

\* Both streams deliver, pass after pass, the rows of the windows of two
\* neighbouring output pixels, wherever the rows lie in the words and blocks of
\* the RAMs (Mode0InputFetcher, ValueReader, RamMux).
WindowsRight ==
  /\ at.even # None => data_out_0 = WindowRow(at.even.pass, at.even.count, 0)
  /\ at.odd # None => data_out_1 = WindowRow(at.odd.pass, at.odd.count, 1)
=============================================================================
