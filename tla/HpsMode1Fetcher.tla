-------------------------- MODULE HpsMode1Fetcher --------------------------
(***************************************************************************)
(* gen2/mode1_input.py on the RamMux: the addresses at which four streams  *)
(* read a 4x4 window of the input each, out of four RAMs that give one     *)
(* word per cycle.  A word is the RAM and the address it is read from.     *)
(***************************************************************************)
EXTENDS HpsRamMux

CONSTANT None  \* no word is being read

VARIABLES
  config,     \* the configuration registers
  control,    \* running and cycle_counter
  pixel_ag,   \* PixelAddressGenerator
  repeater,   \* PixelAddressRepeater
  value_ags,  \* the ValueAddressGenerators
  at          \* the pass now, and the pass and count of the words being read

Streams == Ports

InitFetcher ==
  /\ control = [running |-> FALSE, cycle_counter |-> 0]
  /\ pixel_ag = [addr |-> 0, pixel_x |-> 0, row_begin |-> 0]
  /\ repeater = [group |-> 0, repeat_count |-> 0, mem |-> [i \in Streams |-> 0]]
  /\ value_ags = [i \in Streams |-> [addr |-> 0, x_count |-> 0, next_row |-> 0]]
  /\ at = [pass |-> 0, now |-> None]

-----------------------------------------------------------------------------
(* The configuration as the fetcher sees it, in the widths of its inputs.  *)

depth == (config.input_channel_depth \div 16) % 2^3
num_repeats == (config.output_channel_depth \div 2) % 2^7
base_addr == config.base_addr \div 16

Address(a) == a % 2^14
max_cycle_counter == (64 * depth - 1) % 2^9
x_size == (16 * depth) % 2^7

-----------------------------------------------------------------------------

start_gen(i) == control.running /\ control.cycle_counter = i
next_pixel == \E i \in Streams : start_gen(i)
gen_next == next_pixel /\ repeater.repeat_count = 0

\* On the first repeat the addresses of the generator pass through.
repeater_addr ==
  IF repeater.repeat_count = 0 THEN pixel_ag.addr ELSE repeater.mem[repeater.group]

NextPixel(start) ==
  pixel_ag' =
    IF start THEN [addr |-> base_addr, pixel_x |-> 0,
                   row_begin |-> Address(base_addr + config.pixel_advance_y)]
    ELSE IF ~gen_next THEN pixel_ag
    ELSE IF pixel_ag.pixel_x + 1 = config.num_pixels_x
         THEN [addr |-> pixel_ag.row_begin, pixel_x |-> 0,
               row_begin |-> Address(pixel_ag.row_begin + config.pixel_advance_y)]
         ELSE [pixel_ag EXCEPT !.addr = Address(@ + config.pixel_advance_x),
                             !.pixel_x = (@ + 1) % 2^9]

group_ends == repeater.group = 3

next_repeat ==
  IF repeater.repeat_count + 1 = num_repeats THEN 0 ELSE (repeater.repeat_count + 1) % 2^7

\* Mutant: a start does not begin with a new block of pixels.
Repeat_unrestarted(start) ==
  repeater' =
    [group |-> IF next_pixel THEN (repeater.group + 1) % 4 ELSE repeater.group,
     repeat_count |-> IF next_pixel /\ group_ends THEN next_repeat ELSE repeater.repeat_count,
     mem |-> IF gen_next THEN [repeater.mem EXCEPT ![repeater.group] = pixel_ag.addr]
             ELSE repeater.mem]

Repeat(start) ==
  repeater' =
    [group |-> IF start THEN 0 ELSE IF next_pixel THEN (repeater.group + 1) % 4
               ELSE repeater.group,
     repeat_count |-> IF start THEN 0
                      ELSE IF next_pixel /\ group_ends THEN next_repeat
                      ELSE repeater.repeat_count,
     mem |-> IF gen_next THEN [repeater.mem EXCEPT ![repeater.group] = pixel_ag.addr]
             ELSE repeater.mem]

addr_out(i) == IF start_gen(i) THEN repeater_addr ELSE value_ags[i].addr

\* ValueAddressGenerator: four words to a block, then the next block; a row of
\* the window, then the row below.
NextValue(i) ==
  LET v == value_ags[i]
  IN  IF start_gen(i)
      THEN [addr |-> repeater_addr, x_count |-> 1,
            next_row |-> Address(repeater_addr + config.pixel_advance_y)]
      ELSE IF v.x_count = x_size - 1
      THEN [addr |-> v.next_row, x_count |-> 0,
            next_row |-> Address(v.next_row + config.pixel_advance_y)]
      ELSE [v EXCEPT !.x_count = (@ + 1) % 2^7,
                     !.addr = IF v.x_count % 4 = 3 THEN Address(@ + 1) ELSE @]

ports ==
  [addr |-> [i \in Streams |-> addr_out(i)], phase |-> control.cycle_counter % 4]

Clocked(start, reset) ==
  /\ NextPixel(start) /\ Repeat(start)
  /\ value_ags' = [i \in Streams |-> NextValue(i)]
  /\ LET rollover == control.cycle_counter = max_cycle_counter
         counts == control.running /\ ~reset /\ ~start
     IN  /\ control' =
              [running |-> (control.running \/ start) /\ ~reset,
               cycle_counter |-> IF (start /\ ~reset) \/ (counts /\ rollover) THEN 0
                                 ELSE IF counts THEN (control.cycle_counter + 1) % 2^9
                                 ELSE control.cycle_counter]
         /\ at' = [pass |-> IF start THEN 0 ELSE IF counts /\ rollover THEN at.pass + 1 ELSE at.pass,
                   now |-> IF control.running
                           THEN [pass |-> at.pass, count |-> control.cycle_counter] ELSE None]

-----------------------------------------------------------------------------
(* Properties                                                              *)

\* The registers hold values of their widths.
TypeOK ==
  /\ control.running \in BOOLEAN /\ control.cycle_counter \in 0 .. 2^9 - 1
  /\ pixel_ag.addr \in 0 .. 2^14 - 1 /\ pixel_ag.row_begin \in 0 .. 2^14 - 1
  /\ pixel_ag.pixel_x \in 0 .. 2^9 - 1
  /\ repeater.group \in Streams /\ repeater.repeat_count \in 0 .. 2^7 - 1
  /\ \A i \in Streams :
       /\ value_ags[i].addr \in 0 .. 2^14 - 1 /\ value_ags[i].next_row \in 0 .. 2^14 - 1
       /\ value_ags[i].x_count \in 0 .. 2^7 - 1 /\ repeater.mem[i] \in 0 .. 2^14 - 1

\* Where word w of the window of an output pixel lies in an input of this width:
\* rows of the window are rows of the image, and a row of a window is contiguous.
\* The windows of the pixels that fill the last block of four up may lie behind
\* the image, and even behind the end of the RAMs, where the addresses wrap around.
Window(width, pixel, w) ==
  LET width_out == width - 3
      x == pixel % width_out
      y == pixel \div width_out + w \div x_size
      word == w % x_size
  IN  <<word % 4, Address(base_addr + (y * width + x) * depth + word \div 4)>>

\* Every stream reads, pass after pass, the words of its own output pixel's window
\* in order: stream i the i-th pixel of a block of four, a cycle after
\* stream i - 1, each block as often as there are pairs of output channels
\* (Mode1InputFetcher).
WindowsRight(width) ==
  at.now # None =>
    \A i \in Streams :
      LET length == max_cycle_counter + 1
          n == at.now.pass * length + at.now.count - i
          pixel == 4 * ((n \div length) \div num_repeats) + i
          k == Partner(ram.phase, i)
      IN  n >= 0 => <<k, ram.addr[k]>> = Window(width, pixel, n % length)
=============================================================================
