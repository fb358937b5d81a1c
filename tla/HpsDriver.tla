----------------------------- MODULE HpsDriver -----------------------------
(***************************************************************************)
(* The instructions that proj/hps_accel's driver (conv_accel_gen_2.cc)     *)
(* issues for a sequence of layers: what HpsAccel lets the CPU execute.    *)
(* Each turn of a driver's outer loop is a sequence of instructions, and   *)
(* the CPU is at a step of a turn of a layer.  Arguments that travel       *)
(* together in several register writes are one "config" instruction.       *)
(***************************************************************************)
EXTENDS Naturals, Sequences

Config(layer, base_pixel, values, channels, period) ==
  [op |-> "config", mode |-> layer.mode, base |-> base_pixel, values |-> values,
   channels |-> channels, period |-> period]

Reset == [op |-> "reset"]
Start == [op |-> "start"]

\* LoadPostProcessParameters and LoadFilterData for a tranche of channels.
Load(first, channels) ==
  [i \in 1 .. channels |-> [op |-> "param", channel |-> first + i - 1]]
    \o <<[op |-> "filter", channel |-> first]>>

Get(pixel, channel, stored) ==
  [op |-> "get", pixel |-> pixel, channel |-> channel, stored |-> stored]

\* The collecting loops: `group` pixels at a time, and for each of their words
\* of four channels one word of every pixel of the group.
Collect(base_pixel, pixels, first, channels, group) ==
  LET words == (channels \div 4) * group
      groups == (pixels + group - 1) \div group
  IN  [k \in 1 .. words * groups |->
         LET pixel == group * ((k - 1) \div words) + ((k - 1) % group)
             word  == ((k - 1) % words) \div group
         IN  Get(base_pixel + pixel, first + 4 * word, pixel < pixels)]

-----------------------------------------------------------------------------

\* Mutant: the driver does not stop in the middle of a layer.
max_rows_unlimited == 100

max_rows == 2

\* What ConvPerChannel4x4Mode0 does before its row loop.
Setup(layer) ==
  <<Config(layer, 0, 0, layer.channels, 4), Reset>> \o Load(0, layer.channels)

\* One turn of the row loop of ConvPerChannel4x4Mode0.
Rows(layer, row) ==
  LET num_rows == IF layer.height - row < max_rows THEN layer.height - row ELSE max_rows
      pixels   == num_rows * layer.width
      base     == row * layer.width
  IN  <<Config(layer, base, pixels * layer.channels, layer.channels, 4), Start>>
        \o Collect(base, pixels, 0, layer.channels, 2) \o <<Reset>>

\* Mutant: the number of values is not rounded up.
RoundedUp_exact(pixels) == pixels

\* Whole groups of four pixels.
RoundedUp(pixels) == ((pixels + 3) \div 4) * 4

\* One turn of the tranche loop of ConvPerChannel4x4Mode1.
Tranche(layer, channel) ==
  LET channels == IF layer.channels - channel < layer.tranche
                  THEN layer.channels - channel ELSE layer.tranche
      pixels == layer.height * layer.width
  IN  <<Config(layer, 0, RoundedUp(pixels) * channels, channels, layer.period),
        Reset>>
        \o Load(channel, channels) \o <<Start>>
        \o Collect(0, pixels, channel, channels, 4)

Mode0(layer, turn) ==
  IF turn = 1 THEN Setup(layer) ELSE Rows(layer, (turn - 2) * max_rows)

Mode1(layer, turn) == Tranche(layer, (turn - 1) * layer.tranche)

Turns(layer) ==
  IF layer.mode = 0 THEN 1 + (layer.height + max_rows - 1) \div max_rows
  ELSE (layer.channels + layer.tranche - 1) \div layer.tranche

-----------------------------------------------------------------------------
(* ConvPerChannel4x4 for each layer in turn.                               *)

Instructions(layer, turn) ==
  IF layer.mode = 0 THEN Mode0(layer, turn) ELSE Mode1(layer, turn)

FirstStep(i) == [layer |-> i, turn |-> 1, step |-> 1]

NextStep(layers, at) ==
  LET layer == layers[at.layer]
  IN  IF at.step < Len(Instructions(layer, at.turn)) THEN [at EXCEPT !.step = @ + 1]
      ELSE IF at.turn < Turns(layer) THEN [at EXCEPT !.turn = @ + 1, !.step = 1]
      ELSE FirstStep(at.layer + 1)
=============================================================================
