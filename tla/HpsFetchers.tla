---------------------------- MODULE HpsFetchers ----------------------------
(***************************************************************************)
(* Both fetchers as gen2/accelerator.py wires them: they have the start,   *)
(* the stop and the configuration registers in common, both run whatever   *)
(* the mode, and the mode only says whose addresses the RamMux takes.  The *)
(* fetcher that is not used runs on registers meant for the other one, and *)
(* is used for the next layer in the state that leaves it in.              *)
(***************************************************************************)
EXTENDS HpsRamMux

CONSTANTS
  Layers,   \* the layers: mode and base address in bytes; for mode 0 the rows of a
            \* start; for mode 1 the width of the input, the rows of the output, the
            \* depth in blocks of 16 bytes and the channels of the output of a start
  Slack,    \* bound: cycles after the last value that is needed until the stop
  MaxIdle,  \* bound: cycles between a stop and the next start
  None      \* no data, no layer

\* The filter stores have room for the filters of four channels of up to four blocks,
\* and of at most sixteen channels at a time (CanAccelerateConv4x4).
ASSUME LayersAssumption ==
  \A l \in Layers :
    /\ l.mode \in {0, 1} /\ l.base \in 0 .. 2^18 - 1 /\ l.rows \in Nat \ {0}
    /\ l.mode = 0 => l.base % 2 = 0
    /\ l.mode = 1 => /\ l.base % 16 = 0 /\ l.depth \in 1 .. 4
                     /\ l.width \in Nat /\ l.width >= 4
                     /\ l.channels \in 1 .. 16 /\ l.channels % 4 = 0

ASSUME BoundsAssumption == Slack \in Nat /\ MaxIdle \in Nat /\ MaxIdle > 2

VARIABLES
  layer,      \* the layer the registers were written for last
  config,     \* the configuration registers
  pixel_ag0, value_ag, reader, at0,             \* Mode0InputFetcher
  control, pixel_ag1, repeater, value_ags, at1, \* Mode1InputFetcher
  late,       \* cycles since the last value that is needed
  idle        \* cycles since the stop

vars == <<layer, config, ram, pixel_ag0, value_ag, reader, at0,
          control, pixel_ag1, repeater, value_ags, at1, late, idle>>

F0 == INSTANCE HpsMode0Fetcher WITH pixel_ag <- pixel_ag0, at <- at0
F1 == INSTANCE HpsMode1Fetcher WITH pixel_ag <- pixel_ag1, at <- at1

Init ==
  /\ layer = None
  /\ config = [mode |-> 0, base_addr |-> 0, num_pixels_x |-> 0, pixel_advance_x |-> 0,
               pixel_advance_y |-> 0, input_channel_depth |-> 0, output_channel_depth |-> 0]
  /\ InitMux /\ F0!InitFetcher /\ F1!InitFetcher
  /\ late = 0 /\ idle = 0

-----------------------------------------------------------------------------

routed_ports == IF config.mode = 1 THEN F1!ports ELSE F0!ports

Clocked(start, reset) ==
  /\ F0!Clocked(start, reset)
  /\ F1!Clocked(start, reset)
  /\ Multiplex(routed_ports)

running == control.running

\* What the driver writes, in the widths of the registers.  The registers that only
\* mode 1 has keep what they hold when a layer of mode 0 is computed.
Registers(l) ==
  IF l.mode = 0
  THEN [config EXCEPT !.mode = 0, !.base_addr = l.base, !.input_channel_depth = 1,
                      !.output_channel_depth = 16]
  ELSE [mode |-> 1, base_addr |-> l.base,
        num_pixels_x |-> (l.width - 3) % 2^9,
        pixel_advance_x |-> l.depth % 2^4,
        pixel_advance_y |-> (l.depth * l.width) % 2^8,
        input_channel_depth |-> 16 * l.depth,
        output_channel_depth |-> l.channels]

\* The passes in which values are read that the accelerator needs.
Passes ==
  IF layer.mode = 0 THEN layer.rows * F0!NUM_ADDRESSES_X * F0!Repeats
  ELSE (layer.channels \div 2) * (((layer.width - 3) * layer.rows + 3) \div 4)

pass == IF layer.mode = 0 THEN at0.pass ELSE at1.pass

needed == pass < Passes

-----------------------------------------------------------------------------
(* The accelerator stops the fetchers some cycles after the last value it  *)
(* needs.  The driver gets the last words of output before it writes the   *)
(* registers and starts again, which takes it longer than two cycles.      *)

Run ==
  /\ running /\ (needed \/ late < Slack) /\ Clocked(FALSE, FALSE)
  /\ late' = IF needed THEN 0 ELSE late + 1
  /\ UNCHANGED <<layer, config, idle>>

Stop ==
  /\ running /\ ~needed /\ Clocked(FALSE, TRUE)
  /\ late' = 0 /\ idle' = 0
  /\ UNCHANGED <<layer, config>>

Idle ==
  /\ ~running /\ idle < MaxIdle /\ Clocked(FALSE, FALSE)
  /\ layer = None => idle < MaxIdle - 1
  /\ idle' = idle + 1
  /\ UNCHANGED <<layer, config, late>>

Configure ==
  /\ ~running /\ idle \in 2 .. MaxIdle - 1 /\ Clocked(FALSE, FALSE)
  /\ \E l \in Layers : layer' = l /\ config' = Registers(l)
  /\ idle' = idle + 1
  /\ UNCHANGED late

Start ==
  /\ ~running /\ idle >= 2 /\ layer # None /\ Clocked(TRUE, FALSE)
  /\ UNCHANGED <<layer, config, late, idle>>

Next == Run \/ Stop \/ Idle \/ Configure \/ Start

Spec == Init /\ [][Next]_vars

-----------------------------------------------------------------------------
(* Properties                                                              *)

\* The registers of both fetchers hold values of their widths, those of the fetcher
\* that is not used included, and both are running or neither is.
TypeOK ==
  /\ layer \in Layers \cup {None}
  /\ F0!TypeOK /\ F1!TypeOK
  /\ value_ag.running = control.running
  /\ \A k \in Ports : ram.addr[k] \in 0 .. 2^14 - 1
  /\ ram.phase \in Ports

\* The data streams of the fetcher in use are the windows of its layer, from the
\* first pass to the last, whichever layer and mode came before, and although the
\* fetcher was running on the other mode's registers then (build_input_fetcher).
WindowsRight ==
  layer # None => IF config.mode = 0 THEN F0!WindowsRight ELSE F1!WindowsRight(layer.width)
=============================================================================
