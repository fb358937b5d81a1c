------------------------------ MODULE GenConv ------------------------------
(***************************************************************************)
(* ConvPerChannel of the gen_* projects (integer_ops/conv.h; for the       *)
(* streamed design FullyConnected of gen_adti8's fully_connected.h) run on *)
(* the accelerator of GenCfu: the loops over groups of output channels,    *)
(* pixels and channels, one command after the other.                       *)
(*                                                                         *)
(* The CPU may take any time between two commands and any time to take a   *)
(* response.  It never needs less than MIN_GAP cycles from one             *)
(* MAC_ON_BUFFER to the next: an iteration of the loop around it has the   *)
(* increment and the branch beside the command itself.                     *)
(***************************************************************************)
EXTENDS GenCfu, FiniteSets

CONSTANTS
  MIN_GAP,    \* cycles between two MAC_ON_BUFFER of a loop, at the least
  Shapes,     \* bound: the layers considered
  Programs,   \* bound: the sequences of layers computed one after the other
  PIXELS,     \* bound: output pixels of a layer
  MaxResets   \* bound: restarts of the system

\* channels: output channels; words: word pairs of a window; group: channels
\* whose filters are in the banks at a time.
ASSUME ShapesAssumption ==
  Shapes \subseteq [channels : Nat \ {0}, words : Nat \ {0}, group : Nat \ {0}]

ASSUME BoundsAssumption ==
  Programs \subseteq Seq(Shapes) \ {<<>>} /\ MIN_GAP \in Nat /\ PIXELS \in Nat \ {0} /\ MaxResets \in Nat

Minimum(a, b) == IF a < b THEN a ELSE b

\* The filter words a bank gets are those of the channels that share it; no
\* buffer is filled to its last place.
Fits(shape) ==
  LET channels == Minimum(shape.channels, shape.group)
      sharing  == (channels + FILTER_BANKS - 1) \div FILTER_BANKS
  IN  sharing * shape.words < DEPTH

VARIABLES
  layers,  \* the layers to compute
  drv,     \* the driver's loop counters: layer, group (its first channel),
           \* ch, pixel, k (word) and pc, the command it is at
  since,   \* cycles since the last MAC_ON_BUFFER, up to MIN_GAP
  stored,  \* the output stored last
  resets   \* restarts so far

vars == <<cfu_vars, layers, drv, since, stored, resets>>

Start == [pc |-> "mac_offset", layer |-> 1, group |-> 1, ch |-> 1, pixel |-> 1, k |-> 1]

Nowhere == [layer |-> 0, pixel |-> 0, ch |-> 0]

Init ==
  /\ InitCfu
  /\ layers \in {p \in Programs : \A l \in DOMAIN p : Fits(p[l])}
  /\ design = "streamed" => \A l \in DOMAIN layers : layers[l].group >= layers[l].channels
  /\ drv = Start
  /\ since = MIN_GAP
  /\ stored = [at |-> Nowhere, value |-> <<>>]
  /\ resets = 0

layer == layers[drv.layer]

group_end == Minimum(drv.group + layer.group - 1, layer.channels)

\* FullyConnected works on one vector.
last_pixel == IF design = "banked" THEN PIXELS ELSE 1

InputWord(l, pixel, k) == <<"input", l, pixel, k>>
FilterWord(l, ch, k) == <<"filter", l, ch, k>>

\* Beside the command, an iteration of the loop has its increment and its branch.
ASSUME GapAssumption == MIN_GAP >= 3

ASSUME DataAssumption ==
  /\ {Zero, Unwritten} \subseteq Words /\ Zero \in Params
  /\ \A p \in Programs : \A l \in DOMAIN p :
       /\ {l} \cup 1 .. p[l].channels \subseteq Params
       /\ \A k \in 1 .. p[l].words :
            /\ \A pixel \in 1 .. PIXELS : InputWord(l, pixel, k) \in Words
            /\ \A ch \in 1 .. p[l].channels : FilterWord(l, ch, k) \in Words

-----------------------------------------------------------------------------
(* The order of the commands.  Issue(pc, Command, next): the driver is at  *)
(* pc, its command is accepted, and `next` is where it goes on.            *)

At(pc) == drv.pc = pc

Issue(pc, Command, next) == At(pc) /\ Command /\ drv' = next

\* The same command for the next word, and `pc` after the last one.
NextWord(pc) ==
  IF drv.k < layer.words THEN [drv EXCEPT !.k = @ + 1] ELSE [drv EXCEPT !.pc = pc, !.k = 1]

Configure ==
  \/ Issue("mac_offset", MacSetOffset(drv.layer), [drv EXCEPT !.pc = "offset"])
  \/ Issue("offset", SetOffset(drv.layer), [drv EXCEPT !.pc = "clamp"])
  \/ Issue("clamp", SetMinAndMax(drv.layer),
           [drv EXCEPT !.pc = IF design = "banked" THEN "clear_filter" ELSE "clear_input"])

LoadFilters ==
  \/ Issue("clear_filter", ClearFilterVals, [drv EXCEPT !.pc = "filter"])
  \/ Issue("filter", SetFilterVals(FilterWord(drv.layer, drv.ch, drv.k)), NextWord("next_set"))
  \/ Issue("next_set", NextFilterSet,
           IF drv.ch < group_end THEN [drv EXCEPT !.pc = "filter", !.ch = @ + 1]
           ELSE [drv EXCEPT !.pc = "clear_input", !.pixel = 1])

\* Mutant: the words of the pixel before are left in the buffer.
LoadInput_uncleared ==
  \/ Issue("clear_input", SetInputVals(InputWord(drv.layer, drv.pixel, 1)),
           [drv EXCEPT !.pc = "input"])
  \/ Issue("input", SetInputVals(InputWord(drv.layer, drv.pixel, drv.k)),
           NextWord(IF design = "banked" THEN "rewind" ELSE "clear_acc"))
  \/ Issue("rewind", RewindFilterSet, [drv EXCEPT !.pc = "clear_acc", !.ch = drv.group])

LoadInput ==
  \/ Issue("clear_input", ClearInputVals, [drv EXCEPT !.pc = "input", !.ch = drv.group])
  \/ Issue("input", SetInputVals(InputWord(drv.layer, drv.pixel, drv.k)),
           NextWord(IF design = "banked" THEN "rewind" ELSE "clear_acc"))
  \/ Issue("rewind", RewindFilterSet, [drv EXCEPT !.pc = "clear_acc"])

Accumulate ==
  \/ Issue("clear_acc", MacClear, [drv EXCEPT !.pc = "mac"])
  \/ /\ since >= MIN_GAP
     /\ \/ Issue("mac", MacOnBuffer, NextWord("bias"))
        \/ Issue("mac", MacOnBufferWith(FilterWord(drv.layer, drv.ch, drv.k)), NextWord("bias"))

Quantize ==
  \/ Issue("bias", SetBias(drv.ch), [drv EXCEPT !.pc = "mul"])
  \/ Issue("mul", SetMulAndShift(drv.ch), [drv EXCEPT !.pc = "get"])
  \/ Issue("get", Get, [drv EXCEPT !.pc = "store"])

AfterStore ==
  IF drv.ch < group_end THEN [drv EXCEPT !.pc = "clear_acc", !.ch = @ + 1]
  ELSE IF drv.pixel < last_pixel THEN [drv EXCEPT !.pc = "clear_input", !.pixel = @ + 1]
  ELSE IF group_end < layer.channels
       THEN [drv EXCEPT !.pc = "clear_filter", !.group = group_end + 1, !.ch = group_end + 1]
  ELSE IF drv.layer < Len(layers) THEN [Start EXCEPT !.layer = drv.layer + 1]
  ELSE [drv EXCEPT !.pc = "done"]

-----------------------------------------------------------------------------
(* Commands and responses together with the driver that issues and awaits  *)
(* them.                                                                   *)

Here == [layer |-> drv.layer, pixel |-> drv.pixel, ch |-> drv.ch]

Aged == IF since < MIN_GAP THEN since + 1 ELSE since

Command ==
  /\ Configure \/ LoadFilters \/ LoadInput \/ Accumulate \/ Quantize
  /\ since' = IF At("mac") THEN 1 ELSE Aged
  /\ UNCHANGED <<layers, stored, resets>>

Store ==
  /\ At("store") /\ TakeResponse
  /\ stored' = [at |-> Here, value |-> rsp.out]
  /\ drv' = AfterStore
  /\ since' = Aged
  /\ UNCHANGED <<layers, resets>>

\* The CPU takes the answers of the other commands without looking at them.
Acknowledge ==
  /\ ~At("store") /\ TakeResponse
  /\ since' = Aged
  /\ UNCHANGED <<layers, drv, stored, resets>>

Wait ==
  /\ NoCommand \/ HoldResponse \/ AwaitQuantizer \/ FinishGet
  /\ since' = Aged
  /\ UNCHANGED <<layers, drv, stored, resets>>

\* A reset of the system restarts the program.
Restart ==
  /\ resets < MaxResets
  /\ Reset
  /\ drv' = Start
  /\ since' = MIN_GAP
  /\ stored' = [at |-> Nowhere, value |-> <<>>]
  /\ resets' = resets + 1
  /\ UNCHANGED layers

Next == Command \/ Store \/ Acknowledge \/ Wait \/ Restart

\* The clock runs, and the CPU neither stops nor refuses responses for ever.
Fairness ==
  /\ WF_vars(Wait) /\ WF_vars(Command) /\ WF_vars(Store) /\ WF_vars(Acknowledge)

Spec == Init /\ [][Next]_vars /\ Fairness

-----------------------------------------------------------------------------
(* Properties                                                              *)

\* The registers hold values of their types and the pointers of every buffer are
\* as far apart as its count (cfu.v, cfu_input_buffer.v, cfu_filter_buffer.v).
TypeOK ==
  /\ inputs \in Buffers /\ Consistent(inputs)
  /\ \A b \in Banks : banks[b] \in Buffers /\ Consistent(banks[b])
  /\ regs.wr_idx \in Banks /\ regs.rd_idx \in Banks
  /\ {regs.in_word, regs.filter_word} \subseteq Words
  /\ regs.par \in [DOMAIN NewPar -> Params] /\ offset_applied \in Params
  /\ rsp.valid \in BOOLEAN /\ rsp.pending \in BOOLEAN /\ ~(rsp.valid /\ rsp.pending)
  /\ drv.ch \in drv.group .. group_end /\ drv.k \in 1 .. layer.words

\* No word is written to a full buffer, where it would be dropped without a sign,
\* and none is taken from an empty one: what a driver that never looks at
\* write_full or read_empty relies on (conv.h against do_write and do_read).
NothingDropped ==
  /\ flags.in_write /\ ~flags.in_clear => inputs.cnt < DEPTH
  /\ flags.in_read => inputs.cnt > 0
  /\ \A b \in flags.filter_write : banks[b].cnt < DEPTH
  /\ \A b \in flags.filter_read : banks[b].cnt > 0

\* The filter words of the group's channels, as a bank that several share holds them.
LoadedFilter(b) ==
  LET sharing == {ch \in drv.group .. group_end : (ch - drv.group) % FILTER_BANKS = b}
  IN  [i \in 1 .. Cardinality(sharing) * layer.words |->
         FilterWord(drv.layer, drv.group + b + FILTER_BANKS * ((i - 1) \div layer.words),
                    ((i - 1) % layer.words) + 1)]

\* The words taken from the buffers are all back in their places when they are
\* needed again: the input words for every channel of a pixel, the filter words of
\* every bank for every pixel, however many channels a bank is shared by and even
\* if not all banks are shared by as many (the loops of conv.h).
RotationsComplete ==
  /\ At("clear_acc") =>
       Contents(next_inputs) = [k \in 1 .. layer.words |-> InputWord(drv.layer, drv.pixel, k)]
  /\ design = "banked" /\ At("clear_input") =>
       \A b \in Banks : Contents(next_banks[b]) = LoadedFilter(b)

\* Every output is the sum over its own pixel's and its own channel's words, each
\* taken once, in order and with this layer's offset, and is quantized with this
\* channel's bias, multiplier and shift and this layer's offset and bounds.
OutputsRight ==
  LET at == stored.at
  IN  at # Nowhere =>
        stored.value =
          <<[k \in 1 .. layers[at.layer].words |->
               <<InputWord(at.layer, at.pixel, k), at.layer, FilterWord(at.layer, at.ch, k)>>],
            [n \in DOMAIN NewPar |-> IF n \in {"bias", "mul", "shift"} THEN at.ch ELSE at.layer]>>

\* The accelerator does what the commands mean: although a strobe acts a cycle
\* after its command and read_data shows it a cycle later still, every command
\* finds the queues as the one before it left them.
ImplementsCommands == Commands!Spec

\* Every layer is computed to its last output, whatever the CPU's pace.
LayersFinish == <>[]At("done")
=============================================================================
