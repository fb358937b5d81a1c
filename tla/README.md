# TLA+ models of CFU Playground

CFU Playground builds RISC-V systems with a *custom function unit* (CFU): gateware beside
the CPU that executes custom instructions, and TensorFlow Lite kernels whose inner loops
issue them. What is hard in it is timing: a clock controller that stops either side, a
double-buffered store read through a prefetching reader, a gated pipeline steered by delayed
copies of its gate, buffers that rotate their words, and drivers that rely on all of them without looking.
This directory models those parts in TLA+, checks them with TLC and proves what it can with TLAPS.

Paths below are relative to `src/`. `mnv2/` stands for `proj/mnv2_first/`, `hps/` for
`proj/hps_accel/`, `gen/` for `proj/gen_vww/`, `kernels/` for the overlaid
`src/tensorflow/lite/kernels/internal/reference/integer_ops/` of a project.

## 1. Inventory

| Component | State it keeps | Operations | Interacts with | What makes it correct |
|---|---|---|---|---|
| CFU (`python/amaranth_cfu/cfu.py`) | FSM of three states, `stored_function_id`, `stored_output`, the registers of eight instructions | start an instruction, finish it at once or later, hold a response, reset | the CPU by a valid/ready handshake in both directions; the instructions by start/done | every command is answered once, in order, by the function it names and for the operands it carried |
| Clock controller (`soc/clock_control.py`) | FSM of two states | enables the CPU's or the CFU's clock | both ends of the handshake | no handshake is missed; never both asleep; the CFU stops only when idle |
| CPU side (`soc/vexriscv/VexRiscv_HpsCfu.v`, generated) | one command, the pipeline | holds a command until accepted, takes the response | the CFU | external: environment of the CFU |
| `SequentialMemoryReader`, `DualPortMemory` (`python/amaranth_cfu/util.py`) | previous restart/next, address, data | restart, next | a memory that answers one cycle later | `data` is always the word at the reader's position |
| Input store (`mnv2/gateware/store.py`) | two buffers over four memories, which are full, a read and a write position | write a word, read a word, finish a buffer, restart | the CPU's store instruction; the sequencer | a queue of two pixels; a pixel stored is offered |
| `InputStoreSetter` | `waiting` | store instruction | CFU and input store | a full store makes the instruction wait |
| `StoreSetter`, `FilterValueFetcher`, `CircularIncrementer` | counts and addresses | store, restart, next | sequencer, driver | words come round in the order in which they were stored |
| Sequencer (`mnv2/gateware/sequencing.py`, `delay.py`) | `running`, three counters, two shift registers | gate, count | input store, queue, pipeline | every stage acts on the values that belong together |
| Data path (`macc.py`, `post_process.py`) | pipeline registers, accumulator, word shifter | multiply-add, accumulate, post-process, assemble | sequencer | each output is computed from all its operands and its own parameters |
| Output queue (`mnv2_cfu.py`) | FIFO | write, get | sequencer by its level; CPU's get instruction | never overflows |
| mnv2 driver (`mnv2/kernels/mnv2_conv.cc`) | loop variables and pointers | load batch, load pixel, run, unload | all of the above by instructions | each word read is the word of the pixel and channels it is stored for; the loop ends |
| hps stream library (`hps/gateware/stream/`) | buffers, FIFOs, gearboxes | valid/ready transfers | hps gen2 | nothing is lost, repeated or reordered |
| hps gen2 control (`hps/gateware/gen2/hps_cfu.py`, `accelerator.py`) | configuration registers, one-cycle pulses, output FIFO | set, get, start, reset, end of stream | CPU; everything below | a start sees nothing of the previous one; none of the words asked for is lost to a full FIFO |
| hps gen2 fetchers (`mode0_input.py`, `mode1_input.py`, `ram_mux.py`) | nested address generators, recorded addresses, phase | start, next, reset | LRAM, array | every stream reads its own pixel's window, in order |
| hps gen2 filter store and array (`filter.py`, `sysarray.py`, `macc.py`) | a looping read index; skewed accumulators | write, start; first, last | fetchers | filters and pixels meet; accumulators are read before the next result |
| hps gen2 post-process (`post_process.py`) | index and flags, a count, parameter memory and queue, pipeline, word shifters | write, read, limit, assemble | array, output FIFO | every value meets its channel's parameters; words come in the order collected |
| hps driver (`hps/kernels/conv_accel_gen_2.cc`) | addresses and counts | configure, load, start, collect | gen2 | collects exactly what it asked for, and stores it where it belongs |
| gen CFU (`gen/cfu.v`; also gen_kws, gen_imgc, gen_pdti8; gen_adti8 without filter banks) | response and pending flag, one-cycle strobes, accumulator, write data, bank indices, parameters | fourteen commands, reset | CPU by valid/ready; the buffers and the quantizer by strobes | a command finds what the one before it left, though strobes act a cycle later |
| gen rotating buffers (`gen/gateware/cfu_input_buffer.v`, `cfu_filter_buffer.v`) | memory, two pointers, a count, a read register | write, read, clear, and a read that writes back | gen CFU | a queue, whose words come round in order |
| gen quantizer (`gen/gateware/cfu_quantizer.v`) | two stages, a status pulse | start | gen CFU | the C code's output, from one channel's parameters |
| gen drivers (`gen/kernels/conv.h`, `proj/gen_adti8/.../fully_connected.h`) | loop variables | configure, load filters, load input, accumulate, quantize | gen CFU | every output is of its own pixel and channel; the buffers are never full |
| SoC generator, firmware, models, scripts, example projects | - | build time, sequential I/O, data | - | not modelled (section 8) |

Hard behaviours: clocks that stop in the middle of a handshake; values valid in one cycle
only (operands, `done`, memory data); edge detectors; simultaneous finish, completion and
restart; counters at the end of delay lines; queues without back pressure; sizes at the
limit of a register; rounding in two places that must agree; state that one layer leaves to the next. They are listed, each at its
line, under `hazards` in `PROJECT.json`.

## 2. Modules

| Module | Models | Corresponds to |
|---|---|---|
| `CfuProtocol` | abstract: commands are accepted one at a time and answered in order | what `docs/source/interface.rst` and the CPU rely on |
| `Cfu` | CFU, instructions and clock controller, one action per oscillator cycle | `cfu.py` 24-66, 137-145, 181-308; `clock_control.py` 36-63; `hps_soc.py` 118-153 |
| `CfuProofs` | theorems about `Cfu` | |
| `MCCfu` | a CFU with two project functions and one fallback | |
| `PixelQueue` | abstract: a queue of at most two pixels, its head read word by word, over and over | the docstring and use of `InputStore` |
| `InputStore` | the store with its memories and sequential readers, one action per cycle, input wires as parameters | `store.py` 259-428; `util.py` 212-223, 270-305 |
| `InputStoreProofs` | its types, its buffers, its prefetching, and that it implements `PixelQueue` | |
| `InputStoreSetter` | the store instruction in front of `InputStore` | `store.py` 431-482 |
| `Mnv2Stores` | parameter memories with their incrementers, the four-bank filter store with its fetcher, cycle by cycle | `store.py` 46-224; `util.py` 270-305; `mnv2_cfu.py` 40-87, 151-203 |
| `Mnv2Run` | driver x `Mnv2Stores` x sequencer x data path x output queue, one action per cycle | `sequencing.py`, `delay.py`, `macc.py`, `mnv2_cfu.py` 128-232, `mnv2_conv.cc` 63-214 |
| `Mnv2Batches` | the batch arithmetic and pointers of the driver, one action per batch | `mnv2_conv.cc` 38-61, 180-214; `conv.cc` 73-87 |
| `Mnv2RunProofs` | that the output queue never overflows, what a cycle does to what is in the pipeline, and that driver and gateware compute the right outputs | |
| `MCMnv2Batches` | depths of MobileNet V2 layers and boundary values | |
| `HpsDriver` | the instructions the hps driver issues in each turn of its loops, and which comes next | `conv_accel_gen_2.cc` 35-226, 295-321 |
| `HpsAccel` | that driver x instructions, fetchers' timing, array, post-process, output FIFO, one action per cycle | `gen2/hps_cfu.py`, `accelerator.py`, `filter.py`, `sysarray.py`, `macc.py`, `post_process.py`, `mem.py` |
| `HpsAccelProofs` | that the invariants of `HpsAccel` hold for all layers, and its outputs are right while its FIFO does not overflow | |
| `MCHpsAccel` | an input layer of three rows, then a layer in two tranches | |
| `HpsMode0Fetcher` | addresses and words of the input layer's fetcher, one action per cycle | `gen2/mode0_input.py` |
| `HpsMode1Fetcher` | addresses of the other layers' fetcher, one action per cycle | `gen2/mode1_input.py` |
| `HpsRamMux` | the RAM's ports, shared in four phases | `gen2/ram_mux.py` |
| `HpsFetchers` | both fetchers on their common registers, start, stop and RAM, through layers of both modes | `gen2/accelerator.py` 151-201; `conv_accel_gen_2.cc` 89-112, 186-208 |
| `HpsFetchersProofs` | that both fetchers keep their types and read the windows of every layer that fits the registers | |
| `MCHpsFetchers` | layer shapes: both modes, short and long rows, several blocks of depth | |
| `HpsStream` | the stream components: registers and endpoints as operators | `hps/gateware/stream/` |
| `PairedStreams` | abstract: the n-th word with the n-th tag | what the stream library promises |
| `HpsStreamJoin` | all stream components, joined by connecting their endpoints | the same, with `connect` |
| `HpsStreamProofs` | each component conserves its items; joined they implement `PairedStreams` | |
| `GenFifo` | a rotating buffer at a clock edge | `cfu_input_buffer.v`, `cfu_filter_buffer.v` |
| `GenCommands` | abstract: the commands, on queues and without cycles | what the drivers' author relies on; `accel_imgc/src/software_cfu.cc` |
| `GenCfu` | the gen accelerator, one action per clock edge and branch | `gen/cfu.v`, `cfu_quantizer.v` |
| `GenConv` | the gen drivers' loops on `GenCfu` | `gen/kernels/conv.h`, `fully_connected.h` of gen_adti8 |
| `GenConvProofs` | that the buffers are queues, the circuit does what the commands mean and the driver's outputs are right | |
| `MCGenConv` | layers that use the banks evenly and unevenly | |
| `Quantize` | the arithmetic of the three accelerators' output stages and of the C code, at full width | `cfu_quantizer.v`, `post_process.py` of mnv2 and hps, `accel_imgc/src/software_cfu.cc` |
| `ArithmeticProofs` | theorems about `Mnv2Batches`; where the output stages of `Quantize` agree with the C code, and where they do not | |

How state and actions correspond to the code:

* A clocked circuit has one thread: the clock. An action of `Cfu`, `InputStore`,
  `InputStoreSetter` and `Mnv2Run` is one cycle and assigns *every* register of the
  component; wires (`comb` signals) are operators of the same name. What is
  nondeterministic is the environment: the input wires.
* Amaranth's rule "the last assignment wins" decides simultaneous events. It is kept:
  `InputStore!Handover` gives the reader's clear of `r_full` priority over the writer's set
  and that over restart's clear, as the order of `elab` does; `Mnv2Run!still_running` gives the
  end of a run priority over its start.
* In `Cfu`, a stopped clock leaves that side's registers unchanged; the *wires* of the other
  side go on. Instructions are opaque: `Outputs[f][x]` is the set of words function `f` may
  return for operands `x`, and it may take any number of cycles if the project implements it
  (the fallback answers at once). Operands are latched in the start cycle only.
* In `Mnv2Run`, data is symbolic. A multiply-add is the triple of pixel, word index and filter
  index; an accumulator is the sequence of products added to it; a result is an accumulator
  with the index of its parameters. A wrong operand, a product lost or added twice, a
  parameter of another channel each give a different term. The arithmetic of the output stages (SRDHM,
  rounding division, saturation) is in `Quantize`, on integers of the code's widths.
* In `Mnv2Run` the input store is the queue that `InputStore` is proved to implement, plus its
  one cycle of latency. The other stores are `Mnv2Stores`: their memories, counts, limits, registered `set` pulses and
  sequential readers, cycle by cycle; a stored word is the token of its batch and index, so that a word
  stored in the wrong place, dropped or fetched too early shows in the outputs.
* `Mnv2Batches` keeps the C++ integer arithmetic literally.
* `HpsAccel` composes the whole path from instruction to word. Both fetchers appear as one, whose
  period (cycles to a pass) and rows (pixels to a pass) depend on the mode; where it reads from is the
  business of `HpsMode0Fetcher` and `HpsMode1Fetcher`. A value is a term: the pixel and channel it was
  accumulated for, then the parameters it was post-processed with. The channel comes from the filter store's read index in
  the cycle in which the pass ended, so a filter store out of step with the fetcher gives another channel or none.
* The driver is at a step of a turn of a layer: a turn is what is before the row loop, one round of it or one round of
  the tranche loop, a sequence of instructions; `NextStep` goes on in it, to the next turn or to the next layer.
* Register writes that the driver makes together are one `SetConfig`; the bias, shift and multiplier of
  a channel are one `SetParam`, and so is the loading of all filter words (`SetFilter`): the gateware reads none of
  them before the start that follows. The CPU takes from two cycles up to `MaxWait` + 1 between two instructions.
* In the fetcher modules a word of data is the address it was read from, so that `WindowsRight`
  compares where a stream read with where the tensor layout says the window lies. `HpsFetchers` runs both in
  every cycle, as `accelerator.py` does: the one that is not used counts on registers meant for the other.
* `HpsStream` has an endpoint's half as the item offered, or `None`, and the other half as `ready`; a register with
  its valid flag is the item or `None`. `HpsStreamJoin` connects the components as `connect` does and lets
  producers withdraw what was not accepted. The queues of `HpsAccel` are `HpsStream`'s.
* `GenCfu` has an action for each branch of `cfu.v`'s `always` block. A command sets the strobes that
  the buffers and the quantizer see in the next cycle. A word is a token, the accumulator the sequence of
  its products and a result that sequence with the parameters in the registers. The refinement to
  `GenCommands` maps the buffers to the words they will hold when the strobes under way have acted
  (`Contents(next_inputs)`): what the next command finds.

## 3. Runs and what they show

| Run | Properties | Instance |
|---|---|---|
| `Cfu` | `TypeOK`, `NothingLost`, `CfuStopsOnlyIdle`, `ResponseHeld`, `ImplementsProtocol`, `CommandsProgress` | 3 functions (two implemented, one of them nondeterministic), 2 operands, 3 commands between resets, clock control on |
| `InputStore` | `TypeOK`, `BuffersAlternate`, `PrefetchedData`, `ImplementsQueue`, `PixelOffered` | 2 banks of 4 words, 2 word values, pixels of 1 to 3 words |
| `InputStoreSetter` | `StoreStalls`: **violated** | the same with pixels of 2 and 3 words |
| `Mnv2Run` | `TypeOK`, `NoOverflow`, `RunsApart`, `LoadsNeverStall`, `BatchesApart`, `OutputsRight`, `LayerFinishes` | 2 words per pixel, 32 channels, 3 pixels, 2 batches, a filter store of 4 x 16 words, a queue of 4 with margin 2 |
| `Mnv2Params` | `ParamsInTurn`: **violated** | as many channels as the parameter memories hold |
| `Mnv2OddBatches` | `LayerFinishes`: **violated** | a batch of 12 channels |
| `Mnv2Batches` | `StoresSuffice`, `PointersAgree`, `AllChannels` | 16 input depths x 12 output depths with the code's real limits |
| `HpsAccel` | `TypeOK`, `NoResultLost`, `ParamsInTime`, `NoOverflow`, `StartsClean`, `OutputsRight`, `DriverFinishes` | input layer 3 x 4 pixels, 8 channels; layer 2 x 3 pixels, 12 channels in tranches of 8 and 4; FIFO of 8 |
| `HpsFetchers` | `TypeOK`, `WindowsRight` | two parts of an input layer, from the start and from the middle of a block; mode 1 with widths 5, 8, 255, depths of 1 and 2 blocks, 4 and 8 channels, and one input that ends where the RAMs end; in any order |
| `HpsWideLayers` | `WindowsRight`: **violated** | width 256 |
| `HpsStreamJoin` | `OffersKept`, `ImplementsPairedStreams`, `PairsFlow` | a FIFO of 3, releases of 0 and 2 tags, bytes numbered modulo 8, resets of the two buffers at any time |
| `GenConv` | `TypeOK`, `NothingDropped`, `RotationsComplete`, `OutputsRight`, `ImplementsCommands`, `LayersFinish` | 2 banks of 8 words, 13 layers of up to 5 channels, 3 words and 2 pixels, each followed by a small one; both designs; one reset |

Why the bounds are enough:

* `MaxCommands = 3` lets a command be pending while the previous one executes and its
  predecessor's response was held; longer histories repeat these states. The theorems hold for
  every bound.
* Two banks keep everything four banks have: a bank with fewer words than its neighbour, a
  bank with one word only (its reader's limit is 1), a pixel that fills one bank. Depths 1, 2, 3 are
  below, at and above the number of banks. Two word values suffice because words are only copied.
* The queue of `Mnv2Run` (4, margin 2) is smaller than a pixel's 8 words, so the gate closes in
  the middle of a run, in the middle of a word and of an accumulation, and opens again. Three
  pixels are the least with a first, a middle and a last turn of the loop; two batches the
  least with a restart. 64 filter words fill the filter store exactly, where its limit becomes 0 and the readers
  have to wrap around by the width of their addresses. The CPU takes at least a cycle between the instruction that sets
  the batch size and the first parameter it stores, since it has to load that from memory; in the very next cycle
  the store would be lost to the registered `set` pulse.
* The batch limits are the code's own numbers.
* In `HpsAccel` the FIFO (8) is smaller than the 16 words of one start, as in the code (1024 against 1280), so
  its content depends on the CPU. That it does not overflow is a matter of *speed*: nothing
  tells the array that the FIFO is full. `MaxWait = 5` is the slowest CPU that keeps up here (6 overflows). In the code, two rows of the
  input layer are 1280 words in about 5120 cycles, and the CPU must have collected 256 of them by the end: one every 20
  cycles. Mode 1 has no such limit on the words of a start; there the array needs at least 64
  cycles for 8 values, so the CPU must take a word in 32 on average. The model's period of 8 gives a value
  every cycle, the highest rate the reader can follow. Three rows make the last turn of the row loop short;
  six pixels are not a multiple of four, so words are computed that the driver drops; the second
  tranche is smaller, so that a stale count, parameter or filter shows.
* `HpsFetchers`: a row shorter than a group of four pixels, addresses that wrap around behind the last output pixel (the
  array computes the windows of up to three pixels that there are not), groups that run across the end of a row, more than one
  block to a pixel, more than one repeat, and the widest row that fits; the input layer's 322 bytes to a row are not a multiple of 16, so rows
  begin at every even offset that the layer has. `Slack = 4` lets the fetchers run on after the last pass, as
  they do until the last value has been read, and `MaxIdle = 4` separates the stop from the next start by two to
  four cycles; it takes the driver longer.
* `HpsStreamJoin`: bytes numbered modulo 8 tell a word from its neighbours, so that a word lost, repeated, split
  or overtaken is not a step of `PairedStreams`, which is compared cycle by cycle. A FIFO of 3
  has an item in its output register, one in its memory and is full with two there. Nothing bounds time.
* `GenConv`: with two banks a group of four channels gives each bank two, a last group of one gives one bank
  none, and five channels in one group share unevenly. Layers for which a bank's words (channels that share it
  times words) reach the buffer's depth are left out (`Fits`): the driver does not check it, and the models
  shipped with the projects keep below it. `MIN_GAP = 3`: the loop around `MAC_ON_BUFFER` has an increment
  and a branch, so two of them are three cycles apart at least; with 2 the second would find `read_data` stale. The CPU may
  take any longer, and anything between other commands.

Fairness: `WF_vars(Next)` (or `Tick`) says that the clock runs. In `Cfu`, an instruction that was
started completes and the CPU eventually takes a response: the first is what `InstructionBase`
asks of an instruction, the second what a pipeline that stalls on the response does. Neither says anything of
the clock controller, so `CommandsProgress` is about it. In `Mnv2Run`, `WF_vars(Command)` says that
the CPU goes on with its program: a command is enabled whenever the driver's next instruction can
complete. No fairness is assumed of the gateware beyond the clock. In `HpsAccel`, `WF_vars(Next)` is the clock, and
`MaxWait` makes the CPU go on. The fetcher modules have safety properties only.
In `GenConv` the clock runs (`WF` of `Wait`) and the CPU goes on with its program and takes responses. In `HpsStreamJoin` the clock runs without
needing a reset to, and `Flowing` says of the surroundings that bytes, tags and releases that would be accepted again and again are
offered again and again, and that pairs are taken again and again: a strong fairness, as there is no bound on
how long each of them may pause, and nothing forces them to be there in the same cycle.

Deadlock is checked except in `Mnv2Batches`, whose loop ends.

## 4. Findings

1. `store.py:476` (run `InputStoreSetter`): the instruction that stores an input word into a full store
   is reported done in the next cycle while the store is *still* full, and the word is
   dropped; if the store has just become ready the instruction never completes. The condition
   `waiting & ~w_ready` is inverted, and `waiting` is set again where it should be cleared.
   `LoadsNeverStall` shows that the driver never gets there.
2. `store.py:121` (run `Mnv2Params`): `CircularIncrementer.limit` is `Signal(range(depth))`, so 512 channels in a
   batch, which `mnv2_cfu.h:70` allows, become 0 and every channel uses parameter 0.
3. `mnv2_conv.cc:124` (run `Mnv2OddBatches`): `UnloadOutputValues` reads four words while more than two are
   left. A layer with depths 576 and 160 is cut into batches of 12 channels, three words: the driver
   waits for a fourth for ever.
4. `accelerator.py:69` (run `HpsWideLayers`): `pixel_advance_y` has eight bits, and the driver writes depth / 16 times
   the width of the input to it without a check in `CanAccelerateConv4x4`. At 256 it is 0: all four rows of
   every window are the same row.

Stated by theorems, since TLC's integers have 32 bits or since the fact is one of arithmetic:

* `mnv2_conv.cc:58` (`DeepLayersHaveNoBatch`): `ConvPerChannel` hands over input depths up to 4095 (`conv.cc:81`), but from
  2049 on four filter rows exceed the filter store, the batch has no channels and the number of batches is a division by
  it.
* `mnv2/gateware/post_process.py` (`Mnv2Unsaturated`): the product of INT32_MIN with itself, which the C code saturates,
  changes its sign. No multiplier of a model is INT32_MIN.
* `hps/gateware/gen2/post_process.py:165` (`HpsWraps`): the last stage takes 16 bits; a shifted result beyond them
  changes its sign and leaves as the least value. Within the range the stages are made for, `HpsQuantizes` holds.

## 5. Proofs

Every theorem is for all values of the constants that satisfy its module's named assumptions.

* `CfuProofs` (every set of functions, operands and outputs, with and without clock
  control). `NothingLost` is not inductive: one must know which instruction executes. `IInv` adds
  `ExecutesLast` (in `WAIT_INSTRUCTION` exactly the function of the last command runs, on its
  operands; otherwise none), `StoresAnswer` (the held word answers the last command) and
  `ClockFollows` (while the CFU's clock may be stopped, the FSM is in `WAIT_CMD`). The lemma
  `ClocksHarmless` then says that a stopped CFU loses no transition; one lemma per action shows
  that it keeps `IInv` and maps to a step or a stutter of `CfuProtocol`. Theorems: `TypeCorrect`,
  `NothingIsLost`, `CfuStopsIdle`, `RefinesProtocol`, and the action property `ResponseIsHeld`, whose
  only case is `Transfer` (`TransferHolds`).
* `InputStoreProofs` (every number of banks, depth and set of pixel sizes that fits the address registers).
  `BuffersAlternate` with `TypeOK` and the bounds of the two addresses by
  the current depth (`AddressesOK`) is inductive; the proof splits a cycle into its reader
  (`ReadTypes`), its writer (`WriteTypes`) and the handover (`Alternates`). For `PrefetchWorks` the invariant
  `PInv` says of every bank's reader that its address is the one its position calls for and that its
  memory port shows the word there (`ReaderOK`): a word that is written while its bank is being
  read belongs to the other buffer. `RefinesQueue` is that the store implements `PixelQueue`: the pixels of the queue are read
  off the memories of the full buffers, in the order in which they became full; the step that
  completes a buffer appends one, the step that finishes one removes the head, and a restart empties it. Theorems: `TypeCorrect`,
  `BuffersTakenInTurn`, `PrefetchWorks`, `RefinesQueue`.
* `Mnv2RunProofs`: `QueueNeverOverflows`. The gate looks at the level of the queue, and results arrive for cycles
  after it has closed. The invariant bounds four times the level, plus the bytes in the word
  being assembled and the results in the delay lines, by `4 * (QueueDepth - Margin) + 6`, so a margin of
  one place suffices where the code keeps eight. The module also describes what is under way: `InPipe(pixel, n, k)` says that
  of the current pixel `n` operands were let in and `k` words read, and therefore which operands are in the
  delay lines, which products in the accumulator, which results in the post-processor, which bytes in the
  word that is being assembled and which words in the queue; a cycle in which an operand is let in, or a word read, is `n + 1`, or `k + 1`.
  Driver, stores, sequencer, pipeline and queue compute every output (`EveryOutputIsRight`), load
  only into a free buffer (`LoadsFindABuffer`), and keep runs and batches apart (`RunsNeverMeet`, `BatchesNeverMeet`). None of these
  is inductive. `CInv` (`ComputesAlways`) says of every register what it holds, in terms of the
  driver's place in its program: which pixels wait in the input store and how far the first is
  read (`PixelsOK`), how many parameters and filter words were stored and where the readers are (`ParamsOK`, `FiltersOK`,
  `ReadersOK`), what the pipeline holds (`PipeOK`), what was read so far (`RecordsOK`), and what the control is doing (`DriverOK`,
  `ControlOK`). There is one lemma per part and, under it, one step per command of the driver. The theorems hold for
  every size of layer, batch, store and queue with `Sized`: channels a multiple of eight, and fewer than the parameter
  memories hold. Both are needed; without them the code does not do this (findings 2 and 3). `NoneAssumption` keeps the word for
  nothing apart from words.
* `GenConvProofs`: a clock edge of the rotating buffer is a step of a queue (`EdgeIsQueueStep`) and `read_data` gets the
  oldest word (`ReadsOldest`), for every depth and wherever in the memory the words lie. On it rest the properties of
  `GenConv`, for every depth, number of filter banks and sequence of layers: `AlwaysTypeOK`, `AlwaysNothingDropped`,
  `AlwaysRotationsComplete` and `AlwaysOutputsRight`. None is inductive: that a write finds room depends on what the driver did
  since the last `CLEAR`, perhaps in the layer before. `GInv` (`AlwaysGInv`) says what every register holds in terms of where
  the driver is in its loops: every queue is the first `n` words of its pixel or of its bank's channels, or those words
  after `n` of them were turned round (`QueuesOK`, with `Turned` and `Share`, the channels that a bank has of the first `m`); the
  accumulator and the parameters (`RegistersOK`), the quantizer's stages (`QuantizerOK`); and, the part a test of
  the circuit alone cannot see, that the strobes have acted before the next command is accepted, and that from three cycles after
  a `MAC_ON_BUFFER` on `read_data` shows the next word (`TimingOK`). TLC checked `GInv` on the instance of `MCGenConv`
  before it was proved. There is one lemma per command. `Implements` (`ImplementsCommands`) maps every clock edge to
  a command of `GenCommands` or a stutter: the edge at which a strobe acts changes no queue that the mapping shows, since the
  mapping looks past the strobe. Assumed are `Fits` for every layer (a bank's words are fewer than its places),
  `GapAssumption` (two `MAC_ON_BUFFER` are at least three cycles apart: the increment and the branch of the loop are between them),
  `DataAssumption` (the tokens of the layers considered are words and parameters), and, by `Init`, that a layer of the streamed
  design is in one group, as gen_adti8's loops are. With a gap of two the code would not work: `read_data`
  would still show the word before.
* `HpsFetchersProofs`: the two fetchers of hps gen2, for every set of layers in any order. `AlwaysTypeOK`: the registers of
  both keep their widths, those of the fetcher that runs on the other mode's configuration included, and both
  are running or neither is. `AlwaysWindowsRight`: what arrives from the RAMs is, pass after pass, the window of the
  right output pixel. That is not inductive: `FetchInv` adds which pixel, row and word each register stands
  for, as a function of the pass and the cycle within it (mode 0: `Produces0`; mode 1: `Counts1`,
  `Pixels1`, `Repeats1`, `Values1`), what was given to the RAMs in the cycle before (`Even0`, `Odd0`, `Data1`), and that nothing is under way
  two cycles after a stop (`Quiet`), which is why the driver may write the registers then. The pixel generator of mode 1 runs
  ahead of the streams by up to a block while the repeater replays the block's addresses (`Ahead`), and a
  stream that has not begun with this pass is still at the end of the one before. Underneath are lemmas about quotients and remainders (`NextQuotient`:
  how a counter with a reload follows a division by a constant of the layer) and about addresses, which are sums modulo
  the RAMs' size wherever the wrap-around falls (`Wraps`). Assumed are `LayersAssumption` (what
  `CanAccelerateConv4x4` and the tensors' alignment ensure) and, for `AlwaysWindowsRight`, `FitsRegisters` for every layer: a row of the input is shorter than 256
  blocks. The code does not check the latter, and the run `HpsWideLayers` shows what happens without it.
* `ArithmeticProofs`: for `Mnv2Batches`, `PointersStayTogether` and `StoresAreNotOverfilled`, with the lemmas that relate rounded loads
  to exact sizes, for layers and stores of any size; `DeepLayersHaveNoBatch`, exactly when the batching has a batch. For
  `Quantize`, that the output stage of each accelerator computes what the C code does, for all
  values of 32 bits within its preconditions (`GenQuantizes`, `Mnv2Quantizes`, `HpsQuantizes`), and where the two do not
  agree (`Mnv2Unsaturated`, `HpsWraps`).
* `HpsAccelProofs`: the second accelerator with its driver, for every sequence of layers of both modes, every depth of the
  memories and of the FIFO, and a CPU that takes any time up to any `MaxWait` between instructions.
  `AlwaysTypeOK`, `AlwaysNoResultLost`, `AlwaysParamsInTime` and `AlwaysStartsClean` hold without further conditions. None is
  inductive: that a result is read before the next overwrites it depends on when the pass before it ended. The
  data path has no flow control and a fixed latency, so what each of its registers holds was decided up to fourteen
  cycles earlier. The invariant `IInv` (`AlwaysIInv`) therefore speaks of two *histories*, `p[k]`, how many passes had ended `k` cycles
  ago, and `s[k]`, how many results had entered the pipeline then, and says of each component what it holds in terms of them: the
  counters of the fetchers and the filter store, which stay in step (`FetchOK`), the results in the array (`ArrayOK`), which
  accumulators are still to be read and in which order (`ReaderOK`, `OutputOK`), the values still to let through
  (`LimiterOK`), the parameters that were fetched (`ParamsAt`), the values in the pipeline, the bytes in the assembler and the
  words in the FIFO (`PipeOK`, `AssemblerOK`, `QueueOK`). A cycle shifts the histories by one place and adds the present at the front
  (`NextPasses`, `NextValues`), and there is one lemma per component that it agrees. `LimiterOK` has what makes the end of a start
  safe: the fetchers are stopped after the last result, and no further pass ends before they are. The second half is the driver
  (`DriverOK`): in which phase of which turn it is (`Loading`, `Ready`, `Started`, `Collecting`, or `Resting` between two turns), and what the machine
  does in that phase; one lemma per phase (`RestingCycle` and the following). That a start finds nothing of the one before rests on
  `Drained`: the word that the driver takes last is made of the last values, so whatever else was under way is gone by the
  time its next instruction, which is a reset or the configuration before one, has been executed. TLC checked `IInv` on the instance of `MCHpsAccel` before
  it was proved. `NoOverflowOutputsRight`: while the output FIFO loses no word (`[]NoOverflow`), every word the driver stores is
  that of the pixel and the channels it stores it for. The condition cannot be dropped: a word that is lost shifts all that follow. It
  can be discharged where the FIFO has room for all that a start makes (`Roomy`): `RoomyNeverOverflows`, `RoomyOutputsRight`. Assumed are
  `LayersAssumption` (what `CanAccelerateConv4x4` ensures, and that a pass of mode 1 takes a multiple of four
  cycles and at least eight, where the code has multiples of 64) and `NoneAssumption`.
* `HpsStreamProofs`: for each stream component the equation "what was held, then what came in = what went out, then what
  is held afterwards" (`BufferConserves`, `ConcatConserves`, `FlowCounts`, `GearboxConserves`,
  `FifoConserves`), for items of any kind and neighbours that do anything in the cycle; and of their
  composition `OffersAreKept` and `JoinImplements`: it implements `PairedStreams` for every depth of the FIFO. The
  equations of ByteToWord, Buffer and the word's half of ConcatenatingBuffer add up to one for the three in a row
  (`InARow`, `WordsConserved`), those of StreamFifo give the queue of pairs; with `TypeInv` and the wires between the
  components in a cycle (`Wires`) every cycle is a step of `PairedStreams`. A reset drops what the two buffers
  hold or are given in that cycle: the oldest words, and never one that ByteToWord keeps (`WordsImplemented`).

Only model-checked: liveness (`CommandsProgress`, `PixelOffered`, `LayerFinishes`, `AllChannels`, `DriverFinishes`,
`LayersFinish`, `PairsFlow`, and the fairness of `CfuProtocol`), which is out of the prover's reach; and `NoOverflow` of
`HpsAccel` for layers whose starts make more words than the FIFO holds, as the code's input layer does (1280 against 1024). There it is
not a property of the design but of the CPU's speed: it holds for some `MaxWait` and fails for the next (section 3), and
a proof would be about the cycles a particular program takes.

## 6. Plan

Done: the modules of section 2, in the order in which they depend on each other. The boundary every instruction crosses first
(`Cfu`), the store with the most delicate timing (`InputStore`), the composition that uses both (`Mnv2Run`), the
second accelerator (`Hps`), the Verilog accelerators (`Gen`), the arithmetic, the stream library. Left:

1. An abstract specification of hps gen2 (start, then so many words in order), implemented by `HpsAccel`; the
   contents of its filter stores (`LoadFilterData` against `FilterStore`'s interleaving); `CanAccelerateConv4x4` against the
   registers' widths.
2. Proofs: `NoOverflow` of `HpsAccel` from a bound on the CPU's time between words and the rate at which a start makes
   them.

## 7. Running

    tlc -config MCCfu.cfg MCCfu          # likewise the other configurations
    tlapm CfuProofs.tla                  # likewise InputStoreProofs, Mnv2RunProofs,
                                         # ArithmeticProofs, GenConvProofs, HpsAccelProofs,
                                         # HpsFetchersProofs, HpsStreamProofs

The definitions marked "Mutant" are not part of any specification: each is a plausible
mistake in the definition that follows it, and substituting it makes a property of the run fail.

## 8. Not modelled

The VexRiscv core (third-party generated Verilog; it appears as the environment of `Cfu`). The software emulation
of mnv2, which is sequential and imitates what `Mnv2Run` models. The multiply-add trees: which operands they combine is
modelled, their sums are not. The Verilog of `accel_*`: of these projects only the C emulation's
arithmetic and command set. The other overlaid kernels of the `gen_*` projects, which use the same commands
in the same order. The example and tutorial projects, which are single-instruction CFUs and thus values of
`Outputs`. SoC generation, boot code, menus, performance counters and model I/O, which are build-time or
sequential. Vendored code, models, test inputs (the `conv2d_*.cc` of hps, which are tables of numbers and most of the repository's
C++ lines) and scripts. Of hps gen2, the verification registers, `PoolInstruction` and the LRAM set-up. Of the shared gateware
utilities, what only tests use and what is wiring without a state.
