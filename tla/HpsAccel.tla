------------------------------ MODULE HpsAccel ------------------------------
(***************************************************************************)
(* The second accelerator of proj/hps_accel, gateware generation 2, from   *)
(* the CPU's instructions to the words the CPU collects: SetInstruction    *)
(* and GetInstruction, the two input fetchers and the filter store (which  *)
(* pixels and channels they feed into the systolic array, and when), the   *)
(* array's result strobes, AccumulatorReader, StreamLimiter, the parameter *)
(* memory with ParamWriter and ReadingProducer, PostProcessPipeline,       *)
(* OutputWordAssembler and the output FIFO.  Nothing between the array and *)
(* the FIFO has back pressure.                                             *)
(*                                                                         *)
(* One action is one cycle of the CFU's clock.  A value in the data path   *)
(* is the pixel, the channel and the parameters it was computed from.      *)
(***************************************************************************)
EXTENDS HpsDriver, HpsStream

CONSTANTS
  Layers,     \* the layers the driver accelerates, one after the other
  FifoDepth,  \* OUTPUT_FIFO_DEPTH: 1024 in the code
  MaxDepth,   \* MAX_CHANNEL_DEPTH and FILTER_WORDS_PER_STORE: 512 in the code
  MaxWait     \* bound: cycles the CPU spends between two instructions

ASSUME ConstantsAssumption ==
  FifoDepth \in Nat \ {0, 1} /\ MaxDepth \in Nat \ {0} /\ MaxWait \in Nat \ {0}

\* CanAccelerateConv4x4: the depth of the output is a multiple of four, and the
\* filter words of four channels fit into the two filter stores; a pass of mode 1
\* takes as many cycles as a channel has filter words, a multiple of 64 since the
\* depth of the input is one of 16.
ASSUME LayersAssumption ==
  /\ DOMAIN Layers = 1 .. Len(Layers) /\ Len(Layers) \in Nat
  /\ \A i \in DOMAIN Layers :
       LET layer == Layers[i]
       IN  /\ {layer.height, layer.width, layer.channels} \subseteq Nat \ {0}
           /\ layer.channels % 4 = 0
           /\ \/ layer.mode = 0 /\ 2 * layer.channels <= MaxDepth
              \/ /\ layer.mode = 1
                 /\ {layer.tranche, layer.period} \subseteq Nat \ {0}
                 /\ layer.tranche % 4 = 0
                 /\ layer.period % 4 = 0 /\ layer.period >= 8
                 /\ layer.tranche * layer.period <= 2 * MaxDepth

\* What a pass, and so an accumulator and a result, was computed for, and what the
\* post-process pipeline makes an output value of.
Passes == [pixel : Nat, channel : Nat \cup {None}]
Items == [value : Passes, param : Nat]

ASSUME NoneAssumption ==
  None \notin Nat \cup Passes \cup Items \cup [1 .. 4 -> Items]

VARIABLES
  cpu,     \* its next instruction, and cycles since the previous one was done
  pulse,   \* the one-cycle outputs of SetInstruction
  config,  \* its configuration registers
  fetch,   \* the input fetchers
  filter,  \* the filter store
  last,    \* the results on their way through the array, by cycle
  reader,  \* AccumulatorReader, and the accumulators it reads
  limiter, \* StreamLimiter
  params,  \* ParamWriter, the parameter memory and ReadingProducer
  pipe,    \* PostProcessPipeline
  owa,     \* OutputWordAssembler
  fifo,    \* the output FIFO
  got      \* the word the last get instruction returned

vars == <<cpu, pulse, config, fetch, filter, last, reader, limiter, params, pipe,
          owa, fifo, got>>

\* None stands for what a register holds that is of no use.
Nones(n) == [i \in 1 .. n |-> None]
NoPulse == [reset |-> FALSE, start |-> FALSE, param |-> None]

ResetReader ==
  [acc |-> [i \in 0 .. 7 |-> None], flags |-> [i \in 0 .. 7 |-> FALSE],
   index |-> 0, out |-> None]
ResetAssembler ==
  [byte_count |-> 0, pixel_index |-> 0, last_pixel_index |-> 0,
   shift |-> [i \in 0 .. 3 |-> Nones(3)]]

Init ==
  /\ cpu = [at |-> FirstStep(1), wait |-> 0, waiting |-> FALSE]
  /\ pulse = NoPulse
  /\ config = [op |-> "config", mode |-> 0, base |-> 0, values |-> 0, channels |-> 0,
               period |-> 4]
  /\ fetch = [running |-> FALSE, count |-> 0, repeat |-> 0, pixel |-> 0]
  /\ filter = [running |-> FALSE, read_index |-> 0, channel |-> 0]
  /\ last = Nones(9)
  /\ reader = ResetReader
  /\ limiter = [counter |-> 0, finished |-> FALSE]
  /\ params = [mem |-> [a \in 0 .. MaxDepth - 1 |-> None], mem_addr |-> 0,
               addr |-> 0, repeat |-> 0, count |-> 0, repeats |-> 0,
               valid |-> FALSE, data |-> None, fifo |-> EmptyFifo]
  /\ pipe = Nones(7)
  /\ owa = ResetAssembler
  /\ fifo = EmptyFifo
  /\ got = None

-----------------------------------------------------------------------------
(* The fetchers, the filter store and the systolic array                   *)

half_mode == config.mode = 0
rows == IF half_mode THEN 2 ELSE 4   \* pixels per pass, of SYS_ARRAY_HEIGHT = 4
num_repeats == config.channels \div 2
num_filter_words == num_repeats * config.period

fetch_last == fetch.running /\ fetch.count = config.period - 1

\* Mutant: the fetcher goes on when the last value has been taken.
fetch_reset_ignores_stop == pulse.reset

fetch_reset == pulse.reset \/ limiter.finished

\* A pass over a block of pixels is repeated for each pair of channels.
Fetch ==
  fetch' =
    [running |-> (fetch.running \/ pulse.start) /\ ~fetch_reset,
     count   |-> IF pulse.start \/ fetch_reset \/ fetch_last THEN 0
                 ELSE IF fetch.running THEN fetch.count + 1 ELSE fetch.count,
     repeat  |-> IF pulse.start THEN 0
                 ELSE IF fetch_last THEN (fetch.repeat + 1) % num_repeats ELSE fetch.repeat,
     pixel   |-> IF pulse.start THEN config.base
                 ELSE IF fetch_last /\ fetch.repeat = num_repeats - 1 THEN fetch.pixel + rows
                 ELSE fetch.pixel]

\* Mutant: a start does not take the filter store back to its first word.
next_read_index_kept ==
  IF ~filter.running THEN filter.read_index
  ELSE IF filter.read_index = num_filter_words - 1 THEN 0
  ELSE (filter.read_index + 1) % MaxDepth

\* The filter store goes round until the next start, whatever the fetcher does.
next_read_index ==
  IF pulse.start THEN 0
  ELSE IF ~filter.running THEN filter.read_index
  ELSE IF filter.read_index = num_filter_words - 1 THEN 0
  ELSE (filter.read_index + 1) % MaxDepth

Filter(channel) ==
  filter' = [running |-> filter.running \/ pulse.start, read_index |-> next_read_index,
             channel |-> channel]

\* The pass that ends in this cycle: its pixels, and the channels whose filter
\* words came with them if the filter store is at the last word of a channel.
Pass ==
  [pixel |-> fetch.pixel,
   channel |-> IF filter.read_index % config.period = config.period - 1
               THEN filter.channel + 2 * (filter.read_index \div config.period) ELSE None]

\* Two registers, two cycles in the MaccBlock and its output register; a block
\* further down or to the right is a cycle later for each step.
Array == last' = <<IF fetch_last THEN Pass ELSE None>> \o SubSeq(last, 1, 8)

Row(i) == i % 4
Column(i) == i \div 4
accumulator_new(i) == last[5 + Row(i) + Column(i)] # None

Accumulators ==
  [i \in 0 .. 7 |-> LET arriving == last[4 + Row(i) + Column(i)]
                    IN  IF arriving # None THEN arriving ELSE reader.acc[i]]

-----------------------------------------------------------------------------
(* AccumulatorReader and StreamLimiter                                     *)

limiter_running == limiter.counter # 0
transferring == reader.out # None /\ limiter_running

\* Mutant: all eight accumulators are read in either mode.
next_index_full == (reader.index + 1) % 8

\* In half mode: 0, 1, 4, 5, and again.
next_index ==
  IF half_mode /\ reader.index % 2 = 1 THEN (reader.index + 3) % 8
  ELSE (reader.index + 1) % 8

\* Mutant: a result is read only when the output register is empty.
available_one_in_two ==
  /\ reader.out = None
  /\ accumulator_new(reader.index) \/ reader.flags[reader.index]

available == accumulator_new(reader.index) \/ reader.flags[reader.index]

Value(i) ==
  LET pass == reader.acc[i]
  IN  [pixel |-> pass.pixel + Row(i),
       channel |-> IF pass.channel = None THEN None ELSE pass.channel + Column(i)]

next_flags ==
  [i \in 0 .. 7 |-> ~(available /\ i = reader.index)
                    /\ (reader.flags[i] \/ accumulator_new(i))]

\* ResetInserter restarts the reader; the accumulators are the array's.
Read ==
  reader' =
    IF pulse.reset THEN [ResetReader EXCEPT !.acc = Accumulators]
    ELSE [acc |-> Accumulators, flags |-> next_flags,
          index |-> IF available THEN next_index ELSE reader.index,
          out |-> IF available THEN Value(reader.index)
                  ELSE IF limiter_running THEN None ELSE reader.out]

Limit ==
  limiter' = [counter |-> IF transferring THEN limiter.counter - 1
                          ELSE IF pulse.start THEN config.values ELSE limiter.counter,
              finished |-> transferring /\ limiter.counter = 1]

-----------------------------------------------------------------------------
(* ParamWriter, and ReadingProducer with its LoopingAddressGenerator       *)

ProducerDepth == 3
param_write == pulse.param # None /\ ~pulse.reset

\* Mutant: an address is generated for every parameter used, and none to prime.
next_param_unprimed == ~param_write /\ transferring

next_param == ~param_write /\ (params.fifo.out = None \/ transferring)

repeat_last == params.repeat + 1 = params.repeats

NextParamAddr ==
  IF ~(next_param /\ repeat_last) THEN params.addr
  ELSE IF params.addr + 1 = params.count THEN 0 ELSE (params.addr + 1) % MaxDepth

Params ==
  params' =
    [mem |-> IF param_write THEN [params.mem EXCEPT ![params.mem_addr] = pulse.param]
             ELSE params.mem,
     mem_addr |-> IF param_write THEN (params.mem_addr + 1) % MaxDepth
                  ELSE IF pulse.reset THEN 0 ELSE params.mem_addr,
     addr |-> IF param_write THEN 0 ELSE NextParamAddr,
     repeat |-> IF param_write THEN 0
                ELSE IF ~next_param THEN params.repeat
                ELSE IF repeat_last THEN 0 ELSE (params.repeat + 1) % 4,
     count |-> IF param_write THEN config.channels ELSE params.count,
     repeats |-> IF param_write THEN rows ELSE params.repeats,
     valid |-> next_param \/ (params.valid /\ ~w_rdy(params.fifo, ProducerDepth)),
     data |-> params.mem[params.addr],
     fifo |-> IF param_write THEN EmptyFifo
              ELSE Fifo(params.fifo, ProducerDepth, params.valid, params.data, transferring)]

-----------------------------------------------------------------------------
(* PostProcessPipeline and OutputWordAssembler                             *)

PostProcess ==
  pipe' = <<IF transferring THEN [value |-> reader.out, param |-> params.fifo.out]
            ELSE None>> \o SubSeq(pipe, 1, 6)

assembling == pipe[7] # None
word_done == assembling /\ owa.byte_count = 3
word == Append(owa.shift[owa.pixel_index], pipe[7])
last_pixel == owa.pixel_index = owa.last_pixel_index

next_byte_count ==
  IF assembling /\ last_pixel THEN (owa.byte_count + 1) % 4 ELSE owa.byte_count

Assemble ==
  owa' =
    IF pulse.reset THEN ResetAssembler
    ELSE [byte_count |-> next_byte_count,
          pixel_index |-> IF ~assembling THEN owa.pixel_index
                          ELSE IF last_pixel THEN 0 ELSE (owa.pixel_index + 1) % 4,
          last_pixel_index |-> rows - 1,
          shift |-> IF assembling /\ ~word_done
                    THEN [owa.shift EXCEPT ![owa.pixel_index] = Tail(word)] ELSE owa.shift]

-----------------------------------------------------------------------------
(* The CPU.  Clocked(pulses, channel, r_en): a cycle in which the set      *)
(* instruction raises these pulses, the filter store holds the filters     *)
(* from this channel on, and the get instruction is ready for a word.      *)

Clocked(pulses, channel, r_en) ==
  /\ Fetch /\ Filter(channel) /\ Array /\ Read /\ Limit /\ Params /\ PostProcess /\ Assemble
  /\ pulse' = pulses
  /\ fifo' = Fifo(fifo, FifoDepth, word_done, word, r_en)
  /\ got' = IF r_en THEN fifo.out ELSE None

done == cpu.at.layer > Len(Layers)
instruction == Instructions(Layers[cpu.at.layer], cpu.at.turn)[cpu.at.step]

\* The CFU answers in the cycle after an instruction, so the next one is started
\* two cycles after it at the earliest.
Issues(op) == ~done /\ cpu.wait >= 1 /\ instruction.op = op
Advance == cpu' = [at |-> NextStep(Layers, cpu.at), wait |-> 0, waiting |-> FALSE]

OtherCode ==
  /\ ~cpu.waiting
  /\ cpu.wait < MaxWait \/ done
  /\ cpu' = IF done THEN cpu ELSE [cpu EXCEPT !.wait = @ + 1]
  /\ Clocked(NoPulse, filter.channel, FALSE)
  /\ UNCHANGED config

SetConfig ==
  /\ Issues("config") /\ Advance
  /\ config' = instruction
  /\ Clocked(NoPulse, filter.channel, FALSE)

SetParam ==
  /\ Issues("param") /\ Advance
  /\ Clocked([NoPulse EXCEPT !.param = instruction.channel], filter.channel, FALSE)
  /\ UNCHANGED config

SetFilter ==
  /\ Issues("filter") /\ Advance
  /\ Clocked(NoPulse, instruction.channel, FALSE)
  /\ UNCHANGED config

SetStart ==
  /\ Issues("start") /\ Advance
  /\ Clocked([NoPulse EXCEPT !.start = TRUE], filter.channel, FALSE)
  /\ UNCHANGED config

SetReset ==
  /\ Issues("reset") /\ Advance
  /\ Clocked([NoPulse EXCEPT !.reset = TRUE], filter.channel, FALSE)
  /\ UNCHANGED config

\* GetInstruction waits in WAIT_OUTPUT until there is a word.
GetWaits ==
  /\ Issues("get") \/ cpu.waiting
  /\ fifo.out = None
  /\ cpu' = [cpu EXCEPT !.waiting = TRUE]
  /\ Clocked(NoPulse, filter.channel, TRUE)
  /\ UNCHANGED config

GetOutput ==
  /\ Issues("get") \/ cpu.waiting
  /\ fifo.out # None
  /\ Advance
  /\ Clocked(NoPulse, filter.channel, TRUE)
  /\ UNCHANGED config

Next ==
  \/ OtherCode \/ SetConfig \/ SetParam \/ SetFilter \/ SetStart \/ SetReset
  \/ GetWaits \/ GetOutput

\* The clock runs; MaxWait bounds the time the CPU takes for anything else.
Spec == Init /\ [][Next]_vars /\ WF_vars(Next)

-----------------------------------------------------------------------------
(* Properties                                                              *)

\* The registers hold values of their types.
TypeOK ==
  /\ cpu.at.layer \in 1 .. Len(Layers) + 1 /\ cpu.wait \in 0 .. MaxWait
  /\ cpu.waiting \in BOOLEAN
  /\ ~done => cpu.at.step \in DOMAIN Instructions(Layers[cpu.at.layer], cpu.at.turn)
  /\ pulse.param \in Nat \cup {None} /\ {pulse.reset, pulse.start} \subseteq BOOLEAN
  /\ fetch.count < config.period /\ fetch.repeat \in Nat
  /\ filter.read_index < MaxDepth
  /\ \A i \in 1 .. 9 : last[i] \in Passes \cup {None}
  /\ reader.index \in (IF half_mode THEN {0, 1, 4, 5} ELSE 0 .. 7)
  /\ limiter.counter \in 0 .. config.values
  /\ params.addr < MaxDepth /\ params.repeat < 4 /\ Len(params.fifo.items) <= ProducerDepth - 1
  /\ owa.byte_count < 4 /\ owa.pixel_index < rows
  /\ \A i \in 0 .. 3 : Len(owa.shift[i]) = 3
  /\ Len(fifo.items) <= FifoDepth - 1

\* No result of the array is overwritten before it was read: the array and the
\* accumulators have no flow control (AccumulatorReader against MaccBlock).
NoResultLost ==
  limiter_running =>
    \A i \in 0 .. 7 : reader.flags[i] /\ Row(i) < rows => ~accumulator_new(i)

\* Parameters are there for every value that enters the pipeline, and the
\* producer never fetches one its queue has no room for (ReadingProducer,
\* PostProcessPipeline).
ParamsInTime ==
  /\ transferring => params.fifo.out # None
  /\ params.valid => w_rdy(params.fifo, ProducerDepth)

\* A word that is complete finds room in the output FIFO, although nothing tells
\* the array that the CPU is slow (OutputWordAssembler).
NoOverflow == word_done => w_rdy(fifo, FifoDepth)

\* When the accelerator is started, nothing of the previous start is left anywhere
\* between the fetchers and the output FIFO, however soon after the last word
\* the driver resets and starts it (AcceleratorCore, the drivers' loops).
StartsClean ==
  pulse.start =>
    /\ ~fetch.running /\ ~limiter_running /\ ~limiter.finished
    /\ last = Nones(9) /\ pipe = Nones(7)
    /\ reader = [ResetReader EXCEPT !.acc = reader.acc]
    /\ owa.byte_count = 0 /\ owa.pixel_index = 0
    /\ fifo = EmptyFifo

\* Every word the driver stores holds the four channels of the pixel it stores it
\* for, each computed with its own filter and post-process parameters.
OutputsRight ==
  [][got' # None /\ instruction.stored =>
       \A k \in 1 .. 4 :
         LET channel == instruction.channel + k - 1
         IN  got'[k] = [value |-> [pixel |-> instruction.pixel, channel |-> channel],
                        param |-> channel]]_vars

\* The driver gets every word it waits for and finishes its layers.
DriverFinishes == <>done
=============================================================================
