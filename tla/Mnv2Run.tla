------------------------------ MODULE Mnv2Run ------------------------------
(***************************************************************************)
(* The 1x1 convolution of proj/mnv2_first: the driver Mnv2ConvPerChannel1x1 *)
(* that loads pixels, starts runs and unloads outputs, and the gateware of  *)
(* mnv2_cfu.py that computes them: the Sequencer, the Madd4Pipeline, the    *)
(* Accumulator, the PostProcessor, the ByteToWordShifter and the output     *)
(* queue.  The input store is the queue of pixels that InputStore           *)
(* implements, with the cycle it takes to raise r_ready; the other stores   *)
(* are those of Mnv2Stores.                                                 *)
(*                                                                          *)
(* One action is one cycle.  A value in the data path is the term it was    *)
(* computed from, so a result is right only if every operand, filter word   *)
(* and parameter met the ones it belongs with.                              *)
(***************************************************************************)
EXTENDS Mnv2Stores, Sequences

CONSTANTS
  InputWords,   \* input_depth_words: words per pixel
  Channels,     \* output channels in a batch
  Pixels,       \* num_pixels
  Batches,      \* num_batches
  QueueDepth,   \* OUTPUT_QUEUE_DEPTH: 512 in the code
  Margin        \* free places that close the gate: 8 in the code

OutWords == Channels \div 4
FilterWords == InputWords * Channels

\* UnloadOutputValues reads words four at a time while more than two are left,
\* and then two if two are left.
Unloaded(num_words) ==
  4 * ((num_words + 1) \div 4) + IF num_words % 4 = 2 THEN 2 ELSE 0

\* conv.cc takes input depths that are multiples of eight, so the words of a pixel
\* are even and the filter words a multiple of the eight that are stored at a time.
ASSUME ConstantsAssumption ==
  /\ {InputWords, Channels, Pixels, Batches, QueueDepth, Margin} \subseteq Nat \ {0}
  /\ InputWords % 2 = 0
  /\ Channels % 4 = 0 /\ Channels <= ParamDepth /\ FilterWords <= 4 * FilterDepth
  /\ Margin < QueueDepth

VARIABLES
  driver,  \* step, batch, p, loaded pixels, and words moved in this step
           \* (of the kind being stored, in the steps that load parameters)
  ins,     \* the input store: pixels, words of the pixel being loaded, r_addr, r_ready
  seq,     \* the registers of Sequencer and GateCalculator, and start_run
  path,    \* the registers of the data path
  oq,      \* the output queue, and the register in front of it
  got      \* the word the last CFU_GET_OUTPUT returned

vars == <<driver, ins, seq, path, oq, got, store_vars>>

Delay(n) == [i \in 1 .. n |-> FALSE]

Init ==
  /\ driver = [step |-> "batch", batch |-> 0, p |-> 0, loaded |-> 0, k |-> 0]
  /\ ins = [pixels |-> <<>>, partial |-> 0, pos |-> 0, ready |-> FALSE]
  /\ seq = [start_run |-> FALSE, running |-> FALSE, f_count |-> 0, i_count |-> 0,
            four_count |-> 0, madd_delay |-> Delay(2), pp_delay |-> Delay(4)]
  /\ path = [madd |-> <<None, None>>, acc |-> <<>>,
             pp |-> <<None, None, None, None>>, btw |-> <<>>]
  /\ oq = [fifo |-> <<>>, out |-> None]
  /\ got = None
  /\ InitStores

-----------------------------------------------------------------------------
(* The wires of Sequencer.elab and GateCalculator.elab                     *)

w_level == Len(oq.fifo) + IF oq.out = None THEN 0 ELSE 1

\* Mutant: the gate does not look at the queue.
oq_has_space_ignored == TRUE

oq_has_space == w_level < QueueDepth - Margin

gate == (seq.running \/ seq.start_run) /\ ins.ready /\ oq_has_space
all_output_finished == gate /\ seq.f_count = filters.count - 1
madd_done == seq.madd_delay[2]
acc_done == madd_done /\ seq.i_count = InputWords - 1
pp_done == seq.pp_delay[4]
out_word_done == pp_done /\ seq.four_count = 3

\* Mutant: the counter starts again one count late.
Count_late(en, count, max) == IF ~en THEN count ELSE IF count = max THEN 0 ELSE count + 1

\* UpCounter
Count(en, count, max) == IF ~en THEN count ELSE IF count = max - 1 THEN 0 ELSE count + 1

\* Mutant: the run does not end when its last operands are taken.
still_running_endless == seq.running \/ seq.start_run

\* GateCalculator: the end of a run has priority over a start.
still_running == (seq.running \/ seq.start_run) /\ ~all_output_finished

Sequence(start_run) ==
  seq' = [start_run |-> start_run,
          running |-> still_running,
          f_count |-> Count(gate, seq.f_count, filters.count),
          i_count |-> Count(madd_done, seq.i_count, InputWords),
          four_count |-> Count(pp_done, seq.four_count, 4),
          madd_delay |-> <<gate, seq.madd_delay[1]>>,
          pp_delay |-> <<acc_done, seq.pp_delay[1], seq.pp_delay[2], seq.pp_delay[3]>>]

-----------------------------------------------------------------------------
(* The data path                                                           *)

Operands == IF ins.ready THEN <<Head(ins.pixels), ins.pos, f_data>> ELSE None

acc_result == Append(path.acc, path.madd[2])

btw_result ==
  LET bytes == Append(path.btw, path.pp[4])
  IN  IF Len(bytes) > 4 THEN Tail(bytes) ELSE bytes

\* Mutant: the accumulator is not cleared while another product arrives.
next_acc_uncleared ==
  IF acc_done /\ ~seq.madd_delay[1] THEN <<>> ELSE IF madd_done THEN acc_result ELSE path.acc

next_acc == IF acc_done THEN <<>> ELSE IF madd_done THEN acc_result ELSE path.acc

\* What a stage holds while its Delayer bit is low is of no use.
Compute ==
  path' = [madd |-> <<Operands, path.madd[1]>>,
           acc |-> next_acc,
           pp |-> <<IF acc_done THEN [acc |-> acc_result, param |-> param_data] ELSE None>>
                  \o SubSeq(path.pp, 1, 3),
           btw |-> IF pp_done THEN btw_result ELSE path.btw]

\* SyncFIFOBuffered: words pass through a register on their way out, and a word
\* written to a full queue is dropped.
Queue(r_en) ==
  LET moves == oq.fifo # <<>> /\ (oq.out = None \/ r_en)
      kept  == IF moves THEN Tail(oq.fifo) ELSE oq.fifo
  IN  oq' = [fifo |-> IF out_word_done /\ w_level < QueueDepth
                      THEN Append(kept, btw_result) ELSE kept,
             out |-> IF moves THEN Head(oq.fifo) ELSE IF r_en THEN None ELSE oq.out]

-----------------------------------------------------------------------------
(* The input store, as its reader and its writer see it                    *)

Input(store, pixel) ==
  LET complete == store /\ ins.partial = InputWords - 1
      kept     == IF all_output_finished THEN Tail(ins.pixels) ELSE ins.pixels
  IN  ins' = [pixels |-> IF complete THEN Append(kept, pixel) ELSE kept,
              partial |-> IF store THEN (ins.partial + 1) % InputWords ELSE ins.partial,
              pos |-> IF all_output_finished THEN 0
                      ELSE Count(gate, ins.pos, InputWords),
              ready |-> ins.pixels # <<>> /\ ~all_output_finished]

-----------------------------------------------------------------------------
(* The driver.  Clocked(command, value): a cycle with this command of the   *)
(* CPU.  A word that is stored is named by what it is: a parameter by batch *)
(* and channel, a filter word by batch and index, an input word by the      *)
(* pixel it belongs to.                                                     *)

Clocked(command, value) ==
  /\ restart' = (command = "set_output_batch_size")
  /\ ParamStores(command, value, acc_done)
  /\ FilterStore(command = "store_filter_values", value)
  /\ Fetch(command = "store_filter_values", gate)
  /\ Sequence(command = "start_run")
  /\ Compute
  /\ Queue(command = "get_output")
  /\ Input(command = "store_input", value)
  /\ got' = IF command = "get_output" THEN oq.out ELSE None

\* The CPU issues no command, or waits in CFU_GET_OUTPUT for a word.
NoCommand == Clocked("none", None) /\ UNCHANGED driver

SetOutputBatchSize ==
  /\ driver.step = "batch"
  /\ driver' = [driver EXCEPT !.step = "multiplier", !.p = 0, !.loaded = 0]
  /\ Clocked("set_output_batch_size", None)

\* Mutant: the first parameter is stored in the cycle after the batch size was set.
StoreParam_at_once ==
  /\ driver.step \in Kinds
  /\ Clocked(driver.step, <<driver.batch, driver.k>>)
  /\ driver' = IF driver.k < Channels - 1 THEN [driver EXCEPT !.k = @ + 1]
               ELSE [driver EXCEPT !.k = 0,
                       !.step = CASE @ = "multiplier" -> "shift"
                                  [] @ = "shift" -> "bias"
                                  [] @ = "bias" -> "filters"]

\* LoadOutputChannelWeights.  The CPU loads the first word from memory after it has
\* set the batch size, so it does not store it in the very next cycle.
StoreParam ==
  /\ driver.step \in Kinds /\ ~restart
  /\ Clocked(driver.step, <<driver.batch, driver.k>>)
  /\ driver' = IF driver.k < Channels - 1 THEN [driver EXCEPT !.k = @ + 1]
               ELSE [driver EXCEPT !.k = 0,
                       !.step = CASE @ = "multiplier" -> "shift"
                                  [] @ = "shift" -> "bias"
                                  [] @ = "bias" -> "filters"]

\* LoadFilterValues
StoreFilterValue ==
  /\ driver.step = "filters"
  /\ Clocked("store_filter_values", <<driver.batch, driver.k>>)
  /\ driver' = IF driver.k < FilterWords - 1 THEN [driver EXCEPT !.k = @ + 1]
               ELSE [driver EXCEPT !.k = 0, !.step = "load"]

\* Mutant: the driver loads every pixel before the first run.
LoadsBefore_eager(p) == Pixels

\* LoadInputValues is called twice before the first run, and not before the last.
LoadsBefore(p) == IF p + 2 < Pixels THEN p + 2 ELSE Pixels

StoreInput ==
  LET last == driver.k = InputWords - 1
  IN  /\ driver.step = "load"
      /\ Clocked("store_input", <<driver.batch, driver.loaded>>)
      /\ driver' = [driver EXCEPT
           !.k = IF last THEN 0 ELSE @ + 1,
           !.loaded = IF last THEN @ + 1 ELSE @,
           !.step = IF last /\ driver.loaded + 1 = LoadsBefore(driver.p)
                    THEN "run" ELSE "load"]

\* Mutant: the CPU's run instruction raises no start_run.
MaccRun_unset ==
  /\ driver.step = "run"
  /\ driver' = [driver EXCEPT !.step = "unload"]
  /\ Clocked("none", None)

MaccRun ==
  /\ driver.step = "run"
  /\ driver' = [driver EXCEPT !.step = "unload"]
  /\ Clocked("start_run", None)

AfterUnload ==
  IF driver.p < Pixels - 1
  THEN [driver EXCEPT !.k = 0, !.p = @ + 1,
          !.step = IF driver.loaded = LoadsBefore(driver.p + 1) THEN "run" ELSE "load"]
  ELSE [driver EXCEPT !.k = 0, !.batch = @ + 1,
          !.step = IF driver.batch < Batches - 1 THEN "batch" ELSE "done"]

\* Mutant: the driver stops one word early.
GetOutput_one_short ==
  /\ driver.step = "unload"
  /\ oq.out # None
  /\ driver' = IF driver.k < Unloaded(OutWords) - 2 THEN [driver EXCEPT !.k = @ + 1]
               ELSE AfterUnload
  /\ Clocked("get_output", None)

\* NextWordGetter: the instruction is done in the cycle in which a word is there.
GetOutput ==
  /\ driver.step = "unload"
  /\ oq.out # None
  /\ driver' = IF driver.k < Unloaded(OutWords) - 1 THEN [driver EXCEPT !.k = @ + 1]
               ELSE AfterUnload
  /\ Clocked("get_output", None)

Command ==
  \/ SetOutputBatchSize \/ StoreParam \/ StoreFilterValue
  \/ StoreInput \/ MaccRun \/ GetOutput

Next == Command \/ NoCommand

\* The clock runs, and the CPU goes on with its program.
Spec == Init /\ [][Next]_vars /\ WF_vars(Next) /\ WF_vars(Command)

-----------------------------------------------------------------------------
(* Properties                                                              *)

PixelIds == (0 .. Batches - 1) \X (0 .. Pixels - 1)

\* The registers hold values of their types.
TypeOK ==
  /\ driver \in [step : {"batch", "filters", "load", "run", "unload", "done"} \cup Kinds,
                 batch : 0 .. Batches, p : 0 .. Pixels - 1, loaded : 0 .. Pixels, k : Nat]
  /\ ins \in [pixels : UNION {[1 .. n -> PixelIds] : n \in 0 .. 2},
              partial : 0 .. InputWords - 1, pos : 0 .. InputWords - 1, ready : BOOLEAN]
  /\ seq \in [start_run : BOOLEAN, running : BOOLEAN, f_count : 0 .. FilterWords - 1,
              i_count : 0 .. InputWords - 1, four_count : 0 .. 3,
              madd_delay : [1 .. 2 -> BOOLEAN], pp_delay : [1 .. 4 -> BOOLEAN]]
  /\ \A k \in Kinds : params[k].count \in 0 .. Channels /\ params[k].last_addr \in 0 .. Channels - 1
  /\ filters.count \in 0 .. FilterWords /\ fvf.bank \in BankIds
  /\ \A n \in BankIds : fvf.smr[n].last_mem_addr \in 0 .. FilterDepth - 1
  /\ Len(path.acc) < InputWords /\ Len(path.btw) <= 4
  /\ w_level <= QueueDepth

\* Result(pixel, c): channel c of a pixel, from every word of the pixel, the
\* filter words of that channel and that channel's multiplier, shift and bias, all
\* of the pixel's own batch.
Result(pixel, c) ==
  [acc |-> [i \in 1 .. InputWords |-> <<pixel, i - 1, <<pixel[1], c * InputWords + i - 1>>>>],
   param |-> [k \in Kinds |-> <<pixel[1], c>>]]
OutWord(pixel, n) == [i \in 1 .. 4 |-> Result(pixel, 4 * n + i - 1)]

\* An empty register is not mistaken for a word.
ASSUME NoneAssumption ==
  None \notin {OutWord(pixel, n) : pixel \in PixelIds, n \in 0 .. OutWords - 1}

\* Every CFU_GET_OUTPUT of UnloadOutputValues returns the word of the pixel and
\* the channels the driver stores it for, however the pipeline was gated and
\* wherever runs, loads and reads of the queue met (Sequencer, Delayer lengths).
OutputsRight ==
  [][GetOutput => got' = OutWord(<<driver.batch, driver.p>>, driver.k)]_vars

\* CircularIncrementer's doc (store.py:102-112) calls depth the "Maximum number
\* of items stored in memory" and limit the "Number of items stored in memory":
\* for every batch the memory can hold, the channels' parameters come in turn.
ParamsInTurn ==
  [][acc_done => \A k \in Kinds :
       params'[k].last_addr = (params[k].last_addr + 1) % params[k].count]_vars

\* No word is written to a full output queue: the margin covers the whole
\* pipeline behind a closed gate (mnv2_cfu.py, oq_has_space).
NoOverflow == out_word_done => w_level < QueueDepth

\* A run is started only after the previous one ended, so GateCalculator merges
\* no two of them.
RunsApart == seq.start_run => ~seq.running

\* The driver stores a word only when a buffer is free: it never depends on
\* InputStoreSetter stalling.
LoadsNeverStall == driver.step = "load" => Len(ins.pixels) < 2

\* The stores are restarted only when no operand is in the pipeline and the
\* output queue is empty.
BatchesApart ==
  driver.step = "batch" =>
    /\ ins.pixels = <<>> /\ ~seq.running /\ w_level = 0
    /\ \A i \in 1 .. 2 : ~seq.madd_delay[i]
    /\ \A i \in 1 .. 4 : ~seq.pp_delay[i]

\* mnv2_conv.cc:41-42 says that a layer that exceeds the stores is broken "into
\* batches"; each is computed to its end: no CFU_GET_OUTPUT waits for ever.
LayerFinishes == <>(driver.step = "done")
=============================================================================
