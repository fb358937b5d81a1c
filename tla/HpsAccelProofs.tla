--------------------------- MODULE HpsAccelProofs ---------------------------
(***************************************************************************)
(* Theorems about HpsAccel, for every sequence of layers that the driver   *)
(* accelerates, every depth of the memories and the FIFO, and a CPU that   *)
(* takes any number of cycles, up to any MaxWait, between instructions.    *)
(*                                                                         *)
(* What is between the fetchers and the output FIFO at some moment was     *)
(* determined up to fourteen cycles earlier.  The invariant says what it   *)
(* is in terms of two histories: how many passes had ended, and how many   *)
(* results had entered the pipeline, each so many cycles ago (UnderWay).   *)
(* A cycle shifts the histories and appends to them: there is one lemma    *)
(* per component, and UnderWayStep for all of them together.  DriverOK     *)
(* says at which instruction of its turn the driver is and what the        *)
(* machine does then; there is one lemma per phase of a turn (the Cycle    *)
(* lemmas), and InvariantStep for all of them.                             *)
(***************************************************************************)
EXTENDS HpsAccel, SequenceTheorems, TLAPS

-----------------------------------------------------------------------------
(* What is under way between the fetchers and the output FIFO, in terms of *)
(* two histories: p[k], the passes that had ended k cycles ago, and s[k],  *)
(* the results that had entered the post-process pipeline k cycles ago.    *)

PassCounts == [0 .. 14 -> Nat]
ValueCounts == [0 .. 12 -> Nat]

\* The configuration of a start: whole passes, and filters that fit.
ConfigOK ==
  /\ config.mode \in 0 .. 1 /\ config.base \in Nat /\ filter.channel \in Nat
  /\ config.channels \in Nat \ {0} /\ config.channels % 4 = 0
  /\ config.period \in Nat /\ config.period % 4 = 0 /\ config.period >= 2 * rows
  /\ num_filter_words <= MaxDepth /\ config.channels <= MaxDepth
  /\ config.values \in Nat \ {0} /\ config.values % (2 * rows) = 0

\* A pass ended in the k-th cycle before this one.
Ended(p, k) == p[k - 1] # p[k]

\* Accumulator i has its result Latency(i) cycles after accumulator 0, and is read
\* Place(i) cycles after it; Order is the inverse of Place.
Latency(i) == Row(i) + Column(i)
Place(i) == IF half_mode THEN Row(i) + 2 * Column(i) ELSE i
Order(j) == IF half_mode THEN (j % 2) + 4 * (j \div 2) ELSE j
UsedAccumulators == {i \in 0 .. 7 : Row(i) < rows}

\* The n-th pass, result, item of the pipeline and word since the start.
PassAt(n) ==
  [pixel   |-> config.base + rows * (n \div num_repeats),
   channel |-> filter.channel + 2 * (n % num_repeats)]

ParamAt(first, n) == first + ((n \div rows) % config.channels)
ChannelAt(n) == ParamAt(filter.channel, n)

ResultAt(n) ==
  [pixel   |-> config.base + rows * (n \div (rows * config.channels)) + (n % rows),
   channel |-> ChannelAt(n)]

ItemAt(n) == [value |-> ResultAt(n), param |-> ChannelAt(n)]

WordAt(q) ==
  [b \in 1 .. 4 |-> ItemAt(4 * rows * (q \div rows) + rows * (b - 1) + (q % rows))]

\* The words that n items complete.
WordsOf(n) ==
  rows * (n \div (4 * rows))
    + (IF n % (4 * rows) > 3 * rows THEN (n % (4 * rows)) - 3 * rows ELSE 0)

CountsOK(p, s) ==
  /\ p \in PassCounts /\ s \in ValueCounts
  /\ \A k \in 1 .. 14 : p[k] <= p[k - 1] /\ p[k - 1] <= p[k] + 1
  /\ \A k \in 1 .. 12 : s[k] <= s[k - 1] /\ s[k - 1] <= s[k] + 1
  /\ s[0] <= config.values

\* A pass ends every config.period cycles, a multiple of four.
FetchOK(p) ==
  /\ fetch.running \in BOOLEAN /\ fetch.count \in 0 .. config.period - 1
  /\ ~fetch.running => fetch.count = 0
  /\ fetch.running =>
       /\ fetch.repeat = p[0] % num_repeats
       /\ fetch.pixel = config.base + rows * (p[0] \div num_repeats)
       /\ filter.running
       /\ filter.read_index = fetch.repeat * config.period + fetch.count
       /\ \A k \in 1 .. 14 : Ended(p, k) => k > fetch.count /\ k % 4 = (fetch.count + 1) % 4
  /\ \A j \in 1 .. 14, k \in 1 .. 14 : Ended(p, j) /\ Ended(p, k) /\ j < k => k - j >= 2 * rows

ArrayOK(p) ==
  last = [k \in 1 .. 9 |-> IF Ended(p, k) THEN PassAt(p[k]) ELSE None]

\* AccumulatorReader reads a result of a pass in each of 2 * rows cycles.
ReaderOK(p) ==
  /\ \A j \in 1 .. 2 * rows - 1 : Ended(p, 5 + j) => reader.index = Order(j)
  /\ (\A j \in 1 .. 2 * rows - 1 : ~Ended(p, 5 + j)) => reader.index = 0
  /\ \A i \in UsedAccumulators :
       reader.flags[i] <=> \E d \in Latency(i) + 1 .. Place(i) : Ended(p, 5 + d)
  /\ \A i \in UsedAccumulators, d \in 0 .. 7 :
       d \in Latency(i) .. Place(i) /\ Ended(p, 5 + d) => reader.acc[i] = PassAt(p[5 + d])

\* The result in the output register of AccumulatorReader is the next one to enter
\* the pipeline, until the last one has.
OutputOK(p, s) ==
  s[0] # config.values =>
    /\ \A j \in 0 .. 2 * rows - 1 :
         Ended(p, 6 + j) => s[0] = 2 * rows * p[6 + j] + j /\ reader.out = ResultAt(s[0])
    /\ (\A j \in 0 .. 2 * rows - 1 : ~Ended(p, 6 + j)) =>
         s[0] = 2 * rows * p[6] /\ reader.out = None

\* StreamLimiter stops the fetcher after the last result, before another pass ends.
LimiterOK(p, s) ==
  /\ limiter.counter = config.values - s[0]
  /\ limiter.finished <=> s[0] = config.values /\ s[1] # config.values
  /\ limiter.finished => Ended(p, 6 + 2 * rows)
  /\ fetch.running => s[1] # config.values
  /\ \A k \in 1 .. 13 : Ended(p, k) => s[k - 1] # config.values

PipeOK(s) ==
  pipe = [k \in 1 .. 7 |-> IF s[k - 1] = s[k] THEN None ELSE ItemAt(s[k])]

\* Of the bytes of the current group of words, those of pixel x that have arrived
\* are the last ones in its shift register.
AssemblerOK(n) ==
  /\ owa.pixel_index = n % rows /\ owa.byte_count = (n \div rows) % 4
  /\ owa.last_pixel_index = rows - 1
  /\ \A x \in 0 .. rows - 1 :
       LET arrived == owa.byte_count + (IF x < owa.pixel_index THEN 1 ELSE 0)
       IN  \A b \in 0 .. 2 : b < arrived /\ arrived <= 3 =>
             owa.shift[x][4 - arrived + b] =
               ItemAt(4 * rows * (n \div (4 * rows)) + rows * b + x)

ShiftsOK == owa.shift \in [0 .. 3 -> [1 .. 3 -> Items \cup {None}]]

FifoTyped ==
  /\ fifo \in [items : Seq([1 .. 4 -> Items]), out : [1 .. 4 -> Items] \cup {None}]
  /\ Len(fifo.items) <= FifoDepth - 1

\* The words the CPU has not taken yet; taken counts those it has.
QueueOK(s, taken) ==
  /\ taken + Len(FifoContents(fifo)) <= WordsOf(s[7])
  /\ taken + Len(Held(fifo.out)) <= WordsOf(s[8])
  /\ taken + Len(FifoContents(fifo)) = WordsOf(s[7]) =>
       \A i \in 1 .. Len(FifoContents(fifo)) : FifoContents(fifo)[i] = WordAt(taken + i - 1)

-----------------------------------------------------------------------------
(* Post-process parameters.  The n-th parameter is that of the n-th        *)
(* result, taken modulo the results of a block of pixels.                  *)

\* The parameters of the channels from first on are stored, and the producer has
\* made so many places of its queue of three ready for the n-th and the next ones.
ParamsAt(first, n, fill) ==
  /\ params.count = config.channels /\ params.repeats = rows
  /\ \A a \in 0 .. config.channels - 1 : params.mem[a] = first + a
  /\ params.addr = ((n + fill) \div rows) % config.channels
  /\ params.repeat = (n + fill) % rows
  /\ \/ fill = 0 /\ params.fifo = EmptyFifo /\ ~params.valid
     \/ fill = 1 /\ params.fifo = EmptyFifo /\ params.valid /\ params.data = ParamAt(first, n)
     \/ /\ fill = 2 /\ params.fifo = [items |-> <<ParamAt(first, n)>>, out |-> None]
        /\ params.valid /\ params.data = ParamAt(first, n + 1)
     \/ /\ fill = 3
        /\ params.fifo = [items |-> <<ParamAt(first, n + 1)>>, out |-> ParamAt(first, n)]
        /\ params.valid /\ params.data = ParamAt(first, n + 2)
     \/ /\ fill = 3 /\ ~params.valid
        /\ params.fifo = [items |-> <<ParamAt(first, n + 1), ParamAt(first, n + 2)>>,
                          out |-> ParamAt(first, n)]

\* Whatever was stored and taken, the queue has room for what is being read.
ParamQueueOK ==
  IF params.fifo.out # None
  THEN Len(params.fifo.items) = IF params.valid THEN 1 ELSE 2
  ELSE Len(params.fifo.items) = 0 \/ (Len(params.fifo.items) = 1 /\ params.valid)

-----------------------------------------------------------------------------
(* The machine between two starts.                                         *)

\* Nothing is under way.
Quiet ==
  /\ ~fetch.running /\ fetch.count = 0
  /\ limiter.counter = 0 /\ ~limiter.finished
  /\ last = Nones(9) /\ pipe = Nones(7)
  /\ reader.index = 0 /\ ~reader.flags[0]
  /\ owa.byte_count = 0 /\ owa.pixel_index = 0
  /\ fifo = EmptyFifo

Clean == Quiet /\ reader = [ResetReader EXCEPT !.acc = reader.acc]

UnderWay(p, s, taken) ==
  /\ ConfigOK /\ CountsOK(p, s) /\ FetchOK(p) /\ ArrayOK(p) /\ ReaderOK(p) /\ OutputOK(p, s)
  /\ LimiterOK(p, s) /\ PipeOK(s) /\ AssemblerOK(s[7]) /\ QueueOK(s, taken)
  /\ ParamsAt(filter.channel, s[0], 3)

\* The words that found the output FIFO full; losses is {0} or Nat.
Lost(s, taken) == WordsOf(s[7]) - (taken + Len(FifoContents(fifo)))

Running(taken, losses) ==
  \E p \in PassCounts, s \in ValueCounts :
    UnderWay(p, s, taken) /\ Lost(s, taken) \in losses

\* The CPU took the last word so many cycles ago.
Drains(cycles) ==
  \E p \in PassCounts, s \in ValueCounts, taken \in Nat :
    /\ UnderWay(p, s, taken) /\ taken = WordsOf(config.values)
    /\ config.values % (rows * config.channels) = 0
    /\ s[9 + (IF cycles < 2 THEN cycles ELSE 2)] = config.values

-----------------------------------------------------------------------------
(* A turn of the driver.                                                   *)

\* What LayersAssumption says of a layer.
LayerOK(layer) ==
  /\ {layer.height, layer.width, layer.channels} \subseteq Nat \ {0}
  /\ layer.channels % 4 = 0
  /\ \/ layer.mode = 0 /\ 2 * layer.channels <= MaxDepth
     \/ /\ layer.mode = 1
        /\ {layer.tranche, layer.period} \subseteq Nat \ {0}
        /\ layer.tranche % 4 = 0
        /\ layer.period % 4 = 0 /\ layer.period >= 8
        /\ layer.tranche * layer.period <= 2 * MaxDepth

\* The turns that load the parameters and filters of Channels channels from First on,
\* and those that start the accelerator.
Loads(layer, turn) == layer.mode = 1 \/ turn = 1
Starts(layer, turn) == layer.mode = 1 \/ turn # 1

First(layer, turn) == IF layer.mode = 0 THEN 0 ELSE (turn - 1) * layer.tranche
Channels(layer, turn) ==
  IF layer.mode = 0 \/ layer.channels - First(layer, turn) < layer.tranche
  THEN layer.channels - First(layer, turn) ELSE layer.tranche

FirstRow(layer, turn) == (turn - 2) * max_rows
Pixels(layer, turn) ==
  IF layer.mode = 1 THEN layer.height * layer.width
  ELSE (IF layer.height - FirstRow(layer, turn) < max_rows
        THEN layer.height - FirstRow(layer, turn) ELSE max_rows) * layer.width
Base(layer, turn) ==
  IF layer.mode = 1 \/ turn = 1 THEN 0 ELSE FirstRow(layer, turn) * layer.width
Values(layer, turn) ==
  IF layer.mode = 1 THEN RoundedUp(Pixels(layer, turn)) * Channels(layer, turn)
  ELSE IF turn = 1 THEN 0 ELSE Pixels(layer, turn) * Channels(layer, turn)
Period(layer) == IF layer.mode = 1 THEN layer.period ELSE 4

Group(layer) == IF layer.mode = 1 THEN 4 ELSE 2
WordsPerGroup(layer, turn) == (Channels(layer, turn) \div 4) * Group(layer)
Words(layer, turn) ==
  WordsPerGroup(layer, turn) * ((Pixels(layer, turn) + Group(layer) - 1) \div Group(layer))

\* Its instructions: the configuration; the reset, the parameters and the filters if it
\* loads them; the start and the words if it starts, in mode 0 with a reset after them.
StartStep(layer, turn) == IF layer.mode = 1 THEN 4 + Channels(layer, turn) ELSE 2

\* The k-th word of a turn.
WordGot(layer, turn, k) ==
  LET words == WordsPerGroup(layer, turn)
      pixel == Group(layer) * ((k - 1) \div words) + ((k - 1) % Group(layer))
      group == ((k - 1) % words) \div Group(layer)
  IN  Get(Base(layer, turn) + pixel, First(layer, turn) + 4 * group,
          pixel < Pixels(layer, turn))

-----------------------------------------------------------------------------
(* Where the driver is in it.                                              *)

step == cpu.at.step

Configured(layer, turn) == config = Instructions(layer, turn)[1]

\* The first n parameters of the turn are in the memory.
Stored(first, n) ==
  /\ params.mem_addr = n
  /\ \A a \in 0 .. n - 1 : params.mem[a] = first + a
  /\ n > 0 => params.count = config.channels /\ params.repeats = rows

Resting ==
  /\ ~pulse.start /\ pulse.param = None
  /\ \/ Quiet /\ (pulse.reset => cpu.wait = 0)
     \/ ~pulse.reset /\ Drains(cpu.wait)

Loading(layer, turn) ==
  LET first == First(layer, turn)
  IN  /\ Loads(layer, turn) /\ step \in 2 .. 3 + Channels(layer, turn)
      /\ Configured(layer, turn) /\ ~pulse.start
      /\ IF step = 2 THEN pulse = NoPulse /\ Quiet
         ELSE IF step = 3 /\ cpu.wait = 0 THEN pulse = [NoPulse EXCEPT !.reset = TRUE] /\ Quiet
         ELSE /\ Clean
              /\ IF cpu.wait = 0
                 THEN pulse = [NoPulse EXCEPT !.param = first + step - 4] /\ Stored(first, step - 4)
                 ELSE pulse = NoPulse /\ Stored(first, step - 3)
      /\ step = 3 + Channels(layer, turn) /\ cpu.wait > 0 =>
           \E fill \in 0 .. 3 : ParamsAt(first, 0, fill)

\* Loaded, and not started yet.
Ready(layer, turn) ==
  LET first == First(layer, turn)
  IN  /\ ~pulse.start /\ pulse.param = None /\ filter.channel = first
      /\ IF layer.mode = 1 THEN step = 4 + Channels(layer, turn) /\ Configured(layer, turn)
         ELSE /\ turn > 1 /\ step \in 1 .. 2
              /\ config.mode = 0 /\ config.channels = Channels(layer, turn)
              /\ step = 2 => Configured(layer, turn)
      /\ IF pulse.reset THEN layer.mode = 0 /\ step = 1 /\ cpu.wait = 0 /\ Quiet ELSE Clean
      /\ \E fill \in 1 .. 3 :
           /\ ParamsAt(first, 0, fill)
           /\ (layer.mode = 0 /\ step = 2) \/ cpu.wait >= 2 => fill = 3
           /\ cpu.wait >= 1 => fill >= 2

Started(layer, turn) ==
  /\ Starts(layer, turn) /\ step = StartStep(layer, turn) + 1 /\ cpu.wait = 0
  /\ pulse = [NoPulse EXCEPT !.start = TRUE]
  /\ Configured(layer, turn) /\ Clean /\ filter.channel = First(layer, turn)
  /\ ParamsAt(First(layer, turn), 0, 3)

Collecting(layer, turn, losses) ==
  LET taken == step - StartStep(layer, turn) - 1
  IN  /\ Starts(layer, turn) /\ taken \in 0 .. Words(layer, turn)
      /\ taken = 0 => cpu.wait > 0
      /\ pulse = NoPulse /\ Configured(layer, turn) /\ filter.channel = First(layer, turn)
      /\ IF taken < Words(layer, turn) THEN Running(taken, losses)
         ELSE layer.mode = 0 /\ Drains(cpu.wait)

InTurn(layer, turn, losses) ==
  /\ turn \in 1 .. Turns(layer)
  /\ \/ Loads(layer, turn) /\ step = 1 /\ Resting
     \/ Loading(layer, turn)
     \/ Ready(layer, turn)
     \/ Started(layer, turn)
     \/ Collecting(layer, turn, losses)

DriverOK(losses) ==
  \/ done /\ Resting
  \/ ~done /\ InTurn(Layers[cpu.at.layer], cpu.at.turn, losses)

CpuOK ==
  /\ cpu \in [at : [layer : Nat, turn : Nat, step : Nat], wait : 0 .. MaxWait,
              waiting : BOOLEAN]
  /\ cpu.at.layer \in 1 .. Len(Layers) + 1
  /\ cpu.waiting => ~done /\ instruction.op = "get" /\ cpu.wait > 0

-----------------------------------------------------------------------------
(* Types that no other part of the invariant gives.                        *)

ParamsTyped ==
  /\ params.mem \in [0 .. MaxDepth - 1 -> Nat \cup {None}]
  /\ params.mem_addr \in 0 .. MaxDepth - 1 /\ params.addr \in 0 .. MaxDepth - 1
  /\ params.repeat \in 0 .. 3
  /\ params.valid \in BOOLEAN /\ params.data \in Nat \cup {None}
  /\ params.fifo \in [items : Seq(Nat \cup {None}), out : Nat \cup {None}]

RegistersTyped ==
  /\ pulse \in [reset : BOOLEAN, start : BOOLEAN, param : Nat \cup {None}]
  /\ config \in [op : {"config"}, mode : 0 .. 1, base : Nat, values : Nat, channels : Nat,
                 period : Nat \ {0}]
  /\ fetch.repeat \in Nat /\ filter.read_index \in 0 .. MaxDepth - 1

IInv(losses) ==
  /\ CpuOK /\ RegistersTyped /\ ParamsTyped /\ ParamQueueOK /\ ShiftsOK /\ FifoTyped
  /\ DriverOK(losses)

-----------------------------------------------------------------------------
(* Numbers.                                                                *)
\* Quotient and remainder.
LEMMA Division ==
  ASSUME NEW m \in Nat, NEW n \in Nat \ {0}
  PROVE  /\ m \div n \in Nat /\ m % n \in 0 .. n - 1
         /\ m = n * (m \div n) + (m % n)
  BY Z3

\* A quotient and remainder are the only ones.
LEMMA Quotient ==
  ASSUME NEW n \in Nat \ {0}, NEW q \in Nat, NEW r \in 0 .. n - 1
  PROVE  (n * q + r) \div n = q /\ (n * q + r) % n = r
<1> DEFINE m == n * q + r
           p == m \div n
           s == m % n
<1>1. m \in Nat
  BY SMT
<1>2. p \in Nat /\ s \in 0 .. n - 1 /\ m = n * p + s
  BY <1>1, Division
<1> HIDE DEF p, s
<1>3. p = q
  <2>1. ~(p < q)
    <3>1. SUFFICES ASSUME p < q PROVE FALSE
      OBVIOUS
    <3>2. n * p + n <= n * q
      BY <1>2, <3>1, SMT
    <3> QED
      BY <1>2, <3>2, SMT
  <2>2. ~(q < p)
    <3>1. SUFFICES ASSUME q < p PROVE FALSE
      OBVIOUS
    <3>2. n * q + n <= n * p
      BY <1>2, <3>1, SMT
    <3> QED
      BY <1>2, <3>2, SMT
  <2> QED
    BY <1>2, <2>1, <2>2, SMT
<1> QED
  BY <1>2, <1>3, SMT DEF p, s

\* The quotient and remainder of the next number.
LEMMA NextQuotient ==
  ASSUME NEW m \in Nat, NEW n \in Nat \ {0}
  PROVE  /\ m % n # n - 1 => (m + 1) \div n = m \div n /\ (m + 1) % n = (m % n) + 1
         /\ m % n = n - 1 => (m + 1) \div n = (m \div n) + 1 /\ (m + 1) % n = 0
<1> DEFINE q == m \div n
           r == m % n
<1>1. q \in Nat /\ r \in 0 .. n - 1 /\ m = n * q + r
  BY Division
<1> HIDE DEF q, r
<1>2. CASE r # n - 1
  <2>1. r + 1 \in 0 .. n - 1 /\ m + 1 = n * q + (r + 1)
    BY <1>1, <1>2, SMT
  <2>2. (m + 1) \div n = q /\ (m + 1) % n = r + 1
    BY <1>1, <2>1, Quotient
  <2> QED
    BY <1>2, <2>2 DEF q, r
<1>3. CASE r = n - 1
  <2>1. q + 1 \in Nat /\ 0 \in 0 .. n - 1 /\ m + 1 = n * (q + 1) + 0
    BY <1>1, <1>3, SMT
  <2>2. (n * (q + 1) + 0) \div n = q + 1 /\ (n * (q + 1) + 0) % n = 0
    BY <2>1, Quotient
  <2>3. (m + 1) \div n = q + 1 /\ (m + 1) % n = 0
    BY <2>1, <2>2
  <2> QED
    BY <1>1, <1>3, <2>3, SMT DEF q, r
<1> QED
  BY <1>2, <1>3

\* A small number is its own remainder.
LEMMA Remainder ==
  ASSUME NEW n \in Nat \ {0}, NEW r \in 0 .. n - 1
  PROVE  r \div n = 0 /\ r % n = r
<1>1. 0 \in Nat /\ n * 0 + r = r
  BY SMT
<1>2. (n * 0 + r) \div n = 0 /\ (n * 0 + r) % n = r
  BY <1>1, Quotient
<1> QED
  BY <1>1, <1>2

-----------------------------------------------------------------------------
(* A cycle between the start and the reset: the CPU takes a word or not,   *)
(* and a moment of the histories passes.                                   *)

NextPasses(p) ==
  [k \in 0 .. 14 |-> IF k > 0 THEN p[k - 1] ELSE IF fetch_last THEN p[0] + 1 ELSE p[0]]

NextValues(s) ==
  [k \in 0 .. 12 |-> IF k > 0 THEN s[k - 1] ELSE IF transferring THEN s[0] + 1 ELSE s[0]]

Goes(r_en) ==
  /\ pulse = NoPulse /\ UNCHANGED config
  /\ Clocked(NoPulse, filter.channel, r_en)

\* What the configuration of a start says of a pass.
LEMMA Widths ==
  ASSUME ConfigOK
  PROVE  /\ rows \in {2, 4} /\ (rows = 2 <=> half_mode)
         /\ num_repeats \in Nat \ {0} /\ config.channels = 2 * num_repeats
         /\ num_repeats % 2 = 0
         /\ config.period \in Nat /\ config.period >= 2 * rows /\ config.period % 4 = 0
  BY DEF ConfigOK, rows, half_mode, num_repeats

\* What the configuration and the first channel determine stays while they do.
LEMMA Constant ==
  ASSUME config' = config, filter'.channel = filter.channel
  PROVE  /\ half_mode' = half_mode /\ rows' = rows /\ num_repeats' = num_repeats
         /\ num_filter_words' = num_filter_words
         /\ ConfigOK' = ConfigOK
         /\ UsedAccumulators' = UsedAccumulators
         /\ \A n : PassAt(n)' = PassAt(n) /\ ResultAt(n)' = ResultAt(n)
         /\ \A n : ItemAt(n)' = ItemAt(n) /\ WordAt(n)' = WordAt(n) /\ WordsOf(n)' = WordsOf(n)
         /\ \A i : Place(i)' = Place(i) /\ Order(i)' = Order(i)
<1>1. half_mode' = half_mode /\ rows' = rows /\ num_repeats' = num_repeats
  BY DEF half_mode, rows, num_repeats
<1>2. num_filter_words' = num_filter_words
  BY <1>1 DEF num_filter_words
<1>3. ConfigOK' = ConfigOK
  BY <1>1, <1>2 DEF ConfigOK
<1>4. UsedAccumulators' = UsedAccumulators
  BY <1>1 DEF UsedAccumulators
<1>5. \A n : ChannelAt(n)' = ChannelAt(n)
  BY <1>1 DEF ChannelAt, ParamAt
<1>6. \A n : PassAt(n)' = PassAt(n) /\ ResultAt(n)' = ResultAt(n)
  BY <1>1, <1>5 DEF PassAt, ResultAt
<1>7. \A n : ItemAt(n)' = ItemAt(n)
  BY <1>5, <1>6 DEF ItemAt
<1>8. \A n : WordAt(n)' = WordAt(n)
  BY <1>1, <1>7 DEF WordAt
<1>9. \A n : WordsOf(n)' = WordsOf(n)
  BY <1>1 DEF WordsOf
<1>10. \A i : Place(i)' = Place(i) /\ Order(i)' = Order(i)
  BY <1>1 DEF Place, Order
<1> QED
  BY <1>1, <1>2, <1>3, <1>4, <1>6, <1>7, <1>8, <1>9, <1>10

\* Both stay in a cycle without a set instruction.
LEMMA GoesConstant ==
  ASSUME NEW r_en, Goes(r_en)
  PROVE  config' = config /\ filter'.channel = filter.channel
  BY DEF Goes, Clocked, Filter

\* The histories go on as histories of counts.
LEMMA CountsStep ==
  ASSUME NEW p, NEW s, NEW q, NEW u, q = NextPasses(p), u = NextValues(s),
         NEW r_en, Goes(r_en), ConfigOK, CountsOK(p, s), LimiterOK(p, s)
  PROVE  CountsOK(q, u)'
<1> USE DEF CountsOK, PassCounts, ValueCounts
<1>1. transferring => s[0] < config.values
  BY DEF transferring, limiter_running, LimiterOK, ConfigOK
<1>2. q \in PassCounts /\ u \in ValueCounts
  BY DEF NextPasses, NextValues
<1>3. ASSUME NEW k \in 1 .. 14 PROVE q[k] <= q[k - 1] /\ q[k - 1] <= q[k] + 1
  <2>1. CASE k = 1
    BY <2>1 DEF NextPasses
  <2>2. CASE k # 1
    <3>1. k - 1 \in 1 .. 14
      BY <2>2
    <3> QED
      BY <3>1 DEF NextPasses
  <2> QED
    BY <2>1, <2>2
<1>4. ASSUME NEW k \in 1 .. 12 PROVE u[k] <= u[k - 1] /\ u[k - 1] <= u[k] + 1
  <2>1. CASE k = 1
    BY <2>1 DEF NextValues
  <2>2. CASE k # 1
    <3>1. k - 1 \in 1 .. 12
      BY <2>2
    <3> QED
      BY <3>1 DEF NextValues
  <2> QED
    BY <2>1, <2>2
<1>5. u[0] <= config'.values
  BY <1>1, GoesConstant DEF NextValues, ConfigOK
<1> QED
  BY <1>2, <1>3, <1>4, <1>5

-----------------------------------------------------------------------------
(* The fetchers, the filter store and the array.                           *)

\* The passes of the next history ended a cycle earlier.
LEMMA EndedNext ==
  ASSUME NEW p, NEW q, p \in PassCounts, q = NextPasses(p)
  PROVE  /\ q[0] = IF fetch_last THEN p[0] + 1 ELSE p[0]
         /\ \A k \in 1 .. 14 : q[k] = p[k - 1]
         /\ Ended(q, 1) <=> fetch_last
         /\ \A k \in 2 .. 14 : Ended(q, k) <=> Ended(p, k - 1)
  BY DEF PassCounts, NextPasses, Ended

\* Where the filter store is while the fetcher runs.
LEMMA ReadIndex ==
  ASSUME NEW n \in Nat \ {0}, NEW m \in Nat \ {0}, NEW d \in 0 .. n - 1, NEW c \in 0 .. m - 1
  PROVE  /\ d * m + c \in 0 .. n * m - 1
         /\ d * m + c = n * m - 1 <=> d = n - 1 /\ c = m - 1
         /\ (d * m + c) \div m = d /\ (d * m + c) % m = c
         /\ d * m + m = (d + 1) * m
<1>1. d * m = m * d /\ d * m \in Nat /\ n * m = m * n
  BY SMT
<1>2. (m * d + c) \div m = d /\ (m * d + c) % m = c
  BY Quotient
<1>3. d * m + m = (d + 1) * m
  BY SMT
<1>4. CASE d = n - 1
  <2>1. (d + 1) * m = n * m
    BY <1>4
  <2> QED
    BY <1>1, <1>2, <1>3, <1>4, <2>1, SMT
<1>5. CASE d # n - 1
  <2>1. d + 1 \in Nat /\ d + 2 <= n
    BY <1>5
  <2>2. (d + 2) * m <= n * m /\ (d + 2) * m = d * m + 2 * m
    BY <2>1, SMT
  <2> QED
    BY <1>1, <1>2, <1>3, <1>5, <2>2, SMT
<1> QED
  BY <1>4, <1>5

\* The input fetchers and the filter store, which stay in step.
LEMMA FetchStep ==
  ASSUME NEW p, NEW q, q = NextPasses(p), p \in PassCounts, FetchOK(p), ConfigOK,
         NEW r_en, Goes(r_en)
  PROVE  FetchOK(q)'
<1> DEFINE NR == num_repeats
           per == config.period
<1>1. /\ rows \in {2, 4} /\ NR \in Nat \ {0} /\ per \in Nat \ {0} /\ per >= 2 * rows
      /\ per % 4 = 0
  BY Widths
<1>2. rows' = rows /\ num_repeats' = NR /\ config' = config
  BY GoesConstant, Constant
<1>3. pulse.start = FALSE /\ pulse.reset = FALSE
  BY DEF Goes, NoPulse
<1>4. p[0] \in Nat
  BY DEF PassCounts
<1> DEFINE running == fetch.running
           count == fetch.count
<1>5. running \in BOOLEAN /\ count \in 0 .. per - 1
  BY DEF FetchOK
<1>6. fetch_last <=> running /\ count = per - 1
  BY DEF fetch_last
<1>7. /\ fetch'.running = (running /\ ~limiter.finished)
      /\ fetch'.count = IF limiter.finished \/ fetch_last THEN 0
                        ELSE IF running THEN count + 1 ELSE count
      /\ fetch'.repeat = IF fetch_last THEN (fetch.repeat + 1) % NR ELSE fetch.repeat
      /\ fetch'.pixel = IF fetch_last /\ fetch.repeat = NR - 1 THEN fetch.pixel + rows
                        ELSE fetch.pixel
  BY <1>3, <1>5 DEF Goes, Clocked, Fetch, fetch_reset
<1>8. fetch'.running \in BOOLEAN /\ fetch'.count \in 0 .. per - 1
  BY <1>1, <1>5, <1>6, <1>7
<1>9. ~fetch'.running => fetch'.count = 0
  BY <1>5, <1>6, <1>7 DEF FetchOK
<1>10. \A j \in 1 .. 14, k \in 1 .. 14 : Ended(q, j) /\ Ended(q, k) /\ j < k => k - j >= 2 * rows
  <2>1. SUFFICES ASSUME NEW j \in 1 .. 14, NEW k \in 1 .. 14, Ended(q, j), Ended(q, k), j < k
                 PROVE  k - j >= 2 * rows
    OBVIOUS
  <2>2. Ended(p, k - 1) /\ k - 1 \in 1 .. 14
    BY <2>1, EndedNext
  <2>3. CASE j = 1
    <3>1. fetch_last
      BY <2>1, <2>3, EndedNext
    <3>2. k - 1 > count /\ count = per - 1
      BY <1>6, <2>2, <3>1 DEF FetchOK
    <3> QED
      BY <1>1, <2>1, <2>3, <3>2
  <2>4. CASE j # 1
    <3>1. Ended(p, j - 1) /\ j - 1 \in 1 .. 14
      BY <2>1, <2>4, EndedNext
    <3>2. (k - 1) - (j - 1) >= 2 * rows
      BY <2>1, <2>2, <3>1 DEF FetchOK
    <3> QED
      BY <1>1, <3>2
  <2> QED
    BY <2>3, <2>4
<1>11. ASSUME fetch'.running
       PROVE  /\ fetch'.repeat = q[0] % NR
              /\ fetch'.pixel = config.base + rows * (q[0] \div NR)
              /\ filter'.running
              /\ filter'.read_index = fetch'.repeat * per + fetch'.count
              /\ \A k \in 1 .. 14 :
                   Ended(q, k) => k > fetch'.count /\ k % 4 = (fetch'.count + 1) % 4
  <2>1. running /\ ~limiter.finished
    BY <1>5, <1>7, <1>11
  <2>2. /\ fetch.repeat = p[0] % NR
        /\ fetch.pixel = config.base + rows * (p[0] \div NR)
        /\ filter.running
        /\ filter.read_index = fetch.repeat * per + count
        /\ \A k \in 1 .. 14 : Ended(p, k) => k > count /\ k % 4 = (count + 1) % 4
    BY <2>1 DEF FetchOK
  <2>3. fetch.repeat \in 0 .. NR - 1 /\ p[0] \div NR \in Nat
    BY <1>1, <1>4, <2>2, Division
  <2>4. fetch'.count = IF fetch_last THEN 0 ELSE count + 1
    BY <1>7, <2>1
  <2>5. CASE fetch_last
    <3>1. q[0] = p[0] + 1 /\ count = per - 1
      BY <1>6, <2>5, EndedNext
    <3>2. /\ fetch.repeat # NR - 1 =>
               q[0] \div NR = p[0] \div NR /\ q[0] % NR = fetch.repeat + 1
          /\ fetch.repeat = NR - 1 =>
               q[0] \div NR = (p[0] \div NR) + 1 /\ q[0] % NR = 0
      <4>1. NR \in Nat \ {0} /\ p[0] \in Nat /\ fetch.repeat = p[0] % NR /\ q[0] = p[0] + 1
        BY <1>1, <1>4, <2>2, <3>1
      <4> HIDE DEF NR
      <4>2. /\ p[0] % NR # NR - 1 =>
                 (p[0] + 1) \div NR = p[0] \div NR /\ (p[0] + 1) % NR = (p[0] % NR) + 1
            /\ p[0] % NR = NR - 1 =>
                 (p[0] + 1) \div NR = (p[0] \div NR) + 1 /\ (p[0] + 1) % NR = 0
        BY <4>1, NextQuotient
      <4> QED
        BY <4>1, <4>2
    <3>3. fetch'.repeat = q[0] % NR
      <4>1. CASE fetch.repeat = NR - 1
        BY <1>1, <1>7, <2>5, <3>2, <4>1
      <4>2. CASE fetch.repeat # NR - 1
        <5>1. fetch.repeat + 1 \in 0 .. NR - 1
          BY <1>1, <2>3, <4>2
        <5>2. (fetch.repeat + 1) % NR = fetch.repeat + 1
          BY <1>1, <5>1, Remainder
        <5> QED
          BY <1>7, <2>5, <3>2, <4>2, <5>2
      <4> QED
        BY <4>1, <4>2
    <3>4. fetch'.pixel = config.base + rows * (q[0] \div NR)
      <4>1. CASE fetch.repeat = NR - 1
        <5>1. fetch'.pixel = config.base + rows * (p[0] \div NR) + rows
          BY <1>7, <2>2, <2>5, <4>1
        <5> HIDE DEF NR
        <5>2. rows * ((p[0] \div NR) + 1) = rows * (p[0] \div NR) + rows
          BY <1>1, <2>3
        <5> QED
          BY <1>1, <2>3, <3>2, <4>1, <5>1, <5>2 DEF ConfigOK
      <4>2. CASE fetch.repeat # NR - 1
        BY <1>7, <2>2, <2>5, <3>2, <4>2
      <4> QED
        BY <4>1, <4>2
    <3>5. filter'.running /\ filter'.read_index = fetch'.repeat * per + fetch'.count
      <4>1. filter'.running /\ filter'.read_index = next_read_index
        BY <2>2 DEF Goes, Clocked, Filter
      <4>2. next_read_index = IF filter.read_index = NR * per - 1 THEN 0
                              ELSE (filter.read_index + 1) % MaxDepth
        BY <1>3, <2>2 DEF next_read_index, num_filter_words
      <4> DEFINE d == fetch.repeat
      <4>3. /\ filter.read_index = d * per + (per - 1)
            /\ d * per + (per - 1) = NR * per - 1 <=> d = NR - 1
            /\ d * per + (per - 1) + 1 = (d + 1) * per
        <5>1. per - 1 \in 0 .. per - 1
          BY <1>1
        <5> HIDE DEF d, NR, per
        <5>2. d \in 0 .. NR - 1
          BY <2>3 DEF d
        <5>3. /\ d * per + (per - 1) = NR * per - 1 <=> d = NR - 1 /\ per - 1 = per - 1
              /\ d * per + per = (d + 1) * per
          BY <1>1, <5>1, <5>2, ReadIndex
        <5>4. d * per \in Nat
          BY <1>1, <5>2
        <5> QED
          BY <1>1, <2>2, <3>1, <5>3, <5>4 DEF d
      <4>4. CASE d = NR - 1
        <5>1. fetch'.repeat = 0 /\ fetch'.count = 0 /\ filter'.read_index = 0
          BY <2>4, <2>5, <3>2, <3>3, <4>1, <4>2, <4>3, <4>4
        <5>2. 0 * per + 0 = 0
          BY <1>1
        <5> QED
          BY <4>1, <5>1, <5>2
      <4>5. CASE d # NR - 1
        <5>1. d + 1 \in 0 .. NR - 1
          BY <1>1, <2>3, <4>5
        <5>2. (d + 1) * per \in 0 .. NR * per - 1
          <6> HIDE DEF NR, per, d
          <6>1. 0 \in 0 .. per - 1
            BY <1>1
          <6>2. (d + 1) * per + 0 \in 0 .. NR * per - 1
            BY <1>1, <5>1, <6>1, ReadIndex
          <6>3. (d + 1) * per \in Nat
            BY <1>1, <5>1
          <6> QED
            BY <6>2, <6>3
        <5>3. NR * per <= MaxDepth
          BY DEF ConfigOK, num_filter_words
        <5>4. (d + 1) * per \in 0 .. MaxDepth - 1
          <6> HIDE DEF NR, per, d
          <6>1. (d + 1) * per \in Nat /\ NR * per \in Nat
            BY <1>1, <5>1
          <6> QED
            BY <5>2, <5>3, <6>1, ConstantsAssumption
        <5>5. ((d + 1) * per) % MaxDepth = (d + 1) * per
          BY <5>4, Remainder, ConstantsAssumption
        <5>6. filter'.read_index = (d + 1) * per /\ fetch'.repeat = d + 1 /\ fetch'.count = 0
          BY <2>4, <2>5, <3>2, <3>3, <4>1, <4>2, <4>3, <4>5, <5>5
        <5>7. (d + 1) * per \in Nat
          BY <5>4
        <5> HIDE DEF d, per
        <5> QED
          BY <4>1, <5>6, <5>7
      <4> QED
        BY <4>4, <4>5
    <3>6. \A k \in 1 .. 14 : Ended(q, k) => k > 0 /\ k % 4 = 1
      <4>1. SUFFICES ASSUME NEW k \in 1 .. 14, Ended(q, k) PROVE k % 4 = 1
        OBVIOUS
      <4>2. CASE k = 1
        BY <4>2
      <4>3. CASE k # 1
        <5>1. Ended(p, k - 1) /\ k - 1 \in 1 .. 14
          BY <4>1, <4>3, EndedNext
        <5>2. (k - 1) % 4 = per % 4
          BY <1>1, <2>2, <3>1, <5>1
        <5> QED
          BY <1>1, <5>1, <5>2
      <4> QED
        BY <4>2, <4>3
    <3> QED
      BY <2>4, <2>5, <3>3, <3>4, <3>5, <3>6
  <2>6. CASE ~fetch_last
    <3>1. q[0] = p[0] /\ count + 1 \in 0 .. per - 1 /\ fetch'.count = count + 1
      BY <1>1, <1>5, <1>6, <2>1, <2>4, <2>6, EndedNext
    <3>2. fetch'.repeat = q[0] % NR /\ fetch'.pixel = config.base + rows * (q[0] \div NR)
      BY <1>7, <2>2, <2>6, <3>1
    <3>3. filter'.running /\ filter'.read_index = fetch'.repeat * per + fetch'.count
      <4>1. filter'.running /\ filter'.read_index = next_read_index
        BY <2>2 DEF Goes, Clocked, Filter
      <4>2. next_read_index = IF filter.read_index = NR * per - 1 THEN 0
                              ELSE (filter.read_index + 1) % MaxDepth
        BY <1>3, <2>2 DEF next_read_index, num_filter_words
      <4>3. fetch'.repeat = fetch.repeat
        BY <1>7, <2>6
      <4> DEFINE d == fetch.repeat
      <4>4. NR * per <= MaxDepth
        BY DEF ConfigOK, num_filter_words
      <4>5. filter.read_index = d * per + count
        BY <2>2
      <4>6. d \in 0 .. NR - 1 /\ count # per - 1 /\ count \in Nat
        BY <2>3, <3>1, <1>1, <1>5
      <4> HIDE DEF d, NR, per, count
      <4>7. /\ d * per + count # NR * per - 1
            /\ d * per + (count + 1) \in 0 .. NR * per - 1
        BY <1>1, <1>5, <3>1, <4>6, ReadIndex
      <4>8. d * per \in Nat /\ NR * per \in Nat
        BY <1>1, <4>6
      <4>9. d * per + count + 1 \in 0 .. MaxDepth - 1
        BY <4>4, <4>6, <4>7, <4>8, ConstantsAssumption
      <4>10. (d * per + count + 1) % MaxDepth = d * per + count + 1
        BY <4>9, Remainder, ConstantsAssumption
      <4> QED
        BY <3>1, <4>1, <4>2, <4>3, <4>5, <4>6, <4>7, <4>8, <4>10 DEF d
    <3>4. \A k \in 1 .. 14 : Ended(q, k) => k > count + 1 /\ k % 4 = (count + 2) % 4
      <4>1. SUFFICES ASSUME NEW k \in 1 .. 14, Ended(q, k)
                     PROVE  k > count + 1 /\ k % 4 = (count + 2) % 4
        OBVIOUS
      <4>2. Ended(p, k - 1) /\ k - 1 \in 1 .. 14
        BY <2>6, <4>1, EndedNext
      <4>3. k - 1 > count /\ (k - 1) % 4 = (count + 1) % 4
        BY <2>2, <4>2
      <4> HIDE DEF count, per
      <4> QED
        BY <1>1, <1>5, <4>2, <4>3
    <3> QED
      BY <3>1, <3>2, <3>3, <3>4, <1>5
  <2> QED
    BY <2>5, <2>6
<1> QED
  BY <1>2, <1>8, <1>9, <1>10, <1>11 DEF FetchOK, Ended

\* A register chain: everything moves on by one place.
LEMMA Shift ==
  ASSUME NEW n \in Nat \ {0}, NEW f, f = [k \in 1 .. n |-> f[k]], NEW x
  PROVE  <<x>> \o SubSeq(f, 1, n - 1) = [k \in 1 .. n |-> IF k = 1 THEN x ELSE f[k - 1]]
<1> DEFINE S == {f[k] : k \in 1 .. n} \cup {x}
           g == SubSeq(f, 1, n - 1)
           h == [k \in 1 .. n |-> IF k = 1 THEN x ELSE f[k - 1]]
<1>1. f \in [1 .. n -> S]
  OBVIOUS
<1>2. f \in Seq(S) /\ Len(f) = n
  BY <1>1
<1>3. g \in Seq(S) /\ Len(g) = n - 1 /\ \A k \in 1 .. n - 1 : g[k] = f[k]
  BY <1>2
<1>4. <<x>> \in Seq(S) /\ Len(<<x>>) = 1
  OBVIOUS
<1> HIDE DEF S, g
<1>5. <<x>> \o g \in Seq(S) /\ Len(<<x>> \o g) = n
  BY <1>3, <1>4
<1>6. h = [k \in 1 .. Len(h) |-> h[k]] /\ Len(h) = n
  OBVIOUS
<1>7. ASSUME NEW k \in 1 .. n PROVE (<<x>> \o g)[k] = h[k]
  <2>1. CASE k = 1
    BY <1>3, <1>4, <2>1
  <2>2. CASE k # 1
    <3>1. k - 1 \in 1 .. n - 1 /\ k \in 1 .. 1 + (n - 1)
      BY <2>2
    <3>2. (<<x>> \o g)[k] = g[k - 1]
      BY <1>3, <1>4, <2>2, <3>1
    <3> QED
      BY <1>3, <2>2, <3>1, <3>2
  <2> QED
    BY <2>1, <2>2
<1> QED
  BY <1>5, <1>6, <1>7 DEF g

\* The results on their way through the array.
LEMMA ArrayStep ==
  ASSUME NEW p, NEW q, q = NextPasses(p), p \in PassCounts,
         FetchOK(p), ArrayOK(p), ConfigOK, NEW r_en, Goes(r_en)
  PROVE  ArrayOK(q)'
<1>1. ASSUME fetch_last PROVE Pass = PassAt(p[0])
  <2> DEFINE d == p[0] % num_repeats
             per == config.period
  <2>1. /\ fetch.running /\ fetch.count = per - 1 /\ fetch.repeat = d
        /\ fetch.pixel = config.base + rows * (p[0] \div num_repeats)
        /\ filter.read_index = d * per + (per - 1)
    BY <1>1 DEF FetchOK, fetch_last
  <2>2. num_repeats \in Nat \ {0} /\ per \in Nat \ {0} /\ p[0] \in Nat
    BY Widths DEF PassCounts
  <2>3. d \in 0 .. num_repeats - 1 /\ per - 1 \in 0 .. per - 1
    BY <2>2, Division
  <2>4. (d * per + (per - 1)) \div per = d /\ (d * per + (per - 1)) % per = per - 1
    <3> HIDE DEF d, per
    <3> QED
      BY <2>2, <2>3, ReadIndex
  <2>5. Pass.pixel = fetch.pixel /\ Pass.channel = filter.channel + 2 * d
    BY <2>1, <2>4 DEF Pass
  <2> QED
    BY <2>1, <2>5 DEF Pass, PassAt
<1>2. last' = [k \in 1 .. 9 |-> IF k = 1 THEN (IF fetch_last THEN Pass ELSE None)
                               ELSE last[k - 1]]
  <2>1. last = [k \in 1 .. 9 |-> last[k]] /\ 9 - 1 = 8
    BY DEF ArrayOK
  <2> QED
    BY <2>1, Shift DEF Goes, Clocked, Array
<1>3. ASSUME NEW k \in 1 .. 9
      PROVE  last'[k] = IF Ended(q, k) THEN PassAt(q[k]) ELSE None
  <2>1. CASE k = 1
    BY <1>1, <1>2, <2>1, EndedNext
  <2>2. CASE k # 1
    <3>1. k - 1 \in 1 .. 9 /\ (Ended(q, k) <=> Ended(p, k - 1)) /\ q[k] = p[k - 1]
      BY <2>2, EndedNext
    <3>2. last[k - 1] = IF Ended(p, k - 1) THEN PassAt(p[k - 1]) ELSE None
      BY <3>1 DEF ArrayOK
    <3> QED
      BY <1>2, <2>2, <3>1, <3>2
  <2> QED
    BY <2>1, <2>2
<1>4. \A n : PassAt(n)' = PassAt(n)
  BY GoesConstant, Constant
<1>5. last' = [k \in 1 .. 9 |-> IF Ended(q, k) THEN PassAt(q[k]) ELSE None]
  BY <1>2, <1>3
<1> QED
  BY <1>4, <1>5 DEF ArrayOK, Ended

-----------------------------------------------------------------------------
(* AccumulatorReader.                                                      *)

\* The order of reading.
LEMMA Places ==
  ASSUME rows \in {2, 4}, rows = 2 <=> half_mode
  PROVE  /\ \A i \in UsedAccumulators :
              /\ i \in 0 .. 7 /\ Row(i) \in 0 .. rows - 1 /\ Column(i) \in 0 .. 1
              /\ Latency(i) \in 0 .. 4 /\ Place(i) \in Latency(i) .. 2 * rows - 1
              /\ Order(Place(i)) = i
         /\ \A j \in 0 .. 2 * rows - 1 :
              /\ Order(j) \in UsedAccumulators /\ Place(Order(j)) = j
              /\ Row(Order(j)) = j % rows /\ Column(Order(j)) = j \div rows
              /\ reader.index = Order(j) =>
                   next_index = IF j = 2 * rows - 1 THEN 0 ELSE Order(j + 1)
         /\ Order(0) = 0 /\ Place(0) = 0 /\ 0 \in UsedAccumulators
<1> USE DEF UsedAccumulators, Row, Column, Latency, Place, Order
<1>1. ASSUME NEW i \in UsedAccumulators
      PROVE  /\ i \in 0 .. 7 /\ Row(i) \in 0 .. rows - 1 /\ Column(i) \in 0 .. 1
             /\ Latency(i) \in 0 .. 4 /\ Place(i) \in Latency(i) .. 2 * rows - 1
             /\ Order(Place(i)) = i
  <2>1. i \in {0, 1, 2, 3, 4, 5, 6, 7}
    OBVIOUS
  <2> QED
    BY <2>1
<1>2. ASSUME NEW j \in 0 .. 2 * rows - 1
      PROVE  /\ Order(j) \in UsedAccumulators /\ Place(Order(j)) = j
             /\ Row(Order(j)) = j % rows /\ Column(Order(j)) = j \div rows
             /\ reader.index = Order(j) =>
                  next_index = IF j = 2 * rows - 1 THEN 0 ELSE Order(j + 1)
  <2>1. CASE rows = 2
    <3>1. j \in {0, 1, 2, 3} /\ half_mode
      BY <2>1
    <3> QED
      BY <2>1, <3>1 DEF next_index
  <2>2. CASE rows = 4
    <3>1. j \in {0, 1, 2, 3, 4, 5, 6, 7} /\ ~half_mode
      BY <2>2
    <3> QED
      BY <2>2, <3>1 DEF next_index
  <2> QED
    BY <2>1, <2>2
<1> QED
  BY <1>1, <1>2

\* Nothing that is computed is None.
LEMMA SomeResult ==
  ASSUME ConfigOK
  PROVE  /\ \A n \in Nat : PassAt(n) \in Passes /\ PassAt(n) # None
         /\ \A n \in Nat : PassAt(n).channel \in Nat
         /\ \A n \in Nat : ResultAt(n) \in Passes /\ ResultAt(n) # None
         /\ \A n \in Nat : ItemAt(n) \in Items /\ ItemAt(n) # None
<1> DEFINE C == config.channels
<1>1. rows \in Nat \ {0} /\ num_repeats \in Nat \ {0} /\ C \in Nat \ {0}
  BY Widths DEF ConfigOK
<1>2. rows * C \in Nat \ {0} /\ config.base \in Nat /\ filter.channel \in Nat
  BY <1>1 DEF ConfigOK
<1>3. ASSUME NEW n \in Nat PROVE PassAt(n) \in Passes /\ PassAt(n).channel \in Nat
  <2>1. n \div num_repeats \in Nat /\ n % num_repeats \in Nat
    BY <1>1, Division
  <2>2. rows * (n \div num_repeats) \in Nat
    BY <1>1, <2>1
  <2> QED
    BY <1>1, <1>2, <2>1, <2>2 DEF PassAt, Passes
<1>4. ASSUME NEW n \in Nat PROVE ResultAt(n) \in Passes /\ ChannelAt(n) \in Nat
  <2>1. n \div rows \in Nat /\ n % rows \in Nat
    BY <1>1, Division
  <2>2. (n \div rows) % C \in Nat
    BY <1>1, <2>1, Division
  <2>3. n \div (rows * C) \in Nat
    BY <1>2, Division
  <2>4. rows * (n \div (rows * C)) \in Nat
    BY <1>1, <2>3
  <2>5. ChannelAt(n) \in Nat
    BY <1>2, <2>2 DEF ChannelAt, ParamAt
  <2> HIDE DEF C
  <2>6. config.base + rows * (n \div (rows * C)) + (n % rows) \in Nat
    BY <1>2, <2>1, <2>4
  <2> QED
    BY <2>5, <2>6 DEF ResultAt, Passes, C
<1>5. ASSUME NEW n \in Nat PROVE ItemAt(n) \in Items
  BY <1>4 DEF ItemAt, Items
<1> QED
  BY <1>3, <1>4, <1>5, NoneAssumption

\* The results of a pass, in the order of reading.
LEMMA PassResults ==
  ASSUME ConfigOK, NEW n \in Nat, NEW j \in 0 .. 2 * rows - 1
  PROVE  ResultAt(2 * rows * n + j) =
           [pixel |-> PassAt(n).pixel + (j % rows), channel |-> PassAt(n).channel + (j \div rows)]
<1> DEFINE NR == num_repeats
           m == 2 * rows * n + j
           d == n \div NR
           c == n % NR
           x == j % rows
           y == j \div rows
<1>1. rows \in {2, 4} /\ NR \in Nat \ {0} /\ config.channels = 2 * NR
  BY Widths
<1>2. d \in Nat /\ c \in 0 .. NR - 1 /\ n = NR * d + c
  BY <1>1, Division
<1>3. x \in 0 .. rows - 1 /\ y \in 0 .. 1 /\ j = rows * y + x
  BY <1>1
<1> HIDE DEF NR, d, c, x, y
<1>4. m = rows * (2 * n + y) + x
  BY <1>1, <1>3
<1>5. 2 * n + y \in Nat
  BY <1>3
<1>6. m \div rows = 2 * n + y /\ m % rows = x
  BY <1>1, <1>3, <1>4, <1>5, Quotient
<1>7. 2 * n + y = (2 * NR) * d + (2 * c + y) /\ 2 * c + y \in 0 .. 2 * NR - 1
  BY <1>1, <1>2, <1>3, SMT
<1>8. (2 * n + y) % (2 * NR) = 2 * c + y
  <2>1. 2 * NR \in Nat \ {0}
    BY <1>1
  <2> QED
    BY <1>2, <1>7, <2>1, Quotient
<1>9. m \div (rows * (2 * NR)) = d
  <2> DEFINE w == rows * (2 * NR)
             z == rows * (2 * c + y) + x
  <2>1. w \in Nat \ {0}
    BY <1>1
  <2>2. m = w * d + z
    <3>1. m = rows * ((2 * NR) * d + (2 * c + y)) + x
      BY <1>4, <1>7
    <3>2. rows * ((2 * NR) * d + (2 * c + y)) = w * d + rows * (2 * c + y)
      <4>1. CASE rows = 2
        BY <1>1, <1>2, <1>3, <4>1, SMT
      <4>2. CASE rows = 4
        BY <1>1, <1>2, <1>3, <4>2, SMT
      <4> QED
        BY <1>1, <4>1, <4>2
    <3> QED
      BY <1>1, <1>2, <1>3, <3>1, <3>2
  <2>3. z \in 0 .. w - 1
    <3>1. CASE rows = 2
      BY <1>1, <1>3, <1>7, <3>1
    <3>2. CASE rows = 4
      BY <1>1, <1>3, <1>7, <3>2
    <3> QED
      BY <1>1, <3>1, <3>2
  <2> HIDE DEF w, z, m
  <2>4. m \div w = d
    BY <1>2, <2>1, <2>2, <2>3, Quotient
  <2> QED
    BY <2>4 DEF w
<1>10. ResultAt(m) = [pixel   |-> config.base + rows * d + x,
                      channel |-> filter.channel + (2 * c + y)]
  BY <1>1, <1>6, <1>8, <1>9 DEF ResultAt, ChannelAt, ParamAt
<1>11. PassAt(n) = [pixel |-> config.base + rows * d, channel |-> filter.channel + 2 * c]
  BY DEF PassAt, d, c, NR
<1>12. filter.channel + (2 * c + y) = filter.channel + 2 * c + y
  BY <1>2, <1>3 DEF ConfigOK
<1> QED
  BY <1>10, <1>11, <1>12 DEF x, y

\* A pass reaches accumulator i Latency(i) cycles after accumulator 0.
LEMMA Arrivals ==
  ASSUME NEW p, p \in PassCounts, ArrayOK(p), ConfigOK, NEW i \in UsedAccumulators
  PROVE  /\ accumulator_new(i) <=> Ended(p, 5 + Latency(i))
         /\ Accumulators[i] = IF Ended(p, 4 + Latency(i)) THEN PassAt(p[4 + Latency(i)])
                              ELSE reader.acc[i]
<1>1. i \in 0 .. 7 /\ Latency(i) \in 0 .. 4
  BY Widths, Places
<1> DEFINE a == 5 + Latency(i)
           b == 4 + Latency(i)
<1>2. a \in 1 .. 9 /\ b \in 1 .. 9
  BY <1>1
<1>3. last[5 + Row(i) + Column(i)] = last[a] /\ last[4 + Row(i) + Column(i)] = last[b]
  BY <1>1 DEF Latency, Row, Column
<1> HIDE DEF a, b
<1>4. /\ last[a] = IF Ended(p, a) THEN PassAt(p[a]) ELSE None
      /\ last[b] = IF Ended(p, b) THEN PassAt(p[b]) ELSE None
  BY <1>2 DEF ArrayOK
<1>5. PassAt(p[a]) # None /\ PassAt(p[b]) # None
  BY <1>2, SomeResult DEF PassCounts
<1> QED
  BY <1>1, <1>3, <1>4, <1>5 DEF accumulator_new, Accumulators, a, b

\* What is read in this cycle.
LEMMA Reading ==
  ASSUME NEW p, p \in PassCounts, ArrayOK(p), FetchOK(p), ReaderOK(p), ConfigOK
  PROVE  /\ \A j \in 0 .. 2 * rows - 1 : Ended(p, 5 + j) => available /\ reader.index = Order(j)
         /\ (\A j \in 0 .. 2 * rows - 1 : ~Ended(p, 5 + j)) => ~available /\ reader.index = 0
<1>1. rows \in {2, 4} /\ (rows = 2 <=> half_mode)
  BY Widths
<1>2. ASSUME NEW j \in 0 .. 2 * rows - 1, Ended(p, 5 + j)
      PROVE  available /\ reader.index = Order(j)
  <2>1. reader.index = Order(j)
    <3>1. CASE j = 0
      <4>1. ASSUME NEW k \in 1 .. 2 * rows - 1, Ended(p, 5 + k) PROVE FALSE
        <5>1. 5 + k \in 1 .. 14 /\ 5 + j \in 1 .. 14 /\ 5 + j < 5 + k
          BY <1>1, <3>1
        <5>2. (5 + k) - (5 + j) >= 2 * rows
          BY <1>2, <4>1, <5>1 DEF FetchOK
        <5> QED
          BY <1>1, <3>1, <5>2
      <4>2. reader.index = 0
        BY <4>1 DEF ReaderOK
      <4> QED
        BY <1>1, <3>1, <4>2, Places
    <3>2. CASE j # 0
      BY <1>2, <3>2 DEF ReaderOK
    <3> QED
      BY <3>1, <3>2
  <2> DEFINE i == Order(j)
  <2>2. i \in UsedAccumulators /\ Place(i) = j /\ Latency(i) \in 0 .. 4 /\ Place(i) >= Latency(i)
    BY <1>1, Places
  <2> HIDE DEF i
  <2>3. CASE Latency(i) = j
    BY <1>2, <2>1, <2>2, <2>3, Arrivals DEF available, i
  <2>4. CASE Latency(i) # j
    <3>1. j \in Latency(i) + 1 .. Place(i)
      BY <2>2, <2>4
    <3>2. reader.flags[i]
      BY <1>2, <2>2, <3>1 DEF ReaderOK
    <3> QED
      BY <2>1, <3>2 DEF available, i
  <2> QED
    BY <2>1, <2>3, <2>4
<1>3. ASSUME \A j \in 0 .. 2 * rows - 1 : ~Ended(p, 5 + j)
      PROVE  ~available /\ reader.index = 0
  <2>1. reader.index = 0
    BY <1>3 DEF ReaderOK
  <2>2. 0 \in UsedAccumulators /\ Place(0) = 0 /\ Latency(0) = 0
    BY <1>1, Places DEF Latency, Row, Column
  <2>3. ~reader.flags[0]
    BY <2>2 DEF ReaderOK
  <2>4. ~accumulator_new(0)
    <3>1. ~Ended(p, 5 + 0)
      BY <1>1, <1>3
    <3> QED
      BY <2>2, <3>1, Arrivals
  <2> QED
    BY <2>1, <2>3, <2>4 DEF available
<1> QED
  BY <1>2, <1>3

\* AccumulatorReader: which accumulator it reads next, and which it has still to read.
LEMMA ReaderStep ==
  ASSUME NEW p, NEW q, q = NextPasses(p), p \in PassCounts,
         FetchOK(p), ArrayOK(p), ReaderOK(p), ConfigOK, NEW r_en, Goes(r_en)
  PROVE  ReaderOK(q)'
<1>1. rows \in {2, 4} /\ (rows = 2 <=> half_mode)
  BY Widths
<1>2. /\ rows' = rows /\ UsedAccumulators' = UsedAccumulators
      /\ \A i : Place(i)' = Place(i) /\ Order(i)' = Order(i)
      /\ \A n : PassAt(n)' = PassAt(n)
  BY GoesConstant, Constant
<1>3. pulse.reset = FALSE
  BY DEF Goes, NoPulse
<1>4. /\ reader'.acc = Accumulators /\ reader'.flags = next_flags
      /\ reader'.index = IF available THEN next_index ELSE reader.index
  BY <1>3 DEF Goes, Clocked, Read
<1>5. ASSUME NEW k \in 1 .. 2 * rows PROVE Ended(q, 5 + k) <=> Ended(p, 5 + (k - 1))
  BY <1>1, EndedNext
<1>6. ASSUME NEW j \in 1 .. 2 * rows - 1, Ended(q, 5 + j) PROVE reader'.index = Order(j)
  <2>1. Ended(p, 5 + (j - 1)) /\ j - 1 \in 0 .. 2 * rows - 1
    BY <1>1, <1>5, <1>6
  <2>2. available /\ reader.index = Order(j - 1)
    BY <2>1, Reading
  <2>3. next_index = Order((j - 1) + 1)
    BY <1>1, <2>1, <2>2, Places
  <2> QED
    BY <1>1, <1>4, <2>2, <2>3
<1>7. ASSUME \A j \in 1 .. 2 * rows - 1 : ~Ended(q, 5 + j) PROVE reader'.index = 0
  <2>1. ASSUME NEW j \in 0 .. 2 * rows - 2 PROVE ~Ended(p, 5 + j)
    <3>1. j + 1 \in 1 .. 2 * rows - 1 /\ (j + 1) - 1 = j
      BY <1>1
    <3> QED
      BY <1>1, <1>5, <1>7, <3>1
  <2>2. CASE Ended(p, 5 + (2 * rows - 1))
    <3>1. 2 * rows - 1 \in 0 .. 2 * rows - 1
      BY <1>1
    <3>2. available /\ reader.index = Order(2 * rows - 1)
      BY <2>2, <3>1, Reading
    <3>3. next_index = 0
      BY <1>1, <3>1, <3>2, Places
    <3> QED
      BY <1>4, <3>2, <3>3
  <2>3. CASE ~Ended(p, 5 + (2 * rows - 1))
    <3>1. \A j \in 0 .. 2 * rows - 1 : ~Ended(p, 5 + j)
      BY <1>1, <2>1, <2>3
    <3> QED
      BY <1>4, <3>1, Reading
  <2> QED
    BY <2>2, <2>3
<1>8. ASSUME NEW i \in UsedAccumulators
      PROVE  reader'.flags[i] <=> \E d \in Latency(i) + 1 .. Place(i) : Ended(q, 5 + d)
  <2>1. /\ i \in 0 .. 7 /\ Latency(i) \in 0 .. 4 /\ Place(i) \in Latency(i) .. 2 * rows - 1
        /\ Order(Place(i)) = i
    BY <1>1, Places
  <2> DEFINE L == Latency(i)
             P == Place(i)
  <2>2. reader'.flags[i] <=> ~(available /\ i = reader.index)
                             /\ (reader.flags[i] \/ accumulator_new(i))
    BY <1>4, <2>1 DEF next_flags
  <2>3. reader.flags[i] \/ accumulator_new(i) <=> \E d \in L .. P : Ended(p, 5 + d)
    <3>1. reader.flags[i] <=> \E d \in L + 1 .. P : Ended(p, 5 + d)
      BY DEF ReaderOK
    <3>2. accumulator_new(i) <=> Ended(p, 5 + L)
      BY Arrivals
    <3> HIDE DEF L, P
    <3>3. L \in L .. P /\ \A d \in L .. P : d = L \/ d \in L + 1 .. P
      BY <2>1 DEF L, P
    <3>4. \A d \in L + 1 .. P : d \in L .. P
      BY <2>1 DEF L, P
    <3> QED
      BY <3>1, <3>2, <3>3, <3>4
  <2> HIDE DEF L, P
  <2>4. (\E d \in L + 1 .. P : Ended(q, 5 + d)) <=> \E d \in L .. P - 1 : Ended(p, 5 + d)
    <3>1. ASSUME NEW d \in L + 1 .. P, Ended(q, 5 + d)
          PROVE  \E e \in L .. P - 1 : Ended(p, 5 + e)
      <4>1. d - 1 \in L .. P - 1 /\ d \in 1 .. 2 * rows
        BY <2>1, <1>1 DEF L, P
      <4> QED
        BY <1>5, <3>1, <4>1
    <3>2. ASSUME NEW e \in L .. P - 1, Ended(p, 5 + e)
          PROVE  \E d \in L + 1 .. P : Ended(q, 5 + d)
      <4>1. e + 1 \in L + 1 .. P /\ e + 1 \in 1 .. 2 * rows /\ (e + 1) - 1 = e
        BY <2>1, <1>1 DEF L, P
      <4>2. Ended(q, 5 + (e + 1))
        BY <1>5, <3>2, <4>1
      <4> QED
        BY <4>1, <4>2
    <3> QED
      BY <3>1, <3>2
  <2>5. (available /\ i = reader.index) <=> Ended(p, 5 + P)
    <3>1. P \in 0 .. 2 * rows - 1
      BY <2>1, <1>1 DEF P
    <3>2. Ended(p, 5 + P) => available /\ i = reader.index
      BY <2>1, <3>1, Reading DEF P
    <3>3. ASSUME available, i = reader.index PROVE Ended(p, 5 + P)
      <4>1. PICK j \in 0 .. 2 * rows - 1 : Ended(p, 5 + j)
        BY <3>3, Reading
      <4>2. Order(j) = i
        BY <3>3, <4>1, Reading
      <4>3. Place(Order(j)) = j
        BY <1>1, Places
      <4> QED
        BY <4>1, <4>2, <4>3 DEF P
    <3> QED
      BY <3>2, <3>3
  <2>6. ASSUME Ended(p, 5 + P), NEW d \in L .. P, Ended(p, 5 + d) PROVE d = P
    <3>1. 5 + d \in 1 .. 14 /\ 5 + P \in 1 .. 14 /\ d <= P /\ P <= 2 * rows - 1
          /\ d \in Nat /\ P \in Nat
      BY <2>1, <1>1 DEF L, P
    <3>2. ~(5 + d < 5 + P /\ (5 + P) - (5 + d) < 2 * rows)
      BY <2>6, <3>1, <1>1 DEF FetchOK
    <3> QED
      BY <1>1, <3>1, <3>2
  <2>7. P \in L .. P /\ \A d \in L .. P : d # P => d \in L .. P - 1
    BY <2>1 DEF L, P
  <2>8. \A d \in L .. P - 1 : d \in L .. P /\ d # P
    BY <2>1 DEF L, P
  <2>9. reader'.flags[i] <=> \E d \in L .. P - 1 : Ended(p, 5 + d)
    BY <2>2, <2>3, <2>5, <2>6, <2>7, <2>8
  <2> QED
    BY <2>4, <2>9 DEF L, P
<1>9. ASSUME NEW i \in UsedAccumulators, NEW d \in 0 .. 7,
             d \in Latency(i) .. Place(i), Ended(q, 5 + d)
      PROVE  reader'.acc[i] = PassAt(q[5 + d])
  <2>1. i \in 0 .. 7 /\ Latency(i) \in 0 .. 4 /\ Place(i) \in Latency(i) .. 2 * rows - 1
    BY <1>1, Places
  <2>2. /\ 4 + d \in 1 .. 14 /\ 5 + d \in 2 .. 14
        /\ q[5 + d] = p[4 + d] /\ Ended(p, 4 + d)
    BY <1>1, <1>9, <2>1, EndedNext
  <2>3. reader'.acc[i] = IF Ended(p, 4 + Latency(i)) THEN PassAt(p[4 + Latency(i)])
                         ELSE reader.acc[i]
    BY <1>4, Arrivals
  <2>4. CASE d = Latency(i)
    BY <2>2, <2>3, <2>4
  <2>5. CASE d # Latency(i)
    <3>1. d - 1 \in Latency(i) .. Place(i) /\ d - 1 \in 0 .. 7 /\ 5 + (d - 1) = 4 + d
      BY <1>9, <2>1, <2>5
    <3>2. reader.acc[i] = PassAt(p[4 + d])
      BY <2>2, <3>1 DEF ReaderOK
    <3>3. ~Ended(p, 4 + Latency(i))
      <4>1. 4 + Latency(i) \in 1 .. 14 /\ 4 + Latency(i) < 4 + d
            /\ (4 + d) - (4 + Latency(i)) < 2 * rows
        BY <1>9, <1>1, <2>1, <2>5
      <4>2. \A j \in 1 .. 14, k \in 1 .. 14 :
              Ended(p, j) /\ Ended(p, k) /\ j < k => k - j >= 2 * rows
        BY DEF FetchOK
      <4>3. SUFFICES ASSUME Ended(p, 4 + Latency(i)) PROVE FALSE
        OBVIOUS
      <4>4. (4 + d) - (4 + Latency(i)) >= 2 * rows
        BY <2>2, <4>1, <4>2, <4>3
      <4>5. Latency(i) \in Nat /\ d \in Nat /\ rows \in Nat
        BY <1>1, <1>9, <2>1
      <4> QED
        BY <4>1, <4>4, <4>5
    <3> QED
      BY <2>2, <2>3, <3>2, <3>3
  <2> QED
    BY <2>4, <2>5
<1>10. \A i : Latency(i)' = Latency(i)
  BY DEF Latency, Row, Column
<1>11. \A k : Ended(q, k)' <=> Ended(q, k)
  BY DEF Ended
<1> QED
  BY <1>2, <1>6, <1>7, <1>8, <1>9, <1>10, <1>11 DEF ReaderOK

-----------------------------------------------------------------------------
(* StreamLimiter.                                                          *)

\* What the limiter lets through in this cycle.
LEMMA Transfers ==
  ASSUME NEW p, NEW s, CountsOK(p, s), OutputOK(p, s), LimiterOK(p, s), ConfigOK
  PROVE  /\ limiter_running <=> s[0] # config.values
         /\ transferring => s[0] < config.values /\ reader.out = ResultAt(s[0])
         /\ transferring =>
              \E j \in 0 .. 2 * rows - 1 : Ended(p, 6 + j) /\ s[0] = 2 * rows * p[6 + j] + j
         /\ \A j \in 0 .. 2 * rows - 1 :
              Ended(p, 6 + j) /\ s[0] # config.values =>
                transferring /\ s[0] = 2 * rows * p[6 + j] + j
<1>1. limiter_running <=> s[0] # config.values
  BY DEF limiter_running, LimiterOK, CountsOK, ValueCounts, ConfigOK
<1>2. s[0] \in Nat /\ s[0] <= config.values /\ config.values \in Nat
  BY DEF CountsOK, ValueCounts, ConfigOK
<1>3. ASSUME NEW j \in 0 .. 2 * rows - 1, Ended(p, 6 + j), s[0] # config.values
      PROVE  transferring /\ s[0] = 2 * rows * p[6 + j] + j /\ reader.out = ResultAt(s[0])
  <2>1. s[0] = 2 * rows * p[6 + j] + j /\ reader.out = ResultAt(s[0])
    BY <1>3 DEF OutputOK
  <2>2. ResultAt(s[0]) # None
    BY <1>2, SomeResult
  <2> QED
    BY <1>1, <1>3, <2>1, <2>2 DEF transferring
<1>4. ASSUME transferring
      PROVE  \E j \in 0 .. 2 * rows - 1 : Ended(p, 6 + j)
  BY <1>1, <1>4 DEF transferring, OutputOK
<1>5. transferring => s[0] # config.values
  BY <1>1 DEF transferring
<1> QED
  BY <1>1, <1>2, <1>3, <1>4, <1>5

\* The output register of AccumulatorReader has the next result.
LEMMA OutputStep ==
  ASSUME NEW p, NEW s, NEW q, NEW u, q = NextPasses(p), u = NextValues(s),
         CountsOK(p, s), FetchOK(p), ArrayOK(p), ReaderOK(p), OutputOK(p, s), LimiterOK(p, s),
         ConfigOK, NEW r_en, Goes(r_en)
  PROVE  OutputOK(q, u)'
<1>1. rows \in {2, 4} /\ (rows = 2 <=> half_mode)
  BY Widths
<1>2. rows' = rows /\ config' = config /\ \A n : ResultAt(n)' = ResultAt(n)
  BY GoesConstant, Constant
<1>3. /\ p \in PassCounts /\ s[0] \in Nat
      /\ u[0] = IF transferring THEN s[0] + 1 ELSE s[0]
      /\ \A k \in 1 .. 14 : q[k] = p[k - 1] /\ p[k] \in Nat
  BY EndedNext DEF CountsOK, PassCounts, ValueCounts, NextValues
<1>4. SUFFICES ASSUME u[0] # config.values
               PROVE  /\ \A j \in 0 .. 2 * rows - 1 :
                           Ended(q, 6 + j) =>
                             u[0] = 2 * rows * q[6 + j] + j /\ reader'.out = ResultAt(u[0])
                      /\ (\A j \in 0 .. 2 * rows - 1 : ~Ended(q, 6 + j)) =>
                           u[0] = 2 * rows * q[6] /\ reader'.out = None
  BY <1>2 DEF OutputOK, Ended
<1>5. s[0] # config.values /\ limiter_running
  BY <1>3, <1>4, Transfers
<1>6. reader'.out = IF available THEN Value(reader.index) ELSE None
  BY <1>5 DEF Goes, NoPulse, Clocked, Read
<1>7. ASSUME NEW j \in 0 .. 2 * rows - 1 PROVE Ended(q, 6 + j) <=> Ended(p, 5 + j)
  BY <1>1, <1>3, EndedNext
\* The next result is the first one of a pass if the pass before it is complete.
<1>8. ASSUME \A j \in 0 .. 2 * rows - 2 : ~Ended(p, 6 + j) PROVE u[0] = 2 * rows * p[5]
  <2>1. p[5] = p[4 + 2 * rows]
    <3>1. CASE rows = 2
      <4>1. ~Ended(p, 6 + 0) /\ ~Ended(p, 6 + 1) /\ ~Ended(p, 6 + 2)
        BY <1>8, <3>1
      <4> QED
        BY <3>1, <4>1 DEF Ended
    <3>2. CASE rows = 4
      <4>1. /\ ~Ended(p, 6 + 0) /\ ~Ended(p, 6 + 1) /\ ~Ended(p, 6 + 2) /\ ~Ended(p, 6 + 3)
            /\ ~Ended(p, 6 + 4) /\ ~Ended(p, 6 + 5) /\ ~Ended(p, 6 + 6)
        BY <1>8, <3>2
      <4> QED
        BY <3>2, <4>1 DEF Ended
    <3> QED
      BY <1>1, <3>1, <3>2
  <2>2. CASE Ended(p, 6 + (2 * rows - 1))
    <3>1. 2 * rows - 1 \in 0 .. 2 * rows - 1 /\ 6 + (2 * rows - 1) = 5 + 2 * rows
      BY <1>1
    <3>2. transferring /\ s[0] = 2 * rows * p[5 + 2 * rows] + (2 * rows - 1)
      BY <1>5, <2>2, <3>1, Transfers
    <3>3. p[4 + 2 * rows] = p[5 + 2 * rows] + 1
      <4>1. 5 + 2 * rows \in 1 .. 14 /\ (5 + 2 * rows) - 1 = 4 + 2 * rows
        BY <1>1
      <4>2. p[4 + 2 * rows] <= p[5 + 2 * rows] + 1 /\ p[5 + 2 * rows] <= p[4 + 2 * rows]
        BY <4>1 DEF CountsOK
      <4>3. p[4 + 2 * rows] # p[5 + 2 * rows]
        BY <2>2, <3>1, <4>1 DEF Ended
      <4>4. p[4 + 2 * rows] \in Nat /\ p[5 + 2 * rows] \in Nat
        BY <1>1, <1>3
      <4> QED
        BY <4>2, <4>3, <4>4
    <3>4. p[5 + 2 * rows] \in Nat
      BY <1>1, <1>3
    <3> QED
      BY <1>1, <1>3, <2>1, <3>2, <3>3, <3>4
  <2>3. CASE ~Ended(p, 6 + (2 * rows - 1))
    <3>1. \A j \in 0 .. 2 * rows - 1 : ~Ended(p, 6 + j)
      BY <1>1, <1>8, <2>3
    <3>2. s[0] = 2 * rows * p[6] /\ ~transferring
      BY <1>5, <3>1, Transfers DEF OutputOK
    <3>3. p[5] = p[6]
      <4>1. ~Ended(p, 6 + 0)
        BY <1>1, <3>1
      <4> QED
        BY <4>1 DEF Ended
    <3> QED
      BY <1>3, <3>2, <3>3
  <2> QED
    BY <2>2, <2>3
<1>9. ASSUME NEW j \in 0 .. 2 * rows - 1, Ended(q, 6 + j)
      PROVE  u[0] = 2 * rows * q[6 + j] + j /\ reader'.out = ResultAt(u[0])
  <2>1. Ended(p, 5 + j) /\ q[6 + j] = p[5 + j] /\ p[5 + j] \in Nat
    BY <1>1, <1>3, <1>7, <1>9
  <2>2. u[0] = 2 * rows * p[5 + j] + j
    <3>1. CASE j = 0
      <4>1. ASSUME NEW k \in 0 .. 2 * rows - 2, Ended(p, 6 + k) PROVE FALSE
        <5>1. 6 + k \in 1 .. 14 /\ 5 \in 1 .. 14 /\ 5 < 6 + k /\ Ended(p, 5)
          BY <1>1, <2>1, <3>1
        <5>2. (6 + k) - 5 >= 2 * rows
          BY <4>1, <5>1 DEF FetchOK
        <5> QED
          BY <1>1, <5>2
      <4> QED
        BY <1>1, <1>3, <1>8, <3>1, <4>1
    <3>2. CASE j # 0
      <4>1. j - 1 \in 0 .. 2 * rows - 1 /\ 6 + (j - 1) = 5 + j
        BY <1>1, <3>2
      <4>2. transferring /\ s[0] = 2 * rows * p[5 + j] + (j - 1)
        BY <1>5, <2>1, <4>1, Transfers
      <4>3. 2 * rows * p[5 + j] \in Nat
        BY <1>1, <2>1
      <4> QED
        BY <1>3, <4>1, <4>2, <4>3
    <3> QED
      BY <3>1, <3>2
  <2>3. available /\ reader.index = Order(j)
    BY <1>3, <2>1, Reading
  <2> DEFINE i == Order(j)
  <2>4. /\ i \in UsedAccumulators /\ Place(i) = j /\ j \in Latency(i) .. Place(i)
        /\ Row(i) = j % rows /\ Column(i) = j \div rows
    BY <1>1, Places
  <2>5. reader.acc[i] = PassAt(p[5 + j])
    <3>1. j \in 0 .. 7
      BY <1>1
    <3> QED
      BY <2>1, <2>4, <3>1 DEF ReaderOK
  <2>6. PassAt(p[5 + j]).channel # None
    BY <2>1, SomeResult, NoneAssumption
  <2>7. Value(i) = [pixel |-> PassAt(p[5 + j]).pixel + (j % rows),
                    channel |-> PassAt(p[5 + j]).channel + (j \div rows)]
    BY <2>4, <2>5, <2>6 DEF Value
  <2>8. Value(i) = ResultAt(2 * rows * p[5 + j] + j)
    BY <2>1, <2>7, PassResults
  <2> QED
    BY <1>6, <2>1, <2>2, <2>3, <2>8
<1>10. ASSUME \A j \in 0 .. 2 * rows - 1 : ~Ended(q, 6 + j)
       PROVE  u[0] = 2 * rows * q[6] /\ reader'.out = None
  <2>1. \A j \in 0 .. 2 * rows - 1 : ~Ended(p, 5 + j)
    BY <1>7, <1>10
  <2>2. ~available
    BY <1>3, <2>1, Reading
  <2>3. ASSUME NEW j \in 0 .. 2 * rows - 2 PROVE ~Ended(p, 6 + j)
    <3>1. j + 1 \in 0 .. 2 * rows - 1 /\ 5 + (j + 1) = 6 + j
      BY <1>1
    <3> QED
      BY <2>1, <3>1
  <2> QED
    BY <1>3, <1>6, <1>8, <2>2, <2>3
<1> QED
  BY <1>9, <1>10

\* StreamLimiter counts them, and stops the fetchers in time.
LEMMA LimiterStep ==
  ASSUME NEW p, NEW s, NEW q, NEW u, q = NextPasses(p), u = NextValues(s),
         CountsOK(p, s), FetchOK(p), OutputOK(p, s), LimiterOK(p, s),
         ConfigOK, NEW r_en, Goes(r_en)
  PROVE  LimiterOK(q, u)'
<1> DEFINE V == config.values
<1>1. rows \in {2, 4} /\ config.period \in Nat /\ config.period >= 2 * rows
      /\ config.period % 4 = 0
  BY Widths
<1>2. rows' = rows /\ config' = config
  BY GoesConstant, Constant
<1>3. V \in Nat \ {0} /\ V % (2 * rows) = 0
  BY DEF ConfigOK
<1>4. /\ p \in PassCounts /\ s[0] \in Nat /\ s[0] <= V
      /\ u[0] = IF transferring THEN s[0] + 1 ELSE s[0]
      /\ u[1] = s[0] /\ \A k \in 1 .. 12 : u[k] = s[k - 1]
  BY DEF CountsOK, ValueCounts, NextValues
<1>5. /\ limiter'.counter = IF transferring THEN limiter.counter - 1 ELSE limiter.counter
      /\ limiter'.finished = (transferring /\ limiter.counter = 1)
      /\ fetch'.running = (fetch.running /\ ~limiter.finished)
  <2>1. pulse.start = FALSE /\ pulse.reset = FALSE /\ fetch.running \in BOOLEAN
    BY DEF Goes, NoPulse, FetchOK
  <2> QED
    BY <2>1 DEF Goes, Clocked, Limit, Fetch, fetch_reset
<1>6. limiter.counter = V - s[0]
  BY DEF LimiterOK
<1>7. transferring => s[0] < V
  BY Transfers
<1>8. limiter'.counter = V - u[0]
  BY <1>3, <1>4, <1>5, <1>6, <1>7
<1>9. limiter'.finished <=> u[0] = V /\ u[1] # V
  <2>1. CASE transferring
    <3>1. limiter'.finished <=> limiter.counter = 1
      BY <1>5, <2>1
    <3>2. limiter.counter = 1 <=> s[0] + 1 = V
      BY <1>3, <1>4, <1>6
    <3> QED
      BY <1>4, <1>7, <2>1, <3>1, <3>2
  <2>2. CASE ~transferring
    BY <1>4, <1>5, <2>2
  <2> QED
    BY <2>1, <2>2
\* The last result is the last one of a pass.
<1>10. ASSUME transferring, u[0] = V PROVE Ended(p, 5 + 2 * rows)
  <2>1. PICK j \in 0 .. 2 * rows - 1 : Ended(p, 6 + j) /\ s[0] = 2 * rows * p[6 + j] + j
    BY <1>10, Transfers
  <2>2. p[6 + j] \in Nat
    BY <1>1, <1>4 DEF PassCounts
  <2>3. V = 2 * rows * p[6 + j] + (j + 1)
    BY <1>1, <1>4, <1>10, <2>1, <2>2
  <2>4. j = 2 * rows - 1
    BY <1>1, <1>3, <2>2, <2>3
  <2> QED
    BY <1>1, <2>1, <2>4
<1>11. limiter'.finished => Ended(q, 6 + 2 * rows)
  <2>1. Ended(q, 6 + 2 * rows) <=> Ended(p, 5 + 2 * rows)
    BY <1>1, <1>4, EndedNext
  <2> QED
    BY <1>4, <1>5, <1>9, <1>10, <2>1
<1>12. fetch'.running => u[1] # V
  BY <1>4, <1>5 DEF LimiterOK
<1>13. ASSUME NEW k \in 1 .. 13, Ended(q, k) PROVE u[k - 1] # V
  <2>1. CASE k = 1
    <3>1. fetch_last
      BY <1>4, <1>13, <2>1, EndedNext
    <3>2. \A i \in 1 .. 14 : Ended(p, i) => i % 4 = config.period % 4
      BY <1>1, <3>1 DEF fetch_last, FetchOK
    <3>3. SUFFICES ASSUME u[0] = V PROVE FALSE
      BY <2>1
    <3>4. CASE transferring
      <4>1. Ended(p, 5 + 2 * rows) /\ 5 + 2 * rows \in 1 .. 14
        BY <1>1, <1>10, <3>3, <3>4
      <4> QED
        BY <1>1, <3>2, <4>1
    <3>5. CASE ~transferring
      <4>1. s[0] = V /\ fetch.running
        BY <1>4, <3>1, <3>3, <3>5 DEF fetch_last
      <4>2. limiter.finished
        BY <4>1 DEF LimiterOK
      <4>3. Ended(p, 6 + 2 * rows) /\ 6 + 2 * rows \in 1 .. 14
        BY <1>1, <4>2 DEF LimiterOK
      <4> QED
        BY <1>1, <3>2, <4>3
    <3> QED
      BY <3>4, <3>5
  <2>2. CASE k # 1
    <3>1. Ended(p, k - 1) /\ k - 1 \in 1 .. 13
      BY <1>4, <1>13, <2>2, EndedNext
    <3>2. s[(k - 1) - 1] # V
      BY <3>1 DEF LimiterOK
    <3>3. u[k - 1] = s[(k - 1) - 1]
      BY <1>4, <2>2
    <3> QED
      BY <3>2, <3>3
  <2> QED
    BY <2>1, <2>2
<1> QED
  BY <1>2, <1>8, <1>9, <1>11, <1>12, <1>13 DEF LimiterOK, Ended

-----------------------------------------------------------------------------
(* The parameters.                                                         *)

\* The address generator goes round the parameters, rows times for each.
LEMMA NextAddress ==
  ASSUME NEW m \in Nat, rows \in {2, 4}, config.channels \in 1 .. MaxDepth,
         params.count = config.channels, params.repeats = rows, next_param,
         params.addr = (m \div rows) % config.channels, params.repeat = m % rows
  PROVE  /\ NextParamAddr = ((m + 1) \div rows) % config.channels
         /\ (IF repeat_last THEN 0 ELSE (params.repeat + 1) % 4) = (m + 1) % rows
<1> DEFINE C == config.channels
           a == m \div rows
<1>1. rows \in Nat \ {0} /\ a \in Nat /\ m % rows \in 0 .. rows - 1
  BY Division
<1>2. C \in Nat \ {0} /\ a % C \in 0 .. C - 1
  <2>1. C \in Nat \ {0}
    OBVIOUS
  <2> HIDE DEF C, a
  <2> QED
    BY <1>1, <2>1, Division
<1>3. repeat_last <=> m % rows = rows - 1
  BY <1>1 DEF repeat_last
<1>4. /\ m % rows # rows - 1 => (m + 1) \div rows = a /\ (m + 1) % rows = (m % rows) + 1
      /\ m % rows = rows - 1 => (m + 1) \div rows = a + 1 /\ (m + 1) % rows = 0
  BY <1>1, NextQuotient
<1>5. (IF repeat_last THEN 0 ELSE (params.repeat + 1) % 4) = (m + 1) % rows
  <2>1. CASE repeat_last
    BY <1>3, <1>4, <2>1
  <2>2. CASE ~repeat_last
    <3>1. (m % rows) + 1 \in 0 .. 3
      BY <1>1, <1>3, <2>2
    <3>2. ((m % rows) + 1) % 4 = (m % rows) + 1
      BY <3>1, Remainder
    <3> QED
      BY <1>3, <1>4, <2>2, <3>2
  <2> QED
    BY <2>1, <2>2
<1>6. NextParamAddr = ((m + 1) \div rows) % C
  <2>1. CASE ~repeat_last
    BY <1>3, <1>4, <2>1 DEF NextParamAddr
  <2>2. CASE repeat_last
    <3>1. NextParamAddr = IF params.addr + 1 = C THEN 0 ELSE (params.addr + 1) % MaxDepth
      BY <2>2 DEF NextParamAddr
    <3>2. /\ a % C # C - 1 => (a + 1) % C = (a % C) + 1
          /\ a % C = C - 1 => (a + 1) % C = 0
      <4> HIDE DEF C, a
      <4> QED
        BY <1>1, <1>2, NextQuotient
    <3>3. (m + 1) \div rows = a + 1
      BY <1>3, <1>4, <2>2
    <3>4. CASE a % C = C - 1
      BY <1>2, <3>1, <3>2, <3>3, <3>4
    <3>5. CASE a % C # C - 1
      <4>1. (a % C) + 1 \in 0 .. MaxDepth - 1
        BY <1>2, <3>5, ConstantsAssumption
      <4>2. ((a % C) + 1) % MaxDepth = (a % C) + 1
        BY <4>1, Remainder, ConstantsAssumption
      <4> QED
        BY <1>2, <3>1, <3>2, <3>3, <3>5, <4>2
    <3> QED
      BY <3>4, <3>5
  <2> QED
    BY <2>1, <2>2
<1> QED
  BY <1>5, <1>6

\* The producer fills its queue, and refills it as results take parameters.
LEMMA ParamsStep ==
  ASSUME NEW first \in Nat, NEW n \in Nat, NEW fill \in 0 .. 3, ParamsAt(first, n, fill),
         rows \in {2, 4}, config.channels \in 1 .. MaxDepth,
         rows' = rows, config'.channels = config.channels,
         transferring => fill = 3, ~param_write, Params,
         NEW n1, n1 = IF transferring THEN n + 1 ELSE n,
         NEW fill1, fill1 = IF fill < 3 THEN fill + 1 ELSE 3
  PROVE  ParamsAt(first, n1, fill1)'
<1> DEFINE C == config.channels
           m == n + fill
<1>1. \A k \in Nat : (k \div rows) % C \in 0 .. C - 1 /\ ParamAt(first, k) \in Nat
  <2>1. SUFFICES ASSUME NEW k \in Nat PROVE (k \div rows) % C \in 0 .. C - 1
    BY DEF ParamAt
  <2>2. k \div rows \in Nat /\ C \in Nat \ {0}
    BY Division
  <2> HIDE DEF C
  <2> QED
    BY <2>2, Division
<1>2. None \notin Nat
  BY NoneAssumption
<1>3. /\ params.count = C /\ params.repeats = rows
      /\ \A a \in 0 .. C - 1 : params.mem[a] = first + a
      /\ params.addr = (m \div rows) % C /\ params.repeat = m % rows
  BY DEF ParamsAt
<1>4. /\ params'.mem = params.mem /\ params'.count = C /\ params'.repeats = rows
      /\ params'.addr = NextParamAddr
      /\ params'.repeat = IF ~next_param THEN params.repeat
                          ELSE IF repeat_last THEN 0 ELSE (params.repeat + 1) % 4
      /\ params'.valid = (next_param \/ (params.valid /\ ~w_rdy(params.fifo, 3)))
      /\ params'.data = params.mem[params.addr]
      /\ params'.fifo = Fifo(params.fifo, 3, params.valid, params.data, transferring)
  BY <1>3 DEF Params, ProducerDepth
<1>5. params'.data = ParamAt(first, m)
  <2>1. m \in Nat
    OBVIOUS
  <2> HIDE DEF m, C
  <2> QED
    BY <1>1, <1>3, <1>4, <2>1 DEF ParamAt, C
<1>6. next_param <=> params.fifo.out = None \/ transferring
  BY DEF next_param
<1>7. /\ next_param => /\ params'.addr = ((m + 1) \div rows) % C
                       /\ params'.repeat = (m + 1) % rows
      /\ ~next_param => params'.addr = params.addr /\ params'.repeat = params.repeat
  <2>1. ASSUME next_param
        PROVE  params'.addr = ((m + 1) \div rows) % C /\ params'.repeat = (m + 1) % rows
    <3>1. m \in Nat
      OBVIOUS
    <3> HIDE DEF m
    <3> QED
      BY <1>3, <1>4, <2>1, <3>1, NextAddress
  <2>2. ~next_param => params'.addr = params.addr /\ params'.repeat = params.repeat
    BY <1>4 DEF NextParamAddr
  <2> QED
    BY <2>1, <2>2
<1>8. n1 + fill1 = IF next_param THEN m + 1 ELSE m
  <2>1. CASE fill = 3
    <3>1. params.fifo.out = ParamAt(first, n)
      BY <2>1 DEF ParamsAt
    <3>2. next_param <=> transferring
      BY <1>1, <1>2, <1>6, <3>1
    <3> QED
      BY <2>1, <3>2
  <2>2. CASE fill # 3
    <3>1. params.fifo.out = None
      BY <2>2 DEF ParamsAt, EmptyFifo
    <3> QED
      BY <1>6, <2>2, <3>1
  <2> QED
    BY <2>1, <2>2
<1>9. params'.addr = ((n1 + fill1) \div rows) % C /\ params'.repeat = (n1 + fill1) % rows
  BY <1>3, <1>7, <1>8
<1> DEFINE P(k) == ParamAt(first, k)
           F == params'.fifo
           Q1 == fill1 = 1 /\ F = EmptyFifo /\ params'.valid /\ params'.data = P(n1)
           Q2 == /\ fill1 = 2 /\ F = [items |-> <<P(n1)>>, out |-> None]
                 /\ params'.valid /\ params'.data = P(n1 + 1)
           Q3 == /\ fill1 = 3 /\ F = [items |-> <<P(n1 + 1)>>, out |-> P(n1)]
                 /\ params'.valid /\ params'.data = P(n1 + 2)
           Q4 == /\ fill1 = 3 /\ ~params'.valid
                 /\ F = [items |-> <<P(n1 + 1), P(n1 + 2)>>, out |-> P(n1)]
<1>10. Q1 \/ Q2 \/ Q3 \/ Q4
  <2> USE DEF Fifo, w_rdy
  <2>1. CASE fill = 0 /\ params.fifo = EmptyFifo /\ ~params.valid
    <3>1. ~transferring /\ n1 = n /\ fill1 = 1
      BY <2>1
    <3>2. F = EmptyFifo /\ next_param /\ m = n
      BY <1>4, <1>6, <2>1, <3>1 DEF EmptyFifo
    <3> QED
      BY <1>4, <1>5, <2>1, <3>1, <3>2
  <2>2. CASE fill = 1 /\ params.fifo = EmptyFifo /\ params.valid /\ params.data = P(n)
    <3>1. ~transferring /\ n1 = n /\ fill1 = 2
      BY <2>2
    <3>2. F = [items |-> <<P(n)>>, out |-> None] /\ next_param
      BY <1>4, <1>6, <2>2, <3>1 DEF EmptyFifo
    <3> QED
      BY <1>4, <1>5, <2>2, <3>1, <3>2
  <2>3. CASE /\ fill = 2 /\ params.fifo = [items |-> <<P(n)>>, out |-> None]
             /\ params.valid /\ params.data = P(n + 1)
    <3>1. ~transferring /\ n1 = n /\ fill1 = 3
      BY <2>3
    <3>2. F = [items |-> <<P(n + 1)>>, out |-> P(n)] /\ next_param
      BY <1>4, <1>6, <2>3, <3>1
    <3> QED
      BY <1>4, <1>5, <2>3, <3>1, <3>2
  <2>4. CASE /\ fill = 3 /\ params.fifo = [items |-> <<P(n + 1)>>, out |-> P(n)]
             /\ params.valid /\ params.data = P(n + 2)
    <3>1. params.fifo.out # None /\ w_rdy(params.fifo, 3)
      BY <1>1, <1>2, <2>4
    <3>2. CASE transferring
      <4>1. F = [items |-> <<P(n + 2)>>, out |-> P(n + 1)]
        BY <1>4, <2>4, <3>1, <3>2
      <4>2. n1 = n + 1 /\ n1 + 1 = n + 2 /\ n1 + 2 = m /\ fill1 = 3
        BY <2>4, <3>2
      <4> QED
        BY <1>4, <1>5, <1>6, <3>2, <4>1, <4>2
    <3>3. CASE ~transferring
      <4>1. F = [items |-> <<P(n + 1), P(n + 2)>>, out |-> P(n)]
        BY <1>4, <2>4, <3>1, <3>3
      <4>2. ~params'.valid
        BY <1>4, <1>6, <3>1, <3>3
      <4> QED
        BY <2>4, <3>3, <4>1, <4>2
    <3> QED
      BY <3>2, <3>3
  <2>5. CASE /\ fill = 3 /\ ~params.valid
             /\ params.fifo = [items |-> <<P(n + 1), P(n + 2)>>, out |-> P(n)]
    <3>1. params.fifo.out # None
      BY <1>1, <1>2, <2>5
    <3>2. CASE transferring
      <4>1. F = [items |-> <<P(n + 2)>>, out |-> P(n + 1)]
        BY <1>4, <2>5, <3>1, <3>2
      <4>2. n1 = n + 1 /\ n1 + 1 = n + 2 /\ n1 + 2 = m /\ fill1 = 3
        BY <2>5, <3>2
      <4> QED
        BY <1>4, <1>5, <1>6, <3>2, <4>1, <4>2
    <3>3. CASE ~transferring
      <4>1. F = params.fifo /\ ~params'.valid
        BY <1>4, <1>6, <2>5, <3>1, <3>3
      <4> QED
        BY <2>5, <3>3, <4>1
    <3> QED
      BY <3>2, <3>3
  <2> QED
    BY <2>1, <2>2, <2>3, <2>4, <2>5 DEF ParamsAt
<1>11. ParamsAt(first, n1, fill1)'
  BY <1>3, <1>4, <1>9, <1>10 DEF ParamsAt, ParamAt
<1> QED
  BY <1>11

-----------------------------------------------------------------------------
(* PostProcessPipeline and OutputWordAssembler.                            *)

\* PostProcessPipeline: every result enters with its own parameters.
LEMMA PipeStep ==
  ASSUME NEW p, NEW s, NEW u, u = NextValues(s),
         CountsOK(p, s), OutputOK(p, s), LimiterOK(p, s), PipeOK(s),
         ParamsAt(filter.channel, s[0], 3), ConfigOK, NEW r_en, Goes(r_en)
  PROVE  PipeOK(u)'
<1>1. s[0] \in Nat /\ u[0] = (IF transferring THEN s[0] + 1 ELSE s[0])
      /\ \A k \in 1 .. 12 : u[k] = s[k - 1]
  BY DEF CountsOK, ValueCounts, NextValues
<1> DEFINE new == IF transferring THEN [value |-> reader.out, param |-> params.fifo.out] ELSE None
<1>2. new = IF u[0] = u[1] THEN None ELSE ItemAt(u[1])
  <2>1. ASSUME transferring PROVE new = ItemAt(s[0])
    <3>1. reader.out = ResultAt(s[0])
      BY <2>1, Transfers
    <3>2. params.fifo.out = ChannelAt(s[0])
      BY DEF ParamsAt, ChannelAt
    <3> QED
      BY <2>1, <3>1, <3>2 DEF ItemAt
  <2>2. transferring <=> u[0] # u[1]
    BY <1>1
  <2> QED
    BY <1>1, <2>1, <2>2
<1>3. pipe' = [k \in 1 .. 7 |-> IF k = 1 THEN new ELSE pipe[k - 1]]
  <2>1. pipe = [k \in 1 .. 7 |-> pipe[k]] /\ 7 - 1 = 6
    BY DEF PipeOK
  <2>2. pipe' = <<new>> \o SubSeq(pipe, 1, 6)
    BY DEF Goes, Clocked, PostProcess
  <2> HIDE DEF new
  <2> QED
    BY <2>1, <2>2, Shift
<1>4. ASSUME NEW k \in 1 .. 7
      PROVE  pipe'[k] = IF u[k - 1] = u[k] THEN None ELSE ItemAt(u[k])
  <2>1. CASE k = 1
    BY <1>2, <1>3, <2>1
  <2>2. CASE k # 1
    <3>1. k - 1 \in 1 .. 7 /\ u[k] = s[k - 1] /\ u[k - 1] = s[(k - 1) - 1]
      BY <1>1, <2>2
    <3>2. pipe[k - 1] = IF s[(k - 1) - 1] = s[k - 1] THEN None ELSE ItemAt(s[k - 1])
      BY <3>1 DEF PipeOK
    <3> QED
      BY <1>3, <2>2, <3>1, <3>2
  <2> QED
    BY <2>1, <2>2
<1>5. \A n : ItemAt(n)' = ItemAt(n)
  BY GoesConstant, Constant
<1>6. pipe' = [k \in 1 .. 7 |-> IF u[k - 1] = u[k] THEN None ELSE ItemAt(u[k])]
  BY <1>3, <1>4
<1> QED
  BY <1>5, <1>6 DEF PipeOK

\* Where an item belongs: in group g of words, byte b of pixel x.
LEMMA Place4 ==
  ASSUME NEW n \in Nat, rows \in {2, 4}
  PROVE  \E g \in Nat, b \in 0 .. 3, x \in 0 .. rows - 1 :
           /\ n = 4 * rows * g + rows * b + x
           /\ n \div (4 * rows) = g /\ n % (4 * rows) = rows * b + x
           /\ n % rows = x /\ n \div rows = 4 * g + b /\ (n \div rows) % 4 = b
<1> DEFINE r == rows
           g == n \div (4 * r)
           m == n % (4 * r)
           b == m \div r
           x == m % r
<1>1. r \in {2, 4}
  OBVIOUS
<1> HIDE DEF r
<1>2. g \in Nat /\ m \in 0 .. 4 * r - 1 /\ n = (4 * r) * g + m
  <2>1. 4 * r \in Nat \ {0}
    BY <1>1
  <2> QED
    BY <2>1, Division
<1>3. b \in 0 .. 3 /\ x \in 0 .. r - 1 /\ m = r * b + x
  <2>1. b \in Nat /\ x \in 0 .. r - 1 /\ m = r * b + x
    <3>1. r \in Nat \ {0} /\ m \in Nat
      BY <1>1, <1>2
    <3> HIDE DEF m
    <3> QED
      BY <3>1, Division
  <2> HIDE DEF b, x, m
  <2> QED
    BY <1>1, <1>2, <2>1
<1> HIDE DEF g, m, b, x
<1>4. n = r * (4 * g + b) + x /\ 4 * g + b \in Nat /\ r \in Nat \ {0}
  BY <1>1, <1>2, <1>3
<1>5. n \div r = 4 * g + b /\ n % r = x
  BY <1>3, <1>4, Quotient
<1>6. (4 * g + b) % 4 = b
  BY <1>1, <1>2, <1>3
<1>7. n = 4 * r * g + r * b + x
  BY <1>1, <1>2, <1>3
<1> QED
  BY <1>2, <1>3, <1>5, <1>6, <1>7 DEF g, m, r

\* Appending leaves the elements that were there.
LEMMA AppendAt ==
  ASSUME NEW S, NEW f \in Seq(S), NEW v \in S
  PROVE  \A k \in 1 .. Len(f) : Append(f, v)[k] = f[k]
  BY AppendProperties

\* A byte that is shifted into the register is its last one.
LEMMA ShiftIn ==
  ASSUME NEW S, NEW f \in [1 .. 3 -> S], NEW v \in S
  PROVE  Tail(Append(f, v)) = [k \in 1 .. 3 |-> IF k = 3 THEN v ELSE f[k + 1]]
<1> DEFINE g == Append(f, v)
           t == Tail(g)
           h == [k \in 1 .. 3 |-> IF k = 3 THEN v ELSE f[k + 1]]
<1>1. f \in Seq(S) /\ Len(f) = 3
  OBVIOUS
<1>2. g \in Seq(S) /\ g # <<>>
  BY <1>1, AppendProperties
<1>3. Len(g) = 4
  <2>1. Len(g) = Len(f) + 1
    BY <1>1, AppendProperties
  <2> QED
    BY <1>1, <2>1
<1>4. g[4] = v
  <2>1. g[Len(f) + 1] = v
    BY <1>1, AppendProperties
  <2> QED
    BY <1>1, <2>1
<1>5. \A k \in 1 .. Len(f) : g[k] = f[k]
  BY <1>1, AppendAt
<1> HIDE DEF g
<1>6. t \in Seq(S) /\ Len(t) = Len(g) - 1
  BY <1>2, HeadTailProperties
<1>7. \A k \in 1 .. Len(t) : t[k] = g[k + 1]
  BY <1>2, HeadTailProperties
<1> HIDE DEF t
<1>8. h \in Seq(S) /\ Len(h) = 3
  OBVIOUS
<1>9. ASSUME NEW k \in 1 .. 3 PROVE t[k] = h[k]
  <2>1. t[k] = g[k + 1]
    BY <1>3, <1>6, <1>7
  <2>2. CASE k = 3
    BY <1>4, <2>1, <2>2
  <2>3. CASE k # 3
    <3>1. k + 1 \in 1 .. Len(f)
      BY <1>1, <2>3
    <3> QED
      BY <1>5, <2>1, <2>3, <3>1
  <2> QED
    BY <2>2, <2>3
<1> HIDE DEF h
<1>10. t = h
  BY <1>3, <1>6, <1>8, <1>9, SeqEqual
<1> QED
  BY <1>10 DEF t, g, h

\* A cycle of the assembler.
LEMMA AssemblerStep ==
  ASSUME NEW p, NEW s, NEW u, u = NextValues(s),
         CountsOK(p, s), PipeOK(s), AssemblerOK(s[7]), ShiftsOK, ConfigOK,
         NEW r_en, Goes(r_en)
  PROVE  AssemblerOK(u[7])'
<1>1. /\ rows \in {2, 4} /\ rows' = rows /\ \A n : ItemAt(n)' = ItemAt(n)
      /\ owa.shift \in [0 .. 3 -> [1 .. 3 -> Items \cup {None}]]
  BY Widths, GoesConstant, Constant DEF ShiftsOK
<1>2. s[7] \in Nat /\ u[7] = s[6] /\ u[7] \in {s[7], s[7] + 1}
  <2>1. s \in ValueCounts /\ s[7] <= s[7 - 1] /\ s[7 - 1] <= s[7] + 1
    BY DEF CountsOK
  <2> QED
    BY <2>1 DEF ValueCounts, NextValues
<1>3. assembling <=> u[7] # s[7]
  <2>1. pipe[7] = IF s[6] = s[7] THEN None ELSE ItemAt(s[7])
    BY DEF PipeOK
  <2>2. ItemAt(s[7]) # None
    BY <1>2, SomeResult
  <2> QED
    BY <1>2, <2>1, <2>2 DEF assembling
<1>4. pulse.reset = FALSE
  BY DEF Goes, NoPulse
<1>5. PICK g \in Nat, b \in 0 .. 3, x \in 0 .. rows - 1 :
        /\ s[7] = 4 * rows * g + rows * b + x
        /\ s[7] \div (4 * rows) = g /\ s[7] % (4 * rows) = rows * b + x
        /\ s[7] % rows = x /\ s[7] \div rows = 4 * g + b /\ (s[7] \div rows) % 4 = b
  BY <1>1, <1>2, Place4
<1>6. owa.pixel_index = x /\ owa.byte_count = b /\ owa.last_pixel_index = rows - 1
  BY <1>5 DEF AssemblerOK
<1>7. owa' = [byte_count |-> next_byte_count,
              pixel_index |-> IF ~assembling THEN owa.pixel_index
                              ELSE IF last_pixel THEN 0 ELSE (owa.pixel_index + 1) % 4,
              last_pixel_index |-> rows - 1,
              shift |-> IF assembling /\ ~word_done
                        THEN [owa.shift EXCEPT ![owa.pixel_index] = Tail(word)] ELSE owa.shift]
  BY <1>4 DEF Goes, Clocked, Assemble
<1>8. CASE ~assembling
  <2>1. /\ owa'.byte_count = owa.byte_count /\ owa'.pixel_index = owa.pixel_index
        /\ owa'.last_pixel_index = rows - 1 /\ owa'.shift = owa.shift /\ u[7] = s[7]
    BY <1>3, <1>7, <1>8 DEF next_byte_count
  <2> QED
    BY <1>1, <1>6, <2>1 DEF AssemblerOK
<1>9. CASE assembling
  <2>1. u[7] = s[7] + 1
    BY <1>2, <1>3, <1>9
  <2>2. pipe[7] = ItemAt(s[7])
    BY <1>3, <1>9, <1>2 DEF PipeOK
  <2> DEFINE b1 == IF x = rows - 1 THEN (b + 1) % 4 ELSE b
             x1 == IF x = rows - 1 THEN 0 ELSE x + 1
  <2>3. owa'.byte_count = b1 /\ owa'.pixel_index = x1
    <3>1. last_pixel <=> x = rows - 1
      BY <1>6 DEF last_pixel
    <3>2. next_byte_count = b1
      BY <1>6, <1>9, <3>1 DEF next_byte_count
    <3>3. x # rows - 1 => (x + 1) % 4 = x + 1
      BY <1>1
    <3> QED
      BY <1>6, <1>7, <1>9, <3>1, <3>2, <3>3
  <2>4. u[7] % rows = x1 /\ (u[7] \div rows) % 4 = b1
    <3>1. /\ x # rows - 1 => u[7] \div rows = s[7] \div rows /\ u[7] % rows = x + 1
          /\ x = rows - 1 => u[7] \div rows = (s[7] \div rows) + 1 /\ u[7] % rows = 0
      <4>1. rows \in Nat \ {0}
        BY <1>1
      <4> DEFINE m == s[7]
      <4>2. m \in Nat /\ u[7] = m + 1 /\ m % rows = x
        BY <1>2, <1>5, <2>1
      <4> HIDE DEF m
      <4>3. /\ m % rows # rows - 1 =>
                 (m + 1) \div rows = m \div rows /\ (m + 1) % rows = (m % rows) + 1
            /\ m % rows = rows - 1 =>
                 (m + 1) \div rows = (m \div rows) + 1 /\ (m + 1) % rows = 0
        BY <4>1, <4>2, NextQuotient
      <4> QED
        BY <4>2, <4>3 DEF m
    <3>2. (4 * g + b + 1) % 4 = (b + 1) % 4
      BY <1>5
    <3> QED
      BY <1>1, <1>5, <3>1, <3>2
  <2>5. word_done <=> b = 3
    BY <1>6, <1>9 DEF word_done
  <2>6. ASSUME NEW y \in 0 .. rows - 1, NEW c \in 0 .. 2,
               c < b1 + (IF y < x1 THEN 1 ELSE 0), b1 + (IF y < x1 THEN 1 ELSE 0) <= 3
        PROVE  owa'.shift[y][4 - (b1 + (IF y < x1 THEN 1 ELSE 0)) + c] =
                 ItemAt(4 * rows * (u[7] \div (4 * rows)) + rows * c + y)
    <3> DEFINE old == b + (IF y < x THEN 1 ELSE 0)
               new == b1 + (IF y < x1 THEN 1 ELSE 0)
    <3>1. ~(b = 3 /\ x = rows - 1)
      BY <1>1, <2>6
    <3>2. u[7] \div (4 * rows) = g
      <4>1. u[7] = (4 * rows) * g + (rows * b + x + 1) /\ rows * b + x + 1 \in 0 .. 4 * rows - 1
        BY <1>1, <1>5, <2>1, <3>1
      <4> QED
        BY <1>1, <4>1, Quotient
    <3>3. b1 = (IF x = rows - 1 THEN b + 1 ELSE b)
      BY <1>5, <3>1
    <3>4. CASE y # x
      <4>1. owa'.shift[y] = owa.shift[y]
        <5>1. ASSUME NEW f, NEW v, NEW z, z # y PROVE [f EXCEPT ![z] = v][y] = f[y]
          BY <5>1
        <5> QED
          BY <1>6, <1>7, <3>4, <5>1
      <4>2. new = old
        BY <1>1, <1>5, <3>3, <3>4
      <4>3. owa.shift[y][4 - old + c] = ItemAt(4 * rows * g + rows * c + y)
        <5>1. c < old /\ old <= 3
          BY <2>6, <4>2
        <5> QED
          BY <1>5, <1>6, <5>1 DEF AssemblerOK
      <4> QED
        BY <3>2, <4>1, <4>2, <4>3
    <3>5. CASE y = x
      <4>1. new = b + 1 /\ old = b /\ b <= 2
        BY <1>1, <1>5, <2>6, <3>3, <3>5
      <4>2. owa'.shift[x] = [k \in 1 .. 3 |-> IF k = 3 THEN pipe[7] ELSE owa.shift[x][k + 1]]
        <5>1. owa'.shift = [owa.shift EXCEPT ![x] = Tail(Append(owa.shift[x], pipe[7]))]
          BY <1>6, <1>7, <1>9, <2>5, <4>1 DEF word
        <5>2. x \in 0 .. 3 /\ owa.shift[x] \in [1 .. 3 -> Items \cup {None}]
          BY <1>1
        <5>3. pipe[7] \in Items \cup {None}
          BY <1>2, <2>2, SomeResult
        <5>4. Tail(Append(owa.shift[x], pipe[7])) =
                [k \in 1 .. 3 |-> IF k = 3 THEN pipe[7] ELSE owa.shift[x][k + 1]]
          <6> DEFINE f == owa.shift[x]
                     v == pipe[7]
                     S == Items \cup {None}
          <6>1. f \in [1 .. 3 -> S] /\ v \in S
            BY <5>2, <5>3
          <6> HIDE DEF f, v, S
          <6>2. Tail(Append(f, v)) = [k \in 1 .. 3 |-> IF k = 3 THEN v ELSE f[k + 1]]
            BY <6>1, ShiftIn
          <6> QED
            BY <6>2 DEF f, v
        <5>5. DOMAIN owa.shift = 0 .. 3
          BY <1>1
        <5> QED
          BY <5>1, <5>2, <5>4, <5>5
      <4>3. CASE c = b
        <5>1. 4 - new + c = 3
          BY <4>1, <4>3
        <5>2. s[7] = 4 * rows * g + rows * c + y
          BY <1>5, <3>5, <4>3
        <5> QED
          BY <2>2, <3>2, <3>5, <4>2, <5>1, <5>2
      <4>4. CASE c # b
        <5>1. c < b /\ b <= 3 /\ 4 - new + c \in 1 .. 2 /\ (4 - new + c) + 1 = 4 - b + c
          BY <1>5, <2>6, <4>1, <4>4
        <5>2. owa.shift[x][4 - b + c] = ItemAt(4 * rows * g + rows * c + y)
          <6>1. ~(x < x) /\ b + 0 = b
            BY <1>5
          <6> QED
            BY <1>5, <1>6, <3>5, <5>1, <6>1 DEF AssemblerOK
        <5> HIDE DEF new
        <5> QED
          BY <3>2, <3>5, <4>2, <5>1, <5>2 DEF new
      <4> QED
        BY <4>3, <4>4
    <3> QED
      BY <3>4, <3>5
  <2> QED
    <3>1. owa'.last_pixel_index = rows - 1
      BY <1>7
    <3> QED
      BY <1>1, <2>3, <2>4, <2>6, <3>1 DEF AssemblerOK
<1> QED
  BY <1>8, <1>9

-----------------------------------------------------------------------------
(* The output FIFO.                                                        *)

\* What a queue holds is in its output register first.
LEMMA Contents ==
  ASSUME NEW S, None \notin S, NEW f, f.items \in Seq(S), f.out \in S \cup {None}
  PROVE  /\ FifoContents(f) \in Seq(S)
         /\ Len(Held(f.out)) = IF f.out = None THEN 0 ELSE 1
         /\ Len(FifoContents(f)) = Len(Held(f.out)) + Len(f.items)
<1>1. Held(f.out) \in Seq(S) /\ Len(Held(f.out)) = IF f.out = None THEN 0 ELSE 1
  BY DEF Held
<1>2. Held(f.out) \o f.items \in Seq(S)
  BY <1>1, ConcatProperties
<1>3. Len(Held(f.out) \o f.items) = Len(Held(f.out)) + Len(f.items)
  BY <1>1, ConcatProperties
<1> QED
  BY <1>1, <1>2, <1>3 DEF FifoContents

\* The elements of the queue: its output register, then its items.
LEMMA ContentsAt ==
  ASSUME NEW S, None \notin S, NEW f, f.items \in Seq(S), f.out \in S \cup {None},
         NEW i \in 1 .. Len(FifoContents(f))
  PROVE  FifoContents(f)[i] = IF i = 1 /\ f.out # None THEN f.out
                              ELSE f.items[i - Len(Held(f.out))]
<1> DEFINE h == Held(f.out)
           items == f.items
<1>1. /\ h \in Seq(S) /\ Len(h) = IF f.out = None THEN 0 ELSE 1
      /\ f.out # None => h[1] = f.out
  BY DEF Held
<1>2. i \in 1 .. Len(h) + Len(items)
  BY Contents
<1> HIDE DEF h
<1>3. (h \o items)[i] = IF i <= Len(h) THEN h[i] ELSE items[i - Len(h)]
  BY <1>1, <1>2, ConcatProperties
<1>4. FifoContents(f)[i] = IF i <= Len(h) THEN h[i] ELSE items[i - Len(h)]
  BY <1>3 DEF FifoContents, h
<1>5. i \in Nat /\ i >= 1
  BY <1>1, <1>2
<1> QED
  BY <1>1, <1>4, <1>5 DEF h

\* A cycle of a queue.
LEMMA FifoStep ==
  ASSUME NEW S, None \notin S, fifo.items \in Seq(S), fifo.out \in S \cup {None},
         word_done \in BOOLEAN, word_done => word \in S, NEW r_en \in BOOLEAN,
         fifo' = Fifo(fifo, FifoDepth, word_done, word, r_en),
         NEW t, t = IF r_en /\ fifo.out # None THEN 1 ELSE 0,
         NEW a, a = IF word_done /\ w_rdy(fifo, FifoDepth) THEN 1 ELSE 0
  PROVE  /\ fifo'.items \in Seq(S) /\ fifo'.out \in S \cup {None}
         /\ Len(FifoContents(fifo')) = Len(FifoContents(fifo)) + a - t
         /\ \A i \in 1 .. Len(FifoContents(fifo')) :
              FifoContents(fifo')[i] =
                IF i + t <= Len(FifoContents(fifo)) THEN FifoContents(fifo)[i + t] ELSE word
         /\ t + Len(Held(fifo'.out)) <= Len(FifoContents(fifo))
         /\ Len(fifo.items) <= FifoDepth - 1 => Len(fifo'.items) <= FifoDepth - 1
         /\ Len(FifoContents(fifo)) \in Nat
<1> DEFINE f == fifo
           h == fifo'
           w == word
           e == word_done
           depth == FifoDepth
<1>1. /\ f.items \in Seq(S) /\ f.out \in S \cup {None} /\ (e => w \in S) /\ depth \in Nat
      /\ h = Fifo(f, depth, e, w, r_en)
      /\ t = IF r_en /\ f.out # None THEN 1 ELSE 0
      /\ a = IF e /\ w_rdy(f, depth) THEN 1 ELSE 0
  BY ConstantsAssumption
<1> HIDE DEF f, h, w, e, depth
<1> DEFINE items == f.items
           L == Len(items)
           moves == items # <<>> /\ (f.out = None \/ r_en)
           kept == IF moves THEN Tail(items) ELSE items
           K == IF moves THEN L - 1 ELSE L
           o == IF f.out = None THEN 0 ELSE 1
           v == IF h.out = None THEN 0 ELSE 1
<1>2. items \in Seq(S) /\ L \in Nat /\ (items # <<>> <=> L > 0)
  BY <1>1, EmptySeq
<1>3. kept \in Seq(S) /\ Len(kept) = K
  BY <1>2, HeadTailProperties
<1>4. \A i \in 1 .. K : kept[i] = items[i + L - K]
  <2>1. CASE moves
    <3>1. Tail(items) = kept /\ K = L - 1 /\ Len(Tail(items)) = L - 1
      BY <1>3, <2>1
    <3>2. \A i \in 1 .. Len(Tail(items)) : Tail(items)[i] = items[i + 1]
      BY <1>2, <2>1, HeadTailProperties
    <3> HIDE DEF kept, K, L
    <3>3. \A i \in 1 .. K : i + L - K = i + 1
      BY <1>2, <3>1
    <3> QED
      BY <3>1, <3>2, <3>3
  <2>2. CASE ~moves
    <3>1. kept = items /\ K = L
      BY <2>2
    <3> HIDE DEF kept, K, L
    <3>2. \A i \in 1 .. K : i + L - K = i
      BY <1>2, <3>1
    <3> QED
      BY <3>1, <3>2
  <2> QED
    BY <2>1, <2>2
<1>5. /\ h.items = IF a = 1 THEN Append(kept, w) ELSE kept
      /\ h.out = IF moves THEN Head(items) ELSE IF r_en THEN None ELSE f.out
  BY <1>1 DEF Fifo
<1>6. a \in {0, 1} /\ (a = 1 => w \in S /\ L < depth - 1)
  BY <1>1 DEF w_rdy
<1>7. t \in {0, 1} /\ o \in {0, 1} /\ v \in {0, 1} /\ t <= o
  BY <1>1
<1>8. moves => Head(items) \in S /\ Head(items) = items[1]
  BY <1>2, HeadTailProperties
<1>9. h.out \in S \cup {None}
  BY <1>1, <1>5, <1>8
<1>10. K \in Nat /\ v + K = o + L - t
  <2>1. CASE moves
    <3>1. L > 0 /\ K = L - 1 /\ h.out = Head(items) /\ v = 1 /\ o = t
      BY <1>1, <1>2, <1>5, <1>8, <2>1
    <3> HIDE DEF K, L, o, v
    <3> QED
      BY <1>2, <1>7, <3>1
  <2>2. CASE ~moves
    <3>1. K = L /\ h.out = IF r_en THEN None ELSE f.out
      BY <1>5, <2>2
    <3>2. v = o - t
      BY <1>1, <3>1
    <3> HIDE DEF K, L, o, v
    <3> QED
      BY <1>2, <1>7, <3>1, <3>2
  <2> QED
    BY <2>1, <2>2
<1>11. moves => h.out = items[1] /\ o = t
  BY <1>1, <1>5, <1>8
<1>12. ~moves /\ v = 1 => ~r_en /\ h.out = f.out /\ t = 0 /\ o = 1
  BY <1>1, <1>5
<1>13. o = 1 /\ t = 0 => h.out = f.out /\ v = 1
  BY <1>1, <1>5
<1> HIDE DEF kept, K, o, v, L, moves
<1>14. /\ Len(FifoContents(f)) = o + L /\ Len(Held(f.out)) = o
       /\ \A i \in 1 .. o + L :
            FifoContents(f)[i] = IF i = 1 /\ o = 1 THEN f.out ELSE items[i - o]
  <2>1. Len(FifoContents(f)) = o + L /\ Len(Held(f.out)) = o
    BY <1>1, Contents DEF o, L
  <2>2. SUFFICES ASSUME NEW i \in 1 .. o + L
                 PROVE  FifoContents(f)[i] = IF i = 1 /\ o = 1 THEN f.out ELSE items[i - o]
    BY <2>1
  <2>3. i \in 1 .. Len(FifoContents(f))
    BY <2>1
  <2>4. FifoContents(f)[i] = IF i = 1 /\ f.out # None THEN f.out
                             ELSE f.items[i - Len(Held(f.out))]
    BY <1>1, <2>3, ContentsAt
  <2> QED
    BY <2>1, <2>4 DEF o
<1>15. h.items \in Seq(S) /\ Len(h.items) = K + a
  <2>1. CASE a = 1
    <3>1. h.items = Append(kept, w)
      BY <1>5, <2>1
    <3>2. Append(kept, w) \in Seq(S)
      BY <1>3, <1>6, <2>1, AppendProperties
    <3>3. Len(Append(kept, w)) = Len(kept) + 1
      BY <1>3, <1>6, <2>1, AppendProperties
    <3> QED
      BY <1>3, <2>1, <3>1, <3>2, <3>3
  <2>2. CASE a = 0
    <3>1. h.items = kept
      BY <1>5, <2>2
    <3> QED
      BY <1>3, <1>10, <2>2, <3>1
  <2> QED
    BY <1>6, <2>1, <2>2
<1>16. \A i \in 1 .. K : h.items[i] = kept[i]
  <2>1. CASE a = 1
    <3>1. \A i \in 1 .. Len(kept) : Append(kept, w)[i] = kept[i]
      BY <1>3, <1>6, <2>1, AppendAt
    <3> QED
      BY <1>3, <1>5, <2>1, <3>1
  <2>2. CASE a # 1
    BY <1>5, <2>2
  <2> QED
    BY <2>1, <2>2
<1>17. a = 1 => h.items[K + 1] = w
  <2>1. SUFFICES ASSUME a = 1 PROVE h.items[K + 1] = w
    OBVIOUS
  <2>2. Append(kept, w)[Len(kept) + 1] = w
    BY <1>3, <1>6, <2>1, AppendProperties
  <2> QED
    BY <1>3, <1>5, <2>1, <2>2
<1>18. /\ Len(FifoContents(h)) = v + (K + a) /\ Len(Held(h.out)) = v
       /\ \A i \in 1 .. v + (K + a) :
            FifoContents(h)[i] = IF i = 1 /\ v = 1 THEN h.out ELSE h.items[i - v]
  <2>1. Len(FifoContents(h)) = v + (K + a) /\ Len(Held(h.out)) = v
    BY <1>9, <1>15, Contents DEF v
  <2>2. SUFFICES ASSUME NEW i \in 1 .. v + (K + a)
                 PROVE  FifoContents(h)[i] = IF i = 1 /\ v = 1 THEN h.out ELSE h.items[i - v]
    BY <2>1
  <2>3. i \in 1 .. Len(FifoContents(h))
    BY <2>1
  <2>4. FifoContents(h)[i] = IF i = 1 /\ h.out # None THEN h.out
                             ELSE h.items[i - Len(Held(h.out))]
    BY <1>9, <1>15, <2>3, ContentsAt
  <2> QED
    BY <2>1, <2>4 DEF v
<1>19. ASSUME NEW i \in 1 .. v + (K + a)
       PROVE  FifoContents(h)[i] = IF i + t <= o + L THEN FifoContents(f)[i + t] ELSE w
  <2>1. CASE i = 1 /\ v = 1
    <3>1. FifoContents(h)[i] = h.out /\ i + t <= o + L
      BY <1>2, <1>7, <1>10, <1>18, <2>1
    <3>2. CASE moves
      <4>1. FifoContents(f)[1 + t] = IF 1 + t = 1 /\ o = 1 THEN f.out ELSE items[(1 + t) - o]
        <5>1. 1 + t \in 1 .. o + L
          BY <1>2, <1>7, <2>1, <3>1
        <5> QED
          BY <1>14, <5>1
      <4>2. ~(1 + t = 1 /\ o = 1) /\ (1 + t) - o = 1
        BY <1>7, <1>11, <3>2
      <4> QED
        BY <1>11, <2>1, <3>1, <3>2, <4>1, <4>2
    <3>3. CASE ~moves
      <4>1. h.out = f.out /\ t = 0 /\ o = 1
        BY <1>12, <2>1, <3>3
      <4>2. 1 + t = 1 /\ 1 \in 1 .. o + L
        BY <1>2, <4>1
      <4>3. FifoContents(f)[1] = f.out
        BY <1>14, <4>1, <4>2
      <4> QED
        BY <2>1, <3>1, <4>1, <4>2, <4>3
    <3> QED
      BY <3>2, <3>3
  <2>2. CASE ~(i = 1 /\ v = 1)
    <3>1. FifoContents(h)[i] = h.items[i - v] /\ i - v \in 1 .. K + a
      <4>1. i - v \in 1 .. K + a
        BY <1>6, <1>7, <1>10, <1>19, <2>2
      <4> QED
        BY <1>18, <2>2, <4>1
    <3>2. CASE i - v <= K
      <4>1. i - v \in 1 .. K /\ i + t \in 1 .. o + L
        BY <1>2, <1>7, <1>10, <3>1, <3>2
      <4>2. h.items[i - v] = items[(i - v) + L - K]
        BY <1>4, <1>16, <4>1
      <4>3. (i - v) + L - K = (i + t) - o
        BY <1>2, <1>7, <1>10
      <4>4. ~(i + t = 1 /\ o = 1)
        <5>1. SUFFICES ASSUME i + t = 1, o = 1 PROVE FALSE
          OBVIOUS
        <5>2. t = 0 /\ i = 1
          BY <1>7, <5>1
        <5> QED
          BY <1>13, <2>2, <5>1, <5>2
      <4>5. FifoContents(f)[i + t] = items[(i + t) - o]
        BY <1>14, <4>1, <4>4
      <4> QED
        BY <3>1, <4>1, <4>2, <4>3, <4>5
    <3>3. CASE ~(i - v <= K)
      <4>1. a = 1 /\ i - v = K + 1 /\ ~(i + t <= o + L)
        BY <1>2, <1>6, <1>7, <1>10, <3>1, <3>3
      <4> QED
        BY <1>17, <3>1, <4>1
    <3> QED
      BY <3>2, <3>3
  <2> QED
    BY <2>1, <2>2
<1>20. Len(FifoContents(h)) = Len(FifoContents(f)) + a - t
  BY <1>2, <1>6, <1>7, <1>10, <1>14, <1>18
<1>21. t + Len(Held(h.out)) <= Len(FifoContents(f))
  BY <1>2, <1>7, <1>10, <1>14, <1>18
<1>22. L <= depth - 1 => Len(h.items) <= depth - 1
  BY <1>1, <1>2, <1>6, <1>15 DEF K
<1>23. Len(FifoContents(f)) \in Nat
  BY <1>2, <1>7, <1>14
<1> QED
  BY <1>9, <1>15, <1>14, <1>18, <1>19, <1>20, <1>21, <1>22, <1>23 DEF L, f, h, w, e, depth

\* How many words have been completed.
LEMMA WordCount ==
  ASSUME rows \in {2, 4}, NEW n \in Nat, NEW g \in Nat, NEW b \in Nat, NEW x \in Nat,
         b <= 3, x <= rows - 1, n = 4 * rows * g + rows * b + x
  PROVE  /\ WordsOf(n) = rows * g + (IF b = 3 THEN x ELSE 0)
         /\ WordsOf(n + 1) = rows * g + (IF b = 3 THEN x + 1 ELSE 0)
<1> DEFINE w == 4 * rows
           r == rows * b + x
<1>1. w \in Nat \ {0} /\ r \in 0 .. w - 1 /\ n = w * g + r
  OBVIOUS
<1>2. n \div w = g /\ n % w = r
  <2> HIDE DEF w, r
  <2> QED
    BY <1>1, Quotient
<1>3. (r > 3 * rows <=> b = 3 /\ x > 0) /\ (b = 3 => r - 3 * rows = x)
  OBVIOUS
<1>4. WordsOf(n) = rows * g + (IF b = 3 THEN x ELSE 0)
  BY <1>2, <1>3 DEF WordsOf
<1>5. CASE r = w - 1
  <2>1. b = 3 /\ x = rows - 1
    BY <1>5
  <2>2. n + 1 = w * (g + 1) + 0 /\ g + 1 \in Nat /\ 0 \in 0 .. w - 1
    BY <1>1, <1>5
  <2>3. (n + 1) \div w = g + 1 /\ (n + 1) % w = 0
    <3> HIDE DEF w, r
    <3> QED
      BY <1>1, <2>2, Quotient
  <2>4. WordsOf(n + 1) = rows * (g + 1)
    BY <2>3 DEF WordsOf
  <2> QED
    BY <1>4, <2>1, <2>4
<1>6. CASE r # w - 1
  <2>1. r + 1 \in 0 .. w - 1 /\ n + 1 = w * g + (r + 1)
    BY <1>1, <1>6
  <2>2. (n + 1) \div w = g /\ (n + 1) % w = r + 1
    <3> DEFINE z == r + 1
    <3>1. z \in 0 .. w - 1 /\ n + 1 = w * g + z
      BY <2>1
    <3> HIDE DEF w, z
    <3>2. (w * g + z) \div w = g /\ (w * g + z) % w = z
      BY <1>1, <3>1, Quotient
    <3> QED
      BY <3>1, <3>2 DEF z
  <2>3. (r + 1 > 3 * rows <=> b = 3) /\ (b = 3 => r + 1 - 3 * rows = x + 1)
    OBVIOUS
  <2>4. WordsOf(n + 1) = rows * g + (IF b = 3 THEN x + 1 ELSE 0)
    BY <2>2, <2>3 DEF WordsOf
  <2> QED
    BY <1>4, <2>4
<1> QED
  BY <1>5, <1>6

\* The fourth byte completes the word.
LEMMA AppendFourth ==
  ASSUME NEW S, NEW f \in [1 .. 3 -> S], NEW v \in S
  PROVE  Append(f, v) = [k \in 1 .. 4 |-> IF k = 4 THEN v ELSE f[k]]
<1> DEFINE g == Append(f, v)
           h == [k \in 1 .. 4 |-> IF k = 4 THEN v ELSE f[k]]
<1>1. f \in Seq(S) /\ Len(f) = 3
  OBVIOUS
<1>2. g \in Seq(S) /\ Len(g) = 4
  <2>1. g \in Seq(S)
    BY <1>1, AppendProperties
  <2>2. Len(g) = Len(f) + 1
    BY <1>1, AppendProperties
  <2> QED
    BY <1>1, <2>1, <2>2
<1>3. g[4] = v
  <2>1. g[Len(f) + 1] = v
    BY <1>1, AppendProperties
  <2> QED
    BY <1>1, <2>1
<1>4. \A k \in 1 .. Len(f) : g[k] = f[k]
  BY <1>1, AppendAt
<1>5. h \in Seq(S) /\ Len(h) = 4
  OBVIOUS
<1> HIDE DEF g
<1>6. ASSUME NEW k \in 1 .. 4 PROVE g[k] = h[k]
  <2>1. CASE k = 4
    BY <1>3, <2>1
  <2>2. CASE k # 4
    <3>1. k \in 1 .. Len(f)
      BY <1>1, <2>2
    <3> QED
      BY <1>4, <2>2, <3>1
  <2> QED
    BY <2>1, <2>2
<1> HIDE DEF h
<1>7. g = h
  BY <1>2, <1>5, <1>6, SeqEqual
<1> QED
  BY <1>7 DEF g, h

\* The word that a byte completes.
LEMMA WordStep ==
  ASSUME NEW p, NEW s, NEW u, u = NextValues(s),
         CountsOK(p, s), PipeOK(s), AssemblerOK(s[7]), ShiftsOK, ConfigOK
  PROVE  /\ word_done \in BOOLEAN /\ WordsOf(s[7]) \in Nat
         /\ word_done => word = WordAt(WordsOf(s[7])) /\ WordsOf(u[7]) = WordsOf(s[7]) + 1
         /\ word_done => word \in [1 .. 4 -> Items]
         /\ ~word_done => WordsOf(u[7]) = WordsOf(s[7])
<1>1. /\ rows \in {2, 4}
      /\ owa.shift \in [0 .. 3 -> [1 .. 3 -> Items \cup {None}]]
  BY Widths DEF ShiftsOK
<1>2. s[7] \in Nat /\ u[7] = s[6] /\ u[7] \in {s[7], s[7] + 1}
  <2>1. s \in ValueCounts /\ s[7] <= s[7 - 1] /\ s[7 - 1] <= s[7] + 1
    BY DEF CountsOK
  <2> QED
    BY <2>1 DEF ValueCounts, NextValues
<1>3. assembling <=> u[7] # s[7]
  <2>1. pipe[7] = IF s[6] = s[7] THEN None ELSE ItemAt(s[7])
    BY DEF PipeOK
  <2>2. ItemAt(s[7]) # None
    BY <1>2, SomeResult
  <2> QED
    BY <1>2, <2>1, <2>2 DEF assembling
<1>4. PICK g \in Nat, b \in 0 .. 3, x \in 0 .. rows - 1 :
        /\ s[7] = 4 * rows * g + rows * b + x
        /\ s[7] \div (4 * rows) = g /\ s[7] % (4 * rows) = rows * b + x
        /\ s[7] % rows = x /\ s[7] \div rows = 4 * g + b /\ (s[7] \div rows) % 4 = b
  BY <1>1, <1>2, Place4
<1>5. owa.pixel_index = x /\ owa.byte_count = b
  BY <1>4 DEF AssemblerOK
<1>6. /\ WordsOf(s[7]) = rows * g + (IF b = 3 THEN x ELSE 0)
      /\ WordsOf(s[7] + 1) = rows * g + (IF b = 3 THEN x + 1 ELSE 0)
  <2> DEFINE n == s[7]
  <2>1. /\ n = 4 * rows * g + rows * b + x
        /\ n \in Nat /\ b \in Nat /\ x \in Nat /\ b <= 3 /\ x <= rows - 1
    BY <1>1, <1>2, <1>4
  <2> HIDE DEF n
  <2>2. /\ WordsOf(n) = rows * g + (IF b = 3 THEN x ELSE 0)
        /\ WordsOf(n + 1) = rows * g + (IF b = 3 THEN x + 1 ELSE 0)
    BY <1>1, <2>1, WordCount
  <2> QED
    BY <2>2 DEF n
<1>7. word_done <=> assembling /\ b = 3
  BY <1>5 DEF word_done
<1>8. word_done \in BOOLEAN
  BY DEF word_done, assembling
<1>9. WordsOf(s[7]) \in Nat
  BY <1>1, <1>4, <1>6
<1>10. ~word_done => WordsOf(u[7]) = WordsOf(s[7])
  BY <1>2, <1>3, <1>6, <1>7
<1>11. ASSUME word_done
       PROVE  /\ word = WordAt(WordsOf(s[7])) /\ WordsOf(u[7]) = WordsOf(s[7]) + 1
              /\ word \in [1 .. 4 -> Items]
  <2>1. b = 3 /\ u[7] = s[7] + 1 /\ WordsOf(s[7]) = rows * g + x
    BY <1>2, <1>3, <1>6, <1>7, <1>11
  <2>2. WordsOf(u[7]) = WordsOf(s[7]) + 1
    BY <1>1, <1>6, <2>1
  <2>3. (rows * g + x) \div rows = g /\ (rows * g + x) % rows = x
    BY <1>1, Quotient
  <2> DEFINE I(k) == ItemAt(4 * rows * g + rows * (k - 1) + x)
             f == owa.shift[x]
             v == pipe[7]
             S == Items \cup {None}
  <2>4. WordAt(WordsOf(s[7])) = [k \in 1 .. 4 |-> I(k)]
    BY <2>1, <2>3 DEF WordAt
  <2>5. \A k \in 1 .. 4 : I(k) \in Items
    <3>1. SUFFICES ASSUME NEW k \in 1 .. 4 PROVE I(k) \in Items
      OBVIOUS
    <3>2. 4 * rows * g + rows * (k - 1) + x \in Nat
      BY <1>1
    <3> QED
      BY <3>2, SomeResult
  <2>6. v = I(4)
    <3>1. pipe[7] = ItemAt(s[7])
      BY <1>2, <1>3, <1>7, <1>11 DEF PipeOK
    <3>2. s[7] = 4 * rows * g + rows * (4 - 1) + x
      BY <1>1, <1>4, <2>1
    <3> QED
      BY <3>1, <3>2
  <2>7. \A k \in 1 .. 3 : f[k] = I(k)
    <3>1. SUFFICES ASSUME NEW k \in 1 .. 3 PROVE f[k] = I(k)
      OBVIOUS
    <3> DEFINE arrived == owa.byte_count + (IF x < owa.pixel_index THEN 1 ELSE 0)
               c == k - 1
    <3>2. arrived = 3 /\ c \in 0 .. 2 /\ c < arrived /\ arrived <= 3 /\ 4 - arrived + c = k
      BY <1>5, <2>1
    <3>3. owa.shift[x][4 - arrived + c] =
            ItemAt(4 * rows * (s[7] \div (4 * rows)) + rows * c + x)
      BY <3>2 DEF AssemblerOK
    <3> QED
      BY <1>4, <3>2, <3>3
  <2>8. v \in S /\ f \in [1 .. 3 -> S]
    BY <1>1, <2>5, <2>6
  <2>9. word = Append(f, v)
    BY <1>5 DEF word
  <2> HIDE DEF f, v, S, I
  <2>10. f \in [1 .. 3 -> S]
    BY <2>8
  <2>11. Append(f, v) = [k \in 1 .. 4 |-> IF k = 4 THEN v ELSE f[k]]
    BY <2>8, <2>10, AppendFourth
  <2>12. word = [k \in 1 .. 4 |-> I(k)]
    BY <2>6, <2>7, <2>9, <2>11
  <2> QED
    BY <2>2, <2>4, <2>5, <2>12
<1> QED
  BY <1>8, <1>9, <1>10, <1>11

\* The output FIFO in a cycle.
LEMMA OutputFifoStep ==
  ASSUME FifoTyped, word_done \in BOOLEAN, word_done => word \in [1 .. 4 -> Items],
         NEW r_en \in BOOLEAN, fifo' = Fifo(fifo, FifoDepth, word_done, word, r_en),
         NEW t, t = IF r_en /\ fifo.out # None THEN 1 ELSE 0,
         NEW a, a = IF word_done /\ w_rdy(fifo, FifoDepth) THEN 1 ELSE 0
  PROVE  /\ FifoTyped'
         /\ Len(FifoContents(fifo')) = Len(FifoContents(fifo)) + a - t
         /\ \A i \in 1 .. Len(FifoContents(fifo')) :
              FifoContents(fifo')[i] =
                IF i + t <= Len(FifoContents(fifo)) THEN FifoContents(fifo)[i + t] ELSE word
         /\ t + Len(Held(fifo'.out)) <= Len(FifoContents(fifo))
         /\ Len(FifoContents(fifo)) \in Nat
<1> DEFINE S == [1 .. 4 -> Items]
<1>1. /\ None \notin S /\ fifo.items \in Seq(S) /\ fifo.out \in S \cup {None}
      /\ (word_done => word \in S) /\ Len(fifo.items) <= FifoDepth - 1
  BY NoneAssumption DEF FifoTyped
<1> HIDE DEF S
<1>2. fifo'.items \in Seq(S)
  BY <1>1, FifoStep
<1>3. fifo'.out \in S \cup {None}
  BY <1>1, FifoStep
<1>4. Len(FifoContents(fifo')) = Len(FifoContents(fifo)) + a - t
  BY <1>1, FifoStep
<1>5. \A i \in 1 .. Len(FifoContents(fifo')) :
        FifoContents(fifo')[i] =
          IF i + t <= Len(FifoContents(fifo)) THEN FifoContents(fifo)[i + t] ELSE word
  BY <1>1, FifoStep
<1>6. t + Len(Held(fifo'.out)) <= Len(FifoContents(fifo)) /\ Len(FifoContents(fifo)) \in Nat
  BY <1>1, FifoStep
<1>7. Len(fifo'.items) <= FifoDepth - 1
  BY <1>1, FifoStep
<1>8. FifoTyped'
  <2>1. fifo' = [items |-> fifo'.items, out |-> fifo'.out]
    BY DEF Fifo
  <2>2. fifo' \in [items : Seq(S), out : S \cup {None}]
    BY <1>2, <1>3, <2>1
  <2> QED
    BY <1>7, <2>2 DEF FifoTyped, S
<1> QED
  BY <1>4, <1>5, <1>6, <1>8

\* The output FIFO holds the words in the order in which the driver takes them.
LEMMA QueueStep ==
  ASSUME NEW p, NEW s, NEW u, u = NextValues(s), NEW taken \in Nat,
         CountsOK(p, s), PipeOK(s), AssemblerOK(s[7]), QueueOK(s, taken), ConfigOK,
         ShiftsOK, FifoTyped, NEW r_en \in BOOLEAN, Goes(r_en),
         NEW t, t = IF r_en /\ fifo.out # None THEN 1 ELSE 0
  PROVE  QueueOK(u, taken + t)' /\ FifoTyped'
<1> DEFINE a == IF word_done /\ w_rdy(fifo, FifoDepth) THEN 1 ELSE 0
           c == FifoContents(fifo)
           d == FifoContents(fifo')
           W == WordsOf(s[7])
           X == WordsOf(u[7])
           W1 == IF word_done THEN 1 ELSE 0
           H == Len(Held(fifo'.out))
<1>1. /\ word_done \in BOOLEAN /\ W \in Nat
      /\ word_done => word = WordAt(W) /\ word \in [1 .. 4 -> Items]
      /\ X = W + W1
  BY WordStep
<1>2. fifo' = Fifo(fifo, FifoDepth, word_done, word, r_en)
  BY DEF Goes, Clocked
<1>3. a \in 0 .. 1 /\ a <= W1 /\ W1 \in 0 .. 1 /\ t \in 0 .. 1
  OBVIOUS
<1> HIDE DEF a, W1
<1>4. FifoTyped' /\ Len(c) \in Nat /\ Len(d) = Len(c) + a - t /\ t + H <= Len(c)
  BY <1>1, <1>2, OutputFifoStep DEF a
<1>5. \A i \in 1 .. Len(d) : d[i] = IF i + t <= Len(c) THEN c[i + t] ELSE word
  BY <1>1, <1>2, OutputFifoStep DEF a
<1>6. /\ taken + Len(c) <= W
      /\ taken + Len(c) = W => \A i \in 1 .. Len(c) : c[i] = WordAt(taken + i - 1)
  BY DEF QueueOK
<1>7. \A n : WordsOf(n)' = WordsOf(n) /\ WordAt(n)' = WordAt(n)
  BY GoesConstant, Constant
<1>8. u[8] = s[7]
  BY DEF NextValues
<1>9. H \in Nat
  <2>1. \A x : Held(x) = <<>> \/ Held(x) = <<x>>
    BY DEF Held
  <2> QED
    BY <2>1
<1> HIDE DEF c, d, W, X, H
<1>10. (taken + t) + Len(d) <= X
  BY <1>1, <1>3, <1>4, <1>6
<1>11. (taken + t) + H <= W
  BY <1>1, <1>3, <1>4, <1>6, <1>9
<1>12. ASSUME (taken + t) + Len(d) = X, NEW i \in 1 .. Len(d)
       PROVE  d[i] = WordAt((taken + t) + i - 1)
  <2>1. taken + Len(c) = W /\ a = W1
    BY <1>1, <1>3, <1>4, <1>6, <1>12
  <2>2. CASE i + t <= Len(c)
    <3>1. i + t \in 1 .. Len(c) /\ taken + (i + t) - 1 = (taken + t) + i - 1
      BY <1>3, <1>4, <2>2
    <3> QED
      BY <1>5, <1>6, <2>1, <2>2, <3>1
  <2>3. CASE ~(i + t <= Len(c))
    <3>1. W1 = 1 /\ (taken + t) + i - 1 = W
      BY <1>1, <1>3, <1>4, <2>1, <2>3
    <3>2. word = WordAt(W)
      BY <1>1, <3>1 DEF W1
    <3> QED
      BY <1>5, <2>3, <3>1, <3>2
  <2> QED
    BY <2>2, <2>3
<1>13. WordsOf(u[7]) = X /\ WordsOf(u[8]) = W /\ FifoContents(fifo') = d /\ Len(Held(fifo'.out)) = H
  BY <1>8 DEF X, W, d, H
<1>14. QueueOK(u, taken + t)'
  BY <1>7, <1>10, <1>11, <1>12, <1>13 DEF QueueOK, FifoContents, Held
<1> QED
  BY <1>4, <1>14

-----------------------------------------------------------------------------
(* All of a cycle                                                          *)

\* The shift registers keep their shape.
LEMMA ShiftsStep ==
  ASSUME ShiftsOK, Assemble, owa.pixel_index \in 0 .. 3, pipe[7] \in Items \cup {None}
  PROVE  ShiftsOK'
<1> DEFINE S == Items \cup {None}
<1>1. owa.shift \in [0 .. 3 -> [1 .. 3 -> S]]
  BY DEF ShiftsOK
<1>2. CASE pulse.reset
  BY <1>2 DEF Assemble, ResetAssembler, Nones, ShiftsOK
<1>3. CASE ~pulse.reset
  <2>1. owa'.shift = IF assembling /\ ~word_done
                     THEN [owa.shift EXCEPT ![owa.pixel_index] = Tail(word)] ELSE owa.shift
    BY <1>3 DEF Assemble
  <2>2. owa.shift[owa.pixel_index] \in [1 .. 3 -> S] /\ pipe[7] \in S
    BY <1>1
  <2>3. word = Append(owa.shift[owa.pixel_index], pipe[7])
    BY DEF word
  <2> HIDE DEF S
  <2>4. Tail(word) \in [1 .. 3 -> S]
    <3>1. Tail(word) = [k \in 1 .. 3 |-> IF k = 3 THEN pipe[7]
                                         ELSE owa.shift[owa.pixel_index][k + 1]]
      <4>1. PICK f \in [1 .. 3 -> S], v \in S : f = owa.shift[owa.pixel_index] /\ v = pipe[7]
        BY <2>2
      <4>2. Tail(Append(f, v)) = [k \in 1 .. 3 |-> IF k = 3 THEN v ELSE f[k + 1]]
        BY ONLY ShiftIn, <4>1
      <4> QED
        BY <2>3, <4>1, <4>2
    <3>2. \A k \in 1 .. 3 : k # 3 => k + 1 \in 1 .. 3
      OBVIOUS
    <3> QED
      BY <2>2, <3>1, <3>2
  <2>5. owa'.shift \in [0 .. 3 -> [1 .. 3 -> S]]
    BY <1>1, <2>1, <2>4
  <2> QED
    BY <2>5 DEF S, ShiftsOK
<1> QED
  BY <1>2, <1>3

\* Between two instructions that change the configuration, what is under way is what the
\* histories say, in every cycle and whether or not the CPU takes a word.
LEMMA UnderWayStep ==
  ASSUME NEW p, NEW s, NEW q, NEW u, q = NextPasses(p), u = NextValues(s), NEW taken \in Nat,
         UnderWay(p, s, taken), ShiftsOK, FifoTyped, NEW r_en \in BOOLEAN, Goes(r_en),
         NEW t, t = IF r_en /\ fifo.out # None THEN 1 ELSE 0
  PROVE  UnderWay(q, u, taken + t)' /\ ShiftsOK' /\ FifoTyped'
<1>1. /\ ConfigOK /\ CountsOK(p, s) /\ FetchOK(p) /\ ArrayOK(p) /\ ReaderOK(p) /\ OutputOK(p, s)
      /\ LimiterOK(p, s) /\ PipeOK(s) /\ AssemblerOK(s[7]) /\ QueueOK(s, taken)
      /\ ParamsAt(filter.channel, s[0], 3)
  BY DEF UnderWay
<1>2. config' = config /\ filter'.channel = filter.channel
  BY GoesConstant
<1>3. ConfigOK'
  BY <1>1, <1>2, Constant
<1>4. p \in PassCounts /\ s \in ValueCounts
  BY <1>1 DEF CountsOK
<1>5. CountsOK(q, u)'
  BY <1>1, CountsStep
<1>6. FetchOK(q)'
  BY <1>1, <1>4, FetchStep
<1>7. ArrayOK(q)'
  BY <1>1, <1>4, ArrayStep
<1>8. ReaderOK(q)'
  BY <1>1, <1>4, ReaderStep
<1>9. OutputOK(q, u)'
  BY <1>1, OutputStep
<1>10. LimiterOK(q, u)'
  BY <1>1, LimiterStep
<1>11. PipeOK(u)'
  BY <1>1, PipeStep
<1>12. AssemblerOK(u[7])'
  BY <1>1, AssemblerStep
<1>13. QueueOK(u, taken + t)' /\ FifoTyped'
  BY <1>1, QueueStep
<1>14. ParamsAt(filter.channel, u[0], 3)'
  <2>1. rows \in {2, 4} /\ rows' = rows /\ config'.channels = config.channels
    BY <1>1, <1>2, Widths, Constant
  <2>2. config.channels \in 1 .. MaxDepth
    BY <1>1, ConstantsAssumption DEF ConfigOK
  <2>3. filter.channel \in Nat /\ s[0] \in Nat
    BY <1>1, <1>4 DEF ConfigOK, ValueCounts
  <2>4. ~param_write /\ Params
    BY DEF Goes, Clocked, NoPulse, param_write
  <2>5. u[0] = IF transferring THEN s[0] + 1 ELSE s[0]
    BY DEF NextValues
  <2>6. ParamsAt(filter.channel, u[0], 3)'
    <3> DEFINE n1 == u[0]
    <3> SUFFICES ASSUME NEW first, first = filter.channel, NEW n, n = u[0]
                 PROVE  ParamsAt(first, n, 3)'
      BY <1>2 DEF ParamsAt, ParamAt
    <3>1. first \in Nat /\ ParamsAt(first, s[0], 3) /\ n = IF transferring THEN s[0] + 1 ELSE s[0]
      BY <1>1, <2>3, <2>5
    <3>2. 3 \in 0 .. 3 /\ 3 = (IF 3 < 3 THEN 3 + 1 ELSE 3)
      OBVIOUS
    <3>3. transferring => 3 = 3
      OBVIOUS
    <3> QED
      BY <2>1, <2>2, <2>3, <2>4, <3>1, <3>2, <3>3, ParamsStep
  <2> QED
    BY <2>6
<1>15. ShiftsOK'
  <2>1. owa.pixel_index \in 0 .. 3
    <3>1. s[7] \in Nat /\ rows \in {2, 4} /\ rows \in Nat \ {0}
      BY <1>1, <1>4, Widths DEF ValueCounts
    <3>2. s[7] % rows \in 0 .. rows - 1
      BY <3>1, Division
    <3> QED
      BY <1>1, <3>1, <3>2 DEF AssemblerOK
  <2>2. pipe[7] \in Items \cup {None}
    <3>1. pipe[7] = IF s[6] = s[7] THEN None ELSE ItemAt(s[7])
      BY <1>1 DEF PipeOK
    <3>2. s[7] \in Nat
      BY <1>4 DEF ValueCounts
    <3> QED
      BY <1>1, <3>1, <3>2, SomeResult
  <2>3. Assemble
    BY DEF Goes, Clocked
  <2> QED
    BY <2>1, <2>2, <2>3, ShiftsStep
<1> QED
  BY <1>3, <1>5, <1>6, <1>7, <1>8, <1>9, <1>10, <1>11, <1>12, <1>13, <1>14, <1>15 DEF UnderWay

-----------------------------------------------------------------------------
(* Cycles between two starts                                               *)

\* What the cycle makes of the registers when nothing is under way, and the accumulators
\* hold results nobody takes.
LEMMA Idle ==
  ASSUME ~fetch.running, fetch.count = 0, limiter.counter = 0,
         last = Nones(9), pipe = Nones(7), owa.byte_count = 0, owa.pixel_index = 0,
         fifo = EmptyFifo, ~pulse.start,
         NEW pulses, NEW channel, Clocked(pulses, channel, FALSE)
  PROVE  /\ ~fetch'.running /\ fetch'.count = 0
         /\ limiter'.counter = 0 /\ ~limiter'.finished
         /\ last' = Nones(9) /\ pipe' = Nones(7)
         /\ owa'.byte_count = 0 /\ owa'.pixel_index = 0
         /\ fifo' = EmptyFifo
         /\ ~fetch_last /\ ~transferring /\ ~word_done
<1>1. Fetch /\ Array /\ Limit /\ PostProcess /\ Assemble
      /\ fifo' = Fifo(fifo, FifoDepth, word_done, word, FALSE)
  BY DEF Clocked
<1>2. ~fetch_last /\ ~limiter_running /\ ~transferring
  BY DEF fetch_last, limiter_running, transferring
<1>3. ~assembling /\ ~word_done
  BY DEF Nones, assembling, word_done
<1>4. ~fetch'.running /\ fetch'.count = 0
  BY <1>1, <1>2 DEF Fetch
<1>5. limiter'.counter = 0 /\ ~limiter'.finished
  BY <1>1, <1>2 DEF Limit
<1>6. last' = Nones(9)
  <2>1. last = [k \in 1 .. 9 |-> last[k]] /\ 9 \in Nat \ {0} /\ 9 - 1 = 8
    BY DEF Nones
  <2>2. <<None>> \o SubSeq(last, 1, 9 - 1) =
          [k \in 1 .. 9 |-> IF k = 1 THEN None ELSE last[k - 1]]
    BY <2>1, Shift
  <2>3. last' = <<None>> \o SubSeq(last, 1, 8)
    BY <1>1, <1>2 DEF Array
  <2>4. \A k \in 1 .. 9 : k # 1 => last[k - 1] = None
    BY DEF Nones
  <2> QED
    BY <2>1, <2>2, <2>3, <2>4 DEF Nones
<1>7. pipe' = Nones(7)
  <2>1. pipe = [k \in 1 .. 7 |-> pipe[k]] /\ 7 \in Nat \ {0} /\ 7 - 1 = 6
    BY DEF Nones
  <2>2. <<None>> \o SubSeq(pipe, 1, 7 - 1) =
          [k \in 1 .. 7 |-> IF k = 1 THEN None ELSE pipe[k - 1]]
    BY <2>1, Shift
  <2>3. pipe' = <<None>> \o SubSeq(pipe, 1, 6)
    BY <1>1, <1>2 DEF PostProcess
  <2>4. \A k \in 1 .. 7 : k # 1 => pipe[k - 1] = None
    BY DEF Nones
  <2> QED
    BY <2>1, <2>2, <2>3, <2>4 DEF Nones
<1>8. owa'.byte_count = 0 /\ owa'.pixel_index = 0
  BY <1>1, <1>3 DEF Assemble, ResetAssembler, next_byte_count
<1>9. fifo' = EmptyFifo
  BY <1>1, <1>3 DEF Fifo, EmptyFifo
<1> QED
  BY <1>2, <1>3, <1>4, <1>5, <1>6, <1>7, <1>8, <1>9

\* Nothing arrives from an empty array.
LEMMA NothingArrives ==
  ASSUME last = Nones(9), NEW i \in 0 .. 7
  PROVE  ~accumulator_new(i)
<1>1. 5 + Row(i) + Column(i) \in 1 .. 9
  BY DEF Row, Column
<1> QED
  BY <1>1 DEF accumulator_new, Nones

\* Nothing comes of nothing, and a reset makes it a clean start.
LEMMA QuietStep ==
  ASSUME Quiet, ~pulse.start, NEW pulses, NEW channel, Clocked(pulses, channel, FALSE)
  PROVE  Quiet' /\ (pulse.reset \/ Clean => Clean')
<1>1. ~available /\ reader.index = 0 /\ ~reader.flags[0]
  BY NothingArrives DEF Quiet, available
<1>2. ~limiter_running /\ Read
  BY DEF Quiet, limiter_running, Clocked
<1>3. /\ ~fetch'.running /\ fetch'.count = 0
      /\ limiter'.counter = 0 /\ ~limiter'.finished
      /\ last' = Nones(9) /\ pipe' = Nones(7)
      /\ owa'.byte_count = 0 /\ owa'.pixel_index = 0 /\ fifo' = EmptyFifo
  BY Idle DEF Quiet
<1>4. \A i \in 0 .. 7 : next_flags[i] <=> reader.flags[i]
  BY <1>1, NothingArrives DEF Quiet, next_flags
<1>5. reader'.index = 0 /\ ~reader'.flags[0]
  BY <1>1, <1>2, <1>4 DEF Read, ResetReader
<1>6. Quiet'
  BY <1>3, <1>5 DEF Quiet, Nones, EmptyFifo
<1>7. ASSUME pulse.reset PROVE Clean'
  <2>1. reader' = [ResetReader EXCEPT !.acc = Accumulators]
    BY <1>2, <1>7 DEF Read
  <2>2. reader' = [ResetReader EXCEPT !.acc = reader'.acc]
    BY <2>1 DEF ResetReader
  <2> QED
    BY <1>6, <2>2 DEF Clean, ResetReader
<1>8. ASSUME Clean, ~pulse.reset PROVE Clean'
  <2>1. reader.flags = [i \in 0 .. 7 |-> FALSE] /\ reader.index = 0 /\ reader.out = None
    BY <1>8 DEF Clean, ResetReader
  <2>2. next_flags = [i \in 0 .. 7 |-> FALSE]
    BY <1>4, <2>1 DEF next_flags
  <2>3. reader' = [acc |-> Accumulators, flags |-> next_flags, index |-> 0, out |-> None]
    BY <1>1, <1>2, <1>8, <2>1 DEF Read
  <2>4. reader' = [ResetReader EXCEPT !.acc = Accumulators]
    <3> DEFINE acc == [i \in 0 .. 7 |-> None]
               flags == [i \in 0 .. 7 |-> FALSE]
    <3>1. ResetReader = [acc |-> acc, flags |-> flags, index |-> 0, out |-> None]
      BY DEF ResetReader
    <3>2. next_flags = flags
      BY <2>2
    <3> HIDE DEF acc, flags
    <3> QED
      BY <2>3, <3>1, <3>2
  <2>5. reader' = [ResetReader EXCEPT !.acc = reader'.acc]
    BY <2>4 DEF ResetReader
  <2> QED
    BY <1>6, <2>5 DEF Clean, ResetReader
<1> QED
  BY <1>6, <1>7, <1>8

-----------------------------------------------------------------------------
(* The end of a turn                                                       *)

\* Once all results had entered, no more do.
LEMMA LastValue ==
  ASSUME NEW p, NEW s, CountsOK(p, s), ConfigOK, NEW n \in 0 .. 12, s[n] = config.values
  PROVE  \A k \in 0 .. n : s[k] = config.values
<1>1. /\ \A k \in 0 .. 12 : s[k] \in Nat
      /\ \A k \in 1 .. 12 : s[k] <= s[k - 1]
      /\ s[0] <= config.values /\ config.values \in Nat
  BY DEF CountsOK, ConfigOK, ValueCounts
<1>2. /\ s[12] <= s[11] /\ s[11] <= s[10] /\ s[10] <= s[9] /\ s[9] <= s[8] /\ s[8] <= s[7]
      /\ s[7] <= s[6] /\ s[6] <= s[5] /\ s[5] <= s[4] /\ s[4] <= s[3] /\ s[3] <= s[2]
      /\ s[2] <= s[1] /\ s[1] <= s[0]
  BY <1>1
<1>3. \A k \in 0 .. 12 : k <= n => s[n] <= s[k] /\ s[k] <= s[0]
  BY <1>1, <1>2
<1> QED
  BY <1>1, <1>3

\* The results of whole blocks of pixels leave the assembler and the producer as they
\* were at the start.
LEMMA Blocks ==
  ASSUME rows \in {2, 4}, config.channels \in Nat \ {0}, config.channels % 4 = 0,
         NEW n \in Nat, n % (rows * config.channels) = 0
  PROVE  /\ n % rows = 0 /\ (n \div rows) % 4 = 0
         /\ \A i \in 0 .. 3 :
              /\ ((n + i) \div rows) % config.channels = (i \div rows) % config.channels
              /\ (n + i) % rows = i % rows
<1> DEFINE c == config.channels
           g == n \div (rows * c)
<1>1. rows \in Nat \ {0} /\ c \in Nat \ {0} /\ rows * c \in Nat \ {0}
  OBVIOUS
<1>2. c % 4 = 0
  OBVIOUS
<1>3. g \in Nat /\ n = rows * c * g
  <2> HIDE DEF c
  <2>1. PICK m \in Nat \ {0} : m = rows * c
    BY <1>1
  <2>2. n \div m \in Nat /\ n = m * (n \div m) + (n % m)
    BY Division
  <2>3. n % m = 0
    BY <2>1 DEF c
  <2>4. g = n \div m
    BY <2>1
  <2> HIDE DEF g
  <2> QED
    BY <2>1, <2>2, <2>3, <2>4
<1> HIDE DEF c, g
<1>4. PICK x \in Nat : x = c * g /\ n = rows * x
  BY <1>1, <1>3
<1>5. \A i \in 0 .. 3 :
        /\ i \div rows \in 0 .. 3 /\ i \div rows < c /\ i % rows \in 0 .. rows - 1
        /\ i = rows * (i \div rows) + (i % rows)
  BY <1>1, <1>2
<1>6. \A i \in 0 .. 3 : (n + i) \div rows = x + (i \div rows) /\ (n + i) % rows = i % rows
  <2> TAKE i \in 0 .. 3
  <2>1. PICK a \in 0 .. 3, b \in 0 .. rows - 1 : a = i \div rows /\ b = i % rows
    BY <1>5
  <2>2. PICK d \in Nat : d = x + a /\ n + i = rows * d + b
    BY <1>4, <1>5, <2>1
  <2>3. (rows * d + b) \div rows = d /\ (rows * d + b) % rows = b
    BY <1>1, Quotient
  <2> QED
    BY <2>1, <2>2, <2>3
<1>7. \A i \in 0 .. 3 : ((n + i) \div rows) % c = (i \div rows) % c
  <2> TAKE i \in 0 .. 3
  <2>1. PICK a \in 0 .. c - 1 : a = i \div rows
    BY <1>1, <1>5
  <2>2. (c * g + a) % c = a
    BY <1>1, <1>3, Quotient
  <2>3. a % c = a
    BY <1>1, Remainder
  <2> QED
    BY <1>4, <1>6, <2>1, <2>2, <2>3
<1>8. n % rows = 0 /\ n \div rows = x
  <2>1. 0 \in 0 .. 3 /\ n + 0 = n /\ 0 \div rows = 0 /\ 0 % rows = 0 /\ x + 0 = x
    BY <1>1, <1>4
  <2> QED
    BY <1>6, <2>1
<1>9. x % 4 = 0
  <2>1. c = 4 * (c \div 4) /\ c \div 4 \in Nat
    BY <1>1, <1>2
  <2>2. PICK d \in Nat : c = 4 * d
    BY <2>1
  <2>3. d * g \in Nat /\ c * g = 4 * (d * g) + 0
    BY <1>3, <2>2
  <2>4. 0 \in 0 .. 4 - 1 /\ 4 \in Nat \ {0}
    OBVIOUS
  <2>5. (4 * (d * g) + 0) % 4 = 0
    BY <2>3, <2>4, Quotient
  <2> QED
    BY <1>4, <2>3, <2>5
<1> QED
  BY <1>6, <1>7, <1>8, <1>9 DEF c

\* After a whole number of rounds the producer is where it was at the start.
LEMMA ParamsAgain ==
  ASSUME rows \in {2, 4}, config.channels \in Nat \ {0}, config.channels % 4 = 0,
         NEW n \in Nat, n % (rows * config.channels) = 0,
         NEW first, ParamsAt(first, n, 3)
  PROVE  ParamsAt(first, 0, 3)
<1>1. \A i \in 0 .. 3 :
        /\ ((n + i) \div rows) % config.channels = (i \div rows) % config.channels
        /\ (n + i) % rows = i % rows
  BY Blocks
<1>2. \A i \in 0 .. 3 : ParamAt(first, n + i) = ParamAt(first, i)
  BY <1>1 DEF ParamAt
<1>3. n + 0 = n /\ 0 + 0 = 0 /\ 0 + 1 = 1 /\ 0 + 2 = 2 /\ 0 + 3 = 3
  OBVIOUS
<1>4. /\ ParamAt(first, n) = ParamAt(first, 0) /\ ParamAt(first, n + 1) = ParamAt(first, 0 + 1)
      /\ ParamAt(first, n + 2) = ParamAt(first, 0 + 2)
  BY <1>2, <1>3
<1>5. /\ ((n + 3) \div rows) % config.channels = ((0 + 3) \div rows) % config.channels
      /\ (n + 3) % rows = (0 + 3) % rows
  BY <1>1
<1> QED
  BY <1>4, <1>5 DEF ParamsAt

\* When the last result entered the pipeline nine cycles ago and the CPU has all words, nothing
\* is left anywhere.
LEMMA Drained ==
  ASSUME NEW p, NEW s, UnderWay(p, s, WordsOf(config.values)), FifoTyped,
         config.values % (rows * config.channels) = 0, s[9] = config.values
  PROVE  /\ ~fetch.running /\ fetch.count = 0 /\ limiter.counter = 0
         /\ last = Nones(9) /\ pipe = Nones(7) /\ owa.byte_count = 0 /\ owa.pixel_index = 0
         /\ fifo = EmptyFifo
         /\ ParamsAt(filter.channel, 0, 3)
<1>1. /\ ConfigOK /\ CountsOK(p, s) /\ FetchOK(p) /\ ArrayOK(p) /\ LimiterOK(p, s) /\ PipeOK(s)
      /\ AssemblerOK(s[7]) /\ QueueOK(s, WordsOf(config.values))
      /\ ParamsAt(filter.channel, s[0], 3)
  BY DEF UnderWay
<1>2. \A k \in 0 .. 9 : s[k] = config.values
  BY <1>1, LastValue
<1>3. config.values \in Nat /\ rows \in {2, 4} /\ config.channels \in Nat \ {0}
      /\ config.channels % 4 = 0
  BY <1>1, Widths DEF ConfigOK
<1>4. ~fetch.running /\ fetch.count = 0 /\ limiter.counter = 0
  BY <1>1, <1>2, <1>3 DEF LimiterOK, FetchOK
<1>5. \A k \in 1 .. 9 : ~Ended(p, k)
  <2>1. \A k \in 1 .. 13 : Ended(p, k) => s[k - 1] # config.values
    BY <1>1 DEF LimiterOK
  <2>2. \A k \in 1 .. 9 : s[k - 1] = config.values
    BY <1>2
  <2> QED
    BY <2>1, <2>2
<1>6. last = Nones(9)
  BY <1>1, <1>5 DEF ArrayOK, Nones
<1>7. pipe = Nones(7)
  <2>1. \A k \in 1 .. 7 : s[k - 1] = s[k]
    BY <1>2
  <2> QED
    BY <1>1, <2>1 DEF PipeOK, Nones
<1>8. owa.byte_count = 0 /\ owa.pixel_index = 0
  <2>1. s[7] = config.values
    BY <1>2
  <2>2. config.values % rows = 0 /\ (config.values \div rows) % 4 = 0
    BY <1>3, Blocks
  <2> QED
    BY <1>1, <2>1, <2>2 DEF AssemblerOK
<1>9. fifo = EmptyFifo
  <2> DEFINE S == [1 .. 4 -> Items]
  <2>1. None \notin S /\ fifo.items \in Seq(S) /\ fifo.out \in S \cup {None}
    BY NoneAssumption DEF FifoTyped
  <2>2. WordsOf(config.values) \in Nat /\ s[7] = config.values
    BY <1>2, <1>3 DEF WordsOf
  <2> HIDE DEF S
  <2>3. PICK a \in Nat, i \in Nat :
           a = Len(Held(fifo.out)) /\ i = Len(fifo.items) /\ (a = 0 => fifo.out = None)
    <3>1. Len(Held(fifo.out)) = IF fifo.out = None THEN 0 ELSE 1
      BY <2>1, Contents
    <3>2. Len(Held(fifo.out)) \in Nat /\ (Len(Held(fifo.out)) = 0 => fifo.out = None)
      BY <3>1
    <3>3. Len(fifo.items) \in Nat
      BY <2>1, LenProperties
    <3> QED
      BY <3>2, <3>3
  <2>4. Len(FifoContents(fifo)) = a + i
    BY <2>1, <2>3, Contents
  <2>5. fifo.out = None /\ Len(fifo.items) = 0
    <3>1. WordsOf(config.values) + Len(FifoContents(fifo)) <= WordsOf(config.values)
      BY <1>1, <2>2 DEF QueueOK
    <3>2. a + i = 0
      BY <2>2, <2>4, <3>1
    <3>3. a = 0 /\ i = 0
      BY <3>2
    <3> QED
      BY <2>3, <3>3
  <2>6. fifo.items = <<>>
    BY <2>1, <2>5, EmptySeq
  <2> QED
    BY <2>5, <2>6 DEF EmptyFifo, FifoTyped
<1>10. ParamsAt(filter.channel, 0, 3)
  <2>1. s[0] = config.values
    BY <1>2
  <2> QED
    BY <1>1, <1>3, <2>1, ParamsAgain
<1> QED
  BY <1>4, <1>6, <1>7, <1>8, <1>9, <1>10

\* Four items make a word, at least.
LEMMA WordsBound ==
  ASSUME rows \in {2, 4}, NEW n \in Nat
  PROVE  WordsOf(n) \in Nat /\ 4 * WordsOf(n) <= n
<1>1. PICK g \in Nat, b \in 0 .. 3, x \in 0 .. rows - 1 : n = 4 * rows * g + rows * b + x
  BY Place4
<1>2. b \in Nat /\ x \in Nat /\ b <= 3 /\ x <= rows - 1
  OBVIOUS
<1>3. WordsOf(n) = rows * g + (IF b = 3 THEN x ELSE 0)
  BY <1>1, <1>2, WordCount
<1> QED
  BY <1>1, <1>2, <1>3

\* The words lost after a cycle.
LEMMA LostStep ==
  ASSUME NEW p, NEW s, NEW u, u = NextValues(s), NEW taken \in Nat,
         UnderWay(p, s, taken), ShiftsOK, FifoTyped, NEW r_en \in BOOLEAN, Goes(r_en),
         NEW t, t = IF r_en /\ fifo.out # None THEN 1 ELSE 0
  PROVE  /\ Lost(s, taken) \in Nat
         /\ Lost(u, taken + t)' = Lost(s, taken) + (IF NoOverflow THEN 0 ELSE 1)
<1>1. CountsOK(p, s) /\ PipeOK(s) /\ AssemblerOK(s[7]) /\ ConfigOK /\ QueueOK(s, taken)
  BY DEF UnderWay
<1>2. /\ word_done \in BOOLEAN /\ WordsOf(s[7]) \in Nat
      /\ word_done => WordsOf(u[7]) = WordsOf(s[7]) + 1
      /\ word_done => word \in [1 .. 4 -> Items]
      /\ ~word_done => WordsOf(u[7]) = WordsOf(s[7])
  BY <1>1, WordStep
<1>3. fifo' = Fifo(fifo, FifoDepth, word_done, word, r_en)
  BY DEF Goes, Clocked
<1>4. PICK a : a = IF word_done /\ w_rdy(fifo, FifoDepth) THEN 1 ELSE 0
  OBVIOUS
<1>5. /\ Len(FifoContents(fifo')) = Len(FifoContents(fifo)) + a - t
      /\ Len(FifoContents(fifo)) \in Nat
  BY <1>2, <1>3, <1>4, OutputFifoStep
<1>6. WordsOf(u[7])' = WordsOf(u[7])
  BY GoesConstant, Constant
<1>7. Lost(u, taken + t)' = WordsOf(u[7]) - (taken + t + Len(FifoContents(fifo')))
  BY <1>6 DEF Lost, FifoContents, Held
<1>8. taken + Len(FifoContents(fifo)) <= WordsOf(s[7])
  BY <1>1 DEF QueueOK
<1>9. PICK w \in Nat, n \in Nat : w = WordsOf(s[7]) /\ n = Len(FifoContents(fifo))
  BY <1>2, <1>5
<1>10. Lost(s, taken) = w - (taken + n) /\ taken + n <= w
  BY <1>8, <1>9 DEF Lost
<1>11. CASE NoOverflow
  <2>1. a = IF word_done THEN 1 ELSE 0
    BY <1>4, <1>11 DEF NoOverflow
  <2>2. WordsOf(u[7]) = w + a
    BY <1>2, <1>9, <2>1
  <2>3. (IF NoOverflow THEN 0 ELSE 1) = 0
    BY <1>11
  <2>4. a \in 0 .. 1 /\ t \in 0 .. 1
    BY <1>4
  <2>5. Len(FifoContents(fifo')) = n + a - t
    BY <1>5, <1>9
  <2>6. WordsOf(u[7]) - (taken + t + (n + a - t)) = w - (taken + n) + 0
    <3>1. PICK v \in Int : v = w + a /\ v = WordsOf(u[7])
      BY <1>9, <2>2, <2>4
    <3>2. \A m, l, i, j, k \in Int : l + i - (m + j + (k + i - j)) = l - (m + k) + 0
      OBVIOUS
    <3>3. taken \in Int /\ w \in Int /\ a \in Int /\ t \in Int /\ n \in Int
      BY <1>9, <2>4
    <3>4. v - (taken + t + (n + a - t)) = w - (taken + n) + 0
      BY <3>1, <3>2, <3>3
    <3> QED
      BY <3>1, <3>4
  <2> QED
    BY <1>7, <1>10, <2>3, <2>5, <2>6
<1>12. CASE ~NoOverflow
  <2>1. a = 0 /\ word_done
    BY <1>4, <1>12 DEF NoOverflow
  <2>2. WordsOf(u[7]) = w + 1
    BY <1>2, <1>9, <2>1
  <2>3. (IF NoOverflow THEN 0 ELSE 1) = 1
    BY <1>12
  <2>4. a \in 0 .. 1 /\ t \in 0 .. 1
    BY <1>4
  <2>5. Len(FifoContents(fifo')) = n + a - t
    BY <1>5, <1>9
  <2>6. WordsOf(u[7]) - (taken + t + (n + a - t)) = w - (taken + n) + 1
    BY <1>9, <2>1, <2>2, <2>4
  <2> QED
    BY <1>7, <1>10, <2>3, <2>5, <2>6
<1> QED
  BY <1>11, <1>12

\* While the accelerator runs, the words lost stay among those allowed.
LEMMA RunningStep ==
  ASSUME NEW losses, losses = Nat \/ (losses = {0} /\ NoOverflow),
         NEW taken \in Nat, Running(taken, losses), ShiftsOK, FifoTyped,
         NEW r_en \in BOOLEAN, Goes(r_en), NEW t, t = IF r_en /\ fifo.out # None THEN 1 ELSE 0
  PROVE  Running(taken + t, losses)' /\ ShiftsOK' /\ FifoTyped'
<1>1. PICK p \in PassCounts, s \in ValueCounts :
        UnderWay(p, s, taken) /\ Lost(s, taken) \in losses
  BY DEF Running
<1>2. PICK q, u : q = NextPasses(p) /\ u = NextValues(s)
  OBVIOUS
<1>3. UnderWay(q, u, taken + t)' /\ ShiftsOK' /\ FifoTyped'
  BY <1>1, <1>2, UnderWayStep
<1>4. q \in PassCounts /\ u \in ValueCounts
  BY <1>3 DEF UnderWay, CountsOK
<1>5. /\ Lost(s, taken) \in Nat
      /\ Lost(u, taken + t)' = Lost(s, taken) + (IF NoOverflow THEN 0 ELSE 1)
  BY <1>1, <1>2, LostStep
<1>6. Lost(u, taken + t)' \in losses
  BY <1>1, <1>5
<1> QED
  BY <1>3, <1>4, <1>6 DEF Running

\* The word in the output register is the next one, if none was lost.
LEMMA NextWord ==
  ASSUME NEW taken \in Nat, Running(taken, {0}), FifoTyped, fifo.out # None
  PROVE  fifo.out = WordAt(taken) /\ ConfigOK
<1>1. PICK p \in PassCounts, s \in ValueCounts : UnderWay(p, s, taken) /\ Lost(s, taken) = 0
  BY DEF Running
<1>2. QueueOK(s, taken) /\ ConfigOK /\ rows \in {2, 4} /\ s[7] \in Nat
  BY <1>1, Widths DEF UnderWay, ValueCounts
<1>3. WordsOf(s[7]) \in Nat
  BY <1>2, WordsBound
<1> DEFINE S == [1 .. 4 -> Items]
<1>4. None \notin S /\ fifo.items \in Seq(S) /\ fifo.out \in S \cup {None}
  BY NoneAssumption DEF FifoTyped
<1> HIDE DEF S
<1>5. Len(FifoContents(fifo)) \in Nat \ {0}
  <2>1. Len(Held(fifo.out)) = 1
    BY <1>4, Contents
  <2>2. Len(FifoContents(fifo)) = 1 + Len(fifo.items)
    BY <1>4, <2>1, Contents
  <2>3. Len(fifo.items) \in Nat
    BY <1>4, LenProperties
  <2> QED
    BY <2>2, <2>3
<1>6. taken + Len(FifoContents(fifo)) = WordsOf(s[7])
  BY <1>1, <1>3, <1>5 DEF Lost
<1>7. 1 \in 1 .. Len(FifoContents(fifo))
  BY <1>5
<1>8. FifoContents(fifo)[1] = WordAt(taken + 1 - 1)
  BY <1>2, <1>6, <1>7 DEF QueueOK
<1>9. FifoContents(fifo)[1] = fifo.out
  BY <1>4, <1>7, ContentsAt
<1>10. taken + 1 - 1 = taken
  OBVIOUS
<1> QED
  BY <1>2, <1>8, <1>9, <1>10

\* When the CPU takes the last word that the results make, the last result has left the
\* pipeline, and nothing is between the assembler and the output register.
LEMMA LastWord ==
  ASSUME NEW losses, NEW taken \in Nat, Running(taken, losses), ShiftsOK, FifoTyped,
         Goes(TRUE), fifo.out # None,
         config.values <= 4 * (taken + 1),
         config.values = 4 * (taken + 1) => config.values % (rows * config.channels) = 0
  PROVE  Drains(0)'
<1>1. PICK p \in PassCounts, s \in ValueCounts : UnderWay(p, s, taken)
  BY DEF Running
<1>2. PICK q, u : q = NextPasses(p) /\ u = NextValues(s)
  OBVIOUS
<1>3. PICK t : t = 1
  OBVIOUS
<1>4. t = IF TRUE /\ fifo.out # None THEN 1 ELSE 0
  BY <1>3
<1>5. UnderWay(q, u, taken + t)'
  BY <1>1, <1>2, <1>4, UnderWayStep
<1>6. q \in PassCounts /\ u \in ValueCounts
  BY <1>5 DEF UnderWay, CountsOK
<1>7. /\ ConfigOK /\ CountsOK(p, s) /\ QueueOK(s, taken) /\ rows \in {2, 4}
      /\ config.values \in Nat
  BY <1>1, Widths DEF UnderWay, ConfigOK
<1>8. s[8] \in Nat /\ s[8] <= config.values
  <2>1. /\ \A k \in 0 .. 12 : s[k] \in Nat
        /\ \A k \in 1 .. 12 : s[k] <= s[k - 1]
        /\ s[0] <= config.values
    BY <1>7 DEF CountsOK, ValueCounts
  <2>2. /\ s[8] <= s[7] /\ s[7] <= s[6] /\ s[6] <= s[5] /\ s[5] <= s[4] /\ s[4] <= s[3]
        /\ s[3] <= s[2] /\ s[2] <= s[1] /\ s[1] <= s[0]
    BY <2>1
  <2> QED
    BY <1>7, <2>1, <2>2
<1>9. taken + 1 <= WordsOf(s[8])
  <2>1. Held(fifo.out) = <<fifo.out>>
    BY DEF Held
  <2>2. Len(Held(fifo.out)) = 1
    BY <2>1
  <2> QED
    BY <1>7, <2>2 DEF QueueOK
<1>10. WordsOf(s[8]) \in Nat /\ 4 * WordsOf(s[8]) <= s[8]
  BY <1>7, <1>8, WordsBound
<1>11. s[8] = config.values /\ config.values = 4 * (taken + 1) /\ WordsOf(s[8]) = taken + 1
  BY <1>7, <1>8, <1>9, <1>10
<1>12. config.values % (rows * config.channels) = 0
  BY <1>11
<1>13. config' = config /\ filter'.channel = filter.channel
  BY GoesConstant
<1>14. rows' = rows /\ WordsOf(config.values)' = WordsOf(config.values)
  <2>1. PICK n : n = config.values
    OBVIOUS
  <2>2. rows' = rows /\ WordsOf(n)' = WordsOf(n)
    BY <1>13, Constant
  <2>3. config'.values = n
    BY <1>13, <2>1
  <2> QED
    BY <1>13, <2>1, <2>2 DEF WordsOf
<1>15. u[9] = config'.values
  <2>1. u[9] = s[8]
    BY <1>2 DEF NextValues
  <2> QED
    BY <1>11, <1>13, <2>1
<1>16. (taken + t = WordsOf(config.values) /\ config.values % (rows * config.channels) = 0)'
  BY <1>3, <1>11, <1>12, <1>13, <1>14
<1>17. u[9 + 0] = config'.values
  BY <1>15
<1>18. taken + t \in Nat
  BY <1>3
<1> QED
  BY <1>5, <1>6, <1>16, <1>17, <1>18 DEF Drains

\* After the last word, what is left drains.
LEMMA DrainsStep ==
  ASSUME NEW c \in Nat, Drains(c), ShiftsOK, FifoTyped, Goes(FALSE), NEW d \in 0 .. c + 1
  PROVE  Drains(d)' /\ ShiftsOK' /\ FifoTyped'
<1>1. PICK p \in PassCounts, s \in ValueCounts, taken \in Nat :
        /\ UnderWay(p, s, taken) /\ taken = WordsOf(config.values)
        /\ config.values % (rows * config.channels) = 0
        /\ s[9 + (IF c < 2 THEN c ELSE 2)] = config.values
  BY DEF Drains
<1>2. PICK q, u : q = NextPasses(p) /\ u = NextValues(s)
  OBVIOUS
<1>3. PICK t : t = 0
  OBVIOUS
<1>4. t = IF FALSE /\ fifo.out # None THEN 1 ELSE 0
  BY <1>3
<1>5. UnderWay(q, u, taken + t)' /\ ShiftsOK' /\ FifoTyped'
  BY <1>1, <1>2, <1>4, UnderWayStep
<1>6. q \in PassCounts /\ u \in ValueCounts
  BY <1>5 DEF UnderWay, CountsOK
<1>7. config' = config /\ filter'.channel = filter.channel
  BY GoesConstant
<1>8. (taken + t = WordsOf(config.values) /\ config.values % (rows * config.channels) = 0)'
  <2>1. PICK n : n = config.values
    OBVIOUS
  <2>2. rows' = rows /\ WordsOf(n)' = WordsOf(n)
    BY <1>7, Constant
  <2>3. taken + t = taken /\ taken = WordsOf(n) /\ config'.values = n
    BY <1>1, <1>3, <1>7, <2>1
  <2>4. (taken = WordsOf(config.values))'
    BY <2>2, <2>3, <1>7 DEF WordsOf
  <2> QED
    BY <1>1, <1>7, <2>2, <2>3, <2>4
<1>9. u[9 + (IF d < 2 THEN d ELSE 2)] = config'.values
  <2> DEFINE e == 9 + (IF d < 2 THEN d ELSE 2)
             f == 9 + (IF c < 2 THEN c ELSE 2)
  <2>1. e \in 9 .. 11 /\ f \in 0 .. 12 /\ e - 1 \in 0 .. f
    OBVIOUS
  <2>2. s[f] = config.values
    BY <1>1
  <2>3. CountsOK(p, s) /\ ConfigOK
    BY <1>1 DEF UnderWay
  <2> HIDE DEF e, f
  <2>4. s[e - 1] = config.values
    BY <2>1, <2>2, <2>3, LastValue
  <2>5. u[e] = s[e - 1]
    BY <1>2, <2>1 DEF NextValues
  <2> QED
    BY <1>7, <2>4, <2>5 DEF e
<1> QED
  BY <1>1, <1>3, <1>5, <1>6, <1>8, <1>9 DEF Drains

\* An assembler without input, and an empty FIFO.
LEMMA IdleTypes ==
  ASSUME ShiftsOK, Assemble, pipe = Nones(7), owa.pixel_index = 0, fifo' = EmptyFifo
  PROVE  ShiftsOK' /\ FifoTyped'
<1>1. ShiftsOK'
  BY ShiftsStep DEF Nones
<1>2. FifoTyped'
  <2> DEFINE S == [1 .. 4 -> Items]
  <2>1. <<>> \in Seq(S) /\ Len(<<>>) = 0
    BY EmptySeq
  <2>2. 0 <= FifoDepth - 1
    BY ConstantsAssumption
  <2> HIDE DEF S
  <2>3. fifo' \in [items : Seq(S), out : S \cup {None}]
    BY <2>1 DEF EmptyFifo
  <2>4. Len(fifo'.items) <= FifoDepth - 1
    BY <2>1, <2>2 DEF EmptyFifo
  <2> QED
    BY <2>3, <2>4 DEF FifoTyped, S
<1> QED
  BY <1>1, <1>2

\* From the second cycle after the last word was taken, a cycle brings all of it to rest.
LEMMA LastCycle ==
  ASSUME NEW c \in Nat, c >= 1, Drains(c), ShiftsOK, FifoTyped, pulse = NoPulse,
         NEW pulses, NEW channel, Clocked(pulses, channel, FALSE)
  PROVE  /\ Quiet' /\ ShiftsOK' /\ FifoTyped'
         /\ ParamsAt(filter.channel, 0, 3) /\ ~transferring
<1>1. PICK p \in PassCounts, s \in ValueCounts, taken \in Nat :
        /\ UnderWay(p, s, taken) /\ taken = WordsOf(config.values)
        /\ config.values % (rows * config.channels) = 0
        /\ s[9 + (IF c < 2 THEN c ELSE 2)] = config.values
  BY DEF Drains
<1>2. UnderWay(p, s, WordsOf(config.values))
  BY <1>1
<1>3. /\ ConfigOK /\ CountsOK(p, s) /\ FetchOK(p) /\ ArrayOK(p) /\ ReaderOK(p) /\ LimiterOK(p, s)
  BY <1>1 DEF UnderWay
<1>4. \A k \in 0 .. 10 : s[k] = config.values
  <2> DEFINE f == 9 + (IF c < 2 THEN c ELSE 2)
  <2>1. f \in 10 .. 12
    OBVIOUS
  <2>2. s[f] = config.values
    BY <1>1
  <2> HIDE DEF f
  <2>3. \A k \in 0 .. f : s[k] = config.values
    BY <1>3, <2>1, <2>2, LastValue
  <2> QED
    BY <2>1, <2>3
<1>5. /\ ~fetch.running /\ fetch.count = 0 /\ limiter.counter = 0
      /\ last = Nones(9) /\ pipe = Nones(7) /\ owa.byte_count = 0 /\ owa.pixel_index = 0
      /\ fifo = EmptyFifo
      /\ ParamsAt(filter.channel, 0, 3)
  <2>1. s[9] = config.values
    BY <1>4
  <2> QED
    BY <1>1, <1>2, <2>1, Drained
<1>6. ~pulse.start /\ ~pulse.reset
  BY DEF NoPulse
<1>7. /\ ~fetch'.running /\ fetch'.count = 0
      /\ limiter'.counter = 0 /\ ~limiter'.finished
      /\ last' = Nones(9) /\ pipe' = Nones(7)
      /\ owa'.byte_count = 0 /\ owa'.pixel_index = 0
      /\ fifo' = EmptyFifo
      /\ ~transferring
  BY <1>5, <1>6, Idle
<1>8. reader'.index = 0 /\ ~reader'.flags[0]
  <2>1. /\ rows \in {2, 4} /\ (rows = 2 <=> half_mode) /\ p \in PassCounts
    BY <1>3, Widths
  <2>2. /\ \A k \in 1 .. 13 : Ended(p, k) => s[k - 1] # config.values
    BY <1>3 DEF LimiterOK
  <2>3. \A k \in 1 .. 11 : ~Ended(p, k)
    <3>1. \A k \in 1 .. 11 : s[k - 1] = config.values
      BY <1>4
    <3> QED
      BY <2>2, <3>1
  <2>4. 0 \in UsedAccumulators /\ Latency(0) = 0 /\ Place(0) = 0
    BY <2>1, Places DEF Latency, Row, Column
  <2>5. ~reader.flags[0] /\ ~accumulator_new(0)
    <3>1. reader.flags[0] <=> \E d \in Latency(0) + 1 .. Place(0) : Ended(p, 5 + d)
      BY <1>3, <2>4 DEF ReaderOK
    <3> QED
      BY <1>5, <2>4, <3>1, NothingArrives
  <2>6. ~next_flags[0]
    <3>1. \A i \in 0 .. 7 : ~reader.flags[i] /\ ~accumulator_new(i) => ~next_flags[i]
      BY DEF next_flags
    <3> QED
      BY <2>5, <3>1
  <2>7. (IF available THEN next_index ELSE reader.index) = 0
    <3>1. CASE Ended(p, 5 + (2 * rows - 1))
      <4>1. 2 * rows - 1 \in 0 .. 2 * rows - 1
        BY <2>1
      <4>2. available /\ reader.index = Order(2 * rows - 1)
        BY <1>3, <2>1, <3>1, <4>1, Reading
      <4>3. next_index = IF 2 * rows - 1 = 2 * rows - 1 THEN 0 ELSE Order(2 * rows - 1 + 1)
        BY <2>1, <4>1, <4>2, Places
      <4> QED
        BY <4>2, <4>3
    <3>2. CASE ~Ended(p, 5 + (2 * rows - 1))
      <4>1. \A j \in 0 .. 2 * rows - 1 : j # 2 * rows - 1 => 5 + j \in 1 .. 11
        BY <2>1
      <4>2. \A j \in 0 .. 2 * rows - 1 : ~Ended(p, 5 + j)
        BY <2>3, <3>2, <4>1
      <4> QED
        BY <1>3, <2>1, <4>2, Reading
    <3> QED
      BY <3>1, <3>2
  <2>8. Read
    BY DEF Clocked
  <2> QED
    BY <1>6, <2>6, <2>7, <2>8 DEF Read
<1>9. Quiet'
  BY <1>7, <1>8 DEF Quiet, Nones, EmptyFifo
<1>10. ShiftsOK' /\ FifoTyped'
  BY <1>5, <1>7, IdleTypes DEF Clocked
<1> QED
  BY <1>5, <1>7, <1>9, <1>10

-----------------------------------------------------------------------------
(* The cycle of a start                                                    *)

\* The cycle of the start pulse.
LEMMA FirstCycle ==
  ASSUME pulse = [NoPulse EXCEPT !.start = TRUE], Clean, ConfigOK,
         ParamsAt(filter.channel, 0, 3), ShiftsOK,
         config' = config, Clocked(NoPulse, filter.channel, FALSE), NEW losses, 0 \in losses
  PROVE  Running(0, losses)' /\ ShiftsOK' /\ FifoTyped'
<1>1. PICK p : p = [k \in 0 .. 14 |-> 0]
  OBVIOUS
<1>2. PICK s : s = [k \in 0 .. 12 |-> 0]
  OBVIOUS
<1>3. p \in PassCounts /\ s \in ValueCounts
  BY <1>1, <1>2 DEF PassCounts, ValueCounts
<1>4. \A k \in 1 .. 14 : ~Ended(p, k)
  BY <1>1 DEF Ended
<1>5. pulse.start /\ ~pulse.reset /\ pulse.param = None
  BY DEF NoPulse
<1>6. filter'.channel = filter.channel /\ filter'.running /\ filter'.read_index = 0
  BY <1>5 DEF Clocked, Filter, next_read_index
<1>7. /\ ConfigOK' /\ rows' = rows /\ num_repeats' = num_repeats
      /\ UsedAccumulators' = UsedAccumulators /\ \A n : WordsOf(n)' = WordsOf(n)
  BY <1>6, Constant
<1>8. /\ rows \in {2, 4} /\ num_repeats \in Nat \ {0} /\ config.values \in Nat \ {0}
      /\ config.base \in Nat /\ config.period \in Nat /\ config.period >= 4
      /\ config.channels \in 1 .. MaxDepth /\ filter.channel \in Nat
  BY Widths, ConstantsAssumption DEF ConfigOK
<1>9. /\ ~fetch.running /\ limiter.counter = 0 /\ ~limiter.finished
      /\ last = Nones(9) /\ pipe = Nones(7) /\ owa.byte_count = 0 /\ owa.pixel_index = 0
      /\ fifo = EmptyFifo
  BY DEF Clean, Quiet
<1>10. ~fetch_last /\ ~limiter_running /\ ~transferring /\ ~assembling /\ ~word_done
  BY <1>9 DEF fetch_last, limiter_running, transferring, Nones, assembling, word_done
<1>11. /\ Fetch /\ Array /\ Read /\ Limit /\ Params /\ PostProcess /\ Assemble
       /\ fifo' = Fifo(fifo, FifoDepth, word_done, word, FALSE)
  BY DEF Clocked
<1>12. CountsOK(p, s)'
  BY <1>1, <1>2, <1>3, <1>8 DEF CountsOK, PassCounts, ValueCounts
<1>13. FetchOK(p)'
  <2>1. /\ fetch'.running = TRUE /\ fetch'.count = 0 /\ fetch'.repeat = 0
        /\ fetch'.pixel = config.base
    BY <1>5, <1>9, <1>11 DEF Fetch, fetch_reset
  <2>2. p[0] = 0 /\ 0 % num_repeats = 0 /\ 0 \div num_repeats = 0 /\ rows * 0 = 0
        /\ 0 * config.period = 0
    BY <1>1, <1>8, Remainder
  <2>3. \A k \in 1 .. 14 : ~Ended(p, k)'
    BY <1>4 DEF Ended
  <2>4. fetch'.running \in BOOLEAN /\ fetch'.count \in 0 .. config.period - 1
    <3>1. 0 \in 0 .. config.period - 1
      BY <1>8
    <3> QED
      BY <2>1, <3>1
  <2>5. /\ fetch'.repeat = p[0] % num_repeats
        /\ fetch'.pixel = config.base + rows * (p[0] \div num_repeats)
        /\ filter'.read_index = fetch'.repeat * config.period + fetch'.count
    BY <1>6, <1>8, <2>1, <2>2
  <2> QED
    BY <1>6, <1>7, <2>1, <2>3, <2>4, <2>5 DEF FetchOK
<1>14. last' = Nones(9)
  <2>1. last = [k \in 1 .. 9 |-> last[k]] /\ 9 \in Nat \ {0} /\ 9 - 1 = 8
    BY <1>9 DEF Nones
  <2>2. <<None>> \o SubSeq(last, 1, 9 - 1) =
          [k \in 1 .. 9 |-> IF k = 1 THEN None ELSE last[k - 1]]
    BY <2>1, Shift
  <2>3. last' = <<None>> \o SubSeq(last, 1, 8)
    BY <1>10, <1>11 DEF Array
  <2>4. \A k \in 1 .. 9 : k # 1 => last[k - 1] = None
    BY <1>9 DEF Nones
  <2> QED
    BY <2>1, <2>2, <2>3, <2>4 DEF Nones
<1>15. pipe' = Nones(7)
  <2>1. pipe = [k \in 1 .. 7 |-> pipe[k]] /\ 7 \in Nat \ {0} /\ 7 - 1 = 6
    BY <1>9 DEF Nones
  <2>2. <<None>> \o SubSeq(pipe, 1, 7 - 1) =
          [k \in 1 .. 7 |-> IF k = 1 THEN None ELSE pipe[k - 1]]
    BY <2>1, Shift
  <2>3. pipe' = <<None>> \o SubSeq(pipe, 1, 6)
    BY <1>10, <1>11 DEF PostProcess
  <2>4. \A k \in 1 .. 7 : k # 1 => pipe[k - 1] = None
    BY <1>9 DEF Nones
  <2> QED
    BY <2>1, <2>2, <2>3, <2>4 DEF Nones
<1>16. ArrayOK(p)'
  <2>1. \A k \in 1 .. 9 : ~Ended(p, k)'
    BY <1>4 DEF Ended
  <2> QED
    BY <1>14, <2>1 DEF ArrayOK, Nones
<1>17. /\ reader'.index = 0 /\ reader'.out = None
       /\ \A i \in 0 .. 7 : ~reader'.flags[i]
  <2>1. reader.index = 0 /\ reader.out = None /\ \A i \in 0 .. 7 : ~reader.flags[i]
    BY DEF Clean, ResetReader
  <2>2. \A i \in 0 .. 7 : ~accumulator_new(i)
    BY <1>9, NothingArrives
  <2>3. ~available
    BY <2>1, <2>2 DEF available
  <2>4. \A i \in 0 .. 7 : ~next_flags[i]
    BY <2>1, <2>2 DEF next_flags
  <2> QED
    BY <1>5, <1>11, <2>1, <2>3, <2>4 DEF Read
<1>18. ReaderOK(p)'
  <2>1. \A k \in 1 .. 14 : ~Ended(p, k)'
    BY <1>4 DEF Ended
  <2>2. \A j \in 0 .. 2 * rows - 1 : 5 + j \in 1 .. 14
    BY <1>8
  <2>3. \A d \in 0 .. 7 : 5 + d \in 1 .. 14
    OBVIOUS
  <2>4. \A i \in UsedAccumulators :
          /\ i \in 0 .. 7
          /\ \A d \in Latency(i) + 1 .. Place(i) : 5 + d \in 1 .. 14
    <3>1. rows = 2 <=> half_mode
      BY Widths
    <3>2. SUFFICES ASSUME NEW i \in UsedAccumulators
                   PROVE  i \in 0 .. 7 /\ \A d \in Latency(i) + 1 .. Place(i) : 5 + d \in 1 .. 14
      OBVIOUS
    <3>3. /\ i \in 0 .. 7 /\ Latency(i) \in 0 .. 4 /\ Place(i) \in Latency(i) .. 2 * rows - 1
      BY <1>8, <3>1, Places
    <3> QED
      BY <1>8, <3>3
  <2>5. \A i : Latency(i)' = Latency(i) /\ Place(i)' = Place(i)
    BY <1>6, Constant DEF Latency, Row, Column
  <2>6. /\ \A j \in 1 .. 2 * rows - 1 : ~Ended(p, 5 + j)'
        /\ \A d \in 0 .. 7 : ~Ended(p, 5 + d)'
        /\ \A i \in UsedAccumulators : \A d \in Latency(i) + 1 .. Place(i) : ~Ended(p, 5 + d)'
    BY <1>8, <2>1, <2>2, <2>3, <2>4
  <2>7. \A i \in UsedAccumulators : ~reader'.flags[i]
    BY <1>17, <2>4
  <2> QED
    BY <1>7, <1>17, <2>5, <2>6, <2>7 DEF ReaderOK
<1>19. OutputOK(p, s)'
  <2>1. \A k \in 1 .. 14 : ~Ended(p, k)'
    BY <1>4 DEF Ended
  <2>2. \A j \in 0 .. 2 * rows - 1 : 6 + j \in 1 .. 14
    BY <1>8
  <2>3. s[0] = 2 * rows * p[6]
    BY <1>1, <1>2, <1>8
  <2> QED
    BY <1>7, <1>17, <2>1, <2>2, <2>3 DEF OutputOK
<1>20. LimiterOK(p, s)'
  <2>1. limiter'.counter = config.values /\ limiter'.finished = FALSE
    BY <1>5, <1>10, <1>11 DEF Limit
  <2>2. s[0] = 0 /\ s[1] = 0 /\ config.values - 0 = config.values /\ config.values # 0
    BY <1>2, <1>8
  <2>3. \A k \in 1 .. 14 : ~Ended(p, k)'
    BY <1>4 DEF Ended
  <2> QED
    BY <2>1, <2>2, <2>3 DEF LimiterOK
<1>21. PipeOK(s)'
  <2>1. \A k \in 1 .. 7 : s[k - 1] = s[k]
    BY <1>2
  <2> QED
    BY <1>15, <2>1 DEF PipeOK, Nones
<1>22. AssemblerOK(s[7])'
  <2>1. owa'.byte_count = 0 /\ owa'.pixel_index = 0 /\ owa'.last_pixel_index = rows - 1
    BY <1>5, <1>9, <1>10, <1>11 DEF Assemble, next_byte_count
  <2>2. s[7] = 0 /\ 0 % rows = 0 /\ 0 \div rows = 0 /\ 0 % 4 = 0
    BY <1>2, <1>8
  <2>3. \A x \in 0 .. rows - 1 : ~(x < 0) /\ \A b \in 0 .. 2 : ~(b < 0 + 0)
    BY <1>8
  <2> QED
    BY <1>7, <2>1, <2>2, <2>3 DEF AssemblerOK
<1>23. fifo' = EmptyFifo
  BY <1>9, <1>10, <1>11 DEF Fifo, EmptyFifo
<1>24. QueueOK(s, 0)'
  <2>1. Held(fifo'.out) = <<>> /\ FifoContents(fifo') = <<>>
    BY <1>23 DEF EmptyFifo, Held, FifoContents
  <2>2. Len(Held(fifo'.out)) = 0 /\ Len(FifoContents(fifo')) = 0
    BY <2>1
  <2>3. s[7] = 0 /\ s[8] = 0
    BY <1>2
  <2>4. WordsOf(0) \in Nat
    BY <1>8, WordsBound
  <2>5. /\ 0 + Len(FifoContents(fifo')) <= WordsOf(0)'
        /\ 0 + Len(Held(fifo'.out)) <= WordsOf(0)'
    BY <1>7, <2>2, <2>4
  <2> QED
    BY <2>2, <2>3, <2>5 DEF QueueOK
<1>25. ParamsAt(filter.channel, s[0], 3)'
  <2> SUFFICES ASSUME NEW first, first = filter.channel, NEW n, n = 0
               PROVE  ParamsAt(first, n, 3)'
    BY <1>2, <1>6 DEF ParamsAt, ParamAt
  <2>1. first \in Nat /\ n \in Nat /\ ParamsAt(first, n, 3) /\ ~param_write
    BY <1>5, <1>8 DEF param_write
  <2>2. n = IF transferring THEN n + 1 ELSE n
    BY <1>10
  <2>3. 3 \in 0 .. 3 /\ 3 = (IF 3 < 3 THEN 3 + 1 ELSE 3) /\ (transferring => 3 = 3)
    OBVIOUS
  <2>4. rows' = rows /\ config'.channels = config.channels
    BY <1>7
  <2> QED
    BY <1>8, <1>11, <2>1, <2>2, <2>3, <2>4, ParamsStep
<1>26. UnderWay(p, s, 0)'
  BY <1>7, <1>12, <1>13, <1>16, <1>18, <1>19, <1>20, <1>21, <1>22, <1>24, <1>25 DEF UnderWay
<1>27. ShiftsOK' /\ FifoTyped'
  BY <1>9, <1>11, <1>23, IdleTypes
<1>28. Lost(s, 0)' = 0
  <2>1. Len(FifoContents(fifo')) = 0
    BY <1>23 DEF EmptyFifo, Held, FifoContents
  <2>2. WordsOf(0)' = WordsOf(0) /\ WordsOf(0) = 0
    BY <1>7, <1>8, WordsBound
  <2>3. s[7] = 0
    BY <1>2
  <2> QED
    BY <2>1, <2>2, <2>3 DEF Lost
<1> QED
  BY <1>3, <1>26, <1>27, <1>28 DEF Running

-----------------------------------------------------------------------------
(* The parameters in any cycle                                             *)

\* ReadingProducer's queue, by its definition.
LEMMA ParamFifo ==
  ASSUME NEW S, params.fifo.items \in Seq(S), params.fifo.out \in S, params.data \in S, None \in S,
         NEW f, f = Fifo(params.fifo, ProducerDepth, params.valid, params.data, transferring),
         NEW moves, moves = (params.fifo.items # <<>> /\ (params.fifo.out = None \/ transferring)),
         NEW kept, kept = (IF params.fifo.items # <<>>
                               /\ (params.fifo.out = None \/ transferring)
                           THEN Tail(params.fifo.items) ELSE params.fifo.items)
  PROVE  /\ f.items \in Seq(S) /\ f.out \in S
         /\ f = [items |-> f.items, out |-> f.out]
         /\ Len(kept) = IF params.fifo.items # <<>> /\ (params.fifo.out = None \/ transferring)
                        THEN Len(params.fifo.items) - 1 ELSE Len(params.fifo.items)
         /\ Len(f.items) = Len(kept) + IF params.valid /\ Len(params.fifo.items) < 2
                                       THEN 1 ELSE 0
         /\ f.out = IF params.fifo.items # <<>> /\ (params.fifo.out = None \/ transferring)
                    THEN Head(params.fifo.items)
                    ELSE IF transferring THEN None ELSE params.fifo.out
<1>1. /\ f.items = IF params.valid /\ Len(params.fifo.items) < 2
                   THEN Append(kept, params.data) ELSE kept
      /\ f.out = IF params.fifo.items # <<>> /\ (params.fifo.out = None \/ transferring)
                 THEN Head(params.fifo.items)
                 ELSE IF transferring THEN None ELSE params.fifo.out
      /\ f = [items |-> f.items, out |-> f.out]
  BY DEF Fifo, w_rdy, ProducerDepth
<1>2. params.fifo.items # <<>> =>
        /\ Head(params.fifo.items) \in S /\ Tail(params.fifo.items) \in Seq(S)
        /\ Len(Tail(params.fifo.items)) = Len(params.fifo.items) - 1
  BY HeadTailProperties
<1>3. /\ kept \in Seq(S)
      /\ Len(kept) = IF params.fifo.items # <<>> /\ (params.fifo.out = None \/ transferring)
                     THEN Len(params.fifo.items) - 1 ELSE Len(params.fifo.items)
  BY <1>2
<1>4. Append(kept, params.data) \in Seq(S) /\ Len(Append(kept, params.data)) = Len(kept) + 1
  BY <1>3, AppendProperties
<1>5. Len(kept) \in Nat
  BY <1>3, LenProperties
<1>6. f.items \in Seq(S) /\ f.out \in S
  BY <1>1, <1>2, <1>3, <1>4
<1>7. Len(f.items) = Len(kept) + IF params.valid /\ Len(params.fifo.items) < 2 THEN 1 ELSE 0
  <2>1. CASE params.valid /\ Len(params.fifo.items) < 2
    BY <1>1, <1>4, <2>1
  <2>2. CASE ~(params.valid /\ Len(params.fifo.items) < 2)
    <3>1. f.items = kept
      BY <1>1, <2>2
    <3>2. Len(f.items) = Len(kept) + 0
      BY <1>5, <3>1
    <3> QED
      BY <2>2, <3>2
  <2> QED
    BY <2>1, <2>2
<1> QED
  BY <1>1, <1>3, <1>6, <1>7

\* The parameter that is being read has a place.
LEMMA RoomForParam ==
  ASSUME ParamQueueOK
  PROVE  params.valid => Len(params.fifo.items) < 2 /\ w_rdy(params.fifo, ProducerDepth)
<1> DEFINE items == params.fifo.items
<1>1. CASE params.valid /\ params.fifo.out # None
  <2>1. Len(items) = 1
    BY <1>1 DEF ParamQueueOK
  <2> HIDE DEF items
  <2>2. Len(items) < 2
    BY <2>1
  <2> QED
    BY <2>2 DEF items, w_rdy, ProducerDepth
<1>2. CASE params.fifo.out = None
  <2>1. Len(items) = 0 \/ Len(items) = 1
    BY <1>2 DEF ParamQueueOK
  <2> HIDE DEF items
  <2>2. Len(items) < 2
    BY <2>1
  <2> QED
    BY <2>2 DEF items, w_rdy, ProducerDepth
<1> QED
  BY <1>1, <1>2

\* It will have one in the next cycle.
LEMMA ParamQueueStep ==
  ASSUME ParamsTyped, ParamQueueOK, pulse.param \in Nat \cup {None}, Params
  PROVE  ParamsTyped' /\ ParamQueueOK'
<1> DEFINE S == Nat \cup {None}
           items == params.fifo.items
           out == params.fifo.out
<1>1. /\ items \in Seq(S) /\ out \in S /\ None \in S /\ params.data \in S
      /\ params.valid \in BOOLEAN
      /\ params.mem \in [0 .. MaxDepth - 1 -> S]
      /\ params.mem_addr \in 0 .. MaxDepth - 1 /\ params.addr \in 0 .. MaxDepth - 1
      /\ params.repeat \in 0 .. 3
      /\ MaxDepth \in Nat \ {0}
  BY ConstantsAssumption DEF ParamsTyped
<1>2. ~(params.valid /\ ~w_rdy(params.fifo, ProducerDepth))
  BY RoomForParam
<1>3. /\ params'.valid = next_param
      /\ params'.data = params.mem[params.addr]
      /\ params'.fifo = IF param_write THEN EmptyFifo
                        ELSE Fifo(params.fifo, ProducerDepth, params.valid, params.data,
                                  transferring)
  <2>1. params'.valid = (next_param \/ (params.valid /\ ~w_rdy(params.fifo, ProducerDepth)))
    BY DEF Params
  <2>2. next_param \in BOOLEAN
    BY DEF next_param
  <2> QED
    BY <1>2, <2>1, <2>2 DEF Params
<1>4. params'.mem \in [0 .. MaxDepth - 1 -> S] /\ params'.data \in S
  BY <1>1, <1>3 DEF Params
<1>5. params'.mem_addr \in 0 .. MaxDepth - 1
  <2>1. (params.mem_addr + 1) % MaxDepth \in 0 .. MaxDepth - 1
    <3>1. PICK m \in Nat : m = params.mem_addr + 1
      BY <1>1
    <3>2. m % MaxDepth \in 0 .. MaxDepth - 1
      BY <1>1, Division
    <3> QED
      BY <3>1, <3>2
  <2> QED
    BY <1>1, <2>1 DEF Params
<1>6. params'.addr \in 0 .. MaxDepth - 1
  <2>1. (params.addr + 1) % MaxDepth \in 0 .. MaxDepth - 1
    <3>1. PICK m \in Nat : m = params.addr + 1
      BY <1>1
    <3>2. m % MaxDepth \in 0 .. MaxDepth - 1
      BY <1>1, Division
    <3> QED
      BY <3>1, <3>2
  <2> QED
    BY <1>1, <2>1 DEF Params, NextParamAddr
<1>7. params'.repeat \in 0 .. 3
  BY <1>1 DEF Params
<1>8. params'.valid \in BOOLEAN
  BY <1>3 DEF next_param
<1>9. CASE param_write
  <2>1. params'.fifo = [items |-> <<>>, out |-> None] /\ ~next_param
    BY <1>3, <1>9 DEF EmptyFifo, next_param
  <2>2. <<>> \in Seq(S) /\ Len(<<>>) = 0
    BY EmptySeq
  <2>3. ParamsTyped'
    BY <1>1, <1>4, <1>5, <1>6, <1>7, <1>8, <2>1, <2>2 DEF ParamsTyped
  <2>4. ParamQueueOK'
    BY <2>1, <2>2 DEF ParamQueueOK
  <2> QED
    BY <2>3, <2>4
<1>10. CASE ~param_write
  <2>1. params'.fifo = Fifo(params.fifo, ProducerDepth, params.valid, params.data, transferring)
    BY <1>3, <1>10
  <2>2. PICK f : f = params'.fifo
    OBVIOUS
  <2>3. f = Fifo(params.fifo, ProducerDepth, params.valid, params.data, transferring)
    BY <2>1, <2>2
  <2>4. PICK kept : kept = IF items # <<>> /\ (out = None \/ transferring)
                           THEN Tail(items) ELSE items
    OBVIOUS
  <2> HIDE DEF S
  <2>5. /\ f.items \in Seq(S) /\ f.out \in S /\ f = [items |-> f.items, out |-> f.out]
    BY <1>1, <2>3, <2>4, ParamFifo
  <2>6. /\ Len(kept) = IF items # <<>> /\ (out = None \/ transferring)
                       THEN Len(items) - 1 ELSE Len(items)
        /\ Len(f.items) = Len(kept) + IF params.valid /\ Len(items) < 2 THEN 1 ELSE 0
        /\ f.out = IF items # <<>> /\ (out = None \/ transferring)
                   THEN Head(items) ELSE IF transferring THEN None ELSE out
    BY <1>1, <2>3, <2>4, ParamFifo
  <2>7. Len(items) \in Nat /\ (items = <<>> <=> Len(items) = 0)
    BY <1>1, EmptySeq, LenProperties
  <2>8. params'.valid <=> (out = None \/ transferring)
    BY <1>3, <1>10 DEF next_param
  <2>9. ParamsTyped'
    <3>1. f \in [items : Seq(S), out : S]
      BY <2>5
    <3> QED
      BY <1>4, <1>5, <1>6, <1>7, <1>8, <2>2, <3>1 DEF ParamsTyped, S
  <2>10. IF f.out # None THEN Len(f.items) = IF params'.valid THEN 1 ELSE 2
         ELSE Len(f.items) = 0 \/ (Len(f.items) = 1 /\ params'.valid)
    <3>1. CASE out # None
      <4>1. Len(items) = IF params.valid THEN 1 ELSE 2
        BY <3>1 DEF ParamQueueOK
      <4>2. CASE transferring
        BY <1>1, <2>6, <2>7, <2>8, <4>1, <4>2
      <4>3. CASE ~transferring
        BY <1>1, <2>6, <2>7, <2>8, <3>1, <4>1, <4>3
      <4> QED
        BY <4>2, <4>3
    <3>2. CASE out = None
      <4>1. Len(items) = 0 \/ (Len(items) = 1 /\ params.valid)
        BY <3>2 DEF ParamQueueOK
      <4>2. CASE Len(items) = 0
        BY <1>1, <2>6, <2>7, <2>8, <3>2, <4>2
      <4>3. CASE Len(items) = 1 /\ params.valid
        BY <1>1, <2>6, <2>7, <2>8, <3>2, <4>3
      <4> QED
        BY <4>1, <4>2, <4>3
    <3> QED
      BY <3>1, <3>2
  <2>11. ParamQueueOK'
    BY <2>2, <2>10 DEF ParamQueueOK
  <2> QED
    BY <2>9, <2>11
<1> QED
  BY <1>9, <1>10

\* The cycle that stores the n-th parameter.
LEMMA WriteStep ==
  ASSUME NEW first \in Nat, NEW n \in Nat, n + 1 < MaxDepth, Stored(first, n), ParamsTyped,
         ParamQueueOK, pulse.param = first + n, ~pulse.reset, Params, config' = config
  PROVE  /\ Stored(first, n + 1)'
         /\ n + 1 = config.channels /\ rows \in {2, 4} => ParamsAt(first, 0, 0)'
<1>1. param_write
  BY NoneAssumption DEF param_write
<1>2. MaxDepth \in Nat /\ n \in 0 .. MaxDepth - 1 /\ (n + 1) % MaxDepth = n + 1
  BY ConstantsAssumption, Remainder
<1>3. /\ params'.mem = [params.mem EXCEPT ![n] = first + n] /\ params'.mem_addr = n + 1
      /\ params'.addr = 0 /\ params'.repeat = 0
      /\ params'.count = config.channels /\ params'.repeats = rows
      /\ params'.fifo = EmptyFifo
  BY <1>1, <1>2 DEF Params, Stored
<1>4. rows' = rows
  BY DEF rows, half_mode
<1>5. \A a \in 0 .. n : params'.mem[a] = first + a
  <2>1. params.mem \in [0 .. MaxDepth - 1 -> Nat \cup {None}]
    BY DEF ParamsTyped
  <2>2. \A a \in 0 .. n - 1 : params.mem[a] = first + a
    BY DEF Stored
  <2>3. TAKE a \in 0 .. n
  <2>4. a \in 0 .. MaxDepth - 1
    BY <1>2
  <2>5. CASE a = n
    BY <1>3, <2>1, <2>4, <2>5
  <2>6. CASE a # n
    BY <1>3, <2>1, <2>2, <2>4, <2>6
  <2> QED
    BY <2>5, <2>6
<1>6. Stored(first, n + 1)'
  BY <1>3, <1>4, <1>5 DEF Stored
<1>7. ASSUME n + 1 = config.channels, rows \in {2, 4}
      PROVE  ParamsAt(first, 0, 0)'
  <2>1. ~(params.valid /\ ~w_rdy(params.fifo, ProducerDepth))
    BY RoomForParam
  <2>2. ~params'.valid
    BY <1>1, <2>1 DEF Params, next_param
  <2>3. 0 \div rows = 0 /\ 0 % rows = 0 /\ 0 % config.channels = 0 /\ 0 + 0 = 0
    BY <1>7, Remainder
  <2>4. \A a \in 0 .. config.channels - 1 : params'.mem[a] = first + a
    BY <1>5, <1>7
  <2>5. /\ params'.addr = ((0 + 0) \div rows) % config.channels
        /\ params'.repeat = (0 + 0) % rows
    BY <1>3, <2>3
  <2> QED
    BY <1>3, <1>4, <2>2, <2>4, <2>5 DEF ParamsAt
<1> QED
  BY <1>6, <1>7

\* Parameters stay where they were written.
LEMMA KeepStep ==
  ASSUME NEW first, NEW n, Stored(first, n), pulse.param = None, ~pulse.reset, Params,
         config' = config
  PROVE  Stored(first, n)'
<1>1. /\ params'.mem = params.mem /\ params'.mem_addr = params.mem_addr
      /\ params'.count = params.count /\ params'.repeats = params.repeats
  BY DEF Params, param_write
<1>2. rows' = rows
  BY DEF rows, half_mode
<1> QED
  BY <1>1, <1>2 DEF Stored

\* A reset takes the writer back to the first.
LEMMA ResetStep ==
  ASSUME NEW first, pulse.reset, Params
  PROVE  Stored(first, 0)'
<1>1. params'.mem_addr = 0
  BY DEF Params, param_write
<1> QED
  BY <1>1 DEF Stored

\* The producer primes its queue in three cycles, and no more until a result needs them.
LEMMA FillStep ==
  ASSUME NEW first \in Nat, NEW fill \in 0 .. 3, ParamsAt(first, 0, fill),
         rows \in {2, 4}, config.channels \in 1 .. MaxDepth,
         rows' = rows, config'.channels = config.channels,
         ~transferring, pulse.param = None, Params,
         NEW fill1, fill1 = IF fill < 3 THEN fill + 1 ELSE 3
  PROVE  ParamsAt(first, 0, fill1)'
<1>1. ~param_write
  BY DEF param_write
<1>2. 0 \in Nat /\ 0 = (IF transferring THEN 0 + 1 ELSE 0) /\ (transferring => fill = 3)
  OBVIOUS
<1> QED
  BY <1>1, <1>2, ParamsStep

-----------------------------------------------------------------------------
(* The sizes of a turn                                                     *)

\* What LayersAssumption says of each layer.
LEMMA SomeLayer ==
  ASSUME NEW i \in 1 .. Len(Layers)
  PROVE  LayerOK(Layers[i])
  BY LayersAssumption DEF LayerOK

\* Multiples of four.
LEMMA Fours ==
  ASSUME NEW m \in Nat, NEW n \in Nat, m % 4 = 0, n % 4 = 0
  PROVE  /\ m <= n => (n - m) % 4 = 0
         /\ m > 0 => m >= 4
         /\ m = 4 * (m \div 4) /\ m \div 4 \in Nat
  OBVIOUS

\* Their multiples.
LEMMA FourTimes ==
  ASSUME NEW j \in Nat, NEW k \in Nat
  PROVE  (k * (4 * j)) % 4 = 0 /\ k * (4 * j) = 4 * (k * j)
<1>1. k * j \in Nat /\ k * (4 * j) = 4 * (k * j)
  OBVIOUS
<1>2. PICK n \in Nat : n = k * j
  BY <1>1
<1>3. (4 * n) % 4 = 0
  OBVIOUS
<1> QED
  BY <1>1, <1>2, <1>3

\* The first channel of a tranche is one of the layer.
LEMMA Tranches ==
  ASSUME NEW n \in Nat \ {0}, NEW size \in Nat \ {0}, n % 4 = 0, size % 4 = 0,
         NEW turn \in 1 .. (n + size - 1) \div size
  PROVE  /\ (turn - 1) * size \in Nat /\ (turn - 1) * size < n
         /\ ((turn - 1) * size) % 4 = 0 /\ (n - (turn - 1) * size) % 4 = 0
<1> DEFINE q == (n + size - 1) \div size
<1>1. PICK m \in Nat : m = n + size - 1
  OBVIOUS
<1>2. m \div size \in Nat /\ m % size \in 0 .. size - 1 /\ m = size * (m \div size) + (m % size)
  BY Division
<1>3. PICK c \in Nat, r \in Nat : c = m \div size /\ r = m % size
  BY <1>2
<1>4. turn \in 1 .. c /\ m = size * c + r
  BY <1>1, <1>2, <1>3
<1>5. PICK t \in Nat : t = turn - 1 /\ t + 1 <= c
  BY <1>4
<1>6. size * c >= size * (t + 1) /\ size * (t + 1) = t * size + size /\ t * size \in Nat
  BY <1>5
<1>7. t * size < n
  BY <1>1, <1>4, <1>6
<1>8. PICK j \in Nat : size = 4 * j
  BY Fours
<1>9. (t * size) % 4 = 0
  BY <1>5, <1>8, FourTimes
<1>10. PICK f \in Nat : f = t * size
  BY <1>6
<1>11. (n - f) % 4 = 0
  BY <1>7, <1>9, <1>10, Fours
<1> QED
  BY <1>5, <1>6, <1>7, <1>9, <1>10, <1>11

\* The channels and the pixels of a turn.
LEMMA Sizes ==
  ASSUME NEW layer, LayerOK(layer), NEW turn \in 1 .. Turns(layer)
  PROVE  /\ layer.mode \in 0 .. 1
         /\ First(layer, turn) \in Nat
         /\ Channels(layer, turn) \in Nat \ {0} /\ Channels(layer, turn) % 4 = 0
         /\ Channels(layer, turn) * Period(layer) <= 2 * MaxDepth
         /\ Channels(layer, turn) + 1 < MaxDepth
         /\ Period(layer) \in Nat /\ Period(layer) % 4 = 0 /\ Period(layer) >= 2 * Group(layer)
         /\ Starts(layer, turn) => Pixels(layer, turn) \in Nat \ {0}
         /\ Base(layer, turn) \in Nat
<1>1. /\ layer.height \in Nat \ {0} /\ layer.width \in Nat \ {0} /\ layer.channels \in Nat \ {0}
      /\ layer.channels % 4 = 0
  BY DEF LayerOK
<1>2. CASE layer.mode = 0 /\ 2 * layer.channels <= MaxDepth
  <2>1. First(layer, turn) = 0 /\ Channels(layer, turn) = layer.channels - 0
        /\ Period(layer) = 4 /\ Group(layer) = 2
    BY <1>2 DEF First, Channels, Period, Group
  <2>2. Channels(layer, turn) = layer.channels /\ layer.channels >= 4
    <3>1. PICK n \in Nat \ {0} : n = layer.channels /\ n % 4 = 0
      BY <1>1
    <3>2. n >= 4
      BY <3>1, Fours
    <3>3. n - 0 = n
      OBVIOUS
    <3> QED
      BY <2>1, <3>1, <3>2, <3>3
  <2>3. ASSUME turn # 1
        PROVE  FirstRow(layer, turn) \in Nat /\ FirstRow(layer, turn) < layer.height
    BY <1>1, <1>2, <2>3 DEF Turns, FirstRow, max_rows
  <2>4. Starts(layer, turn) => Pixels(layer, turn) \in Nat \ {0}
    <3>1. SUFFICES ASSUME turn # 1 PROVE Pixels(layer, turn) \in Nat \ {0}
      BY <1>2 DEF Starts
    <3>2. PICK n \in Nat \ {0} :
            n = IF layer.height - FirstRow(layer, turn) < max_rows
                THEN layer.height - FirstRow(layer, turn) ELSE max_rows
      BY <1>1, <2>3, <3>1 DEF max_rows
    <3>3. Pixels(layer, turn) = n * layer.width
      BY <1>2, <3>2 DEF Pixels
    <3>4. n * layer.width \in Nat \ {0}
      BY <1>1, <3>2
    <3> QED
      BY <3>3, <3>4
  <2>5. Base(layer, turn) \in Nat
    <3>1. CASE turn = 1
      BY <3>1 DEF Base
    <3>2. CASE turn # 1
      <4>1. Base(layer, turn) = FirstRow(layer, turn) * layer.width
        BY <1>2, <3>2 DEF Base
      <4> QED
        BY <1>1, <2>3, <3>2, <4>1
    <3> QED
      BY <3>1, <3>2
  <2>6. PICK n \in Nat \ {0} : n = layer.channels /\ n % 4 = 0 /\ n >= 4 /\ 2 * n <= MaxDepth
    BY <1>1, <1>2, <2>2
  <2>7. n * 4 <= 2 * MaxDepth /\ n + 1 < MaxDepth
    BY <2>6, ConstantsAssumption
  <2>8. Channels(layer, turn) * Period(layer) <= 2 * MaxDepth
    BY <2>1, <2>2, <2>6, <2>7
  <2>9. First(layer, turn) \in Nat /\ Channels(layer, turn) \in Nat \ {0}
        /\ Channels(layer, turn) % 4 = 0 /\ Channels(layer, turn) + 1 < MaxDepth
    BY <2>1, <2>2, <2>6, <2>7
  <2>10. Period(layer) \in Nat /\ Period(layer) % 4 = 0 /\ Period(layer) >= 2 * Group(layer)
    BY <2>1
  <2> QED
    BY <1>2, <2>4, <2>5, <2>8, <2>9, <2>10
<1>3. CASE /\ layer.mode = 1
           /\ layer.tranche \in Nat \ {0} /\ layer.period \in Nat \ {0}
           /\ layer.tranche % 4 = 0
           /\ layer.period % 4 = 0 /\ layer.period >= 8
           /\ layer.tranche * layer.period <= 2 * MaxDepth
  <2> DEFINE size == layer.tranche
             C == Channels(layer, turn)
             F == First(layer, turn)
  <2>1. F = (turn - 1) * size /\ Period(layer) = layer.period /\ Group(layer) = 4
    BY <1>3 DEF First, Period, Group
  <2>2. turn \in 1 .. (layer.channels + size - 1) \div size
    BY <1>3 DEF Turns
  <2>3. size \in Nat \ {0} /\ size % 4 = 0
    BY <1>3
  <2>4. C = IF layer.channels - F < size THEN layer.channels - F ELSE size
    BY <1>3 DEF Channels
  <2> HIDE DEF C, F, size
  <2>5. F \in Nat /\ F < layer.channels /\ F % 4 = 0 /\ (layer.channels - F) % 4 = 0
    BY <1>1, <2>1, <2>2, <2>3, Tranches
  <2>6. C \in Nat \ {0} /\ C % 4 = 0 /\ C <= size
    BY <1>1, <2>3, <2>4, <2>5
  <2>7. PICK p \in Nat \ {0} : p = layer.period /\ p >= 8 /\ p % 4 = 0
    BY <1>3
  <2>8. size * p <= 2 * MaxDepth
    BY <1>3, <2>7 DEF size
  <2>9. C * p <= size * p /\ C * p >= C * 8 /\ C >= 4
    <3>1. C * p <= size * p /\ C * p >= C * 8
      BY <2>3, <2>6, <2>7
    <3>2. C >= 4
      BY <2>6, Fours
    <3> QED
      BY <3>1, <3>2
  <2>10. C * p \in Nat /\ size * p \in Nat /\ MaxDepth \in Nat
    BY <2>3, <2>6, <2>7, ConstantsAssumption
  <2>11. C * p <= 2 * MaxDepth /\ C + 1 < MaxDepth
    BY <2>6, <2>8, <2>9, <2>10
  <2>12. Pixels(layer, turn) \in Nat \ {0}
    BY <1>1, <1>3 DEF Pixels
  <2>13. Base(layer, turn) \in Nat
    BY <1>3 DEF Base
  <2> QED
    BY <1>3, <2>1, <2>5, <2>6, <2>7, <2>11, <2>12, <2>13 DEF C, F
<1> QED
  BY <1>2, <1>3 DEF LayerOK

-----------------------------------------------------------------------------
(* The values and the words of a turn                                      *)

\* The values of a turn make no more than its words, and all of them only if they are of whole
\* groups of pixels.
LEMMA TurnCounts ==
  ASSUME NEW layer, LayerOK(layer), NEW turn \in 1 .. Turns(layer), Starts(layer, turn)
  PROVE  LET G == Group(layer)
             C == Channels(layer, turn)
             V == Values(layer, turn)
             W == Words(layer, turn)
         IN  /\ V \in Nat \ {0} /\ V % (2 * G) = 0
             /\ W \in Nat \ {0} /\ WordsPerGroup(layer, turn) \in Nat \ {0}
             /\ V <= 4 * W
             /\ V = 4 * W => V % (G * C) = 0
<1> DEFINE G == Group(layer)
           C == Channels(layer, turn)
           V == Values(layer, turn)
           W == Words(layer, turn)
           P == Pixels(layer, turn)
<1>1. C \in Nat \ {0} /\ C % 4 = 0 /\ P \in Nat \ {0} /\ layer.mode \in 0 .. 1
  BY Sizes
<1>2. PICK j \in Nat \ {0} : C = 4 * j /\ C \div 4 = j
  BY <1>1
<1>3. WordsPerGroup(layer, turn) = j * G /\ W = (j * G) * ((P + G - 1) \div G)
  BY <1>2 DEF WordsPerGroup, Words
<1>4. CASE layer.mode = 1
  <2>1. G = 4 /\ V = RoundedUp(P) * C
    BY <1>4 DEF Group, Values
  <2>2. P + 4 - 1 = P + 3
    BY <1>1
  <2>3. PICK k \in Nat \ {0} : k = (P + 3) \div 4
    BY <1>1
  <2>4. V = (k * 4) * (4 * j)
    BY <1>2, <2>1, <2>3 DEF RoundedUp
  <2>5. W = (j * 4) * k
    BY <1>3, <2>1, <2>2, <2>3
  <2>6. PICK n \in Nat \ {0} : n = k * j
    BY <2>3
  <2>7. V = 16 * n /\ W = 4 * n /\ WordsPerGroup(layer, turn) = 4 * j
    BY <1>2, <1>3, <2>1, <2>3, <2>4, <2>5, <2>6
  <2>8. (16 * n) % 8 = 0
    OBVIOUS
  <2>9. V % (G * C) = 0
    <3>1. PICK m \in Nat \ {0} : m = 16 * j
      BY <1>2
    <3>2. G * C = m /\ V = m * k + 0
      BY <1>2, <2>1, <2>3, <2>4, <3>1
    <3>3. 0 \in 0 .. m - 1
      BY <3>1
    <3>4. (m * k + 0) % m = 0
      BY <2>3, <3>3, Quotient
    <3> QED
      BY <3>2, <3>4
  <2>10. V % (2 * G) = 0
    <3>1. V = 16 * n /\ 2 * G = 8
      BY <2>1, <2>7
    <3> QED
      BY <2>8, <3>1
  <2>11. V \in Nat \ {0} /\ W \in Nat \ {0} /\ V <= 4 * W /\ 4 * j \in Nat \ {0}
    BY <2>6, <2>7
  <2> QED
    BY <2>7, <2>9, <2>10, <2>11
<1>5. CASE layer.mode = 0
  <2>1. G = 2 /\ V = P * C
    BY <1>5 DEF Group, Values, Starts
  <2>2. P + 2 - 1 = P + 1
    BY <1>1
  <2>3. PICK k \in Nat \ {0}, r \in 0 .. 1 : k = (P + 1) \div 2 /\ P = 2 * k - r
    BY <1>1
  <2>4. PICK n \in Nat \ {0} : n = P * j
    BY <1>1, <1>2
  <2>5. V = 4 * n
    BY <1>1, <1>2, <2>1, <2>4
  <2>6. W = (j * 2) * k /\ WordsPerGroup(layer, turn) = 2 * j
    BY <1>2, <1>3, <2>1, <2>2, <2>3
  <2>7. W = n + r * j
    <3>1. PICK m \in Nat \ {0} : m = P
      BY <1>1
    <3>2. (j * 2) * k = j * (2 * k) /\ 2 * k = m + r
      BY <2>3, <3>1
    <3>3. j * (m + r) = m * j + r * j
      BY <3>1
    <3> QED
      BY <2>4, <2>6, <3>1, <3>2, <3>3
  <2>8. r * j \in Nat /\ (r # 0 => r * j > 0)
    BY <1>2, <2>3
  <2>9. V \in Nat \ {0} /\ W \in Nat \ {0} /\ V <= 4 * W /\ 2 * j \in Nat \ {0}
    BY <1>2, <2>4, <2>5, <2>7, <2>8
  <2>10. V % (2 * G) = 0
    <3>1. (4 * n) % 4 = 0
      OBVIOUS
    <3>2. V = 4 * n /\ 2 * G = 4
      BY <2>1, <2>5
    <3> QED
      BY <3>1, <3>2
  <2>11. ASSUME V = 4 * W PROVE V % (G * C) = 0
    <3>1. r = 0
      BY <2>3, <2>4, <2>5, <2>7, <2>8, <2>11
    <3>2. PICK m \in Nat \ {0} : m = 8 * j
      BY <1>2
    <3>3. P = 2 * k /\ V = (2 * k) * (4 * j)
      BY <1>2, <2>1, <2>3, <3>1
    <3>4. G * C = m /\ V = m * k + 0
      BY <1>2, <2>1, <2>3, <3>2, <3>3
    <3>5. 0 \in 0 .. m - 1
      BY <3>2
    <3>6. (m * k + 0) % m = 0
      BY <2>3, <3>5, Quotient
    <3> QED
      BY <3>4, <3>6
  <2> QED
    BY <2>6, <2>9, <2>10, <2>11
<1> QED
  BY <1>1, <1>4, <1>5

\* A turn that starts is configured for whole passes.
LEMMA TurnConfig ==
  ASSUME NEW layer, LayerOK(layer), NEW turn \in 1 .. Turns(layer),
         config = Config(layer, Base(layer, turn), Values(layer, turn), Channels(layer, turn),
                         Period(layer)),
         filter.channel = First(layer, turn)
  PROVE  /\ config.mode = layer.mode /\ config.channels = Channels(layer, turn)
         /\ config.values = Values(layer, turn) /\ config.base = Base(layer, turn)
         /\ rows = Group(layer) /\ rows \in {2, 4}
         /\ Starts(layer, turn) => ConfigOK
<1>1. /\ config.mode = layer.mode /\ config.channels = Channels(layer, turn)
      /\ config.values = Values(layer, turn) /\ config.base = Base(layer, turn)
      /\ config.period = Period(layer)
  BY DEF Config
<1>2. /\ layer.mode \in 0 .. 1
      /\ First(layer, turn) \in Nat
      /\ Channels(layer, turn) \in Nat \ {0} /\ Channels(layer, turn) % 4 = 0
      /\ Channels(layer, turn) * Period(layer) <= 2 * MaxDepth
      /\ Channels(layer, turn) + 1 < MaxDepth
      /\ Period(layer) \in Nat /\ Period(layer) % 4 = 0 /\ Period(layer) >= 2 * Group(layer)
      /\ Base(layer, turn) \in Nat
  BY Sizes
<1>3. rows = Group(layer) /\ rows \in {2, 4}
  BY <1>1, <1>2 DEF rows, half_mode, Group
<1>4. ASSUME Starts(layer, turn) PROVE ConfigOK
  <2>1. Values(layer, turn) \in Nat \ {0} /\ Values(layer, turn) % (2 * Group(layer)) = 0
    BY <1>4, TurnCounts
  <2>2. num_filter_words <= MaxDepth /\ Channels(layer, turn) <= MaxDepth
    <3>1. PICK c \in Nat \ {0}, p \in Nat :
            /\ c = Channels(layer, turn) /\ p = Period(layer) /\ c % 4 = 0
            /\ c * p <= 2 * MaxDepth /\ c + 1 < MaxDepth
      BY <1>2
    <3>2. PICK h \in Nat : h = c \div 2 /\ c = 2 * h
      BY <3>1
    <3>3. c * p = 2 * (h * p) /\ h * p \in Nat /\ MaxDepth \in Nat
      BY <3>1, <3>2, ConstantsAssumption
    <3>4. h * p <= MaxDepth /\ c <= MaxDepth
      BY <3>1, <3>3
    <3>5. num_filter_words = h * p
      BY <1>1, <3>1, <3>2 DEF num_filter_words, num_repeats
    <3> QED
      BY <3>1, <3>4, <3>5
  <2> QED
    BY <1>1, <1>2, <1>3, <2>1, <2>2 DEF ConfigOK
<1> QED
  BY <1>1, <1>3, <1>4

\* Products of natural numbers.
LEMMA Product ==
  ASSUME NEW m \in Nat, NEW n \in Nat
  PROVE  m * n \in Nat
  OBVIOUS

\* The item of a byte of a word, g pixels at a time.
ItemOf(g, q, b) == 4 * g * (q \div g) + g * (b - 1) + (q % g)

\* The pixel and the channel of byte b of word q, from the item's place in the order of results.
LEMMA WordPlace ==
  ASSUME NEW G \in Nat \ {0}, NEW c \in Nat \ {0}, c % 4 = 0, NEW q \in Nat, NEW b \in 1 .. 4
  PROVE  /\ ItemOf(G, q, b) \in Nat /\ ItemOf(G, q, b) % G = q % G
         /\ (ItemOf(G, q, b) \div G) % c = 4 * ((q % ((c \div 4) * G)) \div G) + (b - 1)
         /\ ItemOf(G, q, b) \div (G * c) = q \div ((c \div 4) * G)
<1>1. PICK j \in Nat \ {0} : j = c \div 4 /\ c = 4 * j
  OBVIOUS
<1>2. PICK n : n = ItemOf(G, q, b)
  OBVIOUS
<1>3. PICK w \in Nat \ {0} : w = j * G
  BY <1>1
<1>4. q \div w \in Nat /\ q % w \in 0 .. w - 1 /\ q = w * (q \div w) + (q % w)
  BY Division
<1>5. PICK g \in Nat, r \in 0 .. w - 1 : g = q \div w /\ r = q % w /\ q = w * g + r
  BY <1>4
<1>6. r \div G \in Nat /\ r % G \in 0 .. G - 1 /\ r = G * (r \div G) + (r % G)
  <2>1. r \in Nat
    BY <1>5
  <2> QED
    BY <2>1, Division
<1>7. PICK h \in Nat, x \in 0 .. G - 1 : h = r \div G /\ x = r % G /\ r = G * h + x
  BY <1>6
<1>8. h <= j - 1
  <2>1. SUFFICES ASSUME h >= j PROVE FALSE
    BY <1>7, <1>1
  <2>2. G * h >= G * j /\ G * j = w
    BY <1>3, <1>7, <1>1, <2>1
  <2> QED
    BY <1>5, <1>7, <2>2
<1>9. PICK y \in Nat : y = j * g + h
  BY <1>5, <1>7, <1>1, Product
<1>10. q = G * y + x
  <2>1. PICK f \in Nat : f = j * g
    BY <1>5, <1>1, Product
  <2>2. w * g = G * f
    <3>1. (j * G) * g = G * (j * g)
      BY <1>5, <1>1
    <3> QED
      BY <1>3, <2>1, <3>1
  <2>3. y = f + h
    BY <1>9, <2>1
  <2>4. G * (f + h) = G * f + G * h
    BY <1>7, <2>1
  <2>5. G * f \in Nat /\ G * h \in Nat
    BY <1>7, <2>1, Product
  <2>6. PICK k \in Nat, l \in Nat : k = G * f /\ l = G * h
    BY <2>5
  <2>7. G * y = k + l /\ q = k + r /\ r = l + x
    BY <1>5, <1>7, <2>2, <2>3, <2>4, <2>6
  <2>8. x \in Nat /\ r \in Nat
    BY <1>5, <1>7
  <2> QED
    BY <2>6, <2>7, <2>8
<1>11. (G * y + x) \div G = y /\ (G * y + x) % G = x
  BY <1>7, <1>9, Quotient
<1>12. q \div G = y /\ q % G = x
  BY <1>10, <1>11
<1>13. PICK e \in Nat : e = 4 * h + (b - 1) /\ e <= 4 * j - 1
  BY <1>7, <1>8, <1>1
<1>14. PICK v \in Nat : v = 4 * y + (b - 1)
  BY <1>9
<1>15. n = G * v + x
  <2>1. PICK d \in 0 .. 3 : d = b - 1
    OBVIOUS
  <2>2. G * (4 * y + d) = 4 * G * y + G * d
    BY <1>9, <2>1
  <2>3. n = 4 * G * y + G * d + x /\ v = 4 * y + d
    BY <1>12, <1>14, <1>2, <2>1 DEF ItemOf
  <2> QED
    BY <2>2, <2>3
<1>16. (G * v + x) \div G = v /\ (G * v + x) % G = x
  BY <1>7, <1>14, Quotient
<1>17. n \div G = v /\ n % G = x
  BY <1>15, <1>16
<1>18. c \in Nat \ {0} /\ e \in 0 .. c - 1 /\ v = c * g + e
  <2>1. 4 * (j * g) = c * g
    BY <1>5, <1>1
  <2>2. PICK f \in Nat : f = j * g
    BY <1>5, <1>1, Product
  <2>3. y = f + h /\ c * g = 4 * f
    BY <1>9, <2>1, <2>2
  <2>4. v = 4 * f + e
    BY <1>7, <1>13, <1>14, <2>2, <2>3
  <2>5. v = c * g + e
    BY <2>3, <2>4
  <2>6. e \in 0 .. c - 1
    BY <1>13, <1>1
  <2> QED
    BY <2>5, <2>6
<1>19. (c * g + e) \div c = g /\ (c * g + e) % c = e
  BY <1>5, <1>13, <1>18, Quotient
<1>20. v % c = e /\ v \div c = g
  BY <1>18, <1>19
<1>21. n \div (G * c) = g
  <2>1. PICK m \in Nat \ {0} : m = G * c
    BY <1>18
  <2>2. PICK z \in Nat : z = G * e + x
    BY <1>13
  <2>3. z <= m - 1
    <3>1. G * e <= G * (c - 1) /\ G * (c - 1) = m - G
      BY <1>18, <2>1
    <3> QED
      BY <2>2, <3>1
  <2>4. n = m * g + z
    <3>1. PICK f \in Nat : f = c * g
      BY <1>18
    <3>2. G * (f + e) = G * f + G * e /\ G * f = m * g
      BY <1>13, <1>18, <2>1, <3>1
    <3>3. v = f + e
      BY <1>18, <3>1
    <3> QED
      BY <1>15, <2>2, <3>2, <3>3
  <2>5. (m * g + z) \div m = g
    <3>1. z \in 0 .. m - 1
      BY <2>3
    <3> QED
      BY <3>1, Quotient
  <2> QED
    BY <2>1, <2>4, <2>5
<1>22. n \in Nat
  BY <1>15, <1>14
<1> QED
  BY <1>3, <1>5, <1>7, <1>12, <1>13, <1>17, <1>20, <1>21, <1>22, <1>1, <1>2

\* The k-th word of the accelerator is the one the driver takes it for.
LEMMA GotRight ==
  ASSUME NEW layer, LayerOK(layer), NEW turn \in 1 .. Turns(layer), Starts(layer, turn),
         config = Config(layer, Base(layer, turn), Values(layer, turn), Channels(layer, turn),
                         Period(layer)),
         filter.channel = First(layer, turn),
         NEW k \in 1 .. Words(layer, turn), NEW b \in 1 .. 4
  PROVE  LET channel == WordGot(layer, turn, k).channel + b - 1
         IN  WordAt(k - 1)[b] =
               [value |-> [pixel |-> WordGot(layer, turn, k).pixel, channel |-> channel],
                param |-> channel]
<1>1. /\ config.channels = Channels(layer, turn) /\ config.base = Base(layer, turn)
      /\ rows = Group(layer) /\ rows \in {2, 4}
  BY TurnConfig
<1>2. /\ Channels(layer, turn) \in Nat \ {0} /\ Channels(layer, turn) % 4 = 0
      /\ First(layer, turn) \in Nat /\ Base(layer, turn) \in Nat
  BY Sizes
<1>3. PICK c \in Nat \ {0}, j \in Nat \ {0} :
        c = Channels(layer, turn) /\ c = 4 * j /\ j = Channels(layer, turn) \div 4
  BY <1>2
<1>4. Words(layer, turn) \in Nat
  BY TurnCounts
<1>5. PICK q \in Nat : q = k - 1
  BY <1>4
<1>6. PICK n : n = ItemOf(rows, q, b)
  OBVIOUS
<1>7. rows \in Nat \ {0}
  BY <1>1
<1>8. /\ n \in Nat /\ n % rows = q % rows
      /\ (n \div rows) % c = 4 * ((q % (j * rows)) \div rows) + (b - 1)
      /\ n \div (rows * c) = q \div (j * rows)
  <2>1. c % 4 = 0 /\ c \div 4 = j
    BY <1>2, <1>3
  <2>2. /\ ItemOf(rows, q, b) \in Nat /\ ItemOf(rows, q, b) % rows = q % rows
        /\ (ItemOf(rows, q, b) \div rows) % c
             = 4 * ((q % ((c \div 4) * rows)) \div rows) + (b - 1)
        /\ ItemOf(rows, q, b) \div (rows * c) = q \div ((c \div 4) * rows)
    <3>1. PICK G \in Nat \ {0} : G = rows
      BY <1>7
    <3>2. /\ ItemOf(G, q, b) \in Nat /\ ItemOf(G, q, b) % G = q % G
          /\ (ItemOf(G, q, b) \div G) % c = 4 * ((q % ((c \div 4) * G)) \div G) + (b - 1)
          /\ ItemOf(G, q, b) \div (G * c) = q \div ((c \div 4) * G)
      <4>1. G \in Nat \ {0}
        BY <3>1
      <4>2. c \in Nat \ {0} /\ q \in Nat /\ c % 4 = 0
        BY <1>3, <1>5, <2>1
      <4> QED
        BY <4>1, <4>2, WordPlace, Zenon
    <3> QED
      BY <3>1, <3>2
  <2> QED
    BY <1>6, <2>1, <2>2
<1>9. WordAt(k - 1)[b] = ItemAt(n)
  BY <1>5, <1>6 DEF WordAt, ItemOf
<1>10. /\ WordGot(layer, turn, k).pixel =
            Base(layer, turn) + (rows * (q \div (j * rows)) + (q % rows))
       /\ WordGot(layer, turn, k).channel =
            First(layer, turn) + 4 * ((q % (j * rows)) \div rows)
  BY <1>1, <1>3, <1>5 DEF WordGot, Get, WordsPerGroup
<1>11. PICK e \in Nat, g \in Nat, x \in Nat :
         /\ e = (q % (j * rows)) \div rows /\ g = q \div (j * rows) /\ x = q % rows
  <2>1. PICK w \in Nat \ {0} : w = j * rows
    BY <1>7
  <2>2. q % w \in 0 .. w - 1 /\ q \div w \in Nat
    BY Division
  <2>3. q % rows \in 0 .. rows - 1
    BY <1>7, Division
  <2>4. PICK z \in Nat : z = q % w
    BY <2>2
  <2>5. z \div rows \in Nat
    BY <1>7, Division
  <2> QED
    BY <2>1, <2>2, <2>3, <2>4, <2>5
<1>12. ChannelAt(n) = First(layer, turn) + (4 * e + (b - 1))
  BY <1>1, <1>3, <1>8, <1>11 DEF ChannelAt, ParamAt
<1>13. ResultAt(n).pixel = Base(layer, turn) + rows * g + x
  BY <1>1, <1>3, <1>8, <1>11 DEF ResultAt
<1>14. PICK ch, px : /\ ch = First(layer, turn) + 4 * e + b - 1
                     /\ px = Base(layer, turn) + (rows * g + x)
  OBVIOUS
<1>15. ChannelAt(n) = ch
  BY <1>2, <1>11, <1>12, <1>14
<1>16. ItemAt(n) = [value |-> [pixel |-> px, channel |-> ch], param |-> ch]
  <2>1. ResultAt(n).pixel = px
    BY <1>2, <1>7, <1>11, <1>13, <1>14
  <2> QED
    BY <1>15, <2>1 DEF ItemAt, ResultAt
<1> QED
  BY <1>9, <1>10, <1>11, <1>14, <1>16

-----------------------------------------------------------------------------
(* The instructions of a turn, by step.                                    *)

Commands ==
  [op : {"config"}, mode : 0 .. 1, base : Nat, values : Nat, channels : Nat, period : Nat \ {0}]
    \cup {Reset, Start} \cup [op : {"param", "filter"}, channel : Nat]
    \cup [op : {"get"}, pixel : Nat, channel : Nat, stored : BOOLEAN]

\* r is s, of length m, and then t, of length n.
Concatenated(r, s, m, t, n) ==
  /\ r \in [1 .. m + n -> Commands] /\ Len(r) = m + n
  /\ \A i \in 1 .. m : r[i] = s[i]
  /\ \A i \in 1 .. n : r[m + i] = t[i]

\* Concatenation of instruction sequences.
LEMMA Joined ==
  ASSUME NEW m \in Nat, NEW n \in Nat,
         NEW s \in [1 .. m -> Commands], NEW t \in [1 .. n -> Commands],
         NEW r, r = s \o t
  PROVE  Concatenated(r, s, m, t, n)
<1>1. s \in Seq(Commands) /\ t \in Seq(Commands) /\ Len(s) = m /\ Len(t) = n
  BY SeqDef, LenProperties
<1>2. /\ r \in Seq(Commands) /\ Len(r) = m + n
      /\ \A i \in 1 .. m + n : r[i] = IF i <= m THEN s[i] ELSE t[i - m]
  BY <1>1, ConcatProperties
<1>3. r \in [1 .. m + n -> Commands]
  BY <1>2, LenProperties
<1>4. \A i \in 1 .. m : r[i] = s[i]
  BY <1>2
<1>5. ASSUME NEW i \in 1 .. n PROVE r[m + i] = t[i]
  <2>1. PICK j \in 1 .. m + n : j = m + i
    OBVIOUS
  <2>2. ~(j <= m) /\ j - m = i
    BY <2>1
  <2> QED
    BY <1>2, <2>1, <2>2
<1> QED
  BY <1>2, <1>3, <1>4, <1>5 DEF Concatenated

\* Two instructions.
LEMMA PairShape ==
  ASSUME NEW c \in Commands, NEW d \in Commands
  PROVE  <<c, d>> \in [1 .. 2 -> Commands] /\ <<c, d>>[1] = c /\ <<c, d>>[2] = d
  OBVIOUS

\* One instruction.
LEMMA SingleShape ==
  ASSUME NEW c \in Commands
  PROVE  <<c>> \in [1 .. 1 -> Commands] /\ <<c>>[1] = c
  OBVIOUS

\* The parameters, then the filters.
LEMMA LoadShape ==
  ASSUME NEW first \in Nat, NEW channels \in Nat
  PROVE  /\ Load(first, channels) \in [1 .. channels + 1 -> Commands]
         /\ \A i \in 1 .. channels :
              Load(first, channels)[i] = [op |-> "param", channel |-> first + i - 1]
         /\ Load(first, channels)[channels + 1] = [op |-> "filter", channel |-> first]
<1> DEFINE s == [i \in 1 .. channels |-> [op |-> "param", channel |-> first + i - 1]]
           t == <<[op |-> "filter", channel |-> first]>>
<1>1. \A i \in 1 .. channels : [op |-> "param", channel |-> first + i - 1] \in Commands
  BY DEF Commands
<1>2. s \in [1 .. channels -> Commands]
  BY <1>1
<1>3. [op |-> "filter", channel |-> first] \in Commands
  BY DEF Commands
<1>4. t \in [1 .. 1 -> Commands] /\ t[1] = [op |-> "filter", channel |-> first]
  BY <1>3, SingleShape
<1>5. Load(first, channels) = s \o t
  BY DEF Load
<1>6. \A i \in 1 .. channels : s[i] = [op |-> "param", channel |-> first + i - 1]
  OBVIOUS
<1> HIDE DEF s, t
<1>7. PICK r : r = s \o t
  OBVIOUS
<1>8. Concatenated(r, s, channels, t, 1)
  <2>1. 1 \in Nat
    OBVIOUS
  <2>2. t \in [1 .. 1 -> Commands]
    BY <1>4
  <2> QED
    BY <1>2, <1>7, <2>1, <2>2, Joined, Zenon
<1> QED
  BY <1>4, <1>5, <1>6, <1>7, <1>8 DEF Concatenated

\* What Collect gets in place k.
Collected(base_pixel, pixels, first, channels, group, k) ==
  LET words == (channels \div 4) * group
      pixel == group * ((k - 1) \div words) + ((k - 1) % group)
      place == ((k - 1) % words) \div group
  IN  Get(base_pixel + pixel, first + 4 * place, pixel < pixels)

Collects(s, base_pixel, pixels, first, channels, group, n) ==
  /\ s \in [1 .. n -> Commands]
  /\ \A k \in 1 .. n : s[k] = Collected(base_pixel, pixels, first, channels, group, k)

\* The words of the collecting loops.
LEMMA CollectShape ==
  ASSUME NEW base \in Nat, NEW pixels \in Nat, NEW first \in Nat, NEW channels \in Nat \ {0},
         channels % 4 = 0, NEW group \in Nat \ {0},
         NEW n \in Nat, n = ((channels \div 4) * group) * ((pixels + group - 1) \div group)
  PROVE  Collects(Collect(base, pixels, first, channels, group), base, pixels, first, channels,
                  group, n)
<1>1. PICK w \in Nat \ {0} : w = (channels \div 4) * group
  <2>1. PICK j \in Nat \ {0} : j = channels \div 4
    OBVIOUS
  <2> QED
    BY <2>1
<1>2. ASSUME NEW k \in 1 .. n
      PROVE  Collected(base, pixels, first, channels, group, k) \in Commands
  <2>1. PICK q \in Nat : q = k - 1
    OBVIOUS
  <2>2. q \div w \in Nat /\ q % w \in Nat
    <3>1. q \div w \in Nat /\ q % w \in 0 .. w - 1
      BY <1>1, <2>1, Division
    <3> QED
      BY <1>1, <3>1
  <2>3. q % group \in Nat /\ (q % w) \div group \in Nat
    <3>1. q % group \in 0 .. group - 1 /\ (q % w) \div group \in Nat
      BY <2>1, <2>2, Division
    <3> QED
      BY <3>1
  <2>4. PICK a \in Nat, b \in Nat, c \in Nat :
          a = group * (q \div w) /\ b = q % group /\ c = (q % w) \div group
    BY <2>1, <2>2, <2>3, Product
  <2>5. Collected(base, pixels, first, channels, group, k) =
          [op |-> "get", pixel |-> base + (a + b), channel |-> first + 4 * c,
           stored |-> a + b < pixels]
    BY <1>1, <2>1, <2>4 DEF Collected, Get
  <2> QED
    BY <2>4, <2>5 DEF Commands
<1>3. Collect(base, pixels, first, channels, group) =
        [k \in 1 .. n |-> Collected(base, pixels, first, channels, group, k)]
  BY DEF Collect, Collected
<1> QED
  BY <1>2, <1>3 DEF Collects

\* Configurations are instructions.
LEMMA ConfigShape ==
  ASSUME NEW layer, layer.mode \in 0 .. 1, NEW base \in Nat, NEW values \in Nat,
         NEW channels \in Nat, NEW period \in Nat \ {0}
  PROVE  Config(layer, base, values, channels, period) \in Commands
  BY DEF Config, Commands

\* So are a reset and a start.
LEMMA OthersShape == Reset \in Commands /\ Start \in Commands
  BY DEF Commands

\* What starts with the configuration c, a reset and Load.
Loaded(s, c, first, channels) ==
  /\ s \in [1 .. channels + 3 -> Commands] /\ Len(s) = channels + 3
  /\ s[1] = c /\ s[2] = Reset
  /\ \A i \in 1 .. channels : s[2 + i] = [op |-> "param", channel |-> first + i - 1]
  /\ s[3 + channels] = [op |-> "filter", channel |-> first]

\* A configuration, a reset, and the parameters and filters.
LEMMA LoadedShape ==
  ASSUME NEW c \in Commands, NEW first \in Nat, NEW channels \in Nat,
         NEW s, s = <<c, Reset>> \o Load(first, channels)
  PROVE  Loaded(s, c, first, channels)
<1>1. PICK p : /\ p = <<c, Reset>>
               /\ p \in [1 .. 2 -> Commands] /\ p[1] = c /\ p[2] = Reset
  <2>1. /\ <<c, Reset>> \in [1 .. 2 -> Commands]
        /\ <<c, Reset>>[1] = c /\ <<c, Reset>>[2] = Reset
    BY OthersShape, PairShape
  <2> QED
    BY <2>1, Zenon
<1>2. PICK n \in Nat : n = channels + 1
  OBVIOUS
<1>3. PICK l :
        /\ l = Load(first, channels) /\ l \in [1 .. n -> Commands]
        /\ \A i \in 1 .. channels : l[i] = [op |-> "param", channel |-> first + i - 1]
        /\ l[n] = [op |-> "filter", channel |-> first]
  <2>1. /\ Load(first, channels) \in [1 .. channels + 1 -> Commands]
        /\ \A i \in 1 .. channels :
             Load(first, channels)[i] = [op |-> "param", channel |-> first + i - 1]
        /\ Load(first, channels)[channels + 1] = [op |-> "filter", channel |-> first]
    BY LoadShape, Zenon
  <2> QED
    BY <1>2, <2>1, Zenon
<1>4. Concatenated(s, p, 2, l, n)
  <2>1. 2 \in Nat /\ n \in Nat
    BY <1>2
  <2>2. p \in [1 .. 2 -> Commands] /\ l \in [1 .. n -> Commands]
    BY <1>1, <1>3
  <2>3. s = p \o l
    BY <1>1, <1>3
  <2> QED
    BY <2>1, <2>2, <2>3, Joined, Zenon
<1>5. 2 + n = channels + 3 /\ 3 + channels = 2 + n
  BY <1>2
<1>6. s \in [1 .. channels + 3 -> Commands] /\ Len(s) = channels + 3
  BY <1>4, <1>5 DEF Concatenated
<1>7. s[1] = c /\ s[2] = Reset
  BY <1>1, <1>4 DEF Concatenated
<1>8. s[3 + channels] = [op |-> "filter", channel |-> first]
  BY <1>2, <1>3, <1>4, <1>5 DEF Concatenated
<1>9. ASSUME NEW i \in 1 .. channels
      PROVE  s[2 + i] = [op |-> "param", channel |-> first + i - 1]
  <2>1. i \in 1 .. n
    BY <1>2
  <2>2. s[2 + i] = l[i]
    BY <1>4, <2>1 DEF Concatenated
  <2> QED
    BY <1>3, <2>2
<1> QED
  BY <1>6, <1>7, <1>8, <1>9 DEF Loaded

\* A pass takes some cycles.
LEMMA PeriodOK ==
  ASSUME NEW layer, LayerOK(layer)
  PROVE  Period(layer) \in Nat \ {0}
  BY DEF LayerOK, Period

\* The two kinds of turn of mode 0, and the one of mode 1.
LEMMA SetupShape ==
  ASSUME NEW layer, LayerOK(layer), layer.mode = 0, 1 \in 1 .. Turns(layer),
         NEW T, T = Instructions(layer, 1), NEW C, C = Channels(layer, 1)
  PROVE  /\ Len(T) = 3 + C /\ T \in [1 .. Len(T) -> Commands]
         /\ T[1] = Config(layer, Base(layer, 1), Values(layer, 1), C, Period(layer))
         /\ T[2] = Reset
         /\ \A i \in 1 .. C : T[2 + i] = [op |-> "param", channel |-> First(layer, 1) + i - 1]
         /\ T[3 + C] = [op |-> "filter", channel |-> First(layer, 1)]
<1>1. C \in Nat /\ layer.channels \in Nat
  <2>1. C \in Nat \ {0}
    BY Sizes
  <2> QED
    BY <2>1 DEF LayerOK
<1>2. First(layer, 1) = 0 /\ C = layer.channels
  <2>1. First(layer, 1) = 0
    BY DEF First
  <2>2. C = layer.channels - 0
    BY <2>1 DEF Channels
  <2> QED
    BY <1>1, <2>1, <2>2
<1>3. Base(layer, 1) = 0 /\ Values(layer, 1) = 0 /\ Period(layer) = 4
  BY DEF Base, Values, Period
<1>4. PICK c : c = Config(layer, 0, 0, layer.channels, 4)
  OBVIOUS
<1>5. c \in Commands
  BY <1>1, <1>4, ConfigShape
<1>6. T = <<c, Reset>> \o Load(0, C)
  BY <1>2, <1>4 DEF Instructions, Mode0, Setup
<1>7. Loaded(T, c, 0, C)
  <2>1. 0 \in Nat
    OBVIOUS
  <2> QED
    BY <1>1, <1>5, <1>6, <2>1, LoadedShape, Zenon
<1>8. C + 3 = 3 + C
  BY <1>1
<1> QED
  BY <1>2, <1>3, <1>4, <1>7, <1>8 DEF Loaded

\* A turn of the row loop.
LEMMA RowsShape ==
  ASSUME NEW layer, LayerOK(layer), layer.mode = 0, NEW turn \in 1 .. Turns(layer), turn # 1,
         NEW T, T = Instructions(layer, turn), NEW C, C = Channels(layer, turn),
         NEW W, W = Words(layer, turn)
  PROVE  /\ T[1] = Config(layer, Base(layer, turn), Values(layer, turn), C, Period(layer))
         /\ T[2] = Start
         /\ \A k \in 1 .. W : T[2 + k] = WordGot(layer, turn, k)
         /\ Len(T) = 3 + W /\ T[3 + W] = Reset /\ T \in [1 .. Len(T) -> Commands]
<1>1. Starts(layer, turn)
  BY DEF Starts
<1>2. /\ C \in Nat \ {0} /\ C % 4 = 0 /\ Pixels(layer, turn) \in Nat
      /\ Base(layer, turn) \in Nat /\ W \in Nat /\ Values(layer, turn) \in Nat
      /\ First(layer, turn) \in Nat /\ Period(layer) \in Nat \ {0}
  <2>1. /\ C \in Nat \ {0} /\ C % 4 = 0 /\ Pixels(layer, turn) \in Nat \ {0}
        /\ Base(layer, turn) \in Nat /\ First(layer, turn) \in Nat
    BY <1>1, Sizes
  <2>2. W \in Nat \ {0} /\ Values(layer, turn) \in Nat \ {0}
    BY <1>1, TurnCounts
  <2> QED
    BY <2>1, <2>2, PeriodOK
<1>3. First(layer, turn) = 0 /\ C = layer.channels
  <2>1. First(layer, turn) = 0
    BY DEF First
  <2>2. C = layer.channels - 0
    BY <2>1 DEF Channels
  <2>3. layer.channels \in Nat
    BY DEF LayerOK
  <2> QED
    BY <2>1, <2>2, <2>3
<1>4. PICK c, d, base, pixels :
        /\ c = Config(layer, Base(layer, turn), Values(layer, turn), C, Period(layer))
        /\ base = Base(layer, turn) /\ pixels = Pixels(layer, turn)
        /\ d = Collect(base, pixels, 0, C, 2)
  OBVIOUS
<1>5. T = (<<c, Start>> \o d) \o <<Reset>>
  <2>1. /\ base = FirstRow(layer, turn) * layer.width
        /\ pixels = (IF layer.height - FirstRow(layer, turn) < max_rows
                     THEN layer.height - FirstRow(layer, turn) ELSE max_rows) * layer.width
        /\ Values(layer, turn) = pixels * C /\ Period(layer) = 4
    BY <1>4 DEF Base, Pixels, Values, Period
  <2>2. T = Rows(layer, FirstRow(layer, turn))
    BY DEF Instructions, Mode0, FirstRow
  <2> QED
    BY <1>3, <1>4, <2>1, <2>2 DEF Rows
<1>6. c \in Commands
  BY <1>2, <1>4, ConfigShape
<1>7. /\ d \in [1 .. W -> Commands]
      /\ \A k \in 1 .. W : d[k] = Collected(base, pixels, 0, C, 2, k)
  <2>1. W = ((C \div 4) * 2) * ((pixels + 2 - 1) \div 2)
    BY <1>4 DEF Words, WordsPerGroup, Group
  <2>2. 0 \in Nat /\ 2 \in Nat \ {0} /\ base \in Nat /\ pixels \in Nat
    BY <1>2, <1>4
  <2>3. Collects(Collect(base, pixels, 0, C, 2), base, pixels, 0, C, 2, W)
    BY <1>2, <2>1, <2>2, CollectShape, Zenon
  <2> QED
    BY <1>4, <2>3 DEF Collects
<1>8. ASSUME NEW k \in 1 .. W PROVE d[k] = WordGot(layer, turn, k)
  <2>1. Collected(base, pixels, 0, C, 2, k) = WordGot(layer, turn, k)
    BY <1>3, <1>4 DEF Collected, WordGot, WordsPerGroup, Group
  <2> QED
    BY <1>7, <2>1
<1>9. PICK p, r : /\ p = <<c, Start>> /\ r = <<Reset>>
                  /\ p \in [1 .. 2 -> Commands] /\ r \in [1 .. 1 -> Commands]
                  /\ p[1] = c /\ p[2] = Start /\ r[1] = Reset
  <2>1. /\ <<c, Start>> \in [1 .. 2 -> Commands]
        /\ <<c, Start>>[1] = c /\ <<c, Start>>[2] = Start
    BY <1>6, OthersShape, PairShape, Zenon
  <2>2. <<Reset>> \in [1 .. 1 -> Commands] /\ <<Reset>>[1] = Reset
    BY OthersShape, SingleShape, Zenon
  <2> QED
    BY <2>1, <2>2, Zenon
<1>10. PICK n \in Nat : n = 2 + W
  BY <1>2
<1>11. PICK e : e = p \o d
  OBVIOUS
<1>12. Concatenated(e, p, 2, d, W)
  <2>1. 2 \in Nat /\ W \in Nat
    BY <1>2
  <2>2. p \in [1 .. 2 -> Commands] /\ d \in [1 .. W -> Commands]
    BY <1>7, <1>9
  <2>3. e = p \o d
    BY <1>11
  <2> QED
    BY <2>1, <2>2, <2>3, Joined, Zenon
<1>13. Concatenated(T, e, n, r, 1)
  <2>1. 1 \in Nat /\ n \in Nat
    BY <1>10
  <2>2. e \in [1 .. n -> Commands] /\ r \in [1 .. 1 -> Commands]
    BY <1>9, <1>10, <1>12 DEF Concatenated
  <2>3. T = e \o r
    BY <1>5, <1>9, <1>11
  <2> QED
    BY <2>1, <2>2, <2>3, Joined, Zenon
<1>14. T[1] = c /\ T[2] = Start
  <2>1. 1 \in 1 .. n /\ 2 \in 1 .. n
    BY <1>2, <1>10
  <2> QED
    BY <1>9, <1>12, <1>13, <2>1 DEF Concatenated
<1>15. T[3 + W] = Reset /\ Len(T) = 3 + W /\ T \in [1 .. Len(T) -> Commands]
  <2>1. T[n + 1] = Reset
    BY <1>9, <1>13 DEF Concatenated
  <2>2. n + 1 = 3 + W
    BY <1>2, <1>10
  <2> QED
    BY <1>13, <2>1, <2>2 DEF Concatenated
<1>16. ASSUME NEW k \in 1 .. W PROVE T[2 + k] = WordGot(layer, turn, k)
  <2>1. PICK i \in 1 .. n : i = 2 + k
    BY <1>2, <1>10
  <2> QED
    BY <1>8, <1>12, <1>13, <2>1 DEF Concatenated
<1> QED
  BY <1>4, <1>14, <1>15, <1>16

\* A turn of the tranche loop.
LEMMA TrancheShape ==
  ASSUME NEW layer, LayerOK(layer), layer.mode = 1, NEW turn \in 1 .. Turns(layer),
         NEW T, T = Instructions(layer, turn), NEW C, C = Channels(layer, turn),
         NEW F, F = First(layer, turn), NEW W, W = Words(layer, turn)
  PROVE  /\ T[1] = Config(layer, Base(layer, turn), Values(layer, turn), C, Period(layer))
         /\ T[2] = Reset
         /\ \A i \in 1 .. C : T[2 + i] = [op |-> "param", channel |-> F + i - 1]
         /\ T[3 + C] = [op |-> "filter", channel |-> F]
         /\ T[4 + C] = Start
         /\ \A k \in 1 .. W : T[4 + C + k] = WordGot(layer, turn, k)
         /\ Len(T) = 4 + C + W /\ T \in [1 .. Len(T) -> Commands]
<1>1. Starts(layer, turn)
  BY DEF Starts
<1>2. /\ C \in Nat \ {0} /\ C % 4 = 0 /\ Pixels(layer, turn) \in Nat
      /\ Base(layer, turn) \in Nat /\ W \in Nat /\ Values(layer, turn) \in Nat
      /\ F \in Nat /\ Period(layer) \in Nat \ {0}
  <2>1. /\ C \in Nat \ {0} /\ C % 4 = 0 /\ Pixels(layer, turn) \in Nat \ {0}
        /\ Base(layer, turn) \in Nat /\ F \in Nat
    BY <1>1, Sizes
  <2>2. W \in Nat \ {0} /\ Values(layer, turn) \in Nat \ {0}
    BY <1>1, TurnCounts
  <2> QED
    BY <2>1, <2>2, PeriodOK
<1>3. PICK c, d, pixels :
        /\ c = Config(layer, Base(layer, turn), Values(layer, turn), C, Period(layer))
        /\ pixels = Pixels(layer, turn)
        /\ d = Collect(0, pixels, F, C, 4)
  OBVIOUS
<1>4. Base(layer, turn) = 0
  BY DEF Base
<1>5. T = ((<<c, Reset>> \o Load(F, C)) \o <<Start>>) \o d
  <2>1. /\ F = (turn - 1) * layer.tranche
        /\ C = IF layer.channels - F < layer.tranche THEN layer.channels - F ELSE layer.tranche
    BY DEF First, Channels
  <2>2. /\ pixels = layer.height * layer.width
        /\ Values(layer, turn) = RoundedUp(pixels) * C /\ Period(layer) = layer.period
    BY <1>3 DEF Pixels, Values, Period
  <2>3. T = Tranche(layer, F)
    BY <2>1 DEF Instructions, Mode1
  <2> QED
    BY <1>3, <1>4, <2>1, <2>2, <2>3 DEF Tranche
<1>6. c \in Commands
  BY <1>2, <1>3, ConfigShape
<1>7. /\ d \in [1 .. W -> Commands]
      /\ \A k \in 1 .. W : d[k] = Collected(0, pixels, F, C, 4, k)
  <2>1. W = ((C \div 4) * 4) * ((pixels + 4 - 1) \div 4)
    BY <1>3 DEF Words, WordsPerGroup, Group
  <2>2. 0 \in Nat /\ 4 \in Nat \ {0} /\ pixels \in Nat
    BY <1>2, <1>3
  <2>3. Collects(Collect(0, pixels, F, C, 4), 0, pixels, F, C, 4, W)
    BY <1>2, <2>1, <2>2, CollectShape, Zenon
  <2> QED
    BY <1>3, <2>3 DEF Collects
<1>8. ASSUME NEW k \in 1 .. W PROVE d[k] = WordGot(layer, turn, k)
  <2>1. Collected(0, pixels, F, C, 4, k) = WordGot(layer, turn, k)
    BY <1>3, <1>4 DEF Collected, WordGot, WordsPerGroup, Group
  <2> QED
    BY <1>7, <2>1
<1>9. PICK n \in Nat : n = C + 3
  BY <1>2
<1>10. PICK l : l = <<c, Reset>> \o Load(F, C)
  OBVIOUS
<1>11. Loaded(l, c, F, C)
  <2>1. c \in Commands /\ F \in Nat /\ C \in Nat
    BY <1>2, <1>6
  <2> QED
    BY <1>10, <2>1, LoadedShape, Zenon
<1>12. PICK r : r = <<Start>> /\ r \in [1 .. 1 -> Commands] /\ r[1] = Start
  BY OthersShape, SingleShape, Zenon
<1>13. PICK e : e = l \o r
  OBVIOUS
<1>14. Concatenated(e, l, n, r, 1)
  <2>1. 1 \in Nat /\ n \in Nat
    BY <1>9
  <2>2. l \in [1 .. n -> Commands] /\ r \in [1 .. 1 -> Commands]
    BY <1>9, <1>11, <1>12 DEF Loaded
  <2> QED
    BY <1>13, <2>1, <2>2, Joined, Zenon
<1>15. PICK m \in Nat : m = n + 1
  BY <1>9
<1>16. Concatenated(T, e, m, d, W)
  <2>1. m \in Nat /\ W \in Nat
    BY <1>2, <1>15
  <2>2. e \in [1 .. m -> Commands] /\ d \in [1 .. W -> Commands]
    BY <1>7, <1>14, <1>15 DEF Concatenated
  <2>3. T = e \o d
    BY <1>5, <1>10, <1>12, <1>13
  <2> QED
    BY <2>1, <2>2, <2>3, Joined, Zenon
<1>17. ASSUME NEW i \in 1 .. n PROVE T[i] = l[i]
  <2>1. i \in 1 .. m
    BY <1>9, <1>15
  <2> QED
    BY <1>14, <1>16, <2>1 DEF Concatenated
<1>18. m = 4 + C /\ m \in 1 .. m
  BY <1>2, <1>9, <1>15
<1>19. T[4 + C] = Start
  <2>1. e[m] = Start
    BY <1>14, <1>12, <1>15 DEF Concatenated
  <2> QED
    BY <1>16, <1>18, <2>1 DEF Concatenated
<1>20. T[1] = c /\ T[2] = Reset
  <2>1. 1 \in 1 .. n /\ 2 \in 1 .. n
    BY <1>2, <1>9
  <2> QED
    BY <1>17, <1>11, <2>1 DEF Loaded
<1>21. T[3 + C] = [op |-> "filter", channel |-> F]
  <2>1. PICK i \in 1 .. n : i = 3 + C
    BY <1>2, <1>9
  <2> QED
    BY <1>17, <1>11, <2>1 DEF Loaded
<1>22. ASSUME NEW i \in 1 .. C PROVE T[2 + i] = [op |-> "param", channel |-> F + i - 1]
  <2>1. PICK j \in 1 .. n : j = 2 + i
    BY <1>2, <1>9
  <2>2. T[j] = l[j]
    BY <1>17, <2>1
  <2> QED
    BY <1>11, <2>1, <2>2 DEF Loaded
<1>23. ASSUME NEW k \in 1 .. W PROVE T[4 + C + k] = WordGot(layer, turn, k)
  BY <1>8, <1>16, <1>18 DEF Concatenated
<1>24. Len(T) = 4 + C + W /\ T \in [1 .. Len(T) -> Commands]
  BY <1>16, <1>18 DEF Concatenated
<1> QED
  BY <1>3, <1>19, <1>20, <1>21, <1>22, <1>23, <1>24

\* The instructions of any turn.
TurnShaped(layer, turn, T, C, first, S) ==
  /\ Len(T) \in Nat /\ T \in [1 .. Len(T) -> Commands]
  /\ T[1] = Config(layer, Base(layer, turn), Values(layer, turn), C, Period(layer))
  /\ Loads(layer, turn) =>
       /\ T[2] = Reset
       /\ \A i \in 1 .. C : T[2 + i] = [op |-> "param", channel |-> first + i - 1]
       /\ T[3 + C] = [op |-> "filter", channel |-> first]
       /\ Len(T) >= 3 + C
       /\ layer.mode = 0 => Len(T) = 3 + C /\ turn = 1
  /\ Starts(layer, turn) =>
       /\ T[S] = Start
       /\ \A k \in 1 .. Words(layer, turn) : T[S + k] = WordGot(layer, turn, k)
       /\ S + Words(layer, turn) <= Len(T)
       /\ layer.mode = 1 => Len(T) = S + Words(layer, turn) /\ S = 4 + C
       /\ layer.mode = 0 => /\ Len(T) = S + Words(layer, turn) + 1 /\ T[Len(T)] = Reset
                            /\ S = 2

\* Any turn.
LEMMA TurnShape ==
  ASSUME NEW layer, LayerOK(layer), NEW turn \in 1 .. Turns(layer),
         NEW T, T = Instructions(layer, turn), NEW C, C = Channels(layer, turn),
         NEW first, first = First(layer, turn), NEW S, S = StartStep(layer, turn)
  PROVE  TurnShaped(layer, turn, T, C, first, S)
<1>1. C \in Nat \ {0} /\ layer.mode \in 0 .. 1
  BY Sizes
<1>2. Starts(layer, turn) => Words(layer, turn) \in Nat
  BY TurnCounts
<1>3. CASE layer.mode = 1
  <2>1. Starts(layer, turn) /\ S = 4 + C
    BY <1>3 DEF Starts, StartStep
  <2>2. PICK W \in Nat : W = Words(layer, turn)
    BY <1>2, <2>1
  <2>3. /\ T[1] = Config(layer, Base(layer, turn), Values(layer, turn), C, Period(layer))
        /\ T[2] = Reset
        /\ \A i \in 1 .. C : T[2 + i] = [op |-> "param", channel |-> first + i - 1]
        /\ T[3 + C] = [op |-> "filter", channel |-> first]
        /\ T[4 + C] = Start
        /\ \A k \in 1 .. W : T[4 + C + k] = WordGot(layer, turn, k)
        /\ Len(T) = 4 + C + W /\ T \in [1 .. Len(T) -> Commands]
    BY <1>3, <2>2, TrancheShape
  <2> QED
    <3>1. Len(T) \in Nat /\ Len(T) = S + W /\ Len(T) >= 3 + C
      BY <1>1, <2>1, <2>2, <2>3
    <3>2. T[S] = Start /\ \A k \in 1 .. W : T[S + k] = WordGot(layer, turn, k)
      BY <2>1, <2>3
    <3>3. S + W <= Len(T)
      BY <3>1
    <3> QED
      BY <1>3, <2>1, <2>2, <2>3, <3>1, <3>2, <3>3 DEF TurnShaped
<1>4. CASE layer.mode = 0 /\ turn = 1
  <2>1. ~Starts(layer, turn)
    BY <1>4 DEF Starts
  <2>2. /\ Len(T) = 3 + C /\ T \in [1 .. Len(T) -> Commands]
        /\ T[1] = Config(layer, Base(layer, 1), Values(layer, 1), C, Period(layer))
        /\ T[2] = Reset
        /\ \A i \in 1 .. C : T[2 + i] = [op |-> "param", channel |-> First(layer, 1) + i - 1]
        /\ T[3 + C] = [op |-> "filter", channel |-> First(layer, 1)]
    BY <1>4, SetupShape
  <2> QED
    BY <1>1, <1>4, <2>1, <2>2 DEF TurnShaped
<1>5. CASE layer.mode = 0 /\ turn # 1
  <2>1. Starts(layer, turn) /\ ~Loads(layer, turn) /\ S = 2
    BY <1>5 DEF Starts, Loads, StartStep
  <2>2. PICK W \in Nat : W = Words(layer, turn)
    BY <1>2, <2>1
  <2>3. /\ T[1] = Config(layer, Base(layer, turn), Values(layer, turn), C, Period(layer))
        /\ T[2] = Start
        /\ \A k \in 1 .. W : T[2 + k] = WordGot(layer, turn, k)
        /\ Len(T) = 3 + W /\ T[3 + W] = Reset /\ T \in [1 .. Len(T) -> Commands]
    BY <1>5, <2>2, RowsShape
  <2> QED
    BY <1>1, <1>5, <2>1, <2>2, <2>3 DEF TurnShaped
<1> QED
  BY <1>1, <1>3, <1>4, <1>5

\* Every layer has a turn, and an input layer one after its setup.
LEMMA SomeTurns ==
  ASSUME NEW layer, LayerOK(layer)
  PROVE  Turns(layer) \in Nat /\ Turns(layer) >= 1 /\ (layer.mode = 0 => Turns(layer) >= 2)
<1>1. CASE layer.mode = 0
  BY <1>1 DEF LayerOK, Turns, max_rows
<1>2. CASE layer.mode = 1
  <2>1. PICK n \in Nat \ {0}, size \in Nat \ {0} : n = layer.channels /\ size = layer.tranche
    BY <1>2 DEF LayerOK
  <2>2. PICK m \in Nat : m = n + size - 1
    BY <2>1
  <2>3. m \div size \in Nat /\ m % size \in 0 .. size - 1 /\ m = size * (m \div size) + (m % size)
    BY <2>1, <2>2, Division
  <2>4. PICK c \in Nat, r \in 0 .. size - 1 : c = m \div size /\ r = m % size /\ m = size * c + r
    BY <2>3
  <2>5. c # 0
    <3>1. SUFFICES ASSUME c = 0 PROVE FALSE
      OBVIOUS
    <3>2. size * c = 0
      BY <2>1, <3>1
    <3>3. m = r
      BY <2>2, <2>4, <3>2
    <3>4. r <= size - 1 /\ r \in Nat
      BY <2>1, <2>4
    <3> QED
      BY <2>1, <2>2, <3>3, <3>4
  <2>6. Turns(layer) = c
    BY <1>2, <2>1, <2>2, <2>4 DEF Turns
  <2> QED
    BY <1>2, <2>4, <2>5, <2>6
<1> QED
  BY <1>1, <1>2 DEF LayerOK

\* The layer and the turn the CPU is in.
At(layer, turn) == ~done /\ layer = Layers[cpu.at.layer] /\ turn = cpu.at.turn

\* The layer the driver is at is one of the layers.
LEMMA AtLayer ==
  ASSUME CpuOK, NEW layer, NEW turn, At(layer, turn)
  PROVE  LayerOK(layer) /\ cpu.at.layer \in 1 .. Len(Layers) /\ Len(Layers) \in Nat
<1>1. Len(Layers) \in Nat
  BY LayersAssumption
<1>2. cpu.at.layer \in 1 .. Len(Layers)
  BY <1>1 DEF CpuOK, At, done
<1> QED
  BY <1>1, <1>2, SomeLayer DEF At

\* The step the driver is at is one of its turn.
LEMMA StepInTurn ==
  ASSUME CpuOK, NEW layer, NEW turn, At(layer, turn), NEW losses, InTurn(layer, turn, losses),
         NEW T, T = Instructions(layer, turn)
  PROVE  /\ Len(T) \in Nat /\ step \in 1 .. Len(T) /\ instruction = T[step]
         /\ instruction \in Commands
<1>1. LayerOK(layer) /\ turn \in 1 .. Turns(layer)
  BY AtLayer DEF InTurn
<1>2. PICK C \in Nat : C = Channels(layer, turn) /\ C # 0
  BY <1>1, Sizes
<1>3. PICK S, first : S = StartStep(layer, turn) /\ first = First(layer, turn)
  OBVIOUS
<1>4. S = IF layer.mode = 1 THEN 4 + C ELSE 2
  BY <1>2, <1>3 DEF StartStep
<1>5. layer.mode \in 0 .. 1 /\ turn \in Nat /\ turn # 0
  <2>1. layer.mode \in 0 .. 1 /\ Turns(layer) \in Nat
    BY <1>1, Sizes, SomeTurns
  <2> QED
    BY <1>1, <2>1
<1>6. /\ Len(T) \in Nat /\ T \in [1 .. Len(T) -> Commands]
      /\ Loads(layer, turn) => Len(T) >= 3 + C
      /\ Starts(layer, turn) =>
           /\ S + Words(layer, turn) <= Len(T)
           /\ layer.mode = 0 => Len(T) = S + Words(layer, turn) + 1
  <2>1. TurnShaped(layer, turn, T, C, first, S)
    BY <1>1, <1>2, <1>3, TurnShape, Zenon
  <2> QED
    BY <2>1 DEF TurnShaped
<1>7. Starts(layer, turn) => Words(layer, turn) \in Nat /\ Words(layer, turn) # 0
  BY <1>1, TurnCounts
<1>8. step \in Nat
  BY DEF step, CpuOK
<1>9. step \in 1 .. Len(T)
  <2>1. CASE Loads(layer, turn) /\ step = 1
    BY <1>2, <1>6, <2>1
  <2>2. CASE Loading(layer, turn)
    BY <1>2, <1>6, <1>8, <2>2 DEF Loading
  <2>3. CASE Ready(layer, turn)
    <3>1. Starts(layer, turn) /\ step >= 1 /\ step <= S
      BY <1>2, <1>4, <1>5, <1>8, <2>3 DEF Ready, Starts
    <3> QED
      BY <1>2, <1>4, <1>6, <1>7, <1>8, <3>1
  <2>4. CASE Started(layer, turn)
    <3>1. Starts(layer, turn) /\ step = S + 1
      BY <1>3, <2>4 DEF Started
    <3> QED
      BY <1>2, <1>4, <1>6, <1>7, <3>1
  <2>5. CASE Collecting(layer, turn, losses)
    <3>1. Starts(layer, turn)
      BY <2>5 DEF Collecting
    <3>2. PICK W \in Nat : W = Words(layer, turn)
      BY <1>7, <3>1
    <3>3. step - S - 1 \in 0 .. W /\ (step - S - 1 < W \/ layer.mode = 0)
      BY <1>3, <2>5, <3>2 DEF Collecting
    <3>4. S + W <= Len(T) /\ (layer.mode = 0 => Len(T) = S + W + 1)
      BY <1>6, <3>1, <3>2
    <3>5. S \in Nat /\ Len(T) \in Nat
      BY <1>2, <1>4, <1>6
    <3> QED
      BY <1>8, <3>3, <3>4, <3>5
  <2> QED
    BY <2>1, <2>2, <2>3, <2>4, <2>5 DEF InTurn
<1>10. instruction = T[step]
  BY DEF instruction, At, step
<1> QED
  BY <1>6, <1>9, <1>10

-----------------------------------------------------------------------------
(* A cycle of the machine, by the turn and the step the driver is at.      *)

\* A cycle that leaves layer and turn alone.
LEMMA StaysInTurn ==
  ASSUME CpuOK, NEW layer, NEW turn, At(layer, turn), NEW losses,
         cpu'.at.layer = cpu.at.layer, cpu'.at.turn = cpu.at.turn,
         InTurn(layer, turn, losses)'
  PROVE  DriverOK(losses)'
<1>1. ~done' /\ Layers[cpu.at.layer]' = layer /\ (cpu.at.turn)' = turn
  BY DEF At, done
<1> QED
  BY <1>1 DEF DriverOK

\* An instruction that is not the last of its turn.
LEMMA NextStepOfTurn ==
  ASSUME CpuOK, NEW layer, NEW turn, At(layer, turn), Advance,
         step < Len(Instructions(layer, turn)), step \in Nat
  PROVE  /\ cpu'.at.layer = cpu.at.layer /\ cpu'.at.turn = cpu.at.turn
         /\ step' = step + 1 /\ cpu'.wait = 0 /\ ~cpu'.waiting
<1>1. cpu.at \in [layer : Nat, turn : Nat, step : Nat]
  BY DEF CpuOK
<1>2. cpu'.at = [cpu.at EXCEPT !.step = cpu.at.step + 1]
  BY DEF Advance, NextStep, At, step
<1> QED
  BY <1>1, <1>2 DEF step, Advance

\* The last one.
LEMMA TurnEnds ==
  ASSUME CpuOK, NEW layer, NEW turn, At(layer, turn), turn \in 1 .. Turns(layer), Advance,
         step = Len(Instructions(layer, turn)), step \in Nat, NEW losses,
         layer.mode = 1 \/ turn = Turns(layer) => Resting',
         step' = 1 /\ layer.mode = 0 /\ turn + 1 \in 1 .. Turns(layer) => Ready(layer, turn + 1)'
  PROVE  DriverOK(losses)'
<1>1. /\ LayerOK(layer) /\ cpu.at.layer \in 1 .. Len(Layers) /\ Len(Layers) \in Nat
      /\ Turns(layer) \in Nat
  BY AtLayer, SomeTurns
<1>2. layer.mode \in 0 .. 1
  BY <1>1 DEF LayerOK
<1>3. cpu.at \in [layer : Nat, turn : Nat, step : Nat]
  BY DEF CpuOK
<1>4. CASE turn < Turns(layer)
  <2>1. cpu'.at = [cpu.at EXCEPT !.turn = cpu.at.turn + 1, !.step = 1]
    BY <1>4 DEF Advance, NextStep, At, step
  <2>2. cpu'.at.layer = cpu.at.layer /\ cpu'.at.turn = turn + 1 /\ cpu'.at.step = 1
    BY <1>3, <2>1 DEF At
  <2>3. ~done' /\ Layers[cpu.at.layer]' = layer /\ (cpu.at.turn)' = turn + 1 /\ step' = 1
    BY <2>2 DEF At, done, step
  <2>4. turn + 1 \in 1 .. Turns(layer)
    BY <1>1, <1>4
  <2>5. InTurn(layer, turn + 1, losses)'
    <3>1. CASE layer.mode = 0
      BY <2>3, <2>4, <3>1 DEF InTurn
    <3>2. CASE layer.mode = 1
      BY <2>3, <2>4, <3>2 DEF InTurn, Loads
    <3> QED
      BY <1>2, <3>1, <3>2
  <2> QED
    BY <2>3, <2>5 DEF DriverOK
<1>5. CASE turn = Turns(layer)
  <2>1. cpu'.at = FirstStep(cpu.at.layer + 1)
    BY <1>1, <1>5 DEF Advance, NextStep, At, step
  <2>2. PICK i \in Nat : i = cpu.at.layer + 1 /\ cpu'.at = [layer |-> i, turn |-> 1, step |-> 1]
    BY <1>1, <2>1 DEF FirstStep
  <2>3. CASE i > Len(Layers)
    BY <1>5, <2>2, <2>3 DEF DriverOK, done
  <2>4. CASE i <= Len(Layers)
    <3>1. LayerOK(Layers[i]) /\ i \in 1 .. Len(Layers)
      BY <1>1, <2>2, <2>4, SomeLayer
    <3>2. 1 \in 1 .. Turns(Layers[i])
      BY <3>1, SomeTurns
    <3>3. ~done' /\ cpu'.at.layer = i /\ cpu'.at.turn = 1 /\ step' = 1
      BY <1>1, <2>2, <2>4 DEF done, step
    <3>4. InTurn(Layers[i], 1, losses)'
      BY <1>5, <3>2, <3>3 DEF InTurn, Loads
    <3> QED
      BY <3>3, <3>4 DEF DriverOK
  <2> QED
    BY <1>1, <2>2, <2>3, <2>4
<1> QED
  BY <1>1, <1>4, <1>5

\* Whatever the driver is at, the array holds nothing or has a configuration of a turn.
LEMMA NothingOrConfigured ==
  ASSUME NEW losses, DriverOK(losses)
  PROVE  Quiet \/ ConfigOK
<1>1. ASSUME NEW layer, NEW turn, InTurn(layer, turn, losses) PROVE Quiet \/ ConfigOK
  <2>1. Resting => Quiet \/ ConfigOK
    BY DEF Resting, Drains, UnderWay
  <2>2. Loading(layer, turn) => Quiet
    BY DEF Loading, Clean
  <2>3. Ready(layer, turn) => Quiet
    BY DEF Ready, Clean
  <2>4. Started(layer, turn) => Quiet
    BY DEF Started, Clean
  <2>5. Collecting(layer, turn, losses) => ConfigOK
    BY DEF Collecting, Drains, Running, UnderWay
  <2> QED
    BY <1>1, <2>1, <2>2, <2>3, <2>4, <2>5 DEF InTurn
<1>2. Resting => Quiet \/ ConfigOK
  BY DEF Resting, Drains, UnderWay
<1> QED
  BY <1>1, <1>2 DEF DriverOK

\* The counters of the fetchers and the filter store keep their widths.
LEMMA CountersStep ==
  ASSUME RegistersTyped, Quiet \/ ConfigOK, NEW channel, Fetch, Filter(channel)
  PROVE  fetch'.repeat \in Nat /\ filter'.read_index \in 0 .. MaxDepth - 1
<1>1. MaxDepth \in Nat \ {0}
  BY ConstantsAssumption
<1>2. fetch.repeat \in Nat /\ filter.read_index \in 0 .. MaxDepth - 1
  BY DEF RegistersTyped
<1>3. fetch'.repeat \in Nat
  <2>1. CASE fetch_last
    <3>1. ConfigOK
      BY <2>1 DEF fetch_last, Quiet
    <3>2. num_repeats \in Nat \ {0}
      BY <3>1, Widths
    <3>3. (fetch.repeat + 1) % num_repeats \in Nat
      BY <1>2, <3>2, Division
    <3> QED
      BY <1>2, <3>3 DEF Fetch
  <2>2. CASE ~fetch_last
    BY <1>2, <2>2 DEF Fetch
  <2> QED
    BY <2>1, <2>2
<1>4. filter'.read_index \in 0 .. MaxDepth - 1
  <2>1. PICK i \in Nat : i = filter.read_index + 1
    BY <1>1, <1>2
  <2>2. i % MaxDepth \in 0 .. MaxDepth - 1 /\ 0 \in 0 .. MaxDepth - 1
    BY <1>1, Division
  <2>3. next_read_index \in {0, filter.read_index, i % MaxDepth}
    BY <2>1 DEF next_read_index
  <2>4. filter'.read_index = next_read_index
    BY DEF Filter
  <2> QED
    BY <1>2, <2>2, <2>3, <2>4
<1> QED
  BY <1>3, <1>4

\* A cycle keeps the types that the rest of the invariant does not give.
LEMMA TypesStep ==
  ASSUME NEW losses, IInv(losses), Next
  PROVE  CpuOK' /\ RegistersTyped' /\ ParamsTyped' /\ ParamQueueOK'
<1>1. CpuOK /\ RegistersTyped /\ ParamsTyped /\ ParamQueueOK /\ DriverOK(losses)
  BY DEF IInv
<1>2. ASSUME ~done
      PROVE  instruction \in Commands /\ cpu.at.layer \in 1 .. Len(Layers)
  <2>1. PICK layer, turn : layer = Layers[cpu.at.layer] /\ turn = cpu.at.turn
    OBVIOUS
  <2>2. At(layer, turn) /\ InTurn(layer, turn, losses)
    BY <1>1, <1>2, <2>1 DEF At, DriverOK
  <2> QED
    BY <1>1, <2>2, AtLayer, StepInTurn
<1>3. PICK pulses, channel, r_en : Clocked(pulses, channel, r_en)
  BY DEF Next, OtherCode, SetConfig, SetReset, SetParam, SetFilter, SetStart, GetWaits, GetOutput
<1>4. ParamsTyped' /\ ParamQueueOK'
  <2>1. pulse.param \in Nat \cup {None}
    BY <1>1 DEF RegistersTyped
  <2> QED
    BY <1>1, <1>3, <2>1, ParamQueueStep DEF Clocked
<1>5. fetch'.repeat \in Nat /\ filter'.read_index \in 0 .. MaxDepth - 1
  BY <1>1, <1>3, CountersStep, NothingOrConfigured DEF Clocked
<1>6. /\ pulse' \in [reset : BOOLEAN, start : BOOLEAN, param : Nat \cup {None}]
      /\ config' \in [op : {"config"}, mode : 0 .. 1, base : Nat, values : Nat, channels : Nat,
                      period : Nat \ {0}]
  <2>1. config \in [op : {"config"}, mode : 0 .. 1, base : Nat, values : Nat, channels : Nat,
                    period : Nat \ {0}]
    BY <1>1 DEF RegistersTyped
  <2>2. NoPulse \in [reset : BOOLEAN, start : BOOLEAN, param : Nat \cup {None}]
    BY DEF NoPulse
  <2>3. CASE OtherCode \/ SetFilter \/ GetWaits \/ GetOutput
    BY <2>1, <2>2, <2>3 DEF OtherCode, SetFilter, GetWaits, GetOutput, Clocked
  <2>4. CASE SetConfig
    <3>1. instruction \in Commands /\ instruction.op = "config"
      BY <1>2, <2>4 DEF SetConfig, Issues
    <3> QED
      BY <2>2, <2>4, <3>1 DEF SetConfig, Clocked, Commands, Reset, Start
  <2>5. CASE SetParam
    <3>1. instruction \in Commands /\ instruction.op = "param"
      BY <1>2, <2>5 DEF SetParam, Issues
    <3>2. instruction.channel \in Nat
      BY <3>1 DEF Commands, Reset, Start
    <3> QED
      BY <2>1, <2>2, <2>5, <3>2 DEF SetParam, Clocked, NoPulse
  <2>6. CASE SetStart \/ SetReset
    BY <2>1, <2>6 DEF SetStart, SetReset, Clocked, NoPulse
  <2> QED
    BY <2>3, <2>4, <2>5, <2>6 DEF Next
<1>7. RegistersTyped'
  BY <1>5, <1>6 DEF RegistersTyped
<1>8. CpuOK'
  <2>1. /\ cpu \in [at : [layer : Nat, turn : Nat, step : Nat], wait : 0 .. MaxWait,
                    waiting : BOOLEAN]
        /\ cpu.at.layer \in 1 .. Len(Layers) + 1 /\ Len(Layers) \in Nat
        /\ MaxWait \in Nat \ {0}
    BY <1>1, LayersAssumption, ConstantsAssumption DEF CpuOK
  <2>2. CASE OtherCode
    <3>1. ~cpu.waiting /\ (cpu.wait < MaxWait \/ done)
          /\ cpu' = IF done THEN cpu ELSE [cpu EXCEPT !.wait = @ + 1]
      BY <2>2 DEF OtherCode
    <3> QED
      BY <2>1, <3>1 DEF CpuOK
  <2>3. CASE GetWaits
    <3>1. /\ ~done /\ instruction.op = "get" /\ cpu.wait > 0
          /\ cpu' = [cpu EXCEPT !.waiting = TRUE]
      BY <1>1, <2>1, <2>3 DEF GetWaits, Issues, CpuOK
    <3>2. cpu'.at = cpu.at
      BY <2>1, <3>1
    <3>3. done' = done /\ instruction' = instruction
      BY <3>2 DEF done, instruction
    <3> QED
      BY <2>1, <3>1, <3>2, <3>3 DEF CpuOK
  <2>4. ASSUME ~done, Advance PROVE CpuOK'
    <3>1. cpu.at.layer \in 1 .. Len(Layers)
      BY <1>2, <2>4
    <3>2. /\ cpu'.at \in [layer : Nat, turn : Nat, step : Nat]
          /\ cpu'.at.layer \in {cpu.at.layer, cpu.at.layer + 1}
      <4>1. cpu.at \in [layer : Nat, turn : Nat, step : Nat]
        BY <2>1
      <4>2. cpu'.at = NextStep(Layers, cpu.at)
        BY <2>4 DEF Advance
      <4>3. \/ cpu'.at = [cpu.at EXCEPT !.step = cpu.at.step + 1]
            \/ cpu'.at = [cpu.at EXCEPT !.turn = cpu.at.turn + 1, !.step = 1]
            \/ cpu'.at = [layer |-> cpu.at.layer + 1, turn |-> 1, step |-> 1]
        BY <4>2 DEF NextStep, FirstStep
      <4>4. CASE cpu'.at = [cpu.at EXCEPT !.step = cpu.at.step + 1]
        BY <4>1, <4>4
      <4>5. CASE cpu'.at = [cpu.at EXCEPT !.turn = cpu.at.turn + 1, !.step = 1]
        <5>1. cpu'.at = [layer |-> cpu.at.layer, turn |-> cpu.at.turn + 1, step |-> 1]
          BY <4>1, <4>5
        <5> QED
          BY <4>1, <5>1
      <4>6. CASE cpu'.at = [layer |-> cpu.at.layer + 1, turn |-> 1, step |-> 1]
        BY <4>1, <4>6
      <4> QED
        BY <4>3, <4>4, <4>5, <4>6
    <3>3. cpu' = [at |-> cpu'.at, wait |-> 0, waiting |-> FALSE]
      BY <2>4 DEF Advance
    <3>4. cpu'.wait = 0 /\ ~cpu'.waiting /\ 0 \in 0 .. MaxWait
      <4>1. 0 \in 0 .. MaxWait
        BY <2>1
      <4> QED
        BY <3>3, <4>1
    <3>5. cpu'.at.layer \in 1 .. Len(Layers) + 1
      BY <2>1, <3>1, <3>2
    <3>6. cpu' \in [at : [layer : Nat, turn : Nat, step : Nat], wait : 0 .. MaxWait,
                    waiting : BOOLEAN]
      <4>1. PICK at : at = cpu'.at
        OBVIOUS
      <4>2. cpu' = [at |-> at, wait |-> 0, waiting |-> FALSE]
        BY <3>3, <4>1
      <4>3. at \in [layer : Nat, turn : Nat, step : Nat]
        BY <3>2, <4>1
      <4> QED
        BY <3>4, <4>2, <4>3
    <3> QED
      BY <3>4, <3>5, <3>6 DEF CpuOK
  <2>5. GetOutput => ~done /\ Advance
    BY <1>1 DEF GetOutput, Issues, CpuOK
  <2>6. SetConfig \/ SetReset \/ SetParam \/ SetFilter \/ SetStart => ~done /\ Advance
    BY DEF SetConfig, SetReset, SetParam, SetFilter, SetStart, Issues
  <2> QED
    BY <2>2, <2>3, <2>4, <2>5, <2>6 DEF Next
<1> QED
  BY <1>4, <1>7, <1>8

\* A cycle in which nothing is under way.
LEMMA QuietCycle ==
  ASSUME Quiet, ~pulse.start, ShiftsOK, NEW pulses, NEW channel, Clocked(pulses, channel, FALSE)
  PROVE  /\ Quiet' /\ (pulse.reset \/ Clean => Clean')
         /\ ShiftsOK' /\ FifoTyped' /\ ~transferring
<1>1. /\ ~fetch.running /\ fetch.count = 0 /\ limiter.counter = 0
      /\ last = Nones(9) /\ pipe = Nones(7) /\ owa.byte_count = 0 /\ owa.pixel_index = 0
      /\ fifo = EmptyFifo
  BY DEF Quiet
<1>2. fifo' = EmptyFifo /\ ~transferring
  BY <1>1, Idle
<1>3. ShiftsOK' /\ FifoTyped'
  BY <1>1, <1>2, IdleTypes DEF Clocked
<1> QED
  BY <1>2, <1>3, QuietStep

\* A pulse register without a pulse.
LEMMA NoPulseThen ==
  ASSUME RegistersTyped, ~pulse.reset, ~pulse.start, pulse.param = None
  PROVE  pulse = NoPulse
  BY DEF RegistersTyped, NoPulse

\* Between two turns, while the CPU does other things.
LEMMA RestsOn ==
  ASSUME Resting, RegistersTyped, ShiftsOK, FifoTyped, config' = config,
         Clocked(NoPulse, filter.channel, FALSE),
         NEW w \in Nat, w = cpu.wait, NEW v \in 0 .. w + 1, v = cpu'.wait
  PROVE  Resting' /\ ShiftsOK' /\ FifoTyped'
<1>1. ~pulse'.start /\ pulse'.param = None /\ ~pulse'.reset
  BY DEF Clocked, NoPulse
<1>2. CASE Quiet
  <2>1. ~pulse.start
    BY DEF Resting
  <2>2. Quiet' /\ ShiftsOK' /\ FifoTyped'
    BY <1>2, <2>1, QuietCycle
  <2> QED
    BY <1>1, <2>2 DEF Resting
<1>3. CASE ~pulse.reset /\ Drains(w)
  <2>1. pulse = NoPulse
    BY <1>3, NoPulseThen DEF Resting
  <2>2. Goes(FALSE)
    BY <2>1 DEF Goes
  <2>3. Drains(v)' /\ ShiftsOK' /\ FifoTyped'
    BY <1>3, <2>2, DrainsStep
  <2>4. Drains(cpu.wait)'
    BY <2>3
  <2> QED
    BY <1>1, <2>3, <2>4 DEF Resting
<1> QED
  BY <1>2, <1>3 DEF Resting

\* Whatever drained is gone when the next instruction has been executed.
LEMMA RestEnds ==
  ASSUME Resting, RegistersTyped, ShiftsOK, FifoTyped, cpu.wait \in Nat, cpu.wait >= 1,
         Clocked(NoPulse, filter.channel, FALSE)
  PROVE  Quiet' /\ pulse' = NoPulse /\ ShiftsOK' /\ FifoTyped'
<1>1. pulse' = NoPulse
  BY DEF Clocked
<1>2. CASE Quiet
  BY <1>1, <1>2, QuietCycle DEF Resting
<1>3. CASE Drains(cpu.wait) /\ ~pulse.reset
  <2>1. pulse = NoPulse
    BY <1>3, NoPulseThen DEF Resting
  <2>2. PICK w \in Nat : w = cpu.wait
    OBVIOUS
  <2> QED
    BY <1>1, <1>3, <2>1, <2>2, LastCycle
<1> QED
  BY <1>2, <1>3 DEF Resting

\* A cycle of other code, or the instruction the driver is at.
Waits ==
  /\ cpu'.at = cpu.at /\ cpu'.wait = cpu.wait + 1 /\ config' = config
  /\ Clocked(NoPulse, filter.channel, FALSE)

\* The CPU waits, or executes the instruction it is at.
LEMMA Moves ==
  ASSUME CpuOK, Next, ~done
  PROVE  \/ Waits
         \/ /\ cpu.wait >= 1
            /\ \/ instruction.op = "config" /\ SetConfig
               \/ instruction.op = "reset" /\ SetReset
               \/ instruction.op = "param" /\ SetParam
               \/ instruction.op = "filter" /\ SetFilter
               \/ instruction.op = "start" /\ SetStart
               \/ instruction.op = "get" /\ (GetWaits \/ GetOutput)
<1>1. CASE OtherCode
  <2>1. cpu' = [cpu EXCEPT !.wait = cpu.wait + 1]
    BY <1>1 DEF OtherCode
  <2>2. cpu'.at = cpu.at /\ cpu'.wait = cpu.wait + 1
    BY <2>1 DEF CpuOK
  <2> QED
    BY <1>1, <2>2 DEF OtherCode, Waits
<1>2. CASE GetWaits \/ GetOutput
  <2>1. instruction.op = "get" /\ cpu.wait >= 1
    <3>1. cpu.wait \in Nat
      BY ConstantsAssumption DEF CpuOK
    <3>2. Issues("get") \/ cpu.waiting
      BY <1>2 DEF GetWaits, GetOutput
    <3>3. cpu.waiting => instruction.op = "get" /\ cpu.wait >= 1
      BY <3>1 DEF CpuOK
    <3> QED
      BY <3>2, <3>3 DEF Issues
  <2> QED
    BY <1>2, <2>1
<1> QED
  BY <1>1, <1>2 DEF Next, SetConfig, SetReset, SetParam, SetFilter, SetStart, Issues

-----------------------------------------------------------------------------
(* One lemma for each part of a turn.                                      *)

Cycle(layer, turn, losses) ==
  /\ CpuOK /\ RegistersTyped /\ ParamsTyped /\ ParamQueueOK /\ ShiftsOK /\ FifoTyped
  /\ Next /\ At(layer, turn) /\ turn \in 1 .. Turns(layer)
  /\ losses = Nat \/ (losses = {0} /\ NoOverflow)

Holds(losses) == DriverOK(losses)' /\ ShiftsOK' /\ FifoTyped'

\* What the lemmas below need of the turn.
LEMMA TheTurn ==
  ASSUME NEW losses, NEW layer, NEW turn, Cycle(layer, turn, losses), InTurn(layer, turn, losses)
  PROVE  /\ CpuOK /\ At(layer, turn) /\ ~done /\ turn \in 1 .. Turns(layer)
         /\ LayerOK(layer) /\ layer.mode \in 0 .. 1 /\ turn \in Nat
         /\ step \in Nat /\ cpu.wait \in Nat /\ cpu.wait \in 0 .. MaxWait
         /\ instruction = Instructions(layer, turn)[step]
         /\ Len(Instructions(layer, turn)) \in Nat
         /\ Channels(layer, turn) \in Nat /\ Channels(layer, turn) >= 4
         /\ Channels(layer, turn) + 1 < MaxDepth /\ First(layer, turn) \in Nat
         /\ (layer.mode = 1 => Starts(layer, turn) /\ Loads(layer, turn))
         /\ (layer.mode = 0 => (Starts(layer, turn) <=> turn # 1)
                               /\ (Loads(layer, turn) <=> turn = 1))
         /\ TurnShaped(layer, turn, Instructions(layer, turn), Channels(layer, turn),
                       First(layer, turn), StartStep(layer, turn))
<1>1. /\ CpuOK /\ At(layer, turn) /\ ~done /\ turn \in 1 .. Turns(layer)
      /\ LayerOK(layer) /\ layer.mode \in 0 .. 1 /\ turn \in Nat
  <2>1. CpuOK /\ At(layer, turn) /\ ~done /\ turn \in 1 .. Turns(layer)
    BY DEF Cycle, At
  <2>2. LayerOK(layer)
    BY <2>1, AtLayer
  <2>3. Turns(layer) \in Nat
    BY <2>2, SomeTurns
  <2>4. layer.mode \in 0 .. 1
    BY <2>1, <2>2, Sizes
  <2> QED
    BY <2>1, <2>2, <2>3, <2>4
<1>2. step \in Nat /\ cpu.wait \in Nat /\ cpu.wait \in 0 .. MaxWait
  BY <1>1, ConstantsAssumption DEF CpuOK, step
<1>3. /\ instruction = Instructions(layer, turn)[step]
      /\ Len(Instructions(layer, turn)) \in Nat
  BY <1>1, StepInTurn
<1>4. /\ Channels(layer, turn) \in Nat /\ Channels(layer, turn) >= 4
      /\ Channels(layer, turn) + 1 < MaxDepth /\ First(layer, turn) \in Nat
  <2>1. PICK C \in Nat \ {0} : C = Channels(layer, turn) /\ C % 4 = 0 /\ C + 1 < MaxDepth
    BY <1>1, Sizes
  <2>2. C >= 4
    BY <2>1, Fours
  <2> QED
    BY <1>1, <2>1, <2>2, Sizes
<1>5. TurnShaped(layer, turn, Instructions(layer, turn), Channels(layer, turn),
                 First(layer, turn), StartStep(layer, turn))
  BY <1>1, TurnShape, Zenon
<1>6. /\ (layer.mode = 1 => Starts(layer, turn) /\ Loads(layer, turn))
      /\ (layer.mode = 0 => (Starts(layer, turn) <=> turn # 1)
                            /\ (Loads(layer, turn) <=> turn = 1))
  BY <1>1 DEF Starts, Loads
<1> QED
  BY <1>1, <1>2, <1>3, <1>4, <1>5, <1>6

\* A cycle between two turns.
LEMMA RestingCycle ==
  ASSUME NEW losses, NEW layer, NEW turn, Cycle(layer, turn, losses),
         Loads(layer, turn), step = 1, Resting
  PROVE  Holds(losses)
<1> DEFINE T == Instructions(layer, turn)
           C == Channels(layer, turn)
<1>1. /\ CpuOK /\ RegistersTyped /\ ShiftsOK /\ FifoTyped /\ Next /\ At(layer, turn) /\ ~done
      /\ turn \in 1 .. Turns(layer)
  BY DEF Cycle, At
<1>2. InTurn(layer, turn, losses)
  BY <1>1 DEF InTurn
<1>3. /\ step \in Nat /\ cpu.wait \in Nat /\ instruction = T[1]
      /\ C \in Nat /\ C >= 4 /\ Len(T) \in Nat
  BY <1>2, TheTurn
<1>4. T[1].op = "config" /\ Len(T) >= 3 + C
  <2>1. TurnShaped(layer, turn, T, C, First(layer, turn), StartStep(layer, turn))
    BY <1>2, TheTurn
  <2> QED
    BY <2>1 DEF TurnShaped, Config
<1> HIDE DEF T, C
<1>5. Waits \/ (cpu.wait >= 1 /\ SetConfig)
  BY <1>1, <1>3, <1>4, Moves
<1>6. CASE Waits
  <2>1. PICK w \in Nat : w = cpu.wait
    BY <1>3
  <2>2. PICK v \in 0 .. w + 1 : v = cpu'.wait
    BY <1>6, <2>1 DEF Waits
  <2>3. Resting' /\ ShiftsOK' /\ FifoTyped'
    BY <1>1, <1>6, <2>1, <2>2, RestsOn DEF Waits
  <2>4. step' = 1 /\ cpu'.at.layer = cpu.at.layer /\ cpu'.at.turn = cpu.at.turn
    BY <1>6 DEF Waits, step
  <2>5. InTurn(layer, turn, losses)'
    BY <1>1, <2>3, <2>4 DEF InTurn
  <2> QED
    BY <1>1, <2>3, <2>4, <2>5, StaysInTurn DEF Holds
<1>7. CASE cpu.wait >= 1 /\ SetConfig
  <2>1. Quiet' /\ pulse' = NoPulse /\ ShiftsOK' /\ FifoTyped'
    BY <1>1, <1>3, <1>7, RestEnds DEF SetConfig
  <2>2. /\ cpu'.at.layer = cpu.at.layer /\ cpu'.at.turn = cpu.at.turn
        /\ step' = 2 /\ cpu'.wait = 0
    <3>1. step < Len(T) /\ step + 1 = 2
      BY <1>3, <1>4
    <3> QED
      BY <1>1, <1>3, <1>7, <3>1, NextStepOfTurn DEF SetConfig, T
  <2>3. Configured(layer, turn)'
    BY <1>3, <1>7 DEF SetConfig, Configured, T
  <2>4. Loading(layer, turn)'
    <3>1. step' \in 2 .. 3 + C /\ step' # 3 + C
      BY <1>3, <2>2
    <3>2. ~pulse'.start
      BY <2>1 DEF NoPulse
    <3> QED
      BY <2>1, <2>2, <2>3, <3>1, <3>2 DEF Loading, C
  <2>5. InTurn(layer, turn, losses)'
    BY <1>1, <2>4 DEF InTurn
  <2> QED
    BY <1>1, <2>1, <2>2, <2>5, StaysInTurn DEF Holds
<1> QED
  BY <1>5, <1>6, <1>7

\* A cycle while parameters and filters are being loaded.
LEMMA LoadingCycle ==
  ASSUME NEW losses, NEW layer, NEW turn, Cycle(layer, turn, losses), Loading(layer, turn)
  PROVE  Holds(losses)
<1> DEFINE T == Instructions(layer, turn)
           first == First(layer, turn)
<1>1. /\ CpuOK /\ RegistersTyped /\ ParamsTyped /\ ParamQueueOK /\ ShiftsOK /\ FifoTyped
      /\ Next /\ At(layer, turn) /\ ~done /\ turn \in 1 .. Turns(layer)
      /\ InTurn(layer, turn, losses)
  BY DEF Cycle, At, InTurn
<1>2. PICK C \in Nat : C = Channels(layer, turn) /\ C >= 4 /\ C + 1 < MaxDepth
  BY <1>1, TheTurn
<1>3. /\ step \in Nat /\ cpu.wait \in Nat /\ cpu.wait \in 0 .. MaxWait
      /\ instruction = T[step] /\ Len(T) \in Nat /\ first \in Nat
      /\ layer.mode \in 0 .. 1 /\ LayerOK(layer)
  BY <1>1, TheTurn
<1>4. /\ T[1] = Config(layer, Base(layer, turn), Values(layer, turn), C, Period(layer))
      /\ T[2] = Reset
      /\ \A i \in 1 .. C : T[2 + i] = [op |-> "param", channel |-> first + i - 1]
      /\ T[3 + C] = [op |-> "filter", channel |-> first]
      /\ Len(T) >= 3 + C
      /\ layer.mode = 0 => Len(T) = 3 + C /\ turn = 1
      /\ layer.mode = 1 => Len(T) >= 4 + C
  <2>1. TurnShaped(layer, turn, T, C, first, StartStep(layer, turn)) /\ Loads(layer, turn)
    BY <1>1, <1>2, TheTurn DEF Loading
  <2>2. layer.mode = 1 => Len(T) >= 4 + C
    <3>1. SUFFICES ASSUME layer.mode = 1 PROVE Len(T) >= 4 + C
      OBVIOUS
    <3>2. Starts(layer, turn)
      BY <3>1 DEF Starts
    <3>3. PICK W \in Nat : W = Words(layer, turn)
      BY <1>1, <1>3, <3>2, TurnCounts
    <3>4. Len(T) = 4 + C + W
      BY <2>1, <3>1, <3>2, <3>3 DEF TurnShaped
    <3> QED
      BY <1>2, <3>3, <3>4
  <2> QED
    BY <2>1, <2>2 DEF TurnShaped
<1>5. /\ Loads(layer, turn) /\ step \in 2 .. 3 + C /\ config = T[1] /\ ~pulse.start
      /\ Quiet
  BY <1>2 DEF Loading, Configured, Clean
<1>6. config.channels = C /\ config.mode = layer.mode /\ rows \in {2, 4}
  BY <1>4, <1>5 DEF Config, rows
<1> HIDE DEF T, first
<1>7. ASSUME Waits
      PROVE  /\ Quiet' /\ ShiftsOK' /\ FifoTyped' /\ (pulse.reset \/ Clean => Clean')
             /\ ~transferring /\ Params /\ rows' = rows
             /\ config' = config /\ pulse' = NoPulse /\ Configured(layer, turn)'
             /\ step' = step /\ cpu'.wait = cpu.wait + 1
             /\ cpu'.at.layer = cpu.at.layer /\ cpu'.at.turn = cpu.at.turn
  <2>1. /\ cpu'.at = cpu.at /\ cpu'.wait = cpu.wait + 1 /\ config' = config
        /\ Clocked(NoPulse, filter.channel, FALSE)
    BY <1>7 DEF Waits
  <2>2. /\ Quiet' /\ ShiftsOK' /\ FifoTyped' /\ (pulse.reset \/ Clean => Clean')
        /\ ~transferring
    BY <1>1, <1>5, <2>1, QuietCycle
  <2>3. rows' = rows /\ Configured(layer, turn)' /\ step' = step
    BY <1>5, <2>1 DEF rows, half_mode, Configured, step, T
  <2>4. Params /\ pulse' = NoPulse
    BY <2>1 DEF Clocked
  <2> QED
    BY <2>1, <2>2, <2>3, <2>4
<1>8. ASSUME cpu.wait >= 1, Advance, step < Len(T), NEW pulses, NEW channel,
             Clocked(pulses, channel, FALSE), config' = config
      PROVE  /\ Quiet' /\ ShiftsOK' /\ FifoTyped' /\ (pulse.reset \/ Clean => Clean')
             /\ ~transferring /\ Params /\ rows' = rows
             /\ pulse' = pulses /\ filter'.channel = channel /\ Configured(layer, turn)'
             /\ step' = step + 1 /\ cpu'.wait = 0
             /\ cpu'.at.layer = cpu.at.layer /\ cpu'.at.turn = cpu.at.turn
  <2>1. /\ Quiet' /\ ShiftsOK' /\ FifoTyped' /\ (pulse.reset \/ Clean => Clean')
        /\ ~transferring
    BY <1>1, <1>5, <1>8, QuietCycle
  <2>2. rows' = rows /\ Configured(layer, turn)'
    BY <1>5, <1>8 DEF rows, half_mode, Configured, T
  <2>3. /\ cpu'.at.layer = cpu.at.layer /\ cpu'.at.turn = cpu.at.turn
        /\ step' = step + 1 /\ cpu'.wait = 0
    BY <1>1, <1>3, <1>8, NextStepOfTurn DEF T
  <2>4. Params /\ pulse' = pulses /\ filter'.channel = channel
    BY <1>8 DEF Clocked, Filter
  <2> QED
    BY <2>1, <2>2, <2>3, <2>4
<1>9. ASSUME Loading(layer, turn)' \/ Ready(layer, turn)', ShiftsOK', FifoTyped',
             cpu'.at.layer = cpu.at.layer, cpu'.at.turn = cpu.at.turn
      PROVE  Holds(losses)
  <2>1. InTurn(layer, turn, losses)'
    BY <1>1, <1>9 DEF InTurn
  <2> QED
    BY <1>1, <1>9, <2>1, StaysInTurn DEF Holds
<1>10. CASE step = 2
  <2>1. Waits \/ (cpu.wait >= 1 /\ SetReset)
    BY <1>1, <1>3, <1>4, <1>10, Moves DEF Reset
  <2>2. CASE Waits
    <3>1. Loading(layer, turn)'
      BY <1>2, <1>5, <1>7, <1>10, <2>2 DEF Loading, NoPulse
    <3> QED
      BY <1>7, <1>9, <2>2, <3>1
  <2>3. CASE cpu.wait >= 1 /\ SetReset
    <3>1. /\ Advance /\ config' = config
          /\ Clocked([NoPulse EXCEPT !.reset = TRUE], filter.channel, FALSE)
      BY <2>3 DEF SetReset
    <3>2. step < Len(T)
      BY <1>2, <1>3, <1>4, <1>10
    <3>3. /\ Quiet' /\ ShiftsOK' /\ FifoTyped'
          /\ pulse' = [NoPulse EXCEPT !.reset = TRUE] /\ Configured(layer, turn)'
          /\ step' = step + 1 /\ cpu'.wait = 0
          /\ cpu'.at.layer = cpu.at.layer /\ cpu'.at.turn = cpu.at.turn
      BY <1>8, <2>3, <3>1, <3>2
    <3>4. ~pulse'.start
      BY <3>3 DEF NoPulse
    <3>5. step' = 3 /\ step' \in 2 .. 3 + C /\ step' # 3 + C
      BY <1>2, <1>10, <3>3
    <3>6. Loading(layer, turn)'
      BY <1>2, <1>5, <3>3, <3>4, <3>5 DEF Loading
    <3> QED
      BY <1>9, <3>3, <3>6
  <2> QED
    BY <2>1, <2>2, <2>3
<1>11. CASE step = 3 /\ cpu.wait = 0
  <2>1. Waits
    BY <1>1, <1>3, <1>11, Moves
  <2>2. pulse = [NoPulse EXCEPT !.reset = TRUE]
    BY <1>11 DEF Loading
  <2>3. pulse.reset /\ ~pulse'.start
    BY <1>7, <2>1, <2>2 DEF NoPulse
  <2>4. Stored(first, 0)'
    BY <1>7, <2>1, <2>3, ResetStep
  <2>5. step' = 3 /\ cpu'.wait = 1 /\ step' - 3 = 0 /\ step' \in 2 .. 3 + C /\ step' # 3 + C
    BY <1>2, <1>7, <1>11, <2>1
  <2>6. Stored(first, step - 3)'
    BY <2>4, <2>5
  <2>7. Loading(layer, turn)'
    BY <1>2, <1>5, <1>7, <2>1, <2>3, <2>5, <2>6 DEF Loading, first
  <2> QED
    BY <1>7, <1>9, <2>1, <2>7
<1>12. CASE step >= 4 /\ cpu.wait = 0
  <2>1. Waits
    BY <1>1, <1>3, <1>12, Moves
  <2>2. PICK n \in Nat : n = step - 4 /\ n + 1 <= C
    BY <1>2, <1>3, <1>5, <1>12
  <2>3. /\ pulse = [NoPulse EXCEPT !.param = first + step - 4] /\ Stored(first, step - 4)
        /\ Clean
    BY <1>12 DEF Loading, first
  <2>4. Stored(first, n) /\ pulse.param = first + n /\ ~pulse.reset /\ n + 1 < MaxDepth
    <3>1. first + step - 4 = first + n
      BY <1>3, <2>2
    <3> QED
      BY <1>2, <2>2, <2>3, <3>1, ConstantsAssumption DEF NoPulse
  <2>5. /\ Stored(first, n + 1)'
        /\ n + 1 = config.channels => ParamsAt(first, 0, 0)'
    BY <1>1, <1>3, <1>6, <1>7, <2>1, <2>2, <2>4, WriteStep
  <2>6. Clean' /\ ~pulse'.start /\ cpu'.wait = 1
    BY <1>7, <1>12, <2>1, <2>3 DEF NoPulse
  <2>7. step' = step /\ step' - 3 = n + 1 /\ step' \in 2 .. 3 + C /\ step' # 2
    BY <1>2, <1>3, <1>5, <1>7, <1>12, <2>1, <2>2
  <2>8. Stored(first, step - 3)'
    BY <2>5, <2>7
  <2>9. step' = 3 + C => (\E fill \in 0 .. 3 : ParamsAt(first, 0, fill))'
    <3>1. SUFFICES ASSUME step' = 3 + C PROVE (\E fill \in 0 .. 3 : ParamsAt(first, 0, fill))'
      OBVIOUS
    <3>2. n + 1 = config.channels
      BY <1>2, <1>6, <2>2, <2>7, <3>1
    <3>3. ParamsAt(first, 0, 0)'
      BY <2>5, <3>2
    <3> QED
      BY <3>3
  <2>10. Loading(layer, turn)'
    BY <1>2, <1>5, <1>7, <2>1, <2>6, <2>7, <2>8, <2>9 DEF Loading, first
  <2> QED
    BY <1>7, <1>9, <2>1, <2>10
<1>13. CASE step >= 3 /\ cpu.wait > 0
  <2>1. pulse = NoPulse /\ Stored(first, step - 3) /\ Clean
    BY <1>13 DEF Loading, first
  <2>2. pulse.param = None /\ ~pulse.reset
    BY <2>1 DEF NoPulse
  <2>3. PICK n \in Nat : n = step - 3 /\ n <= C
    BY <1>2, <1>3, <1>5, <1>13
  <2>4. Params /\ config' = config => Stored(first, n)'
    BY <2>1, <2>2, <2>3, KeepStep
  <2>5. ASSUME step = 3 + C, Params, config' = config, rows' = rows, ~transferring
        PROVE  \E fill \in 1 .. 3 : ParamsAt(first, 0, fill)'
    <3>1. PICK fill \in 0 .. 3 : ParamsAt(first, 0, fill)
      BY <1>2, <1>13, <2>5 DEF Loading, first
    <3>2. PICK fill1 \in 1 .. 3 : fill1 = IF fill < 3 THEN fill + 1 ELSE 3
      BY <3>1
    <3>3. config.channels \in 1 .. MaxDepth
      BY <1>2, <1>6, ConstantsAssumption
    <3>4. ParamsAt(first, 0, fill1)'
      BY <1>3, <1>6, <2>2, <2>5, <3>1, <3>2, <3>3, FillStep
    <3> QED
      BY <3>4
  <2>6. CASE Waits
    <3>1. Stored(first, step - 3)'
      <4>1. Stored(first, n)' /\ step' - 3 = n
        BY <1>7, <2>3, <2>4, <2>6
      <4> QED
        BY <4>1
    <3>2. step' = 3 + C => (\E fill \in 0 .. 3 : ParamsAt(first, 0, fill))'
      <4>1. SUFFICES ASSUME step' = 3 + C PROVE (\E fill \in 0 .. 3 : ParamsAt(first, 0, fill))'
        OBVIOUS
      <4>2. PICK fill \in 1 .. 3 : ParamsAt(first, 0, fill)'
        BY <1>7, <2>5, <2>6, <4>1
      <4> QED
        BY <4>2
    <3>3. Clean' /\ ~pulse'.start /\ cpu'.wait > 0
      BY <1>3, <1>7, <2>1, <2>6 DEF NoPulse
    <3>4. step' \in 2 .. 3 + C /\ step' # 2
      BY <1>2, <1>5, <1>7, <1>13, <2>6
    <3>5. Loading(layer, turn)'
      BY <1>2, <1>5, <1>7, <2>6, <3>1, <3>2, <3>3, <3>4 DEF Loading, first
    <3> QED
      BY <1>7, <1>9, <2>6, <3>5
  <2>7. CASE ~Waits /\ step < 3 + C
    <3>1. PICK i \in 1 .. C : i = n + 1 /\ step = 2 + i
      BY <1>2, <1>3, <2>3, <2>7
    <3>2. /\ instruction = [op |-> "param", channel |-> first + i - 1]
          /\ first + i - 1 = first + n
      <4>1. first + i - 1 = first + n
        BY <1>3, <2>3, <3>1
      <4>2. T[2 + i] = [op |-> "param", channel |-> first + i - 1]
        BY <1>4, <3>1
      <4>3. instruction = T[2 + i]
        BY <1>3, <3>1
      <4> QED
        BY <4>1, <4>2, <4>3
    <3>3. SetParam /\ cpu.wait >= 1
      BY <1>1, <2>7, <3>2, Moves
    <3>4. /\ Advance /\ config' = config
          /\ Clocked([NoPulse EXCEPT !.param = first + n], filter.channel, FALSE)
      BY <3>2, <3>3 DEF SetParam
    <3>5. step < Len(T)
      BY <1>2, <1>3, <1>4, <2>7
    <3>6. /\ ShiftsOK' /\ FifoTyped' /\ (pulse.reset \/ Clean => Clean') /\ Params
          /\ pulse' = [NoPulse EXCEPT !.param = first + n] /\ Configured(layer, turn)'
          /\ step' = step + 1 /\ cpu'.wait = 0
          /\ cpu'.at.layer = cpu.at.layer /\ cpu'.at.turn = cpu.at.turn
      BY <1>8, <3>3, <3>4, <3>5
    <3>7. step' - 4 = n /\ step' \in 2 .. 3 + C /\ step' # 2 /\ step' # 3
          /\ first + step' - 4 = first + n
      <4>1. PICK k \in Nat : k = step /\ k >= 3 /\ k < 3 + C /\ n = k - 3
        BY <1>3, <1>13, <2>3, <2>7
      <4>2. step' = k + 1
        BY <3>6, <4>1
      <4> QED
        BY <1>2, <1>3, <2>3, <4>1, <4>2
    <3>8. Stored(first, step - 4)'
      <4>1. Stored(first, n)'
        BY <2>4, <3>4, <3>6
      <4> QED
        BY <3>7, <4>1
    <3>9. Clean' /\ ~pulse'.start
      BY <2>1, <3>6 DEF NoPulse
    <3>10. pulse' = [NoPulse EXCEPT !.param = first + step' - 4]
      BY <3>6, <3>7
    <3>11. Loading(layer, turn)'
      BY <1>2, <1>5, <3>6, <3>7, <3>8, <3>9, <3>10 DEF Loading, first
    <3> QED
      BY <1>9, <3>6, <3>11
  <2>8. CASE ~Waits /\ step = 3 + C
    <3>1. instruction = [op |-> "filter", channel |-> first]
      BY <1>3, <1>4, <2>8
    <3>2. SetFilter /\ cpu.wait >= 1
      BY <1>1, <2>8, <3>1, Moves
    <3>3. Advance /\ config' = config /\ Clocked(NoPulse, first, FALSE)
      BY <3>1, <3>2 DEF SetFilter
    <3>4. /\ Quiet' /\ Clean' /\ ShiftsOK' /\ FifoTyped' /\ ~transferring
      BY <1>1, <1>5, <2>1, <3>3, QuietCycle
    <3>5. /\ pulse' = NoPulse /\ ~pulse'.start /\ ~pulse'.reset /\ pulse'.param = None
          /\ filter'.channel = first /\ Params /\ cpu'.wait = 0 /\ rows' = rows
      <4>1. pulse' = NoPulse /\ filter'.channel = first /\ Params
        BY <3>3 DEF Clocked, Filter
      <4>2. rows' = rows /\ cpu'.wait = 0
        BY <3>3 DEF rows, half_mode, Advance
      <4> QED
        BY <4>1, <4>2 DEF NoPulse
    <3>6. PICK fill \in 1 .. 3 : ParamsAt(first, 0, fill)'
      BY <2>5, <2>8, <3>3, <3>4, <3>5
    <3>7. CASE layer.mode = 1
      <4>1. step < Len(T)
        BY <1>2, <1>4, <2>8, <3>7
      <4>2. /\ step' = 4 + C /\ Configured(layer, turn)'
            /\ cpu'.at.layer = cpu.at.layer /\ cpu'.at.turn = cpu.at.turn
        <5>1. /\ step' = step + 1 /\ Configured(layer, turn)'
              /\ cpu'.at.layer = cpu.at.layer /\ cpu'.at.turn = cpu.at.turn
          BY <1>8, <3>2, <3>3, <4>1
        <5> QED
          BY <1>2, <2>8, <5>1
      <4>3. Ready(layer, turn)'
        BY <1>2, <3>4, <3>5, <3>6, <3>7, <4>2 DEF Ready, first
      <4> QED
        BY <1>9, <3>4, <4>2, <4>3
    <3>8. CASE layer.mode = 0
      <4>1. Resting'
        BY <3>4, <3>5 DEF Resting
      <4>2. ASSUME step' = 1, turn + 1 \in 1 .. Turns(layer)
            PROVE  Ready(layer, turn + 1)'
        <5>1. /\ First(layer, turn + 1) = first
              /\ Channels(layer, turn + 1) = Channels(layer, turn)
          BY <3>8 DEF First, Channels, first
        <5>2. config'.mode = 0 /\ config'.channels = Channels(layer, turn + 1)
          BY <1>2, <1>6, <3>3, <3>8, <5>1
        <5>3. turn = 1 /\ turn + 1 > 1
          BY <1>4, <3>8
        <5> QED
          BY <3>4, <3>5, <3>6, <3>8, <4>2, <5>1, <5>2, <5>3 DEF Ready
      <4>3. step = Len(T)
        BY <1>4, <2>8, <3>8
      <4>4. DriverOK(losses)'
        BY <1>1, <1>3, <3>3, <4>1, <4>2, <4>3, TurnEnds DEF T
      <4> QED
        BY <3>4, <4>4 DEF Holds
    <3> QED
      BY <1>3, <3>7, <3>8
  <2> QED
    BY <1>2, <1>3, <1>5, <2>6, <2>7, <2>8
<1> QED
  BY <1>3, <1>5, <1>10, <1>11, <1>12, <1>13

\* A cycle between the loading and the start.
LEMMA ReadyCycle ==
  ASSUME NEW losses, NEW layer, NEW turn, Cycle(layer, turn, losses), Ready(layer, turn)
  PROVE  Holds(losses)
<1> DEFINE T == Instructions(layer, turn)
           first == First(layer, turn)
<1>1. /\ CpuOK /\ RegistersTyped /\ ShiftsOK /\ FifoTyped
      /\ Next /\ At(layer, turn) /\ ~done /\ turn \in 1 .. Turns(layer)
      /\ InTurn(layer, turn, losses)
  BY DEF Cycle, At, InTurn
<1>2. PICK C \in Nat : C = Channels(layer, turn) /\ C >= 4 /\ C + 1 < MaxDepth
  BY <1>1, TheTurn
<1>3. PICK S \in Nat : S = StartStep(layer, turn) /\ S = (IF layer.mode = 1 THEN 4 + C ELSE 2)
  BY <1>2 DEF StartStep
<1>4. /\ step \in Nat /\ cpu.wait \in Nat
      /\ instruction = T[step] /\ Len(T) \in Nat /\ first \in Nat
      /\ layer.mode \in 0 .. 1 /\ turn \in Nat
  BY <1>1, TheTurn
<1>5. Starts(layer, turn)
  BY <1>4 DEF Ready, Starts
<1>6. /\ T[1] = Config(layer, Base(layer, turn), Values(layer, turn), C, Period(layer))
      /\ T[S] = Start /\ Len(T) > S
  <2>1. TurnShaped(layer, turn, T, C, first, S)
    BY <1>1, <1>2, <1>3, TheTurn
  <2>2. PICK W \in Nat \ {0} : W = Words(layer, turn)
    BY <1>1, <1>5, TheTurn, TurnCounts
  <2>3. S + W <= Len(T)
    BY <1>5, <2>1, <2>2 DEF TurnShaped
  <2>4. Len(T) > S
    BY <1>3, <1>4, <2>2, <2>3
  <2>5. /\ T[1] = Config(layer, Base(layer, turn), Values(layer, turn), C, Period(layer))
        /\ T[S] = Start
    BY <1>5, <2>1 DEF TurnShaped
  <2> QED
    BY <2>4, <2>5
<1>7. /\ ~pulse.start /\ pulse.param = None /\ filter.channel = first /\ Quiet
      /\ (pulse.reset => layer.mode = 0 /\ step = 1 /\ cpu.wait = 0)
      /\ (~pulse.reset => Clean)
  BY DEF Ready, Clean, first
<1>8. /\ config.channels = C /\ config.mode = layer.mode /\ rows \in {2, 4}
      /\ config.channels \in 1 .. MaxDepth
  <2>1. config.channels = C /\ config.mode = layer.mode
    BY <1>2, <1>4, <1>6 DEF Ready, Configured, Config, T
  <2> QED
    BY <1>2, <2>1, ConstantsAssumption DEF rows
<1>9. PICK fill \in 1 .. 3 : /\ ParamsAt(first, 0, fill)
                             /\ (layer.mode = 0 /\ step = 2) \/ cpu.wait >= 2 => fill = 3
                             /\ cpu.wait >= 1 => fill >= 2
  BY DEF Ready, first
<1>10. PICK fill1 \in 2 .. 3 : fill1 = IF fill < 3 THEN fill + 1 ELSE 3
  BY <1>9
<1>11. ASSUME config'.channels = config.channels, config'.mode = config.mode,
              NEW pulses, NEW channel, Clocked(pulses, channel, FALSE)
       PROVE  /\ ParamsAt(first, 0, fill1)' /\ Clean' /\ ShiftsOK' /\ FifoTyped'
              /\ pulse' = pulses /\ filter'.channel = channel
  <2>1. /\ Clean' /\ ShiftsOK' /\ FifoTyped' /\ ~transferring
    BY <1>1, <1>7, <1>11, QuietCycle
  <2>2. rows' = rows
    BY <1>11 DEF rows, half_mode
  <2>3. Params /\ pulse' = pulses /\ filter'.channel = channel
    BY <1>11 DEF Clocked, Filter
  <2>4. ParamsAt(first, 0, fill1)'
    <3>1. fill \in 0 .. 3
      BY <1>9
    <3> QED
      BY <1>4, <1>7, <1>8, <1>9, <1>10, <1>11, <2>1, <2>2, <2>3, <3>1, FillStep
  <2> QED
    BY <2>1, <2>3, <2>4
<1> HIDE DEF T, first
<1>12. ASSUME Ready(layer, turn)' \/ Started(layer, turn)', ShiftsOK', FifoTyped',
              cpu'.at.layer = cpu.at.layer, cpu'.at.turn = cpu.at.turn
       PROVE  Holds(losses)
  <2>1. InTurn(layer, turn, losses)'
    BY <1>1, <1>12 DEF InTurn
  <2> QED
    BY <1>1, <1>12, <2>1, StaysInTurn DEF Holds
<1>13. CASE Waits
  <2>1. /\ cpu'.at = cpu.at /\ cpu'.wait = cpu.wait + 1 /\ config' = config
        /\ Clocked(NoPulse, filter.channel, FALSE)
    BY <1>13 DEF Waits
  <2>2. /\ ParamsAt(first, 0, fill1)' /\ Clean' /\ ShiftsOK' /\ FifoTyped'
        /\ pulse' = NoPulse /\ filter'.channel = first
    BY <1>7, <1>11, <2>1
  <2>3. /\ step' = step /\ cpu'.at.layer = cpu.at.layer /\ cpu'.at.turn = cpu.at.turn
        /\ ~pulse'.start /\ ~pulse'.reset /\ pulse'.param = None
        /\ Configured(layer, turn)' = Configured(layer, turn)
    BY <2>1, <2>2 DEF step, NoPulse, Configured
  <2>4. /\ (layer.mode = 0 /\ step' = 2) \/ cpu'.wait >= 2 => fill1 = 3
        /\ cpu'.wait >= 1 => fill1 >= 2
        /\ fill1 \in 1 .. 3
    BY <1>4, <1>9, <1>10, <2>1, <2>3
  <2>5. (\E f \in 1 .. 3 :
           /\ ParamsAt(first, 0, f)
           /\ (layer.mode = 0 /\ step = 2) \/ cpu.wait >= 2 => f = 3
           /\ cpu.wait >= 1 => f >= 2)'
    BY <2>2, <2>4
  <2>6. /\ IF layer.mode = 1 THEN step' = 4 + Channels(layer, turn) /\ Configured(layer, turn)'
           ELSE /\ turn > 1 /\ step' \in 1 .. 2
                /\ config'.mode = 0 /\ config'.channels = Channels(layer, turn)
                /\ step' = 2 => Configured(layer, turn)'
    BY <2>1, <2>3 DEF Ready
  <2>7. Ready(layer, turn)'
    BY <2>2, <2>3, <2>5, <2>6 DEF Ready, first
  <2> QED
    BY <1>12, <2>2, <2>3, <2>7
<1>14. CASE ~Waits /\ step = S
  <2>1. SetStart /\ cpu.wait >= 1
    <3>1. instruction = Start
      BY <1>4, <1>6, <1>14
    <3> QED
      BY <1>1, <1>14, <3>1, Moves DEF Start
  <2>2. /\ Advance /\ config' = config
        /\ Clocked([NoPulse EXCEPT !.start = TRUE], filter.channel, FALSE)
    BY <2>1 DEF SetStart
  <2>3. /\ ParamsAt(first, 0, fill1)' /\ Clean' /\ ShiftsOK' /\ FifoTyped'
        /\ pulse' = [NoPulse EXCEPT !.start = TRUE] /\ filter'.channel = first
    BY <1>7, <1>11, <2>2
  <2>4. fill1 = 3
    BY <1>9, <1>10, <2>1
  <2>5. /\ step' = S + 1 /\ cpu'.wait = 0
        /\ cpu'.at.layer = cpu.at.layer /\ cpu'.at.turn = cpu.at.turn
    BY <1>1, <1>4, <1>6, <1>14, <2>2, NextStepOfTurn DEF T
  <2>6. Configured(layer, turn)'
    <3>1. Configured(layer, turn)
      BY <1>3, <1>4, <1>14 DEF Ready
    <3> QED
      BY <2>2, <3>1 DEF Configured
  <2>7. ParamsAt(first, 0, 3)'
    BY <2>3, <2>4
  <2>8. Started(layer, turn)'
    BY <1>3, <1>5, <2>3, <2>5, <2>6, <2>7 DEF Started, first
  <2> QED
    BY <1>12, <2>3, <2>5, <2>8
<1>15. CASE ~Waits /\ step # S
  <2>1. layer.mode = 0 /\ step = 1 /\ turn > 1
    BY <1>2, <1>3, <1>4, <1>15 DEF Ready
  <2>2. SetConfig /\ cpu.wait >= 1
    <3>1. instruction.op = "config"
      BY <1>4, <1>6, <2>1 DEF Config
    <3> QED
      BY <1>1, <1>15, <3>1, Moves
  <2>3. /\ Advance /\ config' = T[1] /\ Clocked(NoPulse, filter.channel, FALSE)
    BY <1>4, <2>1, <2>2 DEF SetConfig
  <2>4. config'.channels = C /\ config'.mode = 0
    BY <1>6, <2>1, <2>3 DEF Config
  <2>5. /\ ParamsAt(first, 0, fill1)' /\ Clean' /\ ShiftsOK' /\ FifoTyped'
        /\ pulse' = NoPulse /\ filter'.channel = first
    BY <1>7, <1>8, <1>11, <2>1, <2>3, <2>4
  <2>6. fill1 = 3
    BY <1>9, <1>10, <2>2
  <2>7. /\ step' = 2 /\ cpu'.wait = 0
        /\ cpu'.at.layer = cpu.at.layer /\ cpu'.at.turn = cpu.at.turn
    <3>1. step < Len(T) /\ step + 1 = 2
      BY <1>2, <1>3, <1>4, <1>6, <2>1
    <3> QED
      BY <1>1, <1>4, <2>3, <3>1, NextStepOfTurn DEF T
  <2>8. /\ Configured(layer, turn)' /\ ~pulse'.start /\ ~pulse'.reset /\ pulse'.param = None
    BY <2>3, <2>5 DEF Configured, NoPulse, T
  <2>9. (\E f \in 1 .. 3 :
           /\ ParamsAt(first, 0, f)
           /\ (layer.mode = 0 /\ step = 2) \/ cpu.wait >= 2 => f = 3
           /\ cpu.wait >= 1 => f >= 2)'
    BY <2>5, <2>6, <2>7
  <2>10. Ready(layer, turn)'
    BY <1>2, <2>1, <2>4, <2>5, <2>7, <2>8, <2>9 DEF Ready, first
  <2> QED
    BY <1>12, <2>5, <2>7, <2>10
<1> QED
  BY <1>13, <1>14, <1>15

\* The cycle of the start.
LEMMA StartedCycle ==
  ASSUME NEW losses, NEW layer, NEW turn, Cycle(layer, turn, losses), Started(layer, turn)
  PROVE  Holds(losses)
<1>1. /\ CpuOK /\ RegistersTyped /\ ShiftsOK /\ FifoTyped
      /\ Next /\ At(layer, turn) /\ ~done /\ turn \in 1 .. Turns(layer)
      /\ losses = Nat \/ losses = {0}
      /\ InTurn(layer, turn, losses)
  BY DEF Cycle, At, InTurn
<1>2. LayerOK(layer) /\ step \in Nat
  BY <1>1, TheTurn
<1>3. /\ Starts(layer, turn) /\ step = StartStep(layer, turn) + 1 /\ cpu.wait = 0
      /\ pulse = [NoPulse EXCEPT !.start = TRUE]
      /\ Configured(layer, turn) /\ Clean /\ filter.channel = First(layer, turn)
      /\ ParamsAt(filter.channel, 0, 3)
  BY DEF Started
<1>4. Waits
  BY <1>1, <1>3, Moves
<1>5. ConfigOK
  <2>1. config = Config(layer, Base(layer, turn), Values(layer, turn), Channels(layer, turn),
                        Period(layer))
    <3>1. TurnShaped(layer, turn, Instructions(layer, turn), Channels(layer, turn),
                     First(layer, turn), StartStep(layer, turn))
      BY <1>1, TheTurn
    <3> QED
      BY <1>3, <3>1 DEF Configured, TurnShaped
  <2> QED
    BY <1>1, <1>2, <1>3, <2>1, TurnConfig
<1>6. /\ config' = config /\ Clocked(NoPulse, filter.channel, FALSE) /\ cpu'.wait = 1
      /\ cpu'.at.layer = cpu.at.layer /\ cpu'.at.turn = cpu.at.turn /\ step' = step
  <2>1. cpu'.at = cpu.at /\ cpu'.wait = cpu.wait + 1
    BY <1>4 DEF Waits
  <2>2. cpu'.wait = 1
    BY <1>3, <2>1
  <2> QED
    BY <1>4, <2>1, <2>2 DEF Waits, step
<1>7. Running(0, losses)' /\ ShiftsOK' /\ FifoTyped'
  <2>1. 0 \in losses
    BY <1>1
  <2> QED
    BY <1>1, <1>3, <1>5, <1>6, <2>1, FirstCycle
<1>8. /\ pulse' = NoPulse /\ Configured(layer, turn)' /\ filter'.channel = First(layer, turn)
  BY <1>3, <1>6 DEF Clocked, Filter, Configured
<1>9. PICK W \in Nat \ {0} : W = Words(layer, turn)
  BY <1>1, <1>2, <1>3, TurnCounts
<1>10. step' - StartStep(layer, turn) - 1 = 0
  <2>1. StartStep(layer, turn) \in Nat
    BY <1>1, TheTurn DEF StartStep
  <2> QED
    BY <1>3, <1>6, <2>1
<1>11. Collecting(layer, turn, losses)'
  <2>1. Running(step - StartStep(layer, turn) - 1, losses)'
    BY <1>7, <1>10
  <2>2. 0 \in 0 .. W /\ 0 < W /\ cpu'.wait > 0
    BY <1>6, <1>9
  <2> QED
    BY <1>3, <1>8, <1>9, <1>10, <2>1, <2>2 DEF Collecting
<1>12. InTurn(layer, turn, losses)'
  BY <1>1, <1>11 DEF InTurn
<1> QED
  BY <1>1, <1>6, <1>7, <1>12, StaysInTurn DEF Holds

\* A cycle after the last layer.
LEMMA DoneCycle ==
  ASSUME NEW losses, IInv(losses), done, Next
  PROVE  Holds(losses)
<1>1. /\ CpuOK /\ RegistersTyped /\ ShiftsOK /\ FifoTyped /\ Resting
  BY DEF IInv, DriverOK
<1>2. OtherCode
  BY <1>1 DEF Next, SetConfig, SetReset, SetParam, SetFilter, SetStart, GetWaits, GetOutput,
              Issues, CpuOK
<1>3. cpu' = cpu /\ config' = config /\ Clocked(NoPulse, filter.channel, FALSE)
  BY <1>2 DEF OtherCode
<1>4. PICK w \in Nat : w = cpu.wait
  BY <1>1, ConstantsAssumption DEF CpuOK
<1>5. w \in 0 .. w + 1 /\ w = cpu'.wait
  BY <1>3, <1>4
<1>6. Resting' /\ ShiftsOK' /\ FifoTyped'
  BY <1>1, <1>3, <1>4, <1>5, RestsOn
<1> QED
  BY <1>3, <1>6 DEF Holds, DriverOK, done

\* A cycle while the driver collects words.
LEMMA CollectingCycle ==
  ASSUME NEW losses, NEW layer, NEW turn, Cycle(layer, turn, losses),
         Collecting(layer, turn, losses)
  PROVE  Holds(losses)
<1> DEFINE T == Instructions(layer, turn)
           first == First(layer, turn)
<1>1. /\ CpuOK /\ RegistersTyped /\ ShiftsOK /\ FifoTyped
      /\ Next /\ At(layer, turn) /\ ~done /\ turn \in 1 .. Turns(layer)
      /\ losses = Nat \/ (losses = {0} /\ NoOverflow)
      /\ InTurn(layer, turn, losses)
  BY DEF Cycle, At, InTurn
<1>2. PICK C \in Nat : C = Channels(layer, turn) /\ C >= 4 /\ C + 1 < MaxDepth
  BY <1>1, TheTurn
<1>3. PICK S \in Nat : S = StartStep(layer, turn) /\ S = (IF layer.mode = 1 THEN 4 + C ELSE 2)
  BY <1>2 DEF StartStep
<1>4. /\ step \in Nat /\ cpu.wait \in Nat
      /\ instruction = T[step] /\ Len(T) \in Nat /\ first \in Nat
      /\ layer.mode \in 0 .. 1 /\ turn \in Nat /\ LayerOK(layer)
  BY <1>1, TheTurn
<1>5. Starts(layer, turn)
  BY DEF Collecting
<1>6. PICK W \in Nat \ {0} : W = Words(layer, turn)
  BY <1>1, <1>4, <1>5, TurnCounts
<1>7. /\ T[1] = Config(layer, Base(layer, turn), Values(layer, turn), C, Period(layer))
      /\ \A k \in 1 .. W : T[S + k].op = "get"
      /\ layer.mode = 1 => Len(T) = S + W
      /\ layer.mode = 0 => Len(T) = S + W + 1 /\ T[Len(T)] = Reset
  <2>1. TurnShaped(layer, turn, T, C, first, S)
    <3>1. TurnShaped(layer, turn, Instructions(layer, turn), Channels(layer, turn),
                     First(layer, turn), StartStep(layer, turn))
      BY <1>1, TheTurn
    <3> QED
      BY <1>2, <1>3, <3>1
  <2>2. \A k \in 1 .. W : T[S + k] = WordGot(layer, turn, k)
    BY <1>5, <1>6, <2>1 DEF TurnShaped
  <2>3. \A k \in 1 .. W : T[S + k].op = "get"
    <3>1. ASSUME NEW k \in 1 .. W PROVE WordGot(layer, turn, k).op = "get"
      BY DEF WordGot, Get
    <3> QED
      BY <2>2, <3>1
  <2> QED
    BY <1>5, <1>6, <2>1, <2>3 DEF TurnShaped
<1>8. PICK taken \in Nat : taken = step - S - 1 /\ taken <= W /\ step = S + taken + 1
  <2>1. step - S - 1 \in 0 .. W
    BY <1>3, <1>6 DEF Collecting
  <2> QED
    BY <1>3, <1>4, <1>6, <2>1
<1>9. /\ (taken = 0 => cpu.wait > 0) /\ pulse = NoPulse
      /\ config = T[1] /\ filter.channel = first
      /\ (taken < W => Running(taken, losses))
      /\ (taken = W => layer.mode = 0 /\ Drains(cpu.wait))
  BY <1>3, <1>6, <1>8 DEF Collecting, Configured, first, T
<1>10. /\ config.mode = layer.mode /\ config.channels = C
       /\ config.values = Values(layer, turn) /\ rows = Group(layer) /\ rows \in {2, 4}
  <2>1. config = Config(layer, Base(layer, turn), Values(layer, turn), Channels(layer, turn),
                        Period(layer))
    BY <1>2, <1>7, <1>9
  <2> QED
    BY <1>1, <1>2, <1>4, <1>9, <2>1, TurnConfig DEF first
<1> HIDE DEF T, first
<1>11. ASSUME config' = config, filter'.channel = filter.channel, pulse' = NoPulse,
              ShiftsOK', FifoTyped',
              cpu'.at.layer = cpu.at.layer, cpu'.at.turn = cpu.at.turn,
              NEW n \in 0 .. W, step' = S + n + 1, n = 0 => cpu'.wait > 0,
              n < W => Running(n, losses)',
              n = W => layer.mode = 0 /\ Drains(cpu.wait)'
       PROVE  Holds(losses)
  <2>1. Configured(layer, turn)'
    BY <1>9, <1>11 DEF Configured, T
  <2>2. step' - StartStep(layer, turn) - 1 = n
    BY <1>3, <1>11
  <2>3. n < W => Running(step - StartStep(layer, turn) - 1, losses)'
    BY <1>11, <2>2
  <2>4. Collecting(layer, turn, losses)'
    BY <1>5, <1>6, <1>9, <1>11, <2>1, <2>2, <2>3 DEF Collecting, first
  <2>5. InTurn(layer, turn, losses)'
    BY <1>1, <2>4 DEF InTurn
  <2> QED
    BY <1>1, <1>11, <2>5, StaysInTurn DEF Holds
<1>12. ASSUME NEW r_en \in BOOLEAN, Clocked(NoPulse, filter.channel, r_en), config' = config
       PROVE  Goes(r_en) /\ filter'.channel = filter.channel /\ pulse' = NoPulse
  BY <1>9, <1>12 DEF Goes, Clocked, Filter
<1>13. CASE Waits
  <2>1. /\ cpu'.at = cpu.at /\ cpu'.wait = cpu.wait + 1 /\ config' = config
        /\ Clocked(NoPulse, filter.channel, FALSE)
    BY <1>13 DEF Waits
  <2>2. Goes(FALSE) /\ filter'.channel = filter.channel /\ pulse' = NoPulse
    BY <1>12, <2>1
  <2>3. /\ cpu'.at.layer = cpu.at.layer /\ cpu'.at.turn = cpu.at.turn
        /\ step' = S + taken + 1 /\ cpu'.wait > 0
    <3>1. step' = S + taken + 1
      BY <1>8, <2>1 DEF step
    <3>2. cpu'.wait > 0
      BY <1>4, <2>1
    <3> QED
      BY <2>1, <3>1, <3>2
  <2>4. CASE taken < W
    <3>1. Running(taken + 0, losses)' /\ ShiftsOK' /\ FifoTyped'
      BY <1>1, <1>8, <1>9, <2>2, <2>4, RunningStep
    <3>2. taken + 0 = taken /\ taken \in 0 .. W
      BY <1>8
    <3> QED
      BY <1>11, <2>1, <2>2, <2>3, <2>4, <3>1, <3>2
  <2>5. CASE taken = W
    <3>1. PICK w \in Nat : w = cpu.wait
      BY <1>4
    <3>2. w + 1 \in 0 .. w + 1
      BY <3>1
    <3>3. Drains(w + 1)' /\ ShiftsOK' /\ FifoTyped'
      BY <1>1, <1>9, <2>2, <2>5, <3>1, <3>2, DrainsStep
    <3>4. Drains(cpu.wait)'
      BY <2>1, <3>1, <3>3
    <3>5. taken \in 0 .. W /\ ~(taken < W)
      BY <1>6, <2>5
    <3> QED
      BY <1>9, <1>11, <2>1, <2>2, <2>3, <2>5, <3>3, <3>4, <3>5
  <2> QED
    BY <1>6, <1>8, <2>4, <2>5
<1>14. CASE ~Waits /\ taken < W
  <2>1. cpu.wait >= 1 /\ (GetWaits \/ GetOutput)
    <3>1. PICK k \in 1 .. W : k = taken + 1 /\ step = S + k
      <4>1. taken + 1 \in 1 .. W
        BY <1>6, <1>8, <1>14
      <4>2. step = S + (taken + 1)
        BY <1>3, <1>8
      <4> QED
        BY <4>1, <4>2
    <3>2. instruction.op = "get"
      BY <1>4, <1>7, <3>1
    <3> QED
      BY <1>1, <1>14, <3>2, Moves
  <2>2. config' = config /\ Clocked(NoPulse, filter.channel, TRUE)
    BY <2>1 DEF GetWaits, GetOutput
  <2>3. Goes(TRUE) /\ filter'.channel = filter.channel /\ pulse' = NoPulse
    BY <1>12, <2>2
  <2>4. PICK t \in 0 .. 1 : t = IF TRUE /\ fifo.out # None THEN 1 ELSE 0
    OBVIOUS
  <2>5. Running(taken + t, losses)' /\ ShiftsOK' /\ FifoTyped'
    BY <1>1, <1>8, <1>9, <1>14, <2>3, <2>4, RunningStep
  <2>6. CASE GetWaits
    <3>1. t = 0 /\ taken + t = taken /\ taken \in 0 .. W
      BY <1>8, <2>4, <2>6 DEF GetWaits
    <3>2. cpu'.at = cpu.at /\ cpu'.wait = cpu.wait
      <4>1. cpu' = [cpu EXCEPT !.waiting = TRUE]
        BY <2>6 DEF GetWaits
      <4> QED
        BY <1>1, <4>1 DEF CpuOK
    <3>3. /\ cpu'.at.layer = cpu.at.layer /\ cpu'.at.turn = cpu.at.turn
          /\ step' = S + taken + 1 /\ cpu'.wait > 0
      <4>1. step' = S + taken + 1
        BY <1>8, <3>2 DEF step
      <4>2. cpu'.wait > 0
        BY <1>4, <2>1, <3>2
      <4> QED
        BY <3>2, <4>1, <4>2
    <3> QED
      BY <1>11, <1>14, <2>2, <2>3, <2>5, <3>1, <3>3
  <2>7. CASE GetOutput
    <3>1. t = 1 /\ fifo.out # None /\ Advance
      BY <2>4, <2>7 DEF GetOutput
    <3>2. PICK n \in Nat : n = taken + 1 /\ n <= W /\ step = S + n
      <4>1. taken + 1 \in Nat /\ taken + 1 <= W
        BY <1>6, <1>8, <1>14
      <4>2. step = S + (taken + 1)
        BY <1>3, <1>8
      <4> QED
        BY <4>1, <4>2
    <3>3. Running(n, losses)'
      BY <2>5, <3>1, <3>2
    <3>4. n = W => Drains(0)'
      <4>1. SUFFICES ASSUME n = W PROVE Drains(0)'
        OBVIOUS
      <4>2. /\ Values(layer, turn) \in Nat /\ Values(layer, turn) <= 4 * W
            /\ Values(layer, turn) = 4 * W => Values(layer, turn) % (Group(layer) * C) = 0
        BY <1>1, <1>2, <1>4, <1>5, <1>6, TurnCounts
      <4>3. /\ config.values <= 4 * (taken + 1)
            /\ config.values = 4 * (taken + 1) => config.values % (rows * config.channels) = 0
        BY <1>10, <3>2, <4>1, <4>2
      <4> QED
        BY <1>1, <1>8, <1>9, <1>14, <2>3, <3>1, <4>3, LastWord
    <3>5. CASE n = W /\ layer.mode = 1
      <4>1. step = Len(T)
        BY <1>7, <3>2, <3>5
      <4>2. cpu'.wait = 0
        BY <3>1 DEF Advance
      <4>3. Resting'
        <5>1. ~pulse'.start /\ pulse'.param = None /\ ~pulse'.reset
          BY <2>3 DEF NoPulse
        <5>2. Drains(cpu.wait)'
          BY <3>4, <3>5, <4>2
        <5> QED
          BY <5>1, <5>2 DEF Resting
      <4>4. DriverOK(losses)'
        BY <1>1, <1>4, <3>1, <3>5, <4>1, <4>3, TurnEnds DEF T
      <4> QED
        BY <2>5, <4>4 DEF Holds
    <3>6. CASE n < W \/ layer.mode = 0
      <4>1. step < Len(T)
        <5>1. CASE layer.mode = 0
          BY <1>3, <1>6, <1>7, <3>2, <5>1
        <5>2. CASE layer.mode = 1
          <6>1. Len(T) = S + W /\ n < W
            BY <1>7, <3>6, <5>2
          <6> QED
            BY <1>3, <1>6, <3>2, <6>1
        <5> QED
          BY <1>4, <5>1, <5>2
      <4>2. /\ cpu'.at.layer = cpu.at.layer /\ cpu'.at.turn = cpu.at.turn
            /\ step' = step + 1 /\ cpu'.wait = 0
        BY <1>1, <1>4, <3>1, <4>1, NextStepOfTurn DEF T
      <4>3. step' = S + n + 1 /\ n \in 0 .. W /\ n # 0
        BY <1>3, <1>6, <1>8, <3>2, <4>2
      <4>4. n = W => layer.mode = 0 /\ Drains(cpu.wait)'
        BY <1>6, <3>2, <3>4, <3>6, <4>2
      <4> QED
        BY <1>11, <2>2, <2>3, <2>5, <3>3, <4>2, <4>3, <4>4
    <3> QED
      BY <1>4, <1>6, <3>2, <3>5, <3>6
  <2> QED
    BY <2>1, <2>6, <2>7
<1>15. CASE ~Waits /\ taken = W
  <2>1. layer.mode = 0 /\ Drains(cpu.wait) /\ step = Len(T) /\ instruction = Reset
    BY <1>3, <1>4, <1>7, <1>8, <1>9, <1>15
  <2>2. SetReset /\ cpu.wait >= 1
    BY <1>1, <1>15, <2>1, Moves DEF Reset
  <2>3. /\ Advance /\ config' = config
        /\ Clocked([NoPulse EXCEPT !.reset = TRUE], filter.channel, FALSE)
    BY <2>2 DEF SetReset
  <2>4. PICK w \in Nat : w = cpu.wait /\ w >= 1
    BY <1>4, <2>2
  <2>5. /\ Quiet' /\ ShiftsOK' /\ FifoTyped'
        /\ ParamsAt(filter.channel, 0, 3) /\ ~transferring
    BY <1>1, <1>9, <2>1, <2>3, <2>4, LastCycle
  <2>6. /\ Params /\ pulse' = [NoPulse EXCEPT !.reset = TRUE] /\ filter'.channel = first
        /\ cpu'.wait = 0 /\ rows' = rows
    BY <1>9, <2>3 DEF Clocked, Filter, Advance, rows, half_mode
  <2>7. ParamsAt(first, 0, 3)'
    <3>1. 3 \in 0 .. 3 /\ 3 = IF 3 < 3 THEN 3 + 1 ELSE 3
      OBVIOUS
    <3>2. config.channels \in 1 .. MaxDepth
      BY <1>2, <1>10, ConstantsAssumption
    <3>3. pulse.param = None /\ ParamsAt(first, 0, 3)
      BY <1>9, <2>5 DEF NoPulse
    <3> QED
      BY <1>4, <1>10, <2>3, <2>5, <2>6, <3>1, <3>2, <3>3, FillStep
  <2>8. ~pulse'.start /\ pulse'.param = None /\ pulse'.reset
    BY <2>6 DEF NoPulse
  <2>9. Resting'
    BY <2>5, <2>6, <2>8 DEF Resting
  <2>10. ASSUME step' = 1, turn + 1 \in 1 .. Turns(layer)
         PROVE  Ready(layer, turn + 1)'
    <3>1. First(layer, turn + 1) = first /\ Channels(layer, turn + 1) = Channels(layer, turn)
      BY <2>1 DEF First, Channels, first
    <3>2. config'.mode = 0 /\ config'.channels = Channels(layer, turn + 1)
      BY <1>2, <1>10, <2>1, <2>3, <3>1
    <3>3. turn + 1 > 1
      <4>1. turn >= 1
        BY <1>1, <1>4, SomeTurns
      <4> QED
        BY <1>4, <4>1
    <3>4. (\E fill \in 1 .. 3 :
             /\ ParamsAt(first, 0, fill)
             /\ (layer.mode = 0 /\ step = 2) \/ cpu.wait >= 2 => fill = 3
             /\ cpu.wait >= 1 => fill >= 2)'
      BY <2>7
    <3> QED
      BY <2>1, <2>5, <2>6, <2>8, <2>10, <3>1, <3>2, <3>3, <3>4 DEF Ready
  <2>11. DriverOK(losses)'
    BY <1>1, <1>4, <2>1, <2>3, <2>9, <2>10, TurnEnds DEF T
  <2> QED
    BY <2>5, <2>11 DEF Holds
<1> QED
  BY <1>6, <1>8, <1>13, <1>14, <1>15

\* Every cycle keeps the invariant.
LEMMA InvariantStep ==
  ASSUME NEW losses, losses = Nat \/ (losses = {0} /\ NoOverflow), IInv(losses), Next
  PROVE  IInv(losses)'
<1>1. CpuOK' /\ RegistersTyped' /\ ParamsTyped' /\ ParamQueueOK'
  BY TypesStep
<1>2. Holds(losses)
  <2>1. CASE done
    BY <2>1, DoneCycle
  <2>2. CASE ~done
    <3>1. PICK layer, turn : At(layer, turn) /\ InTurn(layer, turn, losses)
      BY <2>2 DEF IInv, DriverOK, At
    <3>2. Cycle(layer, turn, losses)
      BY <3>1 DEF Cycle, IInv, InTurn
    <3> QED
      BY <3>1, <3>2, RestingCycle, LoadingCycle, ReadyCycle, StartedCycle, CollectingCycle
         DEF InTurn
  <2> QED
    BY <2>1, <2>2
<1> QED
  BY <1>1, <1>2 DEF IInv, Holds

\* Stuttering keeps the invariant.
LEMMA SameStep ==
  ASSUME NEW losses, IInv(losses), UNCHANGED vars
  PROVE  IInv(losses)'
<1>1. /\ cpu' = cpu /\ pulse' = pulse /\ config' = config /\ fetch' = fetch /\ filter' = filter
      /\ last' = last /\ reader' = reader /\ limiter' = limiter /\ params' = params
      /\ pipe' = pipe /\ owa' = owa /\ fifo' = fifo
  BY DEF vars
<1>2. /\ half_mode' = half_mode /\ rows' = rows /\ num_repeats' = num_repeats
      /\ num_filter_words' = num_filter_words /\ ConfigOK' = ConfigOK
      /\ UsedAccumulators' = UsedAccumulators
      /\ \A n : PassAt(n)' = PassAt(n) /\ ResultAt(n)' = ResultAt(n)
      /\ \A n : ItemAt(n)' = ItemAt(n) /\ WordAt(n)' = WordAt(n) /\ WordsOf(n)' = WordsOf(n)
      /\ \A i : Place(i)' = Place(i) /\ Order(i)' = Order(i)
  BY <1>1, Constant
<1>3. \A p : /\ FetchOK(p)' <=> FetchOK(p)
             /\ ArrayOK(p)' <=> ArrayOK(p)
  BY <1>1, <1>2 DEF FetchOK, ArrayOK
<1>4. \A p : ReaderOK(p)' <=> ReaderOK(p)
  BY <1>1, <1>2 DEF ReaderOK
<1>5. \A p, s : CountsOK(p, s)' <=> CountsOK(p, s)
  BY <1>1, <1>2 DEF CountsOK
<1>6. \A p, s : OutputOK(p, s)' <=> OutputOK(p, s)
  BY <1>1, <1>2 DEF OutputOK
<1>7. \A p, s : LimiterOK(p, s)' <=> LimiterOK(p, s)
  BY <1>1, <1>2 DEF LimiterOK
<1>8. \A s : PipeOK(s)' <=> PipeOK(s)
  BY <1>1, <1>2 DEF PipeOK
<1>9. \A n : AssemblerOK(n)' <=> AssemblerOK(n)
  BY <1>1, <1>2 DEF AssemblerOK
<1>10. \A s, taken : QueueOK(s, taken)' <=> QueueOK(s, taken)
  BY <1>1, <1>2 DEF QueueOK
<1>11. \A first, n, fill : ParamsAt(first, n, fill)' <=> ParamsAt(first, n, fill)
  BY <1>1, <1>2 DEF ParamsAt, ParamAt
<1>12. \A p, s, taken : UnderWay(p, s, taken)' <=> UnderWay(p, s, taken)
  BY <1>1, <1>2, <1>3, <1>4, <1>5, <1>6, <1>7, <1>8, <1>9, <1>10, <1>11 DEF UnderWay
<1>13. \A taken : Running(taken, losses)' <=> Running(taken, losses)
  BY <1>1, <1>2, <1>12 DEF Running, Lost
<1>14. \A cycles : Drains(cycles)' <=> Drains(cycles)
  BY <1>1, <1>2, <1>12 DEF Drains
<1>15. Quiet' = Quiet /\ Clean' = Clean /\ done' = done /\ step' = step
  BY <1>1 DEF Quiet, Clean, done, step
<1>16. Resting' <=> Resting
  BY <1>1, <1>14, <1>15 DEF Resting
<1>17. \A layer, turn : /\ Loading(layer, turn)' <=> Loading(layer, turn)
                        /\ Ready(layer, turn)' <=> Ready(layer, turn)
                        /\ Started(layer, turn)' <=> Started(layer, turn)
  BY <1>1, <1>2, <1>11, <1>15 DEF Loading, Ready, Started, Configured, Stored
<1>18. \A layer, turn : Collecting(layer, turn, losses)' <=> Collecting(layer, turn, losses)
  BY <1>1, <1>2, <1>13, <1>14, <1>15 DEF Collecting, Configured
<1>19. \A layer, turn : InTurn(layer, turn, losses)' <=> InTurn(layer, turn, losses)
  BY <1>15, <1>16, <1>17, <1>18 DEF InTurn
<1>20. DriverOK(losses)' <=> DriverOK(losses)
  BY <1>1, <1>15, <1>16, <1>19 DEF DriverOK
<1>21. CpuOK' /\ RegistersTyped' /\ ParamsTyped'
  <2>1. CpuOK /\ RegistersTyped /\ ParamsTyped
    BY DEF IInv
  <2> QED
    BY <1>1, <1>15, <2>1 DEF CpuOK, RegistersTyped, ParamsTyped, instruction
<1>22. ParamQueueOK' /\ ShiftsOK' /\ FifoTyped'
  <2>1. ParamQueueOK /\ ShiftsOK /\ FifoTyped
    BY DEF IInv
  <2> QED
    BY <1>1, <2>1 DEF ParamQueueOK, ShiftsOK, FifoTyped
<1> QED
  BY <1>20, <1>21, <1>22 DEF IInv

\* The invariant holds initially.
LEMMA InvariantInitially ==
  ASSUME Init, NEW losses, 0 \in losses
  PROVE  IInv(losses)
<1>1. MaxDepth \in Nat \ {0} /\ MaxWait \in Nat /\ FifoDepth \in Nat \ {0, 1} /\ Len(Layers) \in Nat
  BY ConstantsAssumption, LayersAssumption
<1>2. cpu = [at |-> [layer |-> 1, turn |-> 1, step |-> 1], wait |-> 0, waiting |-> FALSE]
  BY DEF Init, FirstStep
<1>3. CpuOK
  BY <1>1, <1>2 DEF CpuOK
<1>4. RegistersTyped
  BY <1>1 DEF Init, RegistersTyped, NoPulse
<1>5. ParamsTyped /\ ParamQueueOK
  <2>1. params = [mem |-> [a \in 0 .. MaxDepth - 1 |-> None], mem_addr |-> 0,
                  addr |-> 0, repeat |-> 0, count |-> 0, repeats |-> 0,
                  valid |-> FALSE, data |-> None, fifo |-> EmptyFifo]
    BY DEF Init
  <2>2. <<>> \in Seq(Nat \cup {None}) /\ Len(<<>>) = 0
    BY EmptySeq
  <2> QED
    BY <1>1, <2>1, <2>2 DEF ParamsTyped, ParamQueueOK, EmptyFifo
<1>6. ShiftsOK
  BY DEF Init, ResetAssembler, ShiftsOK, Nones
<1>7. FifoTyped
  <2>1. <<>> \in Seq([1 .. 4 -> Items]) /\ Len(<<>>) = 0
    BY EmptySeq
  <2> QED
    BY <1>1, <2>1 DEF Init, FifoTyped, EmptyFifo
<1>8. Resting
  BY DEF Init, Resting, Quiet, NoPulse, ResetReader, ResetAssembler
<1>9. DriverOK(losses)
  <2>1. CASE done
    BY <1>8, <2>1 DEF DriverOK
  <2>2. CASE ~done
    <3>1. 1 \in 1 .. Len(Layers)
      BY <1>1, <1>2, <2>2 DEF done
    <3>2. LayerOK(Layers[1])
      BY <3>1, SomeLayer
    <3>3. 1 \in 1 .. Turns(Layers[1])
      BY <3>2, SomeTurns
    <3>4. InTurn(Layers[1], 1, losses)
      BY <1>2, <1>8, <3>3 DEF InTurn, Loads, step
    <3> QED
      BY <1>2, <2>2, <3>4 DEF DriverOK
  <2> QED
    BY <2>1, <2>2
<1> QED
  BY <1>3, <1>4, <1>5, <1>6, <1>7, <1>9 DEF IInv

-----------------------------------------------------------------------------
(* The theorems.                                                           *)

\* The invariant always holds, whatever the output FIFO loses.
THEOREM AlwaysIInv == Spec => []IInv(Nat)
<1>1. Init => IInv(Nat)
  BY InvariantInitially
<1>2. IInv(Nat) /\ [Next]_vars => IInv(Nat)'
  BY InvariantStep, SameStep
<1> QED
  BY <1>1, <1>2, PTL DEF Spec

\* If a word that is complete always finds room in the output FIFO, it loses none.
THEOREM AlwaysNoneLost == Spec /\ []NoOverflow => []IInv({0})
<1>1. Init => IInv({0})
  BY InvariantInitially
<1>2. IInv({0}) /\ NoOverflow /\ [Next]_vars => IInv({0})'
  BY InvariantStep, SameStep
<1> QED
  BY <1>1, <1>2, PTL DEF Spec

\* Nothing is under way, or what the histories of a start say.
LEMMA Machine ==
  ASSUME NEW losses, losses = Nat \/ losses = {0}, IInv(losses)
  PROVE  Quiet \/ \E p \in PassCounts, s \in ValueCounts, taken \in Nat : UnderWay(p, s, taken)
<1>1. \A w : Drains(w) =>
        \E p \in PassCounts, s \in ValueCounts, taken \in Nat : UnderWay(p, s, taken)
  BY DEF Drains
<1>2. \A taken \in Nat : Running(taken, losses) =>
        \E p \in PassCounts, s \in ValueCounts : UnderWay(p, s, taken)
  BY DEF Running
<1>3. Resting => Quiet \/ Drains(cpu.wait)
  BY DEF Resting
<1>4. ASSUME NEW layer, NEW turn, At(layer, turn), InTurn(layer, turn, losses)
      PROVE  Quiet \/ \E p \in PassCounts, s \in ValueCounts, taken \in Nat : UnderWay(p, s, taken)
  <2>1. Loading(layer, turn) \/ Ready(layer, turn) \/ Started(layer, turn) => Quiet
    BY DEF Loading, Ready, Started, Clean
  <2>2. CASE Collecting(layer, turn, losses)
    <3>1. PICK n : n = step - StartStep(layer, turn) - 1
      OBVIOUS
    <3>2. Starts(layer, turn) /\ n \in 0 .. Words(layer, turn)
          /\ (Running(n, losses) \/ Drains(cpu.wait))
      BY <2>2, <3>1 DEF Collecting
    <3>3. n \in Nat
      <4>1. CpuOK
        BY DEF IInv
      <4>2. LayerOK(layer) /\ turn \in 1 .. Turns(layer)
        BY <1>4, <4>1, AtLayer DEF InTurn
      <4>3. Words(layer, turn) \in Nat
        BY <3>2, <4>2, TurnCounts
      <4> QED
        BY <3>2, <4>3
    <3> QED
      BY <1>1, <1>2, <3>2, <3>3
  <2> QED
    BY <1>1, <1>3, <1>4, <2>1, <2>2 DEF InTurn
<1>5. CASE done
  BY <1>1, <1>3, <1>5 DEF IInv, DriverOK
<1>6. CASE ~done
  <2>1. PICK layer, turn : At(layer, turn) /\ InTurn(layer, turn, losses)
    BY <1>6 DEF IInv, DriverOK, At
  <2> QED
    BY <1>4, <2>1
<1> QED
  BY <1>5, <1>6

\* The histories are numbers.
LEMMA SomeCounts ==
  ASSUME NEW p \in PassCounts, NEW s \in ValueCounts
  PROVE  (\A k \in 0 .. 14 : p[k] \in Nat) /\ (\A k \in 0 .. 12 : s[k] \in Nat)
  BY DEF PassCounts, ValueCounts

\* The types that follow from what is under way.
LEMMA TypesOfArray ==
  ASSUME NEW losses, losses = Nat \/ losses = {0}, IInv(losses)
  PROVE  /\ fetch.count < config.period
         /\ \A i \in 1 .. 9 : last[i] \in Passes \cup {None}
         /\ reader.index \in (IF half_mode THEN {0, 1, 4, 5} ELSE 0 .. 7)
         /\ limiter.counter \in 0 .. config.values
         /\ owa.byte_count < 4 /\ owa.pixel_index < rows
<1>1. config.period \in Nat \ {0} /\ config.values \in Nat
  BY DEF IInv, RegistersTyped
<1>2. rows \in {2, 4} /\ (rows = 2 <=> half_mode)
  BY DEF rows
<1>3. CASE Quiet
  <2>1. /\ fetch.count = 0 /\ limiter.counter = 0 /\ last = Nones(9) /\ reader.index = 0
        /\ owa.byte_count = 0 /\ owa.pixel_index = 0
    BY <1>3 DEF Quiet
  <2>2. \A i \in 1 .. 9 : last[i] = None
    BY <2>1 DEF Nones
  <2>3. 0 \in (IF half_mode THEN {0, 1, 4, 5} ELSE 0 .. 7)
    OBVIOUS
  <2>4. fetch.count < config.period /\ limiter.counter \in 0 .. config.values
    BY <1>1, <2>1
  <2> QED
    BY <1>2, <2>1, <2>2, <2>3, <2>4
<1>4. ASSUME NEW p \in PassCounts, NEW s \in ValueCounts, NEW taken \in Nat, UnderWay(p, s, taken)
      PROVE  /\ fetch.count < config.period
             /\ \A i \in 1 .. 9 : last[i] \in Passes \cup {None}
             /\ reader.index \in (IF half_mode THEN {0, 1, 4, 5} ELSE 0 .. 7)
             /\ limiter.counter \in 0 .. config.values
             /\ owa.byte_count < 4 /\ owa.pixel_index < rows
  <2>1. /\ ConfigOK /\ FetchOK(p) /\ ArrayOK(p) /\ ReaderOK(p) /\ LimiterOK(p, s)
        /\ AssemblerOK(s[7]) /\ CountsOK(p, s)
    BY <1>4 DEF UnderWay
  <2>2. fetch.count < config.period
    BY <1>1, <2>1 DEF FetchOK
  <2>3. ASSUME NEW i \in 1 .. 9 PROVE last[i] \in Passes \cup {None}
    <3>1. last[i] = IF Ended(p, i) THEN PassAt(p[i]) ELSE None
      BY <2>1 DEF ArrayOK
    <3>2. p[i] \in Nat
      BY SomeCounts
    <3> QED
      BY <2>1, <3>1, <3>2, SomeResult
  <2>4. reader.index \in (IF half_mode THEN {0, 1, 4, 5} ELSE 0 .. 7)
    <3>1. CASE \E j \in 1 .. 2 * rows - 1 : Ended(p, 5 + j)
      <4>1. PICK j \in 1 .. 2 * rows - 1 : reader.index = Order(j)
        BY <2>1, <3>1 DEF ReaderOK
      <4> QED
        BY <1>2, <4>1 DEF Order
    <3>2. CASE \A j \in 1 .. 2 * rows - 1 : ~Ended(p, 5 + j)
      BY <2>1, <3>2 DEF ReaderOK
    <3> QED
      BY <3>1, <3>2
  <2>5. limiter.counter \in 0 .. config.values
    <3>1. s[0] \in Nat /\ s[0] <= config.values /\ limiter.counter = config.values - s[0]
      BY <2>1, SomeCounts DEF CountsOK, LimiterOK
    <3> QED
      BY <1>1, <3>1
  <2>6. owa.byte_count < 4 /\ owa.pixel_index < rows
    <3>1. PICK n \in Nat : n = s[7] /\ AssemblerOK(n)
      BY <2>1, SomeCounts
    <3>2. n % rows \in 0 .. rows - 1 /\ n \div rows \in Nat
      BY <1>2, Division
    <3>3. (n \div rows) % 4 \in 0 .. 3
      BY <3>2
    <3> QED
      BY <1>2, <3>1, <3>2, <3>3 DEF AssemblerOK
  <2> QED
    BY <2>2, <2>3, <2>4, <2>5, <2>6
<1> QED
  BY <1>3, <1>4, Machine

\* At most two items are fewer than the producer's queue has places.
LEMMA ShortQueue ==
  ASSUME NEW items, Len(items) = 0 \/ Len(items) = 1 \/ Len(items) = 2
  PROVE  Len(items) <= ProducerDepth - 1
<1>1. CASE Len(items) = 0
  BY <1>1 DEF ProducerDepth
<1>2. CASE Len(items) = 1
  BY <1>2 DEF ProducerDepth
<1>3. CASE Len(items) = 2
  BY <1>3 DEF ProducerDepth
<1> QED
  BY <1>1, <1>2, <1>3

\* The producer's queue is never longer.
LEMMA QueueLength ==
  ASSUME ParamQueueOK
  PROVE  Len(params.fifo.items) <= ProducerDepth - 1
<1>1. \/ Len(params.fifo.items) = 0 \/ Len(params.fifo.items) = 1
      \/ Len(params.fifo.items) = 2
  BY DEF ParamQueueOK
<1> QED
  BY <1>1, ShortQueue

\* A sequence of three.
LEMMA ThreeLong ==
  ASSUME NEW S, NEW f \in [1 .. 3 -> S]
  PROVE  Len(f) = 3
<1>1. f \in Seq(S) /\ DOMAIN f = 1 .. 3
  BY SeqDef
<1>2. Len(f) \in Nat /\ 1 .. Len(f) = 1 .. 3
  BY <1>1, LenProperties
<1>3. 3 \in 1 .. Len(f) /\ ~(Len(f) >= 4)
  <2>1. Len(f) >= 4 => 4 \in 1 .. Len(f)
    BY <1>2
  <2> QED
    BY <1>2, <2>1
<1> QED
  BY <1>2, <1>3

\* The registers hold values of their types: the array's, which the configuration
\* bounds, because they are reset before it changes.
THEOREM AlwaysTypeOK == Spec => []TypeOK
<1>1. IInv(Nat) => TypeOK
  <2> SUFFICES ASSUME IInv(Nat) PROVE TypeOK
    OBVIOUS
  <2>1. /\ CpuOK /\ RegistersTyped /\ ParamsTyped /\ ParamQueueOK /\ ShiftsOK /\ FifoTyped
        /\ DriverOK(Nat)
    BY DEF IInv
  <2>2. /\ cpu.at.layer \in 1 .. Len(Layers) + 1 /\ cpu.wait \in 0 .. MaxWait
        /\ cpu.waiting \in BOOLEAN
    BY <2>1 DEF CpuOK
  <2>3. ~done => cpu.at.step \in DOMAIN Instructions(Layers[cpu.at.layer], cpu.at.turn)
    <3>1. SUFFICES ASSUME ~done
                   PROVE  cpu.at.step \in DOMAIN Instructions(Layers[cpu.at.layer], cpu.at.turn)
      OBVIOUS
    <3>2. PICK layer, turn : layer = Layers[cpu.at.layer] /\ turn = cpu.at.turn
      OBVIOUS
    <3>3. At(layer, turn) /\ InTurn(layer, turn, Nat)
      BY <2>1, <3>1, <3>2 DEF DriverOK, At
    <3>4. PICK T : T = Instructions(layer, turn)
      OBVIOUS
    <3>5. Len(T) \in Nat /\ step \in 1 .. Len(T)
      BY <2>1, <3>3, <3>4, StepInTurn
    <3>6. T \in [1 .. Len(T) -> Commands]
      <4>1. LayerOK(layer) /\ turn \in 1 .. Turns(layer)
        BY <2>1, <3>3, AtLayer DEF InTurn
      <4>2. TurnShaped(layer, turn, Instructions(layer, turn), Channels(layer, turn),
                       First(layer, turn), StartStep(layer, turn))
        BY <4>1, TurnShape, Zenon
      <4> QED
        BY <3>4, <4>2 DEF TurnShaped
    <3>7. DOMAIN T = 1 .. Len(T)
      BY <3>6
    <3> QED
      BY <3>2, <3>4, <3>5, <3>7 DEF step
  <2>4. pulse.param \in Nat \cup {None} /\ {pulse.reset, pulse.start} \subseteq BOOLEAN
    BY <2>1 DEF RegistersTyped
  <2>5. fetch.repeat \in Nat /\ filter.read_index < MaxDepth
    BY <2>1, ConstantsAssumption DEF RegistersTyped
  <2>6. /\ params.addr < MaxDepth /\ params.repeat < 4
        /\ Len(params.fifo.items) <= ProducerDepth - 1
    <3>1. params.addr < MaxDepth /\ params.repeat < 4
      BY <2>1, ConstantsAssumption DEF ParamsTyped
    <3>2. Len(params.fifo.items) <= ProducerDepth - 1
      BY <2>1, QueueLength
    <3> QED
      BY <3>1, <3>2
  <2>7. ASSUME NEW i \in 0 .. 3 PROVE Len(owa.shift[i]) = 3
    <3>1. owa.shift[i] \in [1 .. 3 -> Items \cup {None}]
      BY <2>1 DEF ShiftsOK
    <3>2. PICK S, f : S = Items \cup {None} /\ f = owa.shift[i]
      OBVIOUS
    <3>3. 3 \in Nat /\ f \in [1 .. 3 -> S]
      BY <3>1, <3>2
    <3>4. Len(f) = 3
      BY <3>3, ThreeLong
    <3> QED
      BY <3>2, <3>4
  <2>8. Len(fifo.items) <= FifoDepth - 1
    BY <2>1 DEF FifoTyped
  <2> QED
    BY <2>2, <2>3, <2>4, <2>5, <2>6, <2>7, <2>8, TypesOfArray DEF TypeOK
<1> QED
  BY <1>1, AlwaysIInv, PTL

\* No result of the array is overwritten before AccumulatorReader has read it: the
\* passes come 2 * rows cycles apart, and it needs no more to read one's results.
THEOREM AlwaysNoResultLost == Spec => []NoResultLost
<1>1. IInv(Nat) => NoResultLost
  <2> SUFFICES ASSUME IInv(Nat), limiter_running,
                      NEW i \in 0 .. 7, reader.flags[i], Row(i) < rows
               PROVE  ~accumulator_new(i)
    BY DEF NoResultLost
  <2>1. ~Quiet
    BY DEF Quiet, limiter_running
  <2>2. PICK p \in PassCounts, s \in ValueCounts, taken \in Nat : UnderWay(p, s, taken)
    BY <2>1, Machine
  <2>3. ConfigOK /\ FetchOK(p) /\ ArrayOK(p) /\ ReaderOK(p)
    BY <2>2 DEF UnderWay
  <2>4. i \in UsedAccumulators
    BY DEF UsedAccumulators
  <2>5. /\ rows \in {2, 4} /\ (rows = 2 <=> half_mode)
    BY DEF rows
  <2>6. PICK d \in Latency(i) + 1 .. Place(i) : Ended(p, 5 + d)
    BY <2>3, <2>4 DEF ReaderOK
  <2>7. PICK l \in 0 .. 4 : l = Latency(i)
    BY <2>4, <2>5, Places
  <2>8. PICK c \in 0 .. 2 * rows - 1 : c = Place(i)
    BY <2>4, <2>5, <2>7, Places
  <2>9. d \in l + 1 .. c /\ 5 + l \in 1 .. 14 /\ 5 + d \in 1 .. 14 /\ 5 + l < 5 + d
        /\ (5 + d) - (5 + l) < 2 * rows
    BY <2>5, <2>6, <2>7, <2>8
  <2>10. ~Ended(p, 5 + l)
    <3>1. SUFFICES ASSUME Ended(p, 5 + l) PROVE FALSE
      OBVIOUS
    <3>2. PICK j \in 1 .. 14, k \in 1 .. 14 : j = 5 + l /\ k = 5 + d
      BY <2>9
    <3>3. Ended(p, j) /\ Ended(p, k) /\ j < k
      BY <2>6, <2>9, <3>1, <3>2
    <3>4. k - j >= 2 * rows
      BY <2>3, <3>3 DEF FetchOK
    <3> QED
      BY <2>5, <2>9, <3>2, <3>4
  <2> QED
    BY <2>3, <2>4, <2>7, <2>10, Arrivals
<1> QED
  BY <1>1, AlwaysIInv, PTL

\* Every value that enters the pipeline finds its parameters, and ReadingProducer
\* never fetches one its queue has no room for.
THEOREM AlwaysParamsInTime == Spec => []ParamsInTime
<1>1. IInv(Nat) => ParamsInTime
  <2> SUFFICES ASSUME IInv(Nat) PROVE ParamsInTime
    OBVIOUS
  <2>1. params.valid => w_rdy(params.fifo, ProducerDepth)
    BY RoomForParam DEF IInv
  <2>2. ASSUME transferring PROVE params.fifo.out # None
    <3>1. ~Quiet
      BY <2>2 DEF Quiet, transferring, limiter_running
    <3>2. PICK p \in PassCounts, s \in ValueCounts, taken \in Nat : UnderWay(p, s, taken)
      BY <3>1, Machine
    <3>3. ConfigOK /\ ParamsAt(filter.channel, s[0], 3) /\ s[0] \in Nat
      BY <3>2, SomeCounts DEF UnderWay
    <3>4. params.fifo.out = ParamAt(filter.channel, s[0])
      BY <3>3 DEF ParamsAt
    <3>5. ParamAt(filter.channel, s[0]) \in Nat
      <4>1. PICK n \in Nat : n = s[0]
        BY <3>3
      <4>2. rows \in Nat \ {0}
        BY DEF rows
      <4>3. n \div rows \in Nat
        BY <4>2, Division
      <4>4. (n \div rows) % config.channels \in Nat
        <5>1. config.channels \in Nat \ {0}
          BY <3>3 DEF ConfigOK
        <5>2. (n \div rows) % config.channels \in 0 .. config.channels - 1
          BY <4>3, <5>1, Division
        <5> QED
          BY <5>1, <5>2
      <4>5. filter.channel \in Nat
        BY <3>3 DEF ConfigOK
      <4> QED
        BY <4>1, <4>4, <4>5 DEF ParamAt
    <3> QED
      BY <3>4, <3>5, NoneAssumption
  <2> QED
    BY <2>1, <2>2 DEF ParamsInTime
<1> QED
  BY <1>1, AlwaysIInv, PTL

\* When the accelerator is started, nothing of the previous start is left between
\* the fetchers and the output FIFO.
THEOREM AlwaysStartsClean == Spec => []StartsClean
<1>1. IInv(Nat) => StartsClean
  <2> SUFFICES ASSUME IInv(Nat), pulse.start PROVE Clean
    BY DEF StartsClean, Clean, Quiet, limiter_running
  <2>1. ASSUME NEW layer, NEW turn, InTurn(layer, turn, Nat) PROVE Started(layer, turn)
    BY <2>1 DEF InTurn, Resting, Loading, Ready, Collecting, NoPulse
  <2>2. PICK layer, turn : Started(layer, turn)
    BY <2>1 DEF IInv, DriverOK, Resting
  <2> QED
    BY <2>2 DEF Started
<1> QED
  BY <1>1, AlwaysIInv, PTL

\* The get instruction at which the driver is, if it is at one.
LEMMA GetsWord ==
  ASSUME CpuOK, NEW layer, NEW turn, NEW losses, At(layer, turn), InTurn(layer, turn, losses),
         instruction.op = "get", cpu.wait >= 1
  PROVE  \E k \in 1 .. Words(layer, turn) :
           /\ Starts(layer, turn) /\ instruction = WordGot(layer, turn, k)
           /\ k - 1 \in Nat /\ Running(k - 1, losses)
           /\ Configured(layer, turn) /\ filter.channel = First(layer, turn)
<1> DEFINE T == Instructions(layer, turn)
<1>1. PICK C \in Nat : C = Channels(layer, turn) /\ C >= 4
  <2>1. LayerOK(layer) /\ turn \in 1 .. Turns(layer)
    BY AtLayer DEF InTurn
  <2>2. PICK n \in Nat \ {0} : n = Channels(layer, turn) /\ n % 4 = 0
    BY <2>1, Sizes
  <2>3. n >= 4
    BY <2>2, Fours
  <2> QED
    BY <2>2, <2>3
<1>2. PICK S \in Nat : S = StartStep(layer, turn) /\ S = (IF layer.mode = 1 THEN 4 + C ELSE 2)
  BY <1>1 DEF StartStep
<1>3. PICK first : first = First(layer, turn)
  OBVIOUS
<1>4. LayerOK(layer) /\ turn \in 1 .. Turns(layer) /\ instruction = T[step] /\ step \in Nat
  <2>1. LayerOK(layer) /\ turn \in 1 .. Turns(layer)
    BY AtLayer DEF InTurn
  <2>2. step \in 1 .. Len(T) /\ Len(T) \in Nat /\ instruction = T[step]
    BY StepInTurn
  <2> QED
    BY <2>1, <2>2
<1>5. TurnShaped(layer, turn, T, C, first, S)
  <2>1. TurnShaped(layer, turn, Instructions(layer, turn), Channels(layer, turn),
                   First(layer, turn), StartStep(layer, turn))
    BY <1>4, TurnShape, Zenon
  <2> QED
    BY <1>1, <1>2, <1>3, <2>1
<1> HIDE DEF T
<1>6. step # 1
  <2>1. T[1] = Config(layer, Base(layer, turn), Values(layer, turn), C, Period(layer))
    BY <1>5 DEF TurnShaped
  <2>2. T[1].op = "config"
    BY <2>1 DEF Config
  <2> QED
    BY <1>4, <2>2
<1>7. ~Loading(layer, turn)
  <2>1. SUFFICES ASSUME Loading(layer, turn) PROVE FALSE
    OBVIOUS
  <2>2. Loads(layer, turn) /\ step \in 2 .. 3 + C
    BY <1>1, <2>1 DEF Loading
  <2>3. /\ T[2] = Reset /\ T[3 + C] = [op |-> "filter", channel |-> first]
        /\ \A i \in 1 .. C : T[2 + i] = [op |-> "param", channel |-> first + i - 1]
    BY <1>5, <2>2 DEF TurnShaped
  <2>4. step # 2 /\ step # 3 + C
    BY <1>4, <2>3 DEF Reset
  <2>5. PICK i \in 1 .. C : step = 2 + i
    <3>1. step - 2 \in 1 .. C /\ step = 2 + (step - 2)
      BY <1>1, <1>4, <2>2, <2>4
    <3> QED
      BY <3>1
  <2>6. instruction = [op |-> "param", channel |-> first + i - 1]
    BY <1>4, <2>3, <2>5
  <2> QED
    BY <2>6
<1>8. ~Ready(layer, turn)
  <2>1. SUFFICES ASSUME Ready(layer, turn) PROVE FALSE
    OBVIOUS
  <2>2. layer.mode \in 0 .. 1
    BY <1>4 DEF LayerOK
  <2>3. step = S /\ Starts(layer, turn)
    BY <1>1, <1>2, <1>6, <2>1, <2>2 DEF Ready, Starts
  <2>4. instruction = Start
    BY <1>4, <1>5, <2>3 DEF TurnShaped
  <2> QED
    BY <2>4 DEF Start
<1>9. ~Started(layer, turn)
  BY DEF Started
<1>10. CASE Collecting(layer, turn, losses)
  <2>1. PICK W \in Nat : W = Words(layer, turn)
    BY <1>4, <1>10, TurnCounts DEF Collecting
  <2>2. PICK taken : taken = step - S - 1
    OBVIOUS
  <2>3. /\ Starts(layer, turn) /\ taken \in 0 .. W
        /\ Configured(layer, turn) /\ filter.channel = first
        /\ taken < W => Running(taken, losses)
        /\ ~(taken < W) => layer.mode = 0
    BY <1>2, <1>3, <1>10, <2>1, <2>2 DEF Collecting
  <2>4. taken < W
    <3>1. SUFFICES ASSUME ~(taken < W) PROVE FALSE
      OBVIOUS
    <3>2. taken = W /\ layer.mode = 0
      BY <2>1, <2>3, <3>1
    <3>3. step = S + W + 1
      BY <1>2, <1>4, <2>1, <2>2, <3>2
    <3>4. instruction = Reset
      BY <1>4, <1>5, <2>1, <2>3, <3>2, <3>3 DEF TurnShaped
    <3> QED
      BY <3>4 DEF Reset
  <2>5. PICK k \in 1 .. W : k = taken + 1 /\ step = S + k /\ k - 1 = taken /\ k - 1 \in Nat
    BY <1>2, <1>4, <2>1, <2>2, <2>3, <2>4
  <2>6. instruction = WordGot(layer, turn, k)
    BY <1>4, <1>5, <2>1, <2>3, <2>5 DEF TurnShaped
  <2> QED
    BY <1>2, <1>3, <2>1, <2>3, <2>4, <2>5, <2>6
<1> QED
  BY <1>6, <1>7, <1>8, <1>9, <1>10 DEF InTurn

\* Every word the driver stores holds the four channels of the pixel it stores it for,
\* each with its own filter and parameters, for every sequence of layers and whatever
\* the CPU does in between, as long as the output FIFO loses none.
THEOREM NoOverflowOutputsRight == Spec /\ []NoOverflow => OutputsRight
<1> DEFINE Right ==
      got' # None /\ instruction.stored =>
        \A k \in 1 .. 4 :
          LET channel == instruction.channel + k - 1
          IN  got'[k] = [value |-> [pixel |-> instruction.pixel, channel |-> channel],
                         param |-> channel]
<1>1. IInv({0}) /\ [Next]_vars => [Right]_vars
  <2> SUFFICES ASSUME IInv({0}), Next, got' # None PROVE Right
    OBVIOUS
  <2>1. CpuOK /\ FifoTyped /\ DriverOK({0})
    BY DEF IInv
  <2>2. GetOutput
    BY DEF Next, OtherCode, SetConfig, SetReset, SetParam, SetFilter, SetStart, GetWaits, Clocked
  <2>3. fifo.out # None /\ got' = fifo.out
    BY <2>2 DEF GetOutput, Clocked
  <2>4. ~done /\ instruction.op = "get" /\ cpu.wait >= 1
    <3>1. Issues("get") \/ cpu.waiting
      BY <2>2 DEF GetOutput
    <3>2. cpu.wait \in Nat
      BY <2>1 DEF CpuOK
    <3>3. cpu.waiting => ~done /\ instruction.op = "get" /\ cpu.wait >= 1
      BY <2>1, <3>2 DEF CpuOK
    <3> QED
      BY <3>1, <3>3 DEF Issues
  <2>5. PICK layer, turn : At(layer, turn) /\ InTurn(layer, turn, {0})
    BY <2>1, <2>4 DEF DriverOK, At
  <2>6. PICK k : /\ k \in 1 .. Words(layer, turn) /\ Starts(layer, turn)
                 /\ instruction = WordGot(layer, turn, k) /\ Running(k - 1, {0})
                 /\ k - 1 \in Nat
                 /\ Configured(layer, turn) /\ filter.channel = First(layer, turn)
    BY <2>1, <2>4, <2>5, GetsWord
  <2>7. LayerOK(layer) /\ turn \in 1 .. Turns(layer)
    BY <2>1, <2>5, AtLayer DEF InTurn
  <2>8. got' = WordAt(k - 1)
    BY <2>1, <2>3, <2>6, NextWord
  <2>9. config = Config(layer, Base(layer, turn), Values(layer, turn), Channels(layer, turn),
                        Period(layer))
    <3>1. TurnShaped(layer, turn, Instructions(layer, turn), Channels(layer, turn),
                     First(layer, turn), StartStep(layer, turn))
      BY <2>7, TurnShape, Zenon
    <3> QED
      BY <2>6, <3>1 DEF Configured, TurnShaped
  <2>10. ASSUME NEW b \in 1 .. 4
         PROVE  LET channel == WordGot(layer, turn, k).channel + b - 1
                IN  WordAt(k - 1)[b] =
                      [value |-> [pixel |-> WordGot(layer, turn, k).pixel, channel |-> channel],
                       param |-> channel]
    BY <2>6, <2>7, <2>9, GotRight
  <2> QED
    BY <2>6, <2>8, <2>10
<1>2. IInv({0}) /\ [Next]_vars =>
        [got' # None /\ instruction.stored =>
           \A k \in 1 .. 4 :
             LET channel == instruction.channel + k - 1
             IN  got'[k] = [value |-> [pixel |-> instruction.pixel, channel |-> channel],
                            param |-> channel]]_vars
  BY <1>1
<1> QED
  BY <1>2, AlwaysNoneLost, PTL DEF OutputsRight, Spec

-----------------------------------------------------------------------------
(* An output FIFO with room for all that a start makes.                    *)

\* The words of a start, one for four values, are fewer than the places of the FIFO.
Roomy ==
  \A i \in DOMAIN Layers :
    \A turn \in 1 .. Turns(Layers[i]) : Values(Layers[i], turn) < 4 * FifoDepth

\* A byte that completes a word is not the last start's, and the words before it are
\* fewer than its values make.
LEMMA WordsBefore ==
  ASSUME NEW p, NEW s, NEW taken \in Nat, UnderWay(p, s, taken), ShiftsOK, FifoTyped,
         word_done
  PROVE  s[7] # config.values /\ 4 * (Len(fifo.items) + 1) <= config.values
<1>1. CountsOK(p, s) /\ PipeOK(s) /\ AssemblerOK(s[7]) /\ ConfigOK /\ QueueOK(s, taken)
  BY DEF UnderWay
<1>2. PICK u : u = NextValues(s)
  OBVIOUS
<1>3. WordsOf(s[7]) \in Nat /\ WordsOf(u[7]) = WordsOf(s[7]) + 1
  BY <1>1, <1>2, WordStep
<1>4. /\ \A k \in 0 .. 12 : s[k] \in Nat
      /\ \A k \in 1 .. 12 : s[k] <= s[k - 1]
      /\ s[0] <= config.values /\ config.values \in Nat
  BY <1>1 DEF CountsOK, ConfigOK, ValueCounts
<1>5. u[7] = s[6]
  BY <1>2 DEF NextValues
<1>6. /\ s[7] \in Nat /\ s[6] \in Nat /\ s[7] <= s[6] /\ s[6] <= config.values
  <2>1. /\ s[7] <= s[6] /\ s[6] <= s[5] /\ s[5] <= s[4] /\ s[4] <= s[3] /\ s[3] <= s[2]
        /\ s[2] <= s[1] /\ s[1] <= s[0]
    BY <1>4
  <2> QED
    BY <1>4, <2>1
<1>7. s[7] # config.values
  <2>1. SUFFICES ASSUME s[7] = config.values PROVE FALSE
    OBVIOUS
  <2>2. u[7] = s[7]
    BY <1>5, <1>6, <2>1
  <2>3. WordsOf(u[7]) = WordsOf(s[7])
    BY <2>2
  <2> QED
    BY <1>3, <2>3
<1>8. 4 * (WordsOf(s[7]) + 1) <= config.values
  <2>1. rows \in {2, 4}
    BY <1>1, Widths
  <2>2. 4 * WordsOf(s[6]) <= s[6] /\ WordsOf(s[6]) = WordsOf(s[7]) + 1
    BY <1>3, <1>5, <1>6, <2>1, WordsBound
  <2> QED
    BY <1>3, <1>4, <1>6, <2>2
<1> DEFINE S == [1 .. 4 -> Items]
<1>9. None \notin S /\ fifo.items \in Seq(S) /\ fifo.out \in S \cup {None}
  BY NoneAssumption DEF FifoTyped
<1> HIDE DEF S
<1>10. Len(fifo.items) <= Len(FifoContents(fifo)) /\ Len(FifoContents(fifo)) \in Nat
  <2>1. Len(Held(fifo.out)) = IF fifo.out = None THEN 0 ELSE 1
    BY <1>9, Contents
  <2>2. Len(FifoContents(fifo)) = Len(Held(fifo.out)) + Len(fifo.items)
    BY <1>9, Contents
  <2>3. PICK l \in Nat, h \in Nat : l = Len(fifo.items) /\ h = Len(Held(fifo.out))
    <3>1. Len(fifo.items) \in Nat
      BY <1>9, LenProperties
    <3> QED
      BY <2>1, <3>1
  <2>4. l <= h + l /\ h + l \in Nat
    OBVIOUS
  <2> QED
    BY <2>2, <2>3, <2>4
<1>11. taken + Len(FifoContents(fifo)) <= WordsOf(s[7])
  BY <1>1 DEF QueueOK
<1>12. Len(fifo.items) \in Nat
  BY <1>9, LenProperties
<1>13. 4 * (Len(fifo.items) + 1) <= config.values
  <2>1. PICK w \in Nat, c \in Nat, l \in Nat, v \in Nat :
          /\ w = WordsOf(s[7]) /\ c = Len(FifoContents(fifo)) /\ l = Len(fifo.items)
          /\ v = config.values
    BY <1>3, <1>4, <1>10, <1>12
  <2>2. 4 * (w + 1) <= v /\ l <= c /\ taken + c <= w
    BY <1>8, <1>10, <1>11, <2>1
  <2>3. 4 * (l + 1) <= v
    BY <2>2
  <2> QED
    BY <2>1, <2>3
<1> QED
  BY <1>7, <1>13

\* Then a word that is complete finds room, whatever was lost or taken before.
LEMMA RoomForWord ==
  ASSUME Roomy, NEW losses, losses = Nat \/ losses = {0}, IInv(losses)
  PROVE  NoOverflow
<1> SUFFICES ASSUME word_done PROVE w_rdy(fifo, FifoDepth)
  BY DEF NoOverflow
<1>1. /\ CpuOK /\ ShiftsOK /\ FifoTyped /\ DriverOK(losses)
      /\ FifoDepth \in Nat
  BY ConstantsAssumption DEF IInv
<1>2. ~Quiet
  BY DEF Quiet, Nones, word_done, assembling
<1>3. ~Drains(cpu.wait)
  <2>1. SUFFICES ASSUME Drains(cpu.wait) PROVE FALSE
    OBVIOUS
  <2>2. PICK n : n = 9 + (IF cpu.wait < 2 THEN cpu.wait ELSE 2)
    OBVIOUS
  <2>3. n \in 7 .. 12
    <3>1. cpu.wait \in Nat
      BY <1>1 DEF CpuOK
    <3> QED
      BY <2>2, <3>1
  <2>4. PICK p \in PassCounts, s \in ValueCounts, taken \in Nat :
          UnderWay(p, s, taken) /\ s[n] = config.values
    BY <2>1, <2>2 DEF Drains
  <2>5. CountsOK(p, s) /\ ConfigOK /\ n \in 0 .. 12 /\ 7 \in 0 .. n
    BY <2>3, <2>4 DEF UnderWay
  <2>6. s[7] = config.values
    BY <2>4, <2>5, LastValue
  <2> QED
    BY <1>1, <2>4, <2>6, WordsBefore
<1>4. ~Resting
  BY <1>2, <1>3 DEF Resting
<1>5. PICK layer, turn : /\ layer = Layers[cpu.at.layer] /\ turn = cpu.at.turn
                         /\ At(layer, turn) /\ InTurn(layer, turn, losses)
  BY <1>1, <1>4 DEF DriverOK, At
<1>6. ~Loading(layer, turn) /\ ~Ready(layer, turn) /\ ~Started(layer, turn)
  BY <1>2 DEF Loading, Ready, Started, Clean
<1>7. Collecting(layer, turn, losses)
  BY <1>4, <1>5, <1>6 DEF InTurn
<1>8. PICK taken : /\ taken = step - StartStep(layer, turn) - 1
                   /\ taken \in 0 .. Words(layer, turn) /\ Running(taken, losses)
  BY <1>3, <1>7 DEF Collecting
<1>9. LayerOK(layer) /\ turn \in 1 .. Turns(layer)
  BY <1>1, <1>5, AtLayer DEF InTurn
<1>10. taken \in Nat
  <2>1. Words(layer, turn) \in Nat
    BY <1>7, <1>9, TurnCounts DEF Collecting
  <2> QED
    BY <1>8, <2>1
<1>11. PICK p \in PassCounts, s \in ValueCounts : UnderWay(p, s, taken)
  BY <1>8 DEF Running
<1>12. 4 * (Len(fifo.items) + 1) <= config.values
  BY <1>1, <1>10, <1>11, WordsBefore
<1>13. config.values = Values(layer, turn)
  <2>1. TurnShaped(layer, turn, Instructions(layer, turn), Channels(layer, turn),
                   First(layer, turn), StartStep(layer, turn))
    BY <1>9, TurnShape, Zenon
  <2>2. config = Config(layer, Base(layer, turn), Values(layer, turn), Channels(layer, turn),
                        Period(layer))
    BY <1>7, <2>1 DEF Collecting, Configured, TurnShaped
  <2> QED
    BY <2>2 DEF Config
<1>14. Values(layer, turn) < 4 * FifoDepth
  <2>1. cpu.at.layer \in DOMAIN Layers
    BY <1>1, <1>5, LayersAssumption DEF At, CpuOK, done
  <2> QED
    BY <1>5, <1>9, <2>1 DEF Roomy
<1>15. Len(fifo.items) \in Nat /\ Values(layer, turn) \in Nat
  <2>1. Len(fifo.items) \in Nat
    BY <1>1, LenProperties DEF FifoTyped
  <2>2. Values(layer, turn) \in Nat
    BY <1>7, <1>9, TurnCounts DEF Collecting
  <2> QED
    BY <2>1, <2>2
<1>16. Len(fifo.items) < FifoDepth - 1
  <2>1. PICK l \in Nat, v \in Nat : l = Len(fifo.items) /\ v = Values(layer, turn)
    BY <1>15
  <2>2. 4 * (l + 1) <= v /\ v < 4 * FifoDepth
    BY <1>12, <1>13, <1>14, <2>1
  <2>3. l < FifoDepth - 1
    BY <1>1, <2>2
  <2> QED
    BY <2>1, <2>3
<1> QED
  BY <1>16 DEF w_rdy

\* If the FIFO has room for all that a start makes, it never overflows, however slow the
\* CPU is.
THEOREM RoomyNeverOverflows ==
  ASSUME Roomy
  PROVE  Spec => []NoOverflow
<1>1. IInv(Nat) => NoOverflow
  BY RoomForWord
<1> QED
  BY <1>1, AlwaysIInv, PTL

\* Then every word the driver stores is right.
THEOREM RoomyOutputsRight ==
  ASSUME Roomy
  PROVE  Spec => OutputsRight
<1>1. Spec => []NoOverflow
  BY RoomyNeverOverflows
<1>2. Spec /\ []NoOverflow => OutputsRight
  BY NoOverflowOutputsRight
<1> QED
  BY <1>1, <1>2
=============================================================================
