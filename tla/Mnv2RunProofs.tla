--------------------------- MODULE Mnv2RunProofs ---------------------------
(***************************************************************************)
(* The pipeline of Mnv2Run, for every size of layer, queue and margin.     *)
(*                                                                         *)
(* First, the output queue never overflows.  Nothing stops the pipeline    *)
(* once its gate has let operands in, so one must count what is under way. *)
(* Every bit in the two delay lines stands for at most one result, and     *)
(* four results make a word: `Load` counts results, those in the queue,    *)
(* those in the word being assembled, and those that may still come.  A    *)
(* cycle moves them on without adding to their number unless the gate is   *)
(* open, and then there is room.                                           *)
(*                                                                         *)
(* Then, what the pipeline holds.  `InPipe` places every operand of a      *)
(* pixel that was let in: multiplied, accumulated, post-processed,         *)
(* assembled, queued or read.  A cycle keeps it so, if the operand it lets *)
(* in is the one that comes next and the parameters are those of their     *)
(* channel.                                                                *)
(*                                                                         *)
(* Last, that they are, and so that driver and gateware compute what they  *)
(* should, for every size of layer that is unloaded to its end and does    *)
(* not fill the parameter memories: every word the driver reads is the     *)
(* right one.  The invariant `CInv` says of every register what it holds,  *)
(* in terms of where the driver is in its program: the words stored so     *)
(* far, the pixels that wait in the input store, the operands of the       *)
(* present pixel that were let in (`issued`), its words that were read     *)
(* (`words_got`), the filter word that each bank shows and the one it      *)
(* prefetches, and what is in the pipeline.                                *)
(***************************************************************************)
EXTENDS Mnv2Run, TLAPS

Bit(b) == IF b THEN 1 ELSE 0

InFlight ==
  Bit(seq.madd_delay[1]) + Bit(seq.madd_delay[2])
    + Bit(seq.pp_delay[1]) + Bit(seq.pp_delay[2]) + Bit(seq.pp_delay[3]) + Bit(seq.pp_delay[4])

Load == 4 * w_level + seq.four_count + InFlight

DelayLines ==
  /\ seq.madd_delay \in [1 .. 2 -> BOOLEAN]
  /\ seq.pp_delay \in [1 .. 4 -> BOOLEAN]
  /\ seq.four_count \in 0 .. 3

FifoOK == \E S : oq.fifo \in Seq(S)

IInv ==
  /\ DelayLines
  /\ FifoOK
  /\ Load <= 4 * (QueueDepth - Margin) + 6

\* The level of the output queue is a number.
LEMMA LevelType ==
  ASSUME FifoOK
  PROVE  w_level \in Nat /\ Len(oq.fifo) \in Nat
<1>1. PICK S : oq.fifo \in Seq(S)
  BY DEF FifoOK
<1>2. Len(oq.fifo) \in Nat
  BY <1>1, SMT
<1>3. CASE oq.out = None
  BY <1>2, <1>3, SMT DEF w_level
<1>4. CASE oq.out # None
  BY <1>2, <1>4, SMT DEF w_level
<1> QED
  BY <1>2, <1>3, <1>4

\* The pipeline is empty at reset.
LEMMA InitInvariant == Init => IInv
<1> SUFFICES ASSUME Init PROVE IInv
  OBVIOUS
<1>1. /\ seq.madd_delay = [i \in 1 .. 2 |-> FALSE]
      /\ seq.pp_delay = [i \in 1 .. 4 |-> FALSE]
      /\ seq.four_count = 0
  BY DEF Init, Delay
<1>2. oq.fifo = <<>> /\ oq.out = None
  BY DEF Init
<1>3. DelayLines
  BY <1>1, SMT DEF DelayLines
<1>4. FifoOK
  BY <1>2, SMT DEF FifoOK
<1>5. w_level = 0
  BY <1>2, SMT DEF w_level
<1>6. InFlight = 0
  BY <1>1, SMT DEF InFlight, Bit
<1> QED
  BY <1>1, <1>3, <1>4, <1>5, <1>6, ConstantsAssumption, SMT DEF IInv, Load

\* Every action of Next is a cycle with some command.
LEMMA EveryStepIsACycle ==
  ASSUME Next
  PROVE  \E command, value : Clocked(command, value)
<1>1. CASE SetOutputBatchSize
  BY <1>1 DEF SetOutputBatchSize
<1>2. CASE StoreParam
  BY <1>2 DEF StoreParam
<1>3. CASE StoreFilterValue
  BY <1>3 DEF StoreFilterValue
<1>4. CASE StoreInput
  BY <1>4 DEF StoreInput
<1>5. CASE MaccRun
  BY <1>5 DEF MaccRun
<1>6. CASE GetOutput
  BY <1>6 DEF GetOutput
<1>7. CASE NoCommand
  BY <1>7 DEF NoCommand
<1> QED
  BY <1>1, <1>2, <1>3, <1>4, <1>5, <1>6, <1>7 DEF Next, Command

\* The queue gains at most the word that is written to it.
LEMMA LevelRises ==
  ASSUME FifoOK, NEW r_en, Queue(r_en)
  PROVE  FifoOK' /\ w_level' \in Nat /\ w_level' <= w_level + Bit(out_word_done)
<1> DEFINE moves == oq.fifo # <<>> /\ (oq.out = None \/ r_en)
           kept == IF moves THEN Tail(oq.fifo) ELSE oq.fifo
           writes == out_word_done /\ w_level < QueueDepth
<1>1. PICK S : oq.fifo \in Seq(S)
  BY DEF FifoOK
<1>2. /\ oq'.fifo = IF writes THEN Append(kept, btw_result) ELSE kept
      /\ oq'.out = IF moves THEN Head(oq.fifo) ELSE IF r_en THEN None ELSE oq.out
  BY DEF Queue
<1>3. kept \in Seq(S) /\ Len(kept) = IF moves THEN Len(oq.fifo) - 1 ELSE Len(oq.fifo)
  BY <1>1, SMT
<1> DEFINE T == S \cup {btw_result}
<1>4. kept \in Seq(T)
  BY <1>3, SMT
<1> HIDE DEF kept
<1>5. oq'.fifo \in Seq(T) /\ Len(oq'.fifo) = Len(kept) + IF writes THEN 1 ELSE 0
  BY <1>2, <1>4, SMT
<1>6. FifoOK'
  BY <1>5 DEF FifoOK
<1>7. Len(oq.fifo) \in Nat /\ Len(kept) \in Nat
  BY <1>1, <1>3, SMT
<1> DEFINE out == IF oq.out = None THEN 0 ELSE 1
           out2 == IF oq'.out = None THEN 0 ELSE 1
           written == IF writes THEN 1 ELSE 0
<1>8. /\ w_level = Len(oq.fifo) + out /\ w_level' = Len(oq'.fifo) + out2
      /\ out \in 0 .. 1 /\ out2 \in 0 .. 1 /\ written \in 0 .. 1
  BY DEF w_level
<1>9. written <= Bit(out_word_done) /\ Bit(out_word_done) \in 0 .. 1
  <2>1. CASE out_word_done
    BY <2>1, <1>8 DEF Bit
  <2>2. CASE ~out_word_done
    BY <2>2 DEF Bit
  <2> QED
    BY <2>1, <2>2
<1>10. Len(kept) + out2 <= Len(oq.fifo) + out
  <2>1. CASE moves
    <3>1. Len(kept) = Len(oq.fifo) - 1
      BY <2>1, <1>3
    <3> HIDE DEF moves, out, out2
    <3> QED
      BY <3>1, <1>7, <1>8, SMT
  <2>2. CASE ~moves
    <3>1. Len(kept) = Len(oq.fifo)
      BY <2>2, <1>3
    <3>2. oq'.out = None \/ oq'.out = oq.out
      BY <2>2, <1>2
    <3>3. out2 <= out
      BY <3>2
    <3> HIDE DEF moves, out, out2
    <3> QED
      BY <3>1, <3>3, <1>7, <1>8, SMT
  <2> HIDE DEF moves
  <2> QED
    BY <2>1, <2>2
<1>11. w_level' \in Nat /\ w_level' <= w_level + Bit(out_word_done)
  <2>1. Len(oq'.fifo) = Len(kept) + written
    BY <1>5
  <2> HIDE DEF written, out, out2
  <2> QED
    BY <2>1, <1>7, <1>8, <1>9, <1>10, SMT
<1> QED
  BY <1>6, <1>11

\* The delay lines move on by one place, and what leaves them is counted.
LEMMA BitsMoveOn ==
  ASSUME DelayLines, NEW start_run, Sequence(start_run)
  PROVE  /\ DelayLines'
         /\ seq'.four_count + InFlight' + 4 * Bit(out_word_done)
              <= seq.four_count + InFlight + Bit(gate)
<1>1. /\ seq'.madd_delay = <<gate, seq.madd_delay[1]>>
      /\ seq'.pp_delay = <<acc_done, seq.pp_delay[1], seq.pp_delay[2], seq.pp_delay[3]>>
      /\ seq'.four_count = Count(pp_done, seq.four_count, 4)
  BY DEF Sequence
<1>2. gate \in BOOLEAN /\ acc_done \in BOOLEAN /\ (acc_done => seq.madd_delay[2])
  BY DEF gate, acc_done, madd_done
<1>5. pp_done = seq.pp_delay[4] /\ out_word_done = (seq.pp_delay[4] /\ seq.four_count = 3)
  BY DEF pp_done, out_word_done
<1>6. seq'.four_count = IF ~seq.pp_delay[4] THEN seq.four_count
                        ELSE IF seq.four_count = 3 THEN 0 ELSE seq.four_count + 1
  BY <1>1, <1>5, SMT DEF Count, DelayLines
<1>7. /\ seq'.madd_delay[1] = gate /\ seq'.madd_delay[2] = seq.madd_delay[1]
      /\ seq'.pp_delay[1] = acc_done /\ seq'.pp_delay[2] = seq.pp_delay[1]
      /\ seq'.pp_delay[3] = seq.pp_delay[2] /\ seq'.pp_delay[4] = seq.pp_delay[3]
  BY <1>1, SMT
<1>8. DelayLines'
  <2>1. seq'.madd_delay \in [1 .. 2 -> BOOLEAN]
    BY <1>1, <1>2, SMT DEF DelayLines
  <2>2. seq'.pp_delay \in [1 .. 4 -> BOOLEAN]
    BY <1>1, <1>2, SMT DEF DelayLines
  <2>3. seq'.four_count \in 0 .. 3
    BY <1>6, SMT DEF DelayLines
  <2> QED
    BY <2>1, <2>2, <2>3 DEF DelayLines
<1>9. Bit(acc_done) <= Bit(seq.madd_delay[2])
  BY <1>2, SMT DEF Bit
<1>10. seq'.four_count + 4 * Bit(out_word_done) = seq.four_count + Bit(seq.pp_delay[4])
  <2>1. seq.four_count \in 0 .. 3
    BY DEF DelayLines
  <2>2. CASE seq.pp_delay[4] /\ seq.four_count = 3
    <3>1. Bit(out_word_done) = 1 /\ Bit(seq.pp_delay[4]) = 1
      BY <2>2, <1>5 DEF Bit
    <3> QED
      BY <3>1, <2>2, <1>6
  <2>3. CASE seq.pp_delay[4] /\ seq.four_count # 3
    <3>1. Bit(out_word_done) = 0 /\ Bit(seq.pp_delay[4]) = 1
      BY <2>3, <1>5 DEF Bit
    <3> QED
      BY <3>1, <2>1, <2>3, <1>6
  <2>4. CASE ~seq.pp_delay[4]
    <3>1. Bit(out_word_done) = 0 /\ Bit(seq.pp_delay[4]) = 0
      BY <2>4, <1>5 DEF Bit
    <3> QED
      BY <3>1, <2>1, <2>4, <1>6
  <2> QED
    BY <2>2, <2>3, <2>4
<1>11. InFlight' = Bit(gate) + Bit(seq.madd_delay[1]) + Bit(acc_done)
                     + Bit(seq.pp_delay[1]) + Bit(seq.pp_delay[2]) + Bit(seq.pp_delay[3])
  BY <1>7, SMT DEF InFlight, Bit
<1>12. /\ Bit(gate) \in 0 .. 1 /\ Bit(acc_done) \in 0 .. 1 /\ Bit(out_word_done) \in 0 .. 1
       /\ \A i \in 1 .. 2 : Bit(seq.madd_delay[i]) \in 0 .. 1
       /\ \A i \in 1 .. 4 : Bit(seq.pp_delay[i]) \in 0 .. 1
       /\ seq.four_count \in Nat /\ seq'.four_count \in Nat
  BY <1>8, SMT DEF Bit, DelayLines
<1> QED
  BY <1>8, <1>9, <1>10, <1>11, <1>12, SMT DEF InFlight

\* Every cycle keeps the bound.
LEMMA StepInvariant == IInv /\ [Next]_vars => IInv'
<1> SUFFICES ASSUME IInv, [Next]_vars PROVE IInv'
  OBVIOUS
<1>1. CASE UNCHANGED vars
  BY <1>1 DEF IInv, vars, DelayLines, FifoOK, Load, InFlight, w_level
<1>2. CASE Next
  <2>1. PICK command, value : Clocked(command, value)
    BY <1>2, EveryStepIsACycle
  <2>2. Sequence(command = "start_run") /\ Queue(command = "get_output")
    BY <2>1 DEF Clocked
  <2>3. FifoOK' /\ w_level' \in Nat /\ w_level' <= w_level + Bit(out_word_done)
    BY <2>2, LevelRises DEF IInv
  <2>4. /\ DelayLines'
        /\ seq'.four_count + InFlight' + 4 * Bit(out_word_done)
             <= seq.four_count + InFlight + Bit(gate)
    BY <2>2, BitsMoveOn DEF IInv
  <2>5. w_level \in Nat
    BY LevelType DEF IInv
  <2>6. /\ InFlight \in 0 .. 6 /\ InFlight' \in 0 .. 6
        /\ seq.four_count \in 0 .. 3 /\ seq'.four_count \in 0 .. 3
    BY <2>4, SMT DEF IInv, DelayLines, InFlight, Bit
  <2>7. Bit(out_word_done) \in 0 .. 1
    BY SMT DEF Bit
  <2>8. Load' <= Load + Bit(gate)
    BY <2>3, <2>4, <2>5, <2>6, <2>7, SMT DEF Load, Bit
  <2>9. Load' <= 4 * (QueueDepth - Margin) + 6
    <3>1. CASE gate
      <4>1. w_level < QueueDepth - Margin
        BY <3>1 DEF gate, oq_has_space
      <4>2. Load <= 4 * (QueueDepth - Margin) + 5
        BY <4>1, <2>5, <2>6, ConstantsAssumption, SMT DEF Load
      <4> QED
        BY <4>2, <2>3, <2>5, <2>6, <2>8, <3>1, ConstantsAssumption, SMT DEF Load, Bit
    <3>2. CASE ~gate
      BY <3>2, <2>3, <2>5, <2>6, <2>8, ConstantsAssumption, SMT DEF Load, Bit, IInv
    <3> QED
      BY <3>1, <3>2
  <2> QED
    BY <2>3, <2>4, <2>9 DEF IInv
<1> QED
  BY <1>1, <1>2

\* With the bound, there is room for a word that is done.
LEMMA InvariantSuffices == IInv => NoOverflow
<1> SUFFICES ASSUME IInv, out_word_done PROVE w_level < QueueDepth
  BY DEF NoOverflow
<1>1. seq.four_count = 3 /\ seq.pp_delay[4]
  BY DEF out_word_done, pp_done
<1>2. InFlight \in Nat /\ InFlight >= 1
  BY <1>1, SMT DEF IInv, DelayLines, InFlight, Bit
<1>3. w_level \in Nat
  BY LevelType DEF IInv
<1> QED
  BY <1>1, <1>2, <1>3, ConstantsAssumption, SMT DEF IInv, Load

\* No word is written to a full output queue (mnv2_cfu.py, oq_has_space), for every
\* queue, every layer and every margin of one place or more: the eight places the
\* code keeps are more than its pipeline needs.
THEOREM QueueNeverOverflows == Spec => []NoOverflow
<1>1. Init => IInv
  BY InitInvariant
<1>2. IInv /\ [Next]_vars => IInv'
  BY StepInvariant
<1>3. IInv => NoOverflow
  BY InvariantSuffices
<1> QED
  BY <1>1, <1>2, <1>3, PTL DEF Spec

-----------------------------------------------------------------------------
(* Where the operands of a pixel are.  Of the `n` operands that were let   *)
(* in, `m` were accumulated, into `r` results and a part of one; of the    *)
(* results `b` were assembled, into `w` words and a part of one; and of    *)
(* these words the driver got `k`.                                         *)

Term(pixel, i) == <<pixel, i % InputWords, <<pixel[1], i>>>>

Multiplying(pixel, n, m) ==
  /\ n = m + Bit(seq.madd_delay[1]) + Bit(seq.madd_delay[2])
  /\ seq.madd_delay[1] => path.madd[1] = Term(pixel, n - 1)
  /\ seq.madd_delay[2] => path.madd[2] = Term(pixel, m)

Accumulating(pixel, m, r) ==
  /\ m = InputWords * r + seq.i_count
  /\ seq.i_count \in 0 .. InputWords - 1
  /\ path.acc = [j \in 1 .. seq.i_count |-> Term(pixel, InputWords * r + j - 1)]

\* The number of the parameters on the wires.
ParamsAt(r) == \A k \in Kinds : params[k].last_addr = IF r = Channels THEN 0 ELSE r

PostProcessing(pixel, r, b) ==
  LET b3 == b + Bit(seq.pp_delay[4])
      b2 == b3 + Bit(seq.pp_delay[3])
      b1 == b2 + Bit(seq.pp_delay[2])
  IN  /\ r = b1 + Bit(seq.pp_delay[1])
      /\ seq.pp_delay[1] => path.pp[1] = Result(pixel, b1)
      /\ seq.pp_delay[2] => path.pp[2] = Result(pixel, b2)
      /\ seq.pp_delay[3] => path.pp[3] = Result(pixel, b3)
      /\ seq.pp_delay[4] => path.pp[4] = Result(pixel, b)

BytesOK == \E S : path.btw \in Seq(S)

Assembling(pixel, b, w) ==
  /\ BytesOK
  /\ b = 4 * w + seq.four_count
  /\ Len(path.btw) \in seq.four_count .. 4
  /\ \A j \in 1 .. seq.four_count :
       path.btw[Len(path.btw) - seq.four_count + j] = Result(pixel, 4 * w + j - 1)

\* A queue that holds words k to w - 1, the first of them in its register if that
\* is in use.
Holds(pixel, w, k, fifo, out) ==
  LET o == IF out = None THEN 0 ELSE 1
  IN  /\ w = k + (Len(fifo) + o)
      /\ out # None => out = OutWord(pixel, k)
      /\ \A j \in 1 .. Len(fifo) : fifo[j] = OutWord(pixel, k + o + j - 1)

Queued(pixel, w, k) == Holds(pixel, w, k, oq.fifo, oq.out)

InPipe(pixel, n, k) ==
  \E m \in Nat :
    /\ Multiplying(pixel, n, m)
    /\ \E r \in Nat :
         /\ Accumulating(pixel, m, r) /\ ParamsAt(r)
         /\ \E b \in Nat :
              /\ PostProcessing(pixel, r, b)
              /\ \E w \in Nat : Assembling(pixel, b, w) /\ Queued(pixel, w, k)

\* The filter words of a bank.
Rows == FilterWords \div 4

-----------------------------------------------------------------------------
(* Arithmetic                                                              *)

\* Quotient and remainder, for a divisor that is not known.
LEMMA Division ==
  ASSUME NEW x \in Nat, NEW b \in Nat \ {0}
  PROVE  x \div b \in Nat /\ x % b \in 0 .. b - 1 /\ x = b * (x \div b) + (x % b)
BY SMT

\* A number's remainder, given the number as a multiple and a rest.
LEMMA Remainder ==
  ASSUME NEW b \in Nat \ {0}, NEW q \in Nat, NEW m \in 0 .. b - 1
  PROVE  (b * q + m) % b = m
<1> DEFINE x == b * q + m
           d == x \div b
           s == x % b
<1>1. x \in Nat
  BY SMT
<1>2. d \in Nat /\ s \in 0 .. b - 1 /\ x = b * d + s
  BY <1>1, Division
<1>3. b * d + s = b * q + m
  BY <1>2
<1> HIDE DEF x, d, s
<1>4. ASSUME d < q PROVE FALSE
  <2>1. b * (d + 1) <= b * q /\ b * (d + 1) = b * d + b
    BY <1>4, <1>2, SMT
  <2> QED
    BY <2>1, <1>2, <1>3, SMT
<1>5. ASSUME q < d PROVE FALSE
  <2>1. b * (q + 1) <= b * d /\ b * (q + 1) = b * q + b
    BY <1>5, <1>2, SMT
  <2> QED
    BY <2>1, <1>2, <1>3, SMT
<1>6. d = q
  BY <1>2, <1>4, <1>5, SMT
<1>7. s = m
  BY <1>2, <1>3, <1>6, SMT
<1> QED
  BY <1>7 DEF s, x

\* Counting on counts the remainder on, and back to zero at the divisor.
LEMMA NextRemainder ==
  ASSUME NEW x \in Nat, NEW b \in Nat \ {0}
  PROVE  (x + 1) % b = IF x % b = b - 1 THEN 0 ELSE (x % b) + 1
<1> DEFINE q == x \div b
           s == x % b
<1>1. q \in Nat /\ s \in 0 .. b - 1 /\ x = b * q + s
  BY Division
<1> HIDE DEF q, s
<1>2. CASE s = b - 1
  <2>1. x + 1 = b * (q + 1) + 0
    BY <1>1, <1>2, SMT
  <2>2. q + 1 \in Nat /\ 0 \in 0 .. b - 1
    BY <1>1, SMT
  <2>3. (b * (q + 1) + 0) % b = 0
    BY <2>2, Remainder
  <2> QED
    BY <2>1, <2>3, <1>2 DEF s
<1>3. CASE s # b - 1
  <2>1. x + 1 = b * q + (s + 1) /\ s + 1 \in 0 .. b - 1
    BY <1>1, <1>3, SMT
  <2>2. (b * q + (s + 1)) % b = s + 1
    BY <2>1, <1>1, Remainder
  <2> QED
    BY <2>1, <2>2, <1>3 DEF s
<1> QED
  BY <1>2, <1>3

\* The sizes of a layer.
LEMMA Sizes ==
  /\ InputWords \in Nat \ {0} /\ Channels \in Nat \ {0} /\ OutWords \in Nat \ {0}
  /\ FilterWords \in Nat \ {0} /\ Rows \in Nat \ {0}
  /\ Channels = 4 * OutWords /\ FilterWords = 4 * Rows
  /\ FilterWords = InputWords * Channels /\ FilterWords % InputWords = 0
  /\ Rows <= FilterDepth /\ FilterDepth \in Nat \ {0} /\ ParamDepth \in Nat \ {0}
  /\ Pixels \in Nat \ {0} /\ Batches \in Nat \ {0}
<1>1. /\ InputWords \in Nat \ {0} /\ Channels \in Nat \ {0} /\ Channels % 4 = 0
      /\ Pixels \in Nat \ {0} /\ Batches \in Nat \ {0}
  BY ConstantsAssumption
<1>2. /\ FilterDepth \in Nat \ {0} /\ ParamDepth \in Nat \ {0}
      /\ FilterWords <= 4 * FilterDepth
  BY ConstantsAssumption, DepthsAssumption
<1>3. OutWords \in Nat \ {0} /\ Channels = 4 * OutWords
  BY <1>1, SMT DEF OutWords
<1>4. FilterWords = InputWords * Channels /\ FilterWords \in Nat \ {0}
  BY <1>1, SMT DEF FilterWords
<1>5. FilterWords = 4 * (InputWords * OutWords) /\ InputWords * OutWords \in Nat
  BY <1>1, <1>3, <1>4, SMT
<1>6. Rows = InputWords * OutWords
  BY <1>5, SMT DEF Rows
<1>7. Rows \in Nat \ {0} /\ FilterWords = 4 * Rows
  BY <1>4, <1>5, <1>6, SMT
<1>8. FilterWords % InputWords = 0
  <2>1. 0 \in 0 .. InputWords - 1
    BY <1>1, SMT
  <2>2. (InputWords * Channels + 0) % InputWords = 0
    BY <2>1, <1>1, Remainder
  <2>3. InputWords * Channels + 0 = FilterWords
    BY <1>4, SMT
  <2> QED
    BY <2>2, <2>3
<1> QED
  BY <1>1, <1>2, <1>3, <1>4, <1>7, <1>8, SMT

-----------------------------------------------------------------------------
(* A cycle of the data path, stage by stage.                               *)

\* A count after a cycle in which the bit counts.
Follows(n2, n, b) == n2 = n + Bit(b)

\* What a counter that follows a bit becomes.
LEMMA FollowsValue ==
  ASSUME NEW n \in Nat, NEW b \in BOOLEAN, NEW n2, Follows(n2, n, b)
  PROVE  n2 \in Nat /\ (b => n2 = n + 1) /\ (~b => n2 = n)
<1>1. CASE b
  <2>1. n2 = n + 1
    BY <1>1 DEF Follows, Bit
  <2> QED
    BY <2>1, <1>1, SMT
<1>2. CASE ~b
  <2>1. n2 = n + 0
    BY <1>2 DEF Follows, Bit
  <2> QED
    BY <2>1, <1>2, SMT
<1> QED
  BY <1>1, <1>2

\* A bit as a number.
LEMMA BitType == \A b \in BOOLEAN : Bit(b) \in 0 .. 1 /\ (Bit(b) = 1 <=> b) /\ (Bit(b) = 0 <=> ~b)
BY DEF Bit

\* The sequencer's registers after a cycle.
LEMMA SequencerMoves ==
  ASSUME DelayLines, NEW start_run, Sequence(start_run)
  PROVE  /\ seq'.madd_delay[1] = gate /\ seq'.madd_delay[2] = seq.madd_delay[1]
         /\ seq'.pp_delay[1] = acc_done /\ seq'.pp_delay[2] = seq.pp_delay[1]
         /\ seq'.pp_delay[3] = seq.pp_delay[2] /\ seq'.pp_delay[4] = seq.pp_delay[3]
         /\ seq'.start_run = start_run /\ seq'.running = still_running
         /\ seq'.f_count = Count(gate, seq.f_count, filters.count)
         /\ seq'.i_count = Count(madd_done, seq.i_count, InputWords)
         /\ seq'.four_count = Count(pp_done, seq.four_count, 4)
BY SMT DEF Sequence

\* The bits are Booleans.
LEMMA BitsAreBooleans ==
  ASSUME DelayLines
  PROVE  /\ \A i \in 1 .. 2 : seq.madd_delay[i] \in BOOLEAN
         /\ \A i \in 1 .. 4 : seq.pp_delay[i] \in BOOLEAN
         /\ seq.madd_delay[1] \in BOOLEAN /\ seq.madd_delay[2] \in BOOLEAN
         /\ seq.pp_delay[1] \in BOOLEAN /\ seq.pp_delay[2] \in BOOLEAN
         /\ seq.pp_delay[3] \in BOOLEAN /\ seq.pp_delay[4] \in BOOLEAN
         /\ madd_done = seq.madd_delay[2] /\ pp_done = seq.pp_delay[4]
         /\ gate \in BOOLEAN /\ madd_done \in BOOLEAN /\ acc_done \in BOOLEAN
         /\ pp_done \in BOOLEAN /\ out_word_done \in BOOLEAN
         /\ (acc_done => madd_done) /\ (out_word_done => pp_done)
<1>1. /\ \A i \in 1 .. 2 : seq.madd_delay[i] \in BOOLEAN
      /\ \A i \in 1 .. 4 : seq.pp_delay[i] \in BOOLEAN
  BY SMT DEF DelayLines
<1>2. /\ seq.madd_delay[1] \in BOOLEAN /\ seq.madd_delay[2] \in BOOLEAN
      /\ seq.pp_delay[1] \in BOOLEAN /\ seq.pp_delay[2] \in BOOLEAN
      /\ seq.pp_delay[3] \in BOOLEAN /\ seq.pp_delay[4] \in BOOLEAN
  BY <1>1, SMT
<1> QED
  BY <1>1, <1>2, Zenon DEF gate, madd_done, acc_done, pp_done, out_word_done

\* Operands that are let in come out of the multipliers as they went in.
LEMMA MultiplyingStep ==
  ASSUME DelayLines, NEW start_run, Sequence(start_run), Compute,
         NEW pixel, NEW n \in Nat, NEW m \in Nat, NEW n2, NEW m2,
         Multiplying(pixel, n, m), Follows(n2, n, gate), Follows(m2, m, madd_done),
         gate => Operands = Term(pixel, n)
  PROVE  Multiplying(pixel, n2, m2)' /\ (madd_done => path.madd[2] = Term(pixel, m))
<1> DEFINE d1 == seq.madd_delay[1]
           d2 == seq.madd_delay[2]
<1>1. seq'.madd_delay[1] = gate /\ seq'.madd_delay[2] = d1
  BY SequencerMoves
<1>2. path'.madd = <<Operands, path.madd[1]>>
  BY DEF Compute
<1>3. path'.madd[1] = Operands /\ path'.madd[2] = path.madd[1]
  BY <1>2, SMT
<1>4. /\ n = m + Bit(d1) + Bit(d2)
      /\ d1 => path.madd[1] = Term(pixel, n - 1)
      /\ d2 => path.madd[2] = Term(pixel, m)
  BY DEF Multiplying
<1>5. madd_done = d2 /\ d1 \in BOOLEAN /\ d2 \in BOOLEAN /\ gate \in BOOLEAN
  BY BitsAreBooleans
<1> HIDE DEF d1, d2
<1> DEFINE g == Bit(gate)
           b1 == Bit(d1)
           b2 == Bit(d2)
<1>6. /\ b1 \in 0 .. 1 /\ b2 \in 0 .. 1 /\ g \in 0 .. 1 /\ (d1 => b1 = 1) /\ (gate => g = 1)
      /\ n = m + b1 + b2 /\ n2 = n + g /\ m2 = m + b2
  BY <1>4, <1>5, BitType DEF Follows
<1> HIDE DEF g, b1, b2
<1>7. n2 = m2 + g + b1
  BY <1>6, SMT
<1>8. gate => Operands = Term(pixel, n2 - 1)
  <2>1. g = 1 => n2 - 1 = n
    BY <1>6, SMT
  <2> QED
    BY <2>1, <1>6
<1>9. d1 => path.madd[1] = Term(pixel, m2)
  <2>1. CASE d1
    <3>1. n - 1 = m2
      BY <1>6, <2>1, SMT
    <3> QED
      BY <3>1, <1>4, <2>1
  <2> QED
    BY <2>1
<1>10. /\ n2 = m2 + Bit(seq'.madd_delay[1]) + Bit(seq'.madd_delay[2])
       /\ seq'.madd_delay[1] => path'.madd[1] = Term(pixel, n2 - 1)
       /\ seq'.madd_delay[2] => path'.madd[2] = Term(pixel, m2)
  BY <1>1, <1>3, <1>7, <1>8, <1>9 DEF g, b1
<1> QED
  BY <1>4, <1>5, <1>10 DEF Multiplying

\* A function on the first numbers is a sequence.
LEMMA FunctionIsSequence ==
  ASSUME NEW S, NEW c \in Nat, NEW s \in [1 .. c -> S]
  PROVE  s \in Seq(S) /\ Len(s) = c
BY SMT

\* A term that is appended to the terms so far.
LEMMA AppendTerm ==
  ASSUME NEW pixel, NEW base \in Nat, NEW c \in Nat, NEW s,
         s = [j \in 1 .. c |-> Term(pixel, base + j - 1)]
  PROVE  Append(s, Term(pixel, base + c)) = [j \in 1 .. c + 1 |-> Term(pixel, base + j - 1)]
<1> DEFINE S == {Term(pixel, i) : i \in Nat}
           x == Term(pixel, base + c)
           t == [j \in 1 .. c + 1 |-> Term(pixel, base + j - 1)]
<1>1. \A j \in 1 .. c + 1 : Term(pixel, base + j - 1) \in S
  <2> TAKE j \in 1 .. c + 1
  <2>1. base + j - 1 \in Nat
    BY SMT
  <2> QED
    BY <2>1
<1> HIDE DEF S
<1>2. s \in Seq(S) /\ Len(s) = c /\ t \in Seq(S) /\ Len(t) = c + 1
  <2>1. s \in [1 .. c -> S]
    <3>1. \A j \in 1 .. c : j \in 1 .. c + 1
      BY SMT
    <3> QED
      BY <1>1, <3>1
  <2>2. t \in [1 .. c + 1 -> S]
    BY <1>1
  <2>3. c + 1 \in Nat
    BY SMT
  <2> HIDE DEF t
  <2> QED
    BY <2>1, <2>2, <2>3, FunctionIsSequence, Zenon
<1>3. x \in S
  BY SMT DEF S
<1>4. Append(s, x) \in Seq(S) /\ Len(Append(s, x)) = c + 1
  BY <1>2, <1>3, SMT
<1>5. \A j \in 1 .. c + 1 : Append(s, x)[j] = t[j]
  <2> TAKE j \in 1 .. c + 1
  <2>1. CASE j = c + 1
    <3>1. Append(s, x)[j] = x
      BY <1>2, <2>1, SMT
    <3>2. base + j - 1 = base + c
      BY <2>1, SMT
    <3>3. t[j] = Term(pixel, base + j - 1)
      OBVIOUS
    <3> QED
      BY <3>1, <3>2, <3>3
  <2>2. CASE j # c + 1
    <3>1. j \in 1 .. c
      BY <2>2, SMT
    <3>2. Append(s, x)[j] = s[j]
      BY <1>2, <3>1, SMT
    <3>3. s[j] = Term(pixel, base + j - 1) /\ t[j] = Term(pixel, base + j - 1)
      BY <3>1
    <3> QED
      BY <3>2, <3>3
  <2> QED
    BY <2>1, <2>2
<1> HIDE DEF x, t
<1>6. Append(s, x) = t
  BY <1>2, <1>4, <1>5, SMT
<1> QED
  BY <1>6 DEF x, t

Terms(pixel, r, c) == [j \in 1 .. c |-> Term(pixel, InputWords * r + j - 1)]

\* The accumulator gathers the products of one result at a time.
LEMMA AccumulatingStep ==
  ASSUME DelayLines, NEW start_run, Sequence(start_run), Compute,
         NEW pixel, NEW m \in Nat, NEW r \in Nat, NEW m2, NEW r2,
         Accumulating(pixel, m, r), Follows(m2, m, madd_done), Follows(r2, r, acc_done),
         madd_done => path.madd[2] = Term(pixel, m)
  PROVE  /\ Accumulating(pixel, m2, r2)'
         /\ acc_done => acc_result = Terms(pixel, r, InputWords) /\ m2 = InputWords * r + InputWords
<1> DEFINE c == seq.i_count
           base == InputWords * r
<1>1. InputWords \in Nat \ {0}
  BY Sizes
<1>2. m = base + c /\ c \in 0 .. InputWords - 1 /\ path.acc = Terms(pixel, r, c)
  BY DEF Accumulating, Terms
<1>3. seq'.i_count = Count(madd_done, c, InputWords) /\ path'.acc = next_acc
  BY SequencerMoves DEF Compute
<1>4. /\ madd_done \in BOOLEAN /\ acc_done \in BOOLEAN /\ (acc_done => madd_done)
      /\ acc_done = (madd_done /\ c = InputWords - 1)
  BY BitsAreBooleans DEF acc_done
<1>5. /\ madd_done => m2 = m + 1
      /\ ~madd_done => m2 = m
      /\ acc_done => r2 = r + 1
      /\ ~acc_done => r2 = r
  BY <1>4, FollowsValue
<1>6. InputWords * (r + 1) = base + InputWords
  BY <1>1, SMT
<1>11. base \in Nat
  BY <1>1, SMT
<1>7. ASSUME madd_done PROVE acc_result = Terms(pixel, r, c + 1)
  <2>1. path.madd[2] = Term(pixel, base + c)
    BY <1>2, <1>7
  <2>2. path.acc = [j \in 1 .. c |-> Term(pixel, base + j - 1)]
    BY <1>2 DEF Terms
  <2>3. c \in Nat
    BY <1>1, <1>2, SMT
  <2> HIDE DEF c, base
  <2>4. Append(path.acc, Term(pixel, base + c)) = [j \in 1 .. c + 1 |-> Term(pixel, base + j - 1)]
    BY <2>2, <2>3, <1>6, AppendTerm
  <2> QED
    BY <2>1, <2>4 DEF acc_result, Terms, base
<1>8. CASE acc_done
  <2>1. madd_done /\ c = InputWords - 1 /\ m2 = m + 1 /\ r2 = r + 1
    BY <1>4, <1>5, <1>8
  <2>2. seq'.i_count = 0 /\ path'.acc = <<>>
    BY <1>3, <1>8, <2>1 DEF Count, next_acc
  <2> HIDE DEF base, c
  <2>3. /\ c + 1 = InputWords /\ m2 = base + InputWords /\ 0 \in 0 .. InputWords - 1
    BY <1>1, <1>2, <1>11, <2>1, SMT
  <2>6. m2 = InputWords * r2 + 0
    <3>1. base + InputWords = (base + InputWords) + 0
      BY <1>1, <1>11, SMT
    <3> QED
      BY <1>6, <2>1, <2>3, <3>1
  <2>4. <<>> = [j \in 1 .. 0 |-> Term(pixel, InputWords * r2 + j - 1)]
    BY SMT
  <2>5. Accumulating(pixel, m2, r2)'
    BY <2>2, <2>3, <2>4, <2>6 DEF Accumulating, c
  <2> QED
    BY <2>1, <2>3, <2>5, <1>7, <1>8 DEF base
<1>9. CASE madd_done /\ ~acc_done
  <2>1. c # InputWords - 1 /\ m2 = m + 1 /\ r2 = r
    BY <1>4, <1>5, <1>9
  <2>2. seq'.i_count = c + 1 /\ path'.acc = Terms(pixel, r, c + 1)
    BY <1>3, <1>7, <1>9, <2>1 DEF Count, next_acc
  <2> HIDE DEF base, c
  <2>3. r2 = r /\ m2 = base + (c + 1) /\ c + 1 \in 0 .. InputWords - 1
    BY <1>1, <1>2, <1>11, <2>1, SMT
  <2>4. Accumulating(pixel, m2, r2)'
    BY <2>2, <2>3 DEF Accumulating, Terms, base, c
  <2> QED
    BY <2>4, <1>9
<1>10. CASE ~madd_done
  <2>1. ~acc_done /\ m2 = m /\ r2 = r
    BY <1>4, <1>5, <1>10
  <2>2. seq'.i_count = c /\ path'.acc = Terms(pixel, r, c)
    BY <1>2, <1>3, <1>10, <2>1 DEF Count, next_acc
  <2>3. r2 = r /\ m2 = m
    BY <1>1, <1>2, <1>11, <2>1, SMT
  <2>4. Accumulating(pixel, m2, r2)'
    BY <1>2, <2>2, <2>3 DEF Accumulating, Terms
  <2> QED
    BY <2>1, <2>4
<1> QED
  BY <1>8, <1>9, <1>10, <1>4

\* What is done with a bit, in numbers.
LEMMA BitValue ==
  ASSUME NEW b \in BOOLEAN
  PROVE  /\ Bit(b) \in Nat /\ Bit(b) \in 0 .. 1
         /\ b => Bit(b) = 1
         /\ ~b => Bit(b) = 0
BY DEF Bit

\* A line of four registers moves on by one place.
LEMMA ShiftFour ==
  ASSUME NEW x, NEW p, NEW q, q = <<x>> \o SubSeq(p, 1, 3)
  PROVE  q[1] = x /\ q[2] = p[1] /\ q[3] = p[2] /\ q[4] = p[3]
BY SMT

\* Results leave the post-processor in the order in which they came.
LEMMA PostProcessingStep ==
  ASSUME DelayLines, NEW start_run, Sequence(start_run), Compute,
         NEW pixel, NEW r \in Nat, NEW b \in Nat, NEW r2, NEW b2,
         PostProcessing(pixel, r, b), Follows(r2, r, acc_done), Follows(b2, b, pp_done),
         acc_done => [acc |-> acc_result, param |-> param_data] = Result(pixel, r)
  PROVE  PostProcessing(pixel, r2, b2)' /\ (pp_done => path.pp[4] = Result(pixel, b))
<1> DEFINE e1 == Bit(seq.pp_delay[1])
           e2 == Bit(seq.pp_delay[2])
           e3 == Bit(seq.pp_delay[3])
           e4 == Bit(seq.pp_delay[4])
           e0 == Bit(acc_done)
<1>1. /\ seq'.pp_delay[1] = acc_done /\ seq'.pp_delay[2] = seq.pp_delay[1]
      /\ seq'.pp_delay[3] = seq.pp_delay[2] /\ seq'.pp_delay[4] = seq.pp_delay[3]
  BY SequencerMoves
<1>2. path'.pp = <<IF acc_done THEN [acc |-> acc_result, param |-> param_data] ELSE None>>
                   \o SubSeq(path.pp, 1, 3)
  BY DEF Compute
<1>3. /\ acc_done => path'.pp[1] = Result(pixel, r)
      /\ path'.pp[2] = path.pp[1] /\ path'.pp[3] = path.pp[2] /\ path'.pp[4] = path.pp[3]
  BY <1>2, ShiftFour
<1>4. /\ r = b + e4 + e3 + e2 + e1
      /\ seq.pp_delay[1] => path.pp[1] = Result(pixel, b + e4 + e3 + e2)
      /\ seq.pp_delay[2] => path.pp[2] = Result(pixel, b + e4 + e3)
      /\ seq.pp_delay[3] => path.pp[3] = Result(pixel, b + e4)
      /\ seq.pp_delay[4] => path.pp[4] = Result(pixel, b)
  BY DEF PostProcessing
<1>5. /\ e1 \in Nat /\ e2 \in Nat /\ e3 \in Nat /\ e4 \in Nat /\ e0 \in Nat
      /\ pp_done = seq.pp_delay[4]
  BY BitsAreBooleans, BitValue
<1>6. r2 = r + e0 /\ b2 = b + e4
  BY <1>5 DEF Follows
<1> HIDE DEF e0, e1, e2, e3, e4
<1>7. r2 = b2 + e3 + e2 + e1 + e0
  BY <1>4, <1>5, <1>6, SMT
<1>8. /\ acc_done => path'.pp[1] = Result(pixel, b2 + e3 + e2 + e1)
      /\ seq.pp_delay[1] => path'.pp[2] = Result(pixel, b2 + e3 + e2)
      /\ seq.pp_delay[2] => path'.pp[3] = Result(pixel, b2 + e3)
      /\ seq.pp_delay[3] => path'.pp[4] = Result(pixel, b2)
  <2>1. r = b2 + e3 + e2 + e1
    BY <1>4, <1>6
  <2> QED
    BY <1>3, <1>4, <1>6, <2>1
<1>9. PostProcessing(pixel, r2, b2)'
  BY <1>1, <1>7, <1>8 DEF PostProcessing, e0, e1, e2, e3
<1> QED
  BY <1>4, <1>5, <1>9

\* The elements of a sequence and one more.
LEMMA AppendElements ==
  ASSUME NEW S, NEW s \in Seq(S), NEW x \in S
  PROVE  /\ Append(s, x) \in Seq(S) /\ Len(Append(s, x)) = Len(s) + 1
         /\ Append(s, x)[Len(s) + 1] = x /\ \A j \in 1 .. Len(s) : Append(s, x)[j] = s[j]
         /\ Len(s) \in Nat
BY SMT

\* The elements of a sequence without its first.
LEMMA TailElements ==
  ASSUME NEW S, NEW s \in Seq(S), s # <<>>
  PROVE  /\ Tail(s) \in Seq(S) /\ Len(Tail(s)) = Len(s) - 1
         /\ \A j \in 1 .. Len(s) - 1 : Tail(s)[j] = s[j + 1]
         /\ Head(s) = s[1] /\ Len(s) \in Nat \ {0}
BY SMT

\* A byte that is shifted in at the end of at most four.
Shifted(s, x) == IF Len(Append(s, x)) > 4 THEN Tail(Append(s, x)) ELSE Append(s, x)

\* t is s with x after it, the last four of them.
LastFour(t, s, x) ==
  /\ \E T : t \in Seq(T)
  /\ Len(t) = IF Len(s) = 4 THEN 4 ELSE Len(s) + 1
  /\ t[Len(t)] = x
  /\ \A j \in 1 .. Len(t) - 1 : t[j] = s[j + Len(s) + 1 - Len(t)]

\* The ByteToWordShifter keeps the last four bytes.
LEMMA ShiftIn ==
  ASSUME NEW S, NEW s \in Seq(S), Len(s) <= 4, NEW x
  PROVE  LastFour(Shifted(s, x), s, x)
<1> DEFINE T == S \cup {x}
           a == Append(s, x)
           t == Shifted(s, x)
<1>1. s \in Seq(T) /\ Len(s) \in Nat /\ x \in T
  BY SMT
<1> HIDE DEF T
<1>2. a \in Seq(T) /\ Len(a) = Len(s) + 1
  BY <1>1, AppendElements
<1>3. a[Len(s) + 1] = x /\ \A j \in 1 .. Len(s) : a[j] = s[j]
  BY <1>1, AppendElements
<1>6. t = IF Len(a) > 4 THEN Tail(a) ELSE a
  BY DEF Shifted
<1> HIDE DEF a, t
<1>4. CASE Len(s) = 4
  <2>1. Len(a) = 5 /\ Len(a) > 4 /\ a # <<>> /\ Len(a) - 1 = 4
    BY <1>2, <1>4, SMT
  <2>5. t = Tail(a)
    BY <1>6, <2>1
  <2>2. t \in Seq(T) /\ Len(t) = 4 /\ \A j \in 1 .. 4 : t[j] = a[j + 1]
    <3>1. /\ Tail(a) \in Seq(T) /\ Len(Tail(a)) = Len(a) - 1
          /\ \A j \in 1 .. Len(a) - 1 : Tail(a)[j] = a[j + 1]
      BY <1>2, <2>1, TailElements
    <3> QED
      BY <3>1, <2>1, <2>5
  <2>3. t[4] = x /\ \A j \in 1 .. 3 : t[j] = s[j + 1]
    <3>1. 4 + 1 = 5 /\ 4 \in 1 .. 4 /\ \A j \in 1 .. 3 : j \in 1 .. 4 /\ j + 1 \in 1 .. 4
      BY SMT
    <3> QED
      BY <3>1, <1>3, <1>4, <2>2
  <2>4. \A j \in 1 .. 3 : j + 4 + 1 - 4 = j + 1
    BY SMT
  <2>6. 4 - 1 = 3
    BY SMT
  <2> QED
    BY <1>4, <2>2, <2>3, <2>4, <2>6 DEF t, LastFour
<1>5. CASE Len(s) # 4
  <2>1. t = a
    <3> DEFINE k == Len(s)
               l == Len(a)
    <3>2. k \in Nat /\ k <= 4 /\ k # 4 /\ l = k + 1
      BY <1>1, <1>2, <1>5
    <3> HIDE DEF k, l
    <3>3. ~(l > 4)
      BY <3>2, SMT
    <3>1. ~(Len(a) > 4)
      BY <3>3 DEF l
    <3> QED
      BY <3>1, <1>6
  <2>2. Len(t) = Len(s) + 1 /\ \A j \in 1 .. Len(s) : t[j] = s[j]
    BY <1>2, <1>3, <2>1
  <2>3. Len(t) - 1 = Len(s) /\ \A j \in 1 .. Len(s) : j + Len(s) + 1 - Len(t) = j
    BY <1>1, <2>2, SMT
  <2> QED
    BY <1>2, <1>3, <1>5, <2>1, <2>2, <2>3 DEF t, LastFour
<1> QED
  BY <1>4, <1>5

\* Four results make a word.
LEMMA AssemblingStep ==
  ASSUME DelayLines, NEW start_run, Sequence(start_run), Compute,
         NEW pixel, NEW b \in Nat, NEW w \in Nat, NEW b2, NEW w2,
         Assembling(pixel, b, w), Follows(b2, b, pp_done), Follows(w2, w, out_word_done),
         pp_done => path.pp[4] = Result(pixel, b)
  PROVE  Assembling(pixel, b2, w2)' /\ (out_word_done => btw_result = OutWord(pixel, w))
<1> DEFINE c == seq.four_count
           s == path.btw
<1>1. /\ b = 4 * w + c /\ Len(s) \in c .. 4
      /\ \A j \in 1 .. c : s[Len(s) - c + j] = Result(pixel, 4 * w + j - 1)
  BY DEF Assembling
<1>2. PICK S : s \in Seq(S)
  BY DEF Assembling, BytesOK
<1>3. Len(s) \in Nat /\ c \in 0 .. 3 /\ c <= Len(s) /\ Len(s) <= 4
  BY <1>1, <1>2, SMT DEF DelayLines
<1>4. /\ seq'.four_count = Count(pp_done, c, 4)
      /\ path'.btw = IF pp_done THEN btw_result ELSE s
  BY SequencerMoves DEF Compute
<1>8. /\ pp_done \in BOOLEAN /\ out_word_done \in BOOLEAN
      /\ out_word_done = (pp_done /\ c = 3)
  BY BitsAreBooleans DEF out_word_done
<1>5. /\ pp_done => b2 = b + 1
      /\ ~pp_done => b2 = b
      /\ out_word_done => w2 = w + 1
      /\ ~out_word_done => w2 = w
      /\ out_word_done = (pp_done /\ c = 3)
  BY <1>8, FollowsValue
<1>6. CASE ~pp_done
  <2>1. ~out_word_done
    BY <1>5, <1>6
  <2>3. b2 = b /\ w2 = w
    BY <1>5, <1>6, <2>1
  <2>4. seq'.four_count = c /\ path'.btw = s
    BY <1>4, <1>6 DEF Count
  <2>5. BytesOK'
    BY <1>2, <2>4 DEF BytesOK
  <2> QED
    BY <1>1, <2>1, <2>3, <2>4, <2>5 DEF Assembling
<1>7. CASE pp_done
  <2> DEFINE x == path.pp[4]
             t == btw_result
  <2>1. x = Result(pixel, b) /\ b2 = b + 1
    BY <1>5, <1>7
  <2>2. t = Shifted(s, x)
    BY DEF btw_result, Shifted
  <2> HIDE DEF x, t
  <2>3. LastFour(t, s, x)
    <3>1. s \in Seq(S) /\ Len(s) <= 4
      BY <1>2, <1>3
    <3> QED
      BY <3>1, <2>2, ShiftIn
  <2>8. /\ \E T : t \in Seq(T)
        /\ Len(t) = IF Len(s) = 4 THEN 4 ELSE Len(s) + 1
        /\ t[Len(t)] = x
        /\ \A j \in 1 .. Len(t) - 1 : t[j] = s[j + Len(s) + 1 - Len(t)]
    BY <2>3 DEF LastFour
  <2>4. path'.btw = t /\ BytesOK'
    <3>1. path'.btw = t
      BY <1>4, <1>7 DEF t
    <3> QED
      BY <2>8, <3>1 DEF BytesOK
  <2> DEFINE d == c + 1
  <2>5. /\ Len(t) \in d .. 4 /\ d \in 1 .. 4 /\ Len(t) \in Nat
        /\ \A j \in 1 .. d : t[Len(t) - d + j] = Result(pixel, 4 * w + j - 1)
    <3> HIDE DEF c
    <3>3. Len(t) = IF Len(s) = 4 THEN 4 ELSE Len(s) + 1
      BY <2>8
    <3> DEFINE l == Len(t)
               k == Len(s)
    <3>4. l = (IF k = 4 THEN 4 ELSE k + 1) /\ k \in Nat /\ c \in 0 .. 3 /\ c <= k /\ k <= 4
      BY <1>3, <3>3
    <3> HIDE DEF l, k
    <3>5. l \in d .. 4 /\ d \in 1 .. 4 /\ l \in Nat
      BY <3>4, SMT
    <3>1. Len(t) \in d .. 4 /\ d \in 1 .. 4 /\ Len(t) \in Nat
      BY <3>5 DEF l
    <3>2. ASSUME NEW j \in 1 .. d PROVE t[Len(t) - d + j] = Result(pixel, 4 * w + j - 1)
      <4>1. CASE j = d
        <5>1. Len(t) - d + j = Len(t) /\ 4 * w + j - 1 = b
          BY <1>1, <1>3, <3>1, <4>1, SMT
        <5> QED
          BY <5>1, <2>1, <2>8
      <4>2. CASE j # d
        <5>1. j \in 1 .. c
          BY <1>3, <4>2, SMT
        <5> DEFINE i == Len(t) - d + j
        <5>4. l - d + j \in 1 .. l - 1 /\ (l - d + j) + k + 1 - l = k - c + j
          BY <3>4, <3>5, <5>1, SMT
        <5>2. i \in 1 .. Len(t) - 1 /\ i + Len(s) + 1 - Len(t) = Len(s) - c + j
          BY <5>4 DEF l, k
        <5> HIDE DEF i
        <5>3. t[i] = s[Len(s) - c + j]
          BY <2>8, <5>2
        <5> QED
          BY <1>1, <5>1, <5>3 DEF i
      <4> QED
        BY <4>1, <4>2
    <3> QED
      BY <3>1, <3>2
  <2>6. CASE c = 3
    <3>1. out_word_done
      BY <1>5, <1>7, <2>6
    <3>2. seq'.four_count = 0
      BY <1>4, <1>7, <2>6 DEF Count
    <3>3. b2 = b + 1 /\ w2 = w + 1
      BY <2>1, <3>1, <1>5
    <3>4. b2 = 4 * w2 + 0
      BY <1>1, <2>6, <3>3, SMT
    <3>5. Len(t) = 4 /\ Len(t) \in 0 .. 4
      BY <2>5, <2>6, SMT
    <3>6. Assembling(pixel, b2, w2)'
      BY <2>4, <3>2, <3>4, <3>5 DEF Assembling
    <3>7. t = OutWord(pixel, w)
      <4>1. \A j \in 1 .. 4 : t[j] = Result(pixel, 4 * w + j - 1)
        <5> TAKE j \in 1 .. 4
        <5>1. j \in 1 .. d /\ Len(t) - d + j = j
          BY <2>6, <3>5, SMT
        <5> QED
          BY <2>5, <5>1
      <4> DEFINE f == [i \in 1 .. 4 |-> Result(pixel, 4 * w + i - 1)]
      <4>2. \A j \in 1 .. 4 : t[j] = f[j]
        BY <4>1
      <4>3. t = [i \in 1 .. 4 |-> t[i]]
        BY <2>8, <3>5, SMT
      <4> QED
        BY <4>2, <4>3 DEF OutWord
    <3> QED
      BY <3>6, <3>7 DEF t
  <2>7. CASE c # 3
    <3>1. ~out_word_done
      BY <1>5, <2>7
    <3>2. seq'.four_count = d
      BY <1>4, <1>7, <2>7 DEF Count
    <3>3. b2 = b + 1 /\ w2 = w
      BY <2>1, <3>1, <1>5
    <3>4. w2 = w /\ b2 = 4 * w2 + d
      BY <1>1, <1>3, <3>3, SMT
    <3>6. Assembling(pixel, b2, w2)'
      BY <2>4, <2>5, <3>2, <3>4 DEF Assembling
    <3> QED
      BY <3>1, <3>6
  <2> QED
    BY <2>6, <2>7
<1> QED
  BY <1>6, <1>7, <1>5

\* A word that comes next is written to the queue.
LEMMA HoldsAppend ==
  ASSUME NEW pixel, NEW w \in Nat, NEW k \in Nat, NEW S, NEW fifo \in Seq(S), NEW out,
         Holds(pixel, w, k, fifo, out)
  PROVE  Holds(pixel, w + 1, k, Append(fifo, OutWord(pixel, w)), out)
<1> DEFINE o == IF out = None THEN 0 ELSE 1
           x == OutWord(pixel, w)
           T == S \cup {x}
           t == Append(fifo, x)
           l == Len(fifo)
<1>1. /\ w = k + (l + o)
      /\ out # None => out = OutWord(pixel, k)
      /\ \A j \in 1 .. l : fifo[j] = OutWord(pixel, k + o + j - 1)
      /\ o \in Nat
  BY DEF Holds
<1>2. fifo \in Seq(T) /\ x \in T
  <2> HIDE DEF x
  <2> QED
    BY SMT
<1> HIDE DEF T, x
<1>3. Len(t) = l + 1 /\ t[l + 1] = x /\ \A j \in 1 .. l : t[j] = fifo[j]
  BY <1>2, AppendElements
<1>6. l \in Nat
  BY <1>2, AppendElements
<1> HIDE DEF o, t, l
<1>7. w = k + (l + o) /\ o \in Nat
  BY <1>1
<1>4. w + 1 = k + (l + 1 + o)
  BY <1>6, <1>7, SMT
<1>5. ASSUME NEW j \in 1 .. l + 1 PROVE t[j] = OutWord(pixel, k + o + j - 1)
  <2>1. CASE j = l + 1
    <3>1. k + o + j - 1 = w
      BY <1>6, <1>7, <2>1, SMT
    <3> QED
      BY <1>3, <2>1, <3>1 DEF x
  <2>2. CASE j # l + 1
    <3>1. j \in 1 .. l
      BY <1>6, <2>2, SMT
    <3> QED
      BY <1>1, <1>3, <3>1
  <2> QED
    BY <2>1, <2>2
<1> QED
  BY <1>1, <1>3, <1>4, <1>5 DEF Holds, o, t, x

\* The next word of the queue moves to the register in front of it.
LEMMA HoldsTail ==
  ASSUME NEW pixel, NEW w \in Nat, NEW k \in Nat, NEW S, NEW fifo \in Seq(S), NEW out, NEW k2,
         Holds(pixel, w, k, fifo, out), fifo # <<>>,
         k2 = k + IF out = None THEN 0 ELSE 1,
         \A i \in k .. w - 1 : OutWord(pixel, i) # None
  PROVE  Holds(pixel, w, k2, Tail(fifo), Head(fifo))
<1> DEFINE o == IF out = None THEN 0 ELSE 1
           t == Tail(fifo)
           h == Head(fifo)
           l == Len(fifo)
<1>1. /\ w = k + (l + o)
      /\ \A j \in 1 .. l : fifo[j] = OutWord(pixel, k + o + j - 1)
      /\ o \in 0 .. 1
  BY DEF Holds
<1>2. Len(t) = l - 1 /\ h = fifo[1] /\ \A j \in 1 .. l - 1 : t[j] = fifo[j + 1]
  BY TailElements
<1>3. l \in Nat \ {0}
  BY TailElements
<1>4. k2 = k + o
  OBVIOUS
<1> HIDE DEF o, t, h, l
<1>5. 1 \in 1 .. l /\ k + o + 1 - 1 = k2 /\ k2 \in k .. w - 1 /\ w = k2 + (l - 1 + 1)
  BY <1>1, <1>3, <1>4, SMT
<1>6. h = OutWord(pixel, k2) /\ h # None
  BY <1>1, <1>2, <1>5
<1>7. ASSUME NEW j \in 1 .. l - 1 PROVE t[j] = OutWord(pixel, k2 + 1 + j - 1)
  <2>1. j + 1 \in 1 .. l /\ k + o + (j + 1) - 1 = k2 + 1 + j - 1
    BY <1>1, <1>3, <1>4, SMT
  <2> QED
    BY <1>1, <1>2, <2>1
<1>8. /\ w = k2 + (Len(t) + 1) /\ h # None /\ h = OutWord(pixel, k2)
      /\ \A j \in 1 .. Len(t) : t[j] = OutWord(pixel, k2 + 1 + j - 1)
  BY <1>2, <1>5, <1>6, <1>7
<1>9. Holds(pixel, w, k2, t, h)
  BY <1>8 DEF Holds
<1> QED
  BY <1>9 DEF t, h

\* Words leave the queue in the order in which they came, and none is lost.
LEMMA QueuedStep ==
  ASSUME FifoOK, NEW r_en \in BOOLEAN, Queue(r_en), NoOverflow, out_word_done \in BOOLEAN,
         NEW pixel, NEW w \in Nat, NEW k \in Nat, NEW w2, NEW k2,
         Queued(pixel, w, k), Follows(w2, w, out_word_done), Follows(k2, k, r_en /\ oq.out # None),
         out_word_done => btw_result = OutWord(pixel, w),
         \A i \in k .. w - 1 : OutWord(pixel, i) # None
  PROVE  Queued(pixel, w2, k2)'
<1> DEFINE moves == oq.fifo # <<>> /\ (oq.out = None \/ r_en)
           kept == IF moves THEN Tail(oq.fifo) ELSE oq.fifo
           out2 == IF moves THEN Head(oq.fifo) ELSE IF r_en THEN None ELSE oq.out
<1>1. PICK S : oq.fifo \in Seq(S)
  BY DEF FifoOK
<1>2. /\ out_word_done => w_level < QueueDepth
      /\ oq'.out = out2
      /\ oq'.fifo = IF out_word_done /\ w_level < QueueDepth
                    THEN Append(kept, btw_result) ELSE kept
  BY DEF Queue, NoOverflow
<1>3. Holds(pixel, w, k, oq.fifo, oq.out)
  BY DEF Queued
<1>4. /\ k2 \in Nat /\ w2 \in Nat
      /\ (out_word_done => w2 = w + 1) /\ (~out_word_done => w2 = w)
      /\ (r_en /\ oq.out # None => k2 = k + 1) /\ (~(r_en /\ oq.out # None) => k2 = k)
  BY FollowsValue
<1>5. Holds(pixel, w, k2, kept, out2) /\ kept \in Seq(S)
  <2>1. CASE moves
    <3>1. k2 = k + IF oq.out = None THEN 0 ELSE 1
      <4>1. CASE oq.out = None
        <5>1. k2 = k /\ k = k + 0
          BY <1>4, <4>1, SMT
        <5> QED
          BY <4>1, <5>1
      <4>2. CASE oq.out # None
        BY <1>4, <2>1, <4>2
      <4> QED
        BY <4>1, <4>2
    <3>2. Holds(pixel, w, k2, Tail(oq.fifo), Head(oq.fifo)) /\ Tail(oq.fifo) \in Seq(S)
      BY <1>1, <1>3, <2>1, <3>1, HoldsTail, TailElements
    <3> QED
      BY <2>1, <3>2
  <2>2. CASE ~moves /\ ~r_en
    <3>1. k2 = k /\ kept = oq.fifo /\ out2 = oq.out
      BY <1>4, <2>2
    <3> QED
      BY <1>1, <1>3, <3>1
  <2>3. CASE ~moves /\ r_en
    <3>1. oq.fifo = <<>> /\ kept = oq.fifo /\ out2 = None
      BY <2>3
    <3>2. Len(<<>>) = 0 /\ 1 .. 0 = {}
      BY SMT
    <3>3. w = k + (0 + IF oq.out = None THEN 0 ELSE 1)
      BY <1>3, <3>1, <3>2 DEF Holds
    <3>4. w = k2 + (0 + 0)
      <4>1. CASE oq.out = None
        <5>1. k2 = k /\ w = k + (0 + 0)
          BY <1>4, <3>3, <4>1
        <5> QED
          BY <5>1
      <4>2. CASE oq.out # None
        <5>1. k2 = k + 1 /\ w = k + (0 + 1)
          BY <1>4, <2>3, <3>3, <4>2
        <5> QED
          BY <5>1, SMT
      <4> QED
        BY <4>1, <4>2
    <3>5. Holds(pixel, w, k2, <<>>, None)
      BY <3>2, <3>4 DEF Holds
    <3> QED
      BY <1>1, <3>1, <3>5
  <2> QED
    BY <2>1, <2>2, <2>3
<1> HIDE DEF kept, out2
<1>6. CASE out_word_done
  <2>1. oq'.fifo = Append(kept, OutWord(pixel, w)) /\ w2 = w + 1
    BY <1>2, <1>4, <1>6
  <2>2. Holds(pixel, w + 1, k2, Append(kept, OutWord(pixel, w)), out2)
    BY <1>4, <1>5, HoldsAppend
  <2> QED
    BY <1>2, <2>1, <2>2 DEF Queued
<1>7. CASE ~out_word_done
  <2>1. oq'.fifo = kept /\ w2 = w
    BY <1>2, <1>4, <1>7
  <2> QED
    BY <1>2, <1>5, <2>1 DEF Queued
<1> QED
  BY <1>6, <1>7

\* The addresses of the parameters follow the results, round after round.
LEMMA ParamsStep ==
  ASSUME NEW kind, NEW value, ParamStores(kind, value, acc_done), acc_done \in BOOLEAN,
         NEW r \in 0 .. Channels, NEW r2, ParamsAt(r), Follows(r2, r, acc_done),
         restart => r = 0 /\ ~acc_done,
         acc_done => r < Channels /\ \A k \in Kinds : limit(k) = Channels
  PROVE  ParamsAt(r2)'
<1>1. Channels \in Nat \ {0} /\ r \in Nat
  BY Sizes, SMT
<1>2. r2 \in Nat /\ (acc_done => r2 = r + 1) /\ (~acc_done => r2 = r)
  BY <1>1, FollowsValue
<1>3. ASSUME NEW k \in Kinds
      PROVE  params'[k].last_addr = IF r2 = Channels THEN 0 ELSE r2
  <2>1. params'[k].last_addr = r_addr(k, acc_done)
    BY <1>3, SMT DEF ParamStores
  <2>2. params[k].last_addr = IF r = Channels THEN 0 ELSE r
    BY DEF ParamsAt
  <2>3. CASE restart
    <3>1. r = 0 /\ r2 = 0 /\ r_addr(k, acc_done) = 0
      BY <1>2, <2>3 DEF r_addr
    <3> QED
      BY <2>1, <3>1
  <2>4. CASE ~restart /\ ~acc_done
    <3>1. r2 = r /\ r_addr(k, acc_done) = params[k].last_addr
      BY <1>2, <2>4 DEF r_addr
    <3> QED
      BY <2>1, <2>2, <3>1
  <2>5. CASE ~restart /\ acc_done
    <3>1. r < Channels /\ limit(k) = Channels /\ r2 = r + 1
      BY <1>2, <2>5
    <3>2. params[k].last_addr = r
      BY <1>1, <2>2, <3>1, SMT
    <3>3. r_addr(k, acc_done) = IF r >= Channels - 1 THEN 0 ELSE r + 1
      BY <2>5, <3>1, <3>2 DEF r_addr
    <3>4. r2 = r + 1 /\ (r2 = Channels <=> r >= Channels - 1)
      BY <1>1, <3>1, SMT
    <3> QED
      BY <2>1, <3>3, <3>4
  <2> QED
    BY <2>3, <2>4, <2>5
<1> QED
  BY <1>3 DEF ParamsAt

\* A result is made of the terms and the parameters of its channel.
LEMMA ResultRight ==
  ASSUME NEW pixel, NEW r \in Nat, r < Channels, acc_result = Terms(pixel, r, InputWords),
         ParamsAt(r), \A k \in Kinds : params[k].data = <<pixel[1], params[k].last_addr>>
  PROVE  [acc |-> acc_result, param |-> param_data] = Result(pixel, r)
<1>1. InputWords \in Nat \ {0} /\ Channels \in Nat
  BY Sizes
<1>2. \A k \in Kinds : params[k].data = <<pixel[1], r>>
  <2>1. r # Channels
    BY <1>1, SMT
  <2> QED
    BY <2>1 DEF ParamsAt
<1>3. param_data = [k \in Kinds |-> <<pixel[1], r>>]
  BY <1>2 DEF param_data
<1>4. ASSUME NEW i \in 1 .. InputWords
      PROVE  Term(pixel, InputWords * r + i - 1)
               = <<pixel, i - 1, <<pixel[1], r * InputWords + i - 1>>>>
  <2>1. i - 1 \in 0 .. InputWords - 1
    BY <1>1, SMT
  <2>2. (InputWords * r + (i - 1)) % InputWords = i - 1
    BY <1>1, <2>1, Remainder
  <2>3. InputWords * r \in Nat /\ InputWords * r = r * InputWords
    BY <1>1, SMT
  <2>4. InputWords * r + (i - 1) = InputWords * r + i - 1
    BY <1>1, <2>3, SMT
  <2> QED
    BY <2>2, <2>3, <2>4 DEF Term
<1>5. Terms(pixel, r, InputWords)
        = [i \in 1 .. InputWords |-> <<pixel, i - 1, <<pixel[1], r * InputWords + i - 1>>>>]
  BY <1>4 DEF Terms
<1> QED
  BY <1>3, <1>5 DEF Result

\* There are at most as many of anything as the operands that were let in make.
LEMMA PipeBounds ==
  ASSUME DelayLines, NEW pixel, NEW n \in 0 .. FilterWords, NEW m \in Nat, NEW r \in Nat,
         NEW b \in Nat, NEW w \in Nat,
         Multiplying(pixel, n, m), Accumulating(pixel, m, r), PostProcessing(pixel, r, b),
         Assembling(pixel, b, w)
  PROVE  /\ r \in 0 .. Channels /\ w \in 0 .. OutWords
         /\ madd_done => n > 0
         /\ acc_done => r < Channels
         /\ n = 0 => m = 0 /\ r = 0 /\ b = 0 /\ w = 0
<1> DEFINE d1 == Bit(seq.madd_delay[1])
           d2 == Bit(seq.madd_delay[2])
           e1 == Bit(seq.pp_delay[1])
           e2 == Bit(seq.pp_delay[2])
           e3 == Bit(seq.pp_delay[3])
           e4 == Bit(seq.pp_delay[4])
           i == seq.i_count
           c == seq.four_count
           base == InputWords * r
<1>1. /\ d1 \in Nat /\ d2 \in Nat /\ e1 \in Nat /\ e2 \in Nat /\ e3 \in Nat /\ e4 \in Nat
      /\ madd_done => d2 = 1
      /\ acc_done => madd_done /\ i = InputWords - 1
  BY BitsAreBooleans, BitValue DEF acc_done
<1>2. n = m + d1 + d2
  BY DEF Multiplying
<1>3. m = base + i /\ i \in 0 .. InputWords - 1
  BY DEF Accumulating
<1>4. r = b + e4 + e3 + e2 + e1
  BY DEF PostProcessing
<1>5. b = 4 * w + c /\ c \in 0 .. 3
  BY DEF Assembling, DelayLines
<1>6. /\ InputWords \in Nat \ {0} /\ Channels \in Nat \ {0} /\ FilterWords \in Nat
      /\ OutWords \in Nat /\ Channels = 4 * OutWords /\ FilterWords = InputWords * Channels
  BY Sizes
<1>7. base \in Nat /\ base >= r
  BY <1>6, SMT
<1>8. InputWords * (r + 1) = base + InputWords
  BY <1>6, SMT
<1>9. r > Channels => InputWords * r >= InputWords * (Channels + 1)
  BY <1>6, SMT
<1>10. InputWords * (Channels + 1) = FilterWords + InputWords
  BY <1>6, SMT
<1>11. r >= Channels => InputWords * r >= InputWords * Channels
  BY <1>6, SMT
<1> HIDE DEF d1, d2, e1, e2, e3, e4, i, c, base
<1>12. m \in 0 .. n /\ base <= m /\ n <= FilterWords /\ n \in Nat
  BY <1>1, <1>2, <1>3, <1>6, <1>7, SMT
<1>13. r <= Channels
  <2>1. ~(base >= FilterWords + InputWords)
    BY <1>6, <1>7, <1>12, SMT
  <2>2. ~(r > Channels)
    BY <1>9, <1>10, <2>1 DEF base
  <2> QED
    BY <1>6, <2>2, SMT
<1>14. r \in 0 .. Channels /\ w \in 0 .. OutWords
  BY <1>1, <1>4, <1>5, <1>6, <1>13, SMT
<1>15. madd_done => n > 0
  BY <1>1, <1>2, <1>12, SMT
<1>16. ASSUME acc_done PROVE r < Channels
  <2>1. i = InputWords - 1 /\ d2 = 1
    BY <1>1, <1>16
  <2>2. base < FilterWords
    BY <1>1, <1>2, <1>3, <1>6, <1>7, <1>12, <2>1, SMT
  <2>3. ~(base >= FilterWords)
    BY <1>6, <1>7, <2>2, SMT
  <2>4. ~(r >= Channels)
    BY <1>6, <1>11, <2>3 DEF base
  <2> QED
    BY <1>6, <2>4, SMT
<1>17. ASSUME n = 0 PROVE m = 0 /\ r = 0 /\ b = 0 /\ w = 0
  <2>1. m = 0 /\ base = 0 /\ r = 0
    BY <1>7, <1>12, <1>17, SMT
  <2>2. b = 0
    BY <1>1, <1>4, <2>1, SMT
  <2>3. w = 0
    BY <1>5, <2>2, SMT
  <2> QED
    BY <2>1, <2>2, <2>3
<1> QED
  BY <1>14, <1>15, <1>16, <1>17

\* A cycle moves the operands of a pixel on through the pipeline, whatever the
\* driver and the stores do in it.
LEMMA PipeStep ==
  ASSUME IInv, NEW command, NEW value, Clocked(command, value),
         NEW pixel, NEW n \in 0 .. FilterWords, NEW k \in Nat, NEW n2, NEW k2,
         InPipe(pixel, n, k), Follows(n2, n, gate),
         Follows(k2, k, command = "get_output" /\ oq.out # None),
         gate => Operands = Term(pixel, n),
         restart => n = 0,
         n > 0 => /\ pixel \in PixelIds
                  /\ \A kind \in Kinds :
                       limit(kind) = Channels
                         /\ params[kind].data = <<pixel[1], params[kind].last_addr>>
  PROVE  InPipe(pixel, n2, k2)'
<1>1. PICK m \in Nat, r \in Nat, b \in Nat, w \in Nat :
        /\ Multiplying(pixel, n, m) /\ Accumulating(pixel, m, r) /\ ParamsAt(r)
        /\ PostProcessing(pixel, r, b) /\ Assembling(pixel, b, w) /\ Queued(pixel, w, k)
  BY DEF InPipe
<1>2. /\ DelayLines /\ FifoOK
      /\ ParamStores(command, value, acc_done) /\ Sequence(command = "start_run")
      /\ Compute /\ Queue(command = "get_output")
  BY DEF IInv, Clocked
<1>3. /\ r \in 0 .. Channels /\ w \in 0 .. OutWords
      /\ madd_done => n > 0
      /\ acc_done => r < Channels
      /\ n = 0 => m = 0 /\ r = 0 /\ b = 0 /\ w = 0
  BY <1>1, <1>2, PipeBounds
<1>4. /\ gate \in BOOLEAN /\ madd_done \in BOOLEAN /\ acc_done \in BOOLEAN
      /\ pp_done \in BOOLEAN /\ out_word_done \in BOOLEAN /\ (acc_done => madd_done)
  BY <1>2, BitsAreBooleans
<1>5. n \in Nat /\ (n = 0 <=> ~(n > 0))
  BY Sizes, SMT
<1>6. PICK m2, r2, b2, w2 :
        /\ Follows(m2, m, madd_done) /\ Follows(r2, r, acc_done)
        /\ Follows(b2, b, pp_done) /\ Follows(w2, w, out_word_done)
  BY DEF Follows
<1>7. m2 \in Nat /\ r2 \in Nat /\ b2 \in Nat /\ w2 \in Nat
  BY <1>4, <1>6, FollowsValue
<1>8. Multiplying(pixel, n2, m2)' /\ (madd_done => path.madd[2] = Term(pixel, m))
  BY <1>1, <1>2, <1>5, <1>6, MultiplyingStep
<1>9. /\ Accumulating(pixel, m2, r2)'
      /\ acc_done => acc_result = Terms(pixel, r, InputWords)
  BY <1>1, <1>2, <1>6, <1>8, AccumulatingStep
<1>10. acc_done => /\ r < Channels
                   /\ \A kind \in Kinds :
                        limit(kind) = Channels
                          /\ params[kind].data = <<pixel[1], params[kind].last_addr>>
  BY <1>3, <1>4
<1>11. ParamsAt(r2)'
  <2>1. restart => r = 0 /\ ~acc_done
    BY <1>3, <1>4, <1>5
  <2> QED
    BY <1>1, <1>2, <1>3, <1>4, <1>6, <1>10, <2>1, ParamsStep
<1>12. acc_done => [acc |-> acc_result, param |-> param_data] = Result(pixel, r)
  BY <1>1, <1>9, <1>10, ResultRight
<1>13. PostProcessing(pixel, r2, b2)' /\ (pp_done => path.pp[4] = Result(pixel, b))
  BY <1>1, <1>2, <1>6, <1>12, PostProcessingStep
<1>14. Assembling(pixel, b2, w2)' /\ (out_word_done => btw_result = OutWord(pixel, w))
  BY <1>1, <1>2, <1>6, <1>13, AssemblingStep
<1>15. ASSUME NEW i \in k .. w - 1 PROVE OutWord(pixel, i) # None
  <2>1. i \in 0 .. OutWords - 1 /\ w > 0
    BY <1>3, Sizes, SMT
  <2>2. n > 0 /\ pixel \in PixelIds
    BY <1>3, <1>5, <2>1
  <2> QED
    BY <2>1, <2>2, NoneAssumption
<1>16. Queued(pixel, w2, k2)'
  <2>1. NoOverflow /\ (command = "get_output") \in BOOLEAN
    BY InvariantSuffices
  <2> QED
    BY <1>1, <1>2, <1>4, <1>6, <1>14, <1>15, <2>1, QueuedStep
<1> QED
  BY <1>7, <1>8, <1>9, <1>11, <1>13, <1>14, <1>16 DEF InPipe

\* When the last word of a pixel is there, all its operands went through.
LEMMA Drained ==
  ASSUME IInv, NEW pixel, NEW n \in 0 .. FilterWords, InPipe(pixel, n, OutWords - 1),
         oq.out # None
  PROVE  n = FilterWords
<1>1. PICK m \in Nat, r \in Nat, b \in Nat, w \in Nat :
        /\ Multiplying(pixel, n, m) /\ Accumulating(pixel, m, r) /\ ParamsAt(r)
        /\ PostProcessing(pixel, r, b) /\ Assembling(pixel, b, w) /\ Queued(pixel, w, OutWords - 1)
  BY DEF InPipe
<1>2. DelayLines /\ FifoOK
  BY DEF IInv
<1>3. r \in 0 .. Channels
  BY <1>1, <1>2, PipeBounds
<1>4. w = OutWords - 1 + (Len(oq.fifo) + 1)
  BY <1>1 DEF Queued, Holds
<1> DEFINE l == Len(oq.fifo)
           d1 == Bit(seq.madd_delay[1])
           d2 == Bit(seq.madd_delay[2])
           e1 == Bit(seq.pp_delay[1])
           e2 == Bit(seq.pp_delay[2])
           e3 == Bit(seq.pp_delay[3])
           e4 == Bit(seq.pp_delay[4])
           i == seq.i_count
           c == seq.four_count
           base == InputWords * r
<1>5. /\ d1 \in Nat /\ d2 \in Nat /\ e1 \in Nat /\ e2 \in Nat /\ e3 \in Nat /\ e4 \in Nat
      /\ l \in Nat
  BY <1>2, BitsAreBooleans, BitValue, LevelType
<1>6. n = m + d1 + d2 /\ m = base + i /\ i \in 0 .. InputWords - 1
  BY <1>1 DEF Multiplying, Accumulating
<1>7. r = b + e4 + e3 + e2 + e1 /\ b = 4 * w + c /\ c \in 0 .. 3
  BY <1>1, <1>2 DEF PostProcessing, Assembling, DelayLines
<1>8. /\ InputWords \in Nat \ {0} /\ Channels \in Nat \ {0} /\ FilterWords \in Nat
      /\ OutWords \in Nat \ {0} /\ Channels = 4 * OutWords /\ FilterWords = InputWords * Channels
  BY Sizes
<1>9. w = OutWords - 1 + (l + 1)
  BY <1>4
<1> HIDE DEF l, d1, d2, e1, e2, e3, e4, i, c, base
<1>10. r = Channels
  BY <1>3, <1>5, <1>7, <1>8, <1>9, SMT
<1>11. base = FilterWords
  BY <1>8, <1>10 DEF base
<1> QED
  BY <1>5, <1>6, <1>8, <1>11, SMT

\* The pipeline is empty.
Empty ==
  /\ \A i \in 1 .. 2 : ~seq.madd_delay[i]
  /\ \A i \in 1 .. 4 : ~seq.pp_delay[i]
  /\ w_level = 0

\* When the driver has got all words of a pixel, or no operand was let in, the
\* pipeline is empty, and as good for any other pixel.
LEMMA EmptyPipe ==
  ASSUME DelayLines, FifoOK, NEW pixel, NEW n \in 0 .. FilterWords, NEW k \in Nat,
         InPipe(pixel, n, k), k = OutWords \/ n = 0
  PROVE  Empty /\ \A pixel2 : InPipe(pixel2, 0, 0)
<1>1. PICK m \in Nat, r \in Nat, b \in Nat, w \in Nat :
        /\ Multiplying(pixel, n, m) /\ Accumulating(pixel, m, r) /\ ParamsAt(r)
        /\ PostProcessing(pixel, r, b) /\ Assembling(pixel, b, w) /\ Queued(pixel, w, k)
  BY DEF InPipe
<1>3. r \in 0 .. Channels /\ (n = 0 => m = 0 /\ r = 0 /\ b = 0 /\ w = 0)
  BY <1>1, PipeBounds
<1> DEFINE o == IF oq.out = None THEN 0 ELSE 1
           l == Len(oq.fifo)
           d1 == Bit(seq.madd_delay[1])
           d2 == Bit(seq.madd_delay[2])
           e1 == Bit(seq.pp_delay[1])
           e2 == Bit(seq.pp_delay[2])
           e3 == Bit(seq.pp_delay[3])
           e4 == Bit(seq.pp_delay[4])
           i == seq.i_count
           c == seq.four_count
           base == InputWords * r
<1>4. w = k + (l + o)
  BY <1>1 DEF Queued, Holds
<1>5. /\ d1 \in Nat /\ d2 \in Nat /\ e1 \in Nat /\ e2 \in Nat /\ e3 \in Nat /\ e4 \in Nat
      /\ l \in Nat /\ o \in Nat
  BY BitsAreBooleans, BitValue, LevelType
<1>6. n = m + d1 + d2 /\ m = base + i /\ i \in 0 .. InputWords - 1
  BY <1>1 DEF Multiplying, Accumulating
<1>7. r = b + e4 + e3 + e2 + e1 /\ b = 4 * w + c /\ c \in 0 .. 3
  BY <1>1 DEF PostProcessing, Assembling, DelayLines
<1>8. /\ InputWords \in Nat \ {0} /\ Channels \in Nat \ {0} /\ FilterWords \in Nat
      /\ OutWords \in Nat \ {0} /\ Channels = 4 * OutWords /\ FilterWords = InputWords * Channels
  BY Sizes
<1>9. /\ seq.madd_delay[1] => d1 = 1
      /\ seq.madd_delay[2] => d2 = 1
      /\ seq.pp_delay[1] => e1 = 1
      /\ seq.pp_delay[2] => e2 = 1
      /\ seq.pp_delay[3] => e3 = 1
      /\ seq.pp_delay[4] => e4 = 1
      /\ oq.out # None => o = 1
      /\ w_level = l + o
  BY BitsAreBooleans, BitValue DEF w_level
<1> HIDE DEF o, l, d1, d2, e1, e2, e3, e4, i, c, base
<1>10. ASSUME k = OutWords
       PROVE  r \in {0, Channels} /\ e1 = 0 /\ e2 = 0 /\ e3 = 0 /\ e4 = 0
               /\ c = 0 /\ l = 0 /\ o = 0 /\ d1 = 0 /\ d2 = 0 /\ i = 0
  <2>1. r = Channels /\ e1 = 0 /\ e2 = 0 /\ e3 = 0 /\ e4 = 0 /\ c = 0 /\ l = 0 /\ o = 0
    BY <1>3, <1>4, <1>5, <1>7, <1>8, <1>10, SMT
  <2>2. base = FilterWords
    BY <1>8, <2>1 DEF base
  <2>3. d1 = 0 /\ d2 = 0 /\ i = 0
    BY <1>5, <1>6, <1>8, <2>2, SMT
  <2> QED
    BY <2>1, <2>3
<1>11. ASSUME n = 0
       PROVE  r \in {0, Channels} /\ e1 = 0 /\ e2 = 0 /\ e3 = 0 /\ e4 = 0
               /\ c = 0 /\ l = 0 /\ o = 0 /\ d1 = 0 /\ d2 = 0 /\ i = 0
  <2>1. m = 0 /\ r = 0 /\ b = 0 /\ w = 0
    BY <1>3, <1>11
  <2>2. base = 0
    BY <1>8, <2>1, SMT DEF base
  <2> QED
    BY <1>4, <1>5, <1>6, <1>7, <1>8, <1>11, <2>1, <2>2, SMT
<1>12. r \in {0, Channels} /\ e1 = 0 /\ e2 = 0 /\ e3 = 0 /\ e4 = 0
         /\ c = 0 /\ l = 0 /\ o = 0 /\ d1 = 0 /\ d2 = 0 /\ i = 0
  BY <1>10, <1>11
<1>13. /\ ~seq.madd_delay[1] /\ ~seq.madd_delay[2]
       /\ ~seq.pp_delay[1] /\ ~seq.pp_delay[2] /\ ~seq.pp_delay[3] /\ ~seq.pp_delay[4]
       /\ oq.out = None /\ w_level = 0
  BY <1>9, <1>12
<1>14. oq.fifo = <<>>
  <2>1. PICK S : oq.fifo \in Seq(S)
    BY DEF FifoOK
  <2>2. Len(oq.fifo) = 0
    BY <1>12 DEF l
  <2> QED
    BY <2>1, <2>2, SMT
<1>15. Empty
  BY <1>13, SMT DEF Empty
<1>16. ASSUME NEW pixel2 PROVE InPipe(pixel2, 0, 0)
  <2>1. 0 = 0 + 0 + 0 /\ 0 = 0 + 0 + 0 + 0 + 0 /\ 0 = 4 * 0 + 0 /\ 0 = 0 + (0 + 0) /\ 1 .. 0 = {} /\ 0 + 0 = 0
    BY SMT
  <2>2. Bit(FALSE) = 0
    BY DEF Bit
  <2>3. Multiplying(pixel2, 0, 0)
    BY <1>12, <1>13, <2>1 DEF Multiplying, d1, d2
  <2>4. Accumulating(pixel2, 0, 0)
    <3>1. 0 = InputWords * 0 + 0 /\ 0 \in 0 .. InputWords - 1
      BY <1>8, SMT
    <3>2. path.acc = <<>>
      <4>1. path.acc = [j \in 1 .. 0 |-> Term(pixel, InputWords * r + j - 1)]
        BY <1>1, <1>12 DEF Accumulating, i
      <4> QED
        BY <4>1, SMT
    <3>3. <<>> = [j \in 1 .. 0 |-> Term(pixel2, InputWords * 0 + j - 1)]
      BY SMT
    <3> QED
      BY <1>12, <3>1, <3>2, <3>3 DEF Accumulating, i
  <2>5. ParamsAt(0)
    <3>1. (ParamsAt(Channels) \/ ParamsAt(0)) /\ 0 # Channels
      BY <1>1, <1>8, <1>12
    <3> QED
      BY <3>1 DEF ParamsAt
  <2>6. PostProcessing(pixel2, 0, 0)
    <3>1. e4 = 0 /\ e3 = 0 /\ e2 = 0 /\ e1 = 0
      BY <1>12
    <3> QED
      BY <1>13, <2>1, <3>1 DEF PostProcessing, e1, e2, e3, e4
  <2>7. Assembling(pixel2, 0, 0)
    <3>1. Len(path.btw) \in 0 .. 4 /\ BytesOK
      BY <1>1, <1>12 DEF Assembling, c
    <3> QED
      BY <1>12, <2>1, <3>1 DEF Assembling, c
  <2>8. Queued(pixel2, 0, 0)
    <3>1. Len(<<>>) = 0
      BY SMT
    <3> QED
      BY <1>13, <1>14, <2>1, <3>1 DEF Queued, Holds
  <2> QED
    BY <2>3, <2>4, <2>5, <2>6, <2>7, <2>8 DEF InPipe
<1> QED
  BY <1>15, <1>16

\* The same of the next state.
LEMMA EmptyPipeNext ==
  (\A pixel, n, k :
     /\ DelayLines /\ FifoOK /\ n \in 0 .. FilterWords /\ k \in Nat /\ InPipe(pixel, n, k)
     /\ k = OutWords \/ n = 0
     => Empty /\ \A pixel2 : InPipe(pixel2, 0, 0))'
<1>1. \A pixel, n, k :
        /\ DelayLines /\ FifoOK /\ n \in 0 .. FilterWords /\ k \in Nat /\ InPipe(pixel, n, k)
        /\ k = OutWords \/ n = 0
        => Empty /\ \A pixel2 : InPipe(pixel2, 0, 0)
  BY EmptyPipe
<1> QED
  BY <1>1, PTL

\* What the theorems below ask of a layer beyond what the code checks.
Sized == Channels % 8 = 0 /\ Channels < ParamDepth

-----------------------------------------------------------------------------
(* The driver and the control of the gateware.                             *)

pixel_now == <<driver.batch, driver.p>>

active == seq.running \/ seq.start_run

\* The operands of the pixel that were let in.
issued == IF driver.step # "unload" THEN 0 ELSE IF active THEN seq.f_count ELSE FilterWords

\* The words of the pixel that the driver got.
words_got == IF driver.step = "unload" THEN driver.k ELSE 0

Computing == driver.step \in {"load", "run", "unload"}

Limit ==
  CASE driver.step \in Kinds -> Channels
    [] driver.step = "filters" -> FilterWords
    [] driver.step = "load" -> InputWords
    [] driver.step = "unload" -> OutWords
    [] OTHER -> 1

DriverOK ==
  /\ driver \in [step : {"batch", "filters", "load", "run", "unload", "done"} \cup Kinds,
                 batch : 0 .. Batches, p : 0 .. Pixels - 1, loaded : 0 .. Pixels, k : Nat]
  /\ driver.k < Limit
  /\ driver.step # "done" => driver.batch < Batches
  /\ driver.step \in Kinds \cup {"filters"} => driver.p = 0 /\ driver.loaded = 0
  /\ driver.step = "load" =>
       /\ driver.loaded < LoadsBefore(driver.p)
       /\ IF driver.p = 0 THEN driver.loaded \in 0 .. 1 ELSE driver.loaded = driver.p + 1
  /\ driver.step \in {"run", "unload"} => driver.loaded = LoadsBefore(driver.p)

ControlOK ==
  /\ restart \in BOOLEAN /\ seq.start_run \in BOOLEAN /\ seq.running \in BOOLEAN
  /\ restart => driver.step = "multiplier" /\ driver.k = 0
  /\ active => driver.step = "unload"
  /\ seq.start_run => ~seq.running
  /\ seq.f_count \in 0 .. FilterWords - 1
  /\ ~seq.running => seq.f_count = 0

\* The first pixel in the input store, and how many there are.
first == driver.p + Bit(driver.step = "unload" /\ ~active)

waiting == IF Computing THEN driver.loaded - first ELSE 0

PixelRun(batch, p, count) == [j \in 1 .. count |-> <<batch, p + j - 1>>]

PixelsOK ==
  /\ ins.pixels = PixelRun(driver.batch, first, waiting)
  /\ ins.partial = IF driver.step = "load" THEN driver.k ELSE 0
  /\ ins.pos = issued % InputWords
  /\ ins.ready \in BOOLEAN /\ (ins.ready => waiting > 0)

\* The words of a kind that were stored for this batch.
StoredParams(k) ==
  IF driver.step = k THEN driver.k
  ELSE IF \/ k = "shift" /\ driver.step = "multiplier"
          \/ k = "bias" /\ driver.step \in {"multiplier", "shift"}
  THEN 0 ELSE Channels

ParamsOK ==
  \A k \in Kinds :
    /\ params[k].count \in 0 .. Channels
    /\ DOMAIN params[k].mem = 0 .. ParamDepth - 1
    /\ ~restart /\ driver.step \notin {"batch", "done"} =>
         /\ params[k].count = StoredParams(k)
         /\ \A a \in 0 .. params[k].count - 1 : params[k].mem[a] = <<driver.batch, a>>
    /\ Computing => params[k].data = <<driver.batch, params[k].last_addr>>

FilterWord(n, a) == <<driver.batch, 4 * a + n>>

\* The number of words of a bank among the first so many.
TakenFrom(n, count) == (count + 3 - n) \div 4

\* The reader of bank n shows this word of it, and prefetches the next.
ReaderAt(n, j) ==
  LET s == fvf.smr[n]
  IN  /\ s.port = FilterWord(n, s.last_mem_addr)
      /\ IF prefetching(n) THEN s.last_mem_addr = j
         ELSE s.last_mem_addr = (j + 1) % Rows /\ s.last_data = FilterWord(n, j)

FiltersOK ==
  /\ filters.count \in 0 .. FilterWords
  /\ DOMAIN filters.mem = BankIds
  /\ \A n \in BankIds : DOMAIN filters.mem[n] = 0 .. FilterDepth - 1
  /\ ~restart /\ driver.step \notin {"batch", "done"} =>
       /\ filters.count = IF driver.step = "filters" THEN driver.k
                          ELSE IF Computing THEN FilterWords ELSE 0
       /\ \A n \in BankIds, a \in 0 .. FilterDepth - 1 :
            4 * a + n < filters.count => filters.mem[n][a] = FilterWord(n, a)

ReadersOK ==
  /\ fvf.bank = issued % 4
  /\ \A n \in BankIds : fvf.smr[n].last_mem_addr \in 0 .. FilterDepth - 1
  /\ Computing /\ fvf.was_updated =>
       driver.step = "load" /\ driver.loaded = 0 /\ driver.k = 0
  /\ Computing /\ ~fvf.was_updated =>
       \A n \in BankIds : ReaderAt(n, TakenFrom(n, issued) % Rows)

PixelNames == (0 .. Batches) \X (0 .. Pixels - 1)

PipeOK ==
  \E pixel \in PixelNames, n \in 0 .. FilterWords, k \in 0 .. OutWords :
    pixel = pixel_now /\ n = issued /\ k = words_got /\ InPipe(pixel, n, k)

RecordsOK ==
  /\ ins = [pixels |-> ins.pixels, partial |-> ins.partial, pos |-> ins.pos, ready |-> ins.ready]
  /\ seq = [start_run |-> seq.start_run, running |-> seq.running, f_count |-> seq.f_count,
            i_count |-> seq.i_count, four_count |-> seq.four_count,
            madd_delay |-> seq.madd_delay, pp_delay |-> seq.pp_delay]

CInv ==
  /\ IInv /\ RecordsOK /\ DriverOK /\ ControlOK /\ PixelsOK /\ ParamsOK
  /\ FiltersOK /\ ReadersOK /\ PipeOK

\* A bank gives every fourth word.
LEMMA TakenFromNext ==
  ASSUME NEW x \in Nat, NEW n \in BankIds
  PROVE  /\ TakenFrom(n, x) \in Nat /\ TakenFrom(n, 0) = 0
         /\ TakenFrom(n, x + 1) = IF x % 4 = n THEN TakenFrom(n, x) + 1 ELSE TakenFrom(n, x)
         /\ TakenFrom(n, 4 * x) = x
BY SMT DEF TakenFrom, BankIds

\* The bank of a word, and the word's place in it.
LEMMA TakenFromTurn ==
  ASSUME NEW x \in Nat
  PROVE  /\ x % 4 \in BankIds /\ TakenFrom(x % 4, x) = x \div 4
         /\ x \div 4 \in Nat /\ 4 * (x \div 4) + (x % 4) = x
BY SMT DEF TakenFrom, BankIds

\* What an open gate says.
LEMMA GateOpen ==
  ASSUME ControlOK, FiltersOK, gate
  PROVE  /\ driver.step = "unload" /\ Computing /\ active /\ ins.ready /\ ~restart
         /\ issued = seq.f_count /\ issued \in 0 .. FilterWords - 1
         /\ filters.count = FilterWords
<1>1. active /\ ins.ready
  BY DEF gate, active
<1>2. driver.step = "unload"
  BY <1>1 DEF ControlOK
<1>3. ~restart /\ Computing
  BY <1>2 DEF ControlOK, Computing
<1>4. issued = seq.f_count
  BY <1>1, <1>2 DEF issued
<1>5. filters.count = FilterWords
  BY <1>2, <1>3 DEF FiltersOK
<1> QED
  BY <1>1, <1>2, <1>3, <1>4, <1>5 DEF ControlOK

\* No more operands are let in than a pixel has.
LEMMA IssuedType ==
  ASSUME ControlOK
  PROVE  issued \in 0 .. FilterWords
<1>1. FilterWords \in Nat /\ 0 \in 0 .. FilterWords /\ FilterWords \in 0 .. FilterWords
  BY Sizes, SMT
<1>2. seq.f_count \in 0 .. FilterWords
  BY <1>1, SMT DEF ControlOK
<1> QED
  BY <1>1, <1>2 DEF issued

\* The operands that are let in are the ones that come next: the word of the pixel
\* that the input store shows, and the filter word that the fetcher shows.
LEMMA OperandsRight ==
  ASSUME DriverOK, ControlOK, PixelsOK, FiltersOK, ReadersOK, gate
  PROVE  Operands = Term(pixel_now, issued)
<1>1. /\ driver.step = "unload" /\ Computing /\ active /\ ins.ready /\ ~restart
      /\ issued = seq.f_count /\ issued \in 0 .. FilterWords - 1
      /\ filters.count = FilterWords
  BY GateOpen
<1>2. Head(ins.pixels) = pixel_now
  <2>1. first = driver.p
    <3>1. Bit(FALSE) = 0 /\ driver.p + 0 = driver.p
      BY SMT DEF Bit, DriverOK
    <3> QED
      BY <1>1, <3>1 DEF first
  <2>2. waiting > 0 /\ waiting \in Int
    <3>1. first \in Int /\ driver.loaded \in Int
      BY <2>1, Sizes, SMT DEF DriverOK
    <3> QED
      BY <1>1, <3>1, SMT DEF PixelsOK, waiting
  <2>3. ins.pixels = [j \in 1 .. waiting |-> <<driver.batch, first + j - 1>>]
    BY DEF PixelsOK, PixelRun
  <2>4. 1 \in 1 .. waiting
    BY <2>2, SMT
  <2>5. ins.pixels[1] = <<driver.batch, first + 1 - 1>>
    BY <2>3, <2>4
  <2>6. first + 1 - 1 = driver.p
    BY <2>1, Sizes, SMT DEF DriverOK
  <2>7. Head(ins.pixels) = ins.pixels[1]
    BY SMT
  <2> QED
    BY <2>5, <2>6, <2>7 DEF pixel_now
<1>3. ins.pos = issued % InputWords
  BY DEF PixelsOK
<1> DEFINE n == issued % 4
           q == issued \div 4
<1>4. /\ n \in BankIds /\ TakenFrom(n, issued) = q
      /\ q \in Nat /\ 4 * q + n = issued
  <2>1. issued \in Nat
    BY <1>1, Sizes, SMT
  <2> QED
    BY <2>1, TakenFromTurn
<1>5. q < Rows /\ q % Rows = q
  <2>1. Rows \in Nat \ {0} /\ FilterWords = 4 * Rows
    BY Sizes
  <2> HIDE DEF q, n
  <2>2. q < Rows
    BY <1>1, <1>4, <2>1, SMT DEF BankIds
  <2> QED
    BY <1>4, <2>1, <2>2, SMT
<1>6. f_data = <<driver.batch, issued>>
  <2>1. ~fvf.was_updated /\ fvf.bank = n
    BY <1>1 DEF ReadersOK
  <2>2. ReaderAt(n, q)
    BY <1>1, <1>4, <1>5, <2>1 DEF ReadersOK
  <2>3. smr_data(n) = FilterWord(n, q)
    BY <2>2 DEF ReaderAt, smr_data
  <2> QED
    BY <1>4, <2>1, <2>3 DEF f_data, FilterWord
<1> QED
  BY <1>1, <1>2, <1>3, <1>6 DEF Operands, Term, pixel_now

-----------------------------------------------------------------------------
(* The driver                                                              *)

\* An even number of words is unloaded to its end.
LEMMA UnloadsAll ==
  ASSUME Sized
  PROVE  Unloaded(OutWords) = OutWords
<1>1. Channels \in Nat \ {0} /\ Channels % 8 = 0
  BY Sizes DEF Sized
<1>2. OutWords \in Nat /\ OutWords % 2 = 0
  BY <1>1, SMT DEF OutWords
<1>3. CASE OutWords % 4 = 2
  BY <1>2, <1>3, SMT DEF Unloaded
<1>4. CASE OutWords % 4 # 2
  <2>1. OutWords % 4 = 0
    BY <1>2, <1>4, SMT
  <2> QED
    BY <1>2, <2>1, SMT DEF Unloaded
<1> QED
  BY <1>3, <1>4

Steps == {"batch", "filters", "load", "run", "unload", "done"} \cup Kinds

\* The driver's counters stay within their loops, and it loads two pixels ahead.
LEMMA DriverStep ==
  ASSUME Sized, DriverOK, [Next]_vars
  PROVE  DriverOK'
<1>1. /\ InputWords \in Nat \ {0} /\ Channels \in Nat \ {0} /\ OutWords \in Nat \ {0}
      /\ FilterWords \in Nat \ {0} /\ Pixels \in Nat \ {0} /\ Batches \in Nat \ {0}
      /\ Unloaded(OutWords) = OutWords
  BY Sizes, UnloadsAll
<1>2. /\ driver = [step |-> driver.step, batch |-> driver.batch, p |-> driver.p,
                   loaded |-> driver.loaded, k |-> driver.k]
      /\ driver.step \in Steps /\ driver.batch \in 0 .. Batches /\ driver.p \in 0 .. Pixels - 1
      /\ driver.loaded \in 0 .. Pixels /\ driver.k \in Nat
  <2>1. driver \in [step : Steps, batch : 0 .. Batches, p : 0 .. Pixels - 1,
                    loaded : 0 .. Pixels, k : Nat]
    BY DEF DriverOK, Steps
  <2> QED
    BY <2>1
<1>3. \A step \in Steps, batch \in 0 .. Batches, p \in 0 .. Pixels - 1, loaded \in 0 .. Pixels,
         k \in Nat :
        [step |-> step, batch |-> batch, p |-> p, loaded |-> loaded, k |-> k]
          \in [step : Steps, batch : 0 .. Batches, p : 0 .. Pixels - 1,
               loaded : 0 .. Pixels, k : Nat]
  OBVIOUS
<1>4. CASE UNCHANGED driver
  BY <1>4 DEF DriverOK, Limit
<1>5. CASE SetOutputBatchSize
  <2>1. /\ driver.step = "batch"
        /\ driver' = [step |-> "multiplier", batch |-> driver.batch, p |-> 0,
                      loaded |-> 0, k |-> driver.k]
    BY <1>2, <1>5 DEF SetOutputBatchSize
  <2>2. driver.k < 1 /\ driver.batch < Batches
    BY <2>1, SMT DEF DriverOK, Limit, Kinds
  <2>3. driver.k = 0 /\ 0 \in 0 .. Pixels - 1 /\ 0 \in 0 .. Pixels /\ 0 < Channels
    BY <1>1, <1>2, <2>2, SMT
  <2>4. driver' \in [step : Steps, batch : 0 .. Batches, p : 0 .. Pixels - 1,
                     loaded : 0 .. Pixels, k : Nat]
    BY <1>2, <1>3, <2>1, <2>3 DEF Steps, Kinds
  <2>5. driver'.k < Limit'
    BY <2>1, <2>3 DEF Limit, Kinds
  <2> QED
    BY <2>1, <2>2, <2>4, <2>5 DEF DriverOK, Steps
<1>6. CASE StoreParam
  <2>1. driver.step \in Kinds /\ driver.k < Channels /\ driver.p = 0 /\ driver.loaded = 0 /\ driver.batch < Batches
    BY <1>6 DEF StoreParam, DriverOK, Limit, Kinds
  <2>2. CASE driver.k < Channels - 1
    <3>1. driver' = [step |-> driver.step, batch |-> driver.batch, p |-> 0,
                     loaded |-> 0, k |-> driver.k + 1]
      BY <1>2, <1>6, <2>1, <2>2 DEF StoreParam
    <3>2. driver.k + 1 \in Nat /\ driver.k + 1 < Channels
      BY <1>1, <1>2, <2>2, SMT
    <3>3. driver' \in [step : Steps, batch : 0 .. Batches, p : 0 .. Pixels - 1,
                       loaded : 0 .. Pixels, k : Nat]
      BY <1>2, <1>3, <2>1, <3>1, <3>2
    <3>4. driver'.k < Limit'
      BY <2>1, <3>1, <3>2 DEF Limit, Kinds
    <3> QED
      BY <2>1, <3>1, <3>3, <3>4 DEF DriverOK, Steps, Kinds
  <2>3. CASE ~(driver.k < Channels - 1)
    <3> DEFINE next == CASE driver.step = "multiplier" -> "shift"
                         [] driver.step = "shift" -> "bias"
                         [] driver.step = "bias" -> "filters"
    <3>1. driver' = [step |-> next, batch |-> driver.batch, p |-> 0, loaded |-> 0, k |-> 0]
      BY <1>2, <1>6, <2>1, <2>3 DEF StoreParam
    <3>2. next \in {"shift", "bias", "filters"}
      BY <2>1 DEF Kinds
    <3> HIDE DEF next
    <3>3. driver' \in [step : Steps, batch : 0 .. Batches, p : 0 .. Pixels - 1,
                       loaded : 0 .. Pixels, k : Nat]
      <4>1. next \in Steps /\ 0 \in Nat
        BY <3>2 DEF Steps, Kinds
      <4> QED
        BY <1>2, <1>3, <2>1, <3>1, <4>1
    <3>4. driver'.k < Limit'
      <4>1. 0 < Channels /\ 0 < FilterWords
        BY <1>1, SMT
      <4> QED
        BY <3>1, <3>2, <4>1 DEF Limit, Kinds
    <3> QED
      BY <2>1, <3>1, <3>2, <3>3, <3>4 DEF DriverOK, Steps, Kinds
  <2> QED
    BY <2>2, <2>3
<1>7. CASE StoreFilterValue
  <2>1. driver.step = "filters" /\ driver.p = 0 /\ driver.loaded = 0 /\ driver.batch < Batches
    BY <1>7 DEF StoreFilterValue, DriverOK
  <2>2. CASE driver.k < FilterWords - 1
    <3>1. driver' = [step |-> "filters", batch |-> driver.batch, p |-> 0,
                     loaded |-> 0, k |-> driver.k + 1]
      BY <1>2, <1>7, <2>1, <2>2 DEF StoreFilterValue
    <3>2. driver.k + 1 \in Nat /\ driver.k + 1 < FilterWords
      BY <1>1, <1>2, <2>2, SMT
    <3>3. driver' \in [step : Steps, batch : 0 .. Batches, p : 0 .. Pixels - 1,
                       loaded : 0 .. Pixels, k : Nat]
      BY <1>2, <1>3, <2>1, <3>1, <3>2
    <3>4. driver'.k < Limit'
      BY <2>1, <3>1, <3>2 DEF Limit, Kinds
    <3> QED
      BY <2>1, <3>1, <3>3, <3>4 DEF DriverOK, Steps
  <2>3. CASE ~(driver.k < FilterWords - 1)
    <3>1. driver' = [step |-> "load", batch |-> driver.batch, p |-> 0, loaded |-> 0, k |-> 0]
      BY <1>2, <1>7, <2>1, <2>3 DEF StoreFilterValue
    <3>2. 0 \in Nat /\ 0 < InputWords /\ 0 < LoadsBefore(0) /\ 0 \in 0 .. 1
      BY <1>1, SMT DEF LoadsBefore
    <3>3. driver' \in [step : Steps, batch : 0 .. Batches, p : 0 .. Pixels - 1,
                       loaded : 0 .. Pixels, k : Nat]
      BY <1>2, <1>3, <2>1, <3>1, <3>2 DEF Steps
    <3>4. driver'.k < Limit'
      BY <3>1, <3>2 DEF Limit, Kinds
    <3> QED
      BY <2>1, <3>1, <3>2, <3>3, <3>4 DEF DriverOK, Steps, Kinds
  <2> QED
    BY <2>2, <2>3
<1>8. CASE StoreInput
  <2>1. /\ driver.step = "load" /\ driver.batch < Batches /\ driver.k < InputWords
        /\ driver.loaded < LoadsBefore(driver.p)
        /\ IF driver.p = 0 THEN driver.loaded \in 0 .. 1 ELSE driver.loaded = driver.p + 1
    BY <1>8 DEF StoreInput, DriverOK, Limit, Kinds
  <2>2. CASE driver.k = InputWords - 1
    <3>1. driver' = [step |-> IF driver.loaded + 1 = LoadsBefore(driver.p) THEN "run" ELSE "load",
                     batch |-> driver.batch, p |-> driver.p, loaded |-> driver.loaded + 1, k |-> 0]
      BY <1>2, <1>8, <2>2 DEF StoreInput
    <3>2. driver.loaded + 1 \in 0 .. Pixels /\ 0 \in Nat /\ 0 < InputWords /\ 0 < 1
      BY <1>1, <1>2, <2>1, SMT DEF LoadsBefore
    <3>3. driver' \in [step : Steps, batch : 0 .. Batches, p : 0 .. Pixels - 1,
                       loaded : 0 .. Pixels, k : Nat]
      BY <1>2, <1>3, <3>1, <3>2 DEF Steps
    <3>4. driver'.k < Limit'
      BY <3>1, <3>2 DEF Limit, Kinds
    <3>5. ASSUME driver.loaded + 1 # LoadsBefore(driver.p)
          PROVE  /\ driver.loaded + 1 < LoadsBefore(driver.p)
                 /\ driver.p = 0 /\ driver.loaded + 1 \in 0 .. 1
      BY <1>1, <1>2, <2>1, <3>5, SMT DEF LoadsBefore
    <3> QED
      BY <2>1, <3>1, <3>3, <3>4, <3>5 DEF DriverOK, Steps, Kinds
  <2>3. CASE driver.k # InputWords - 1
    <3>1. driver' = [step |-> "load", batch |-> driver.batch, p |-> driver.p,
                     loaded |-> driver.loaded, k |-> driver.k + 1]
      BY <1>2, <1>8, <2>3 DEF StoreInput
    <3>2. driver.k + 1 \in Nat /\ driver.k + 1 < InputWords
      BY <1>1, <1>2, <2>1, <2>3, SMT
    <3>3. driver' \in [step : Steps, batch : 0 .. Batches, p : 0 .. Pixels - 1,
                       loaded : 0 .. Pixels, k : Nat]
      BY <1>2, <1>3, <2>1, <3>1, <3>2
    <3>4. driver'.k < Limit'
      BY <3>1, <3>2 DEF Limit, Kinds
    <3> QED
      BY <2>1, <3>1, <3>3, <3>4 DEF DriverOK, Steps, Kinds
  <2> QED
    BY <2>2, <2>3
<1>9. CASE MaccRun
  <2>1. driver.step = "run" /\ driver.batch < Batches /\ driver.loaded = LoadsBefore(driver.p) /\ driver.k < 1
    BY <1>9 DEF MaccRun, DriverOK, Limit, Kinds
  <2>2. driver' = [step |-> "unload", batch |-> driver.batch, p |-> driver.p,
                   loaded |-> driver.loaded, k |-> driver.k]
    BY <1>2, <1>9 DEF MaccRun
  <2>3. driver.k < OutWords
    BY <1>1, <1>2, <2>1, SMT
  <2>4. driver' \in [step : Steps, batch : 0 .. Batches, p : 0 .. Pixels - 1,
                     loaded : 0 .. Pixels, k : Nat]
    BY <1>2, <1>3, <2>2 DEF Steps
  <2>5. driver'.k < Limit'
    BY <2>2, <2>3 DEF Limit, Kinds
  <2> QED
    BY <2>1, <2>2, <2>4, <2>5 DEF DriverOK, Steps, Kinds
<1>10. CASE GetOutput
  <2>1. driver.step = "unload" /\ driver.batch < Batches /\ driver.loaded = LoadsBefore(driver.p) /\ driver.k < OutWords
    BY <1>10 DEF GetOutput, DriverOK, Limit, Kinds
  <2>2. CASE driver.k < OutWords - 1
    <3>1. driver' = [step |-> "unload", batch |-> driver.batch, p |-> driver.p,
                     loaded |-> driver.loaded, k |-> driver.k + 1]
      BY <1>1, <1>2, <1>10, <2>1, <2>2 DEF GetOutput
    <3>2. driver.k + 1 \in Nat /\ driver.k + 1 < OutWords
      BY <1>1, <1>2, <2>2, SMT
    <3>3. driver' \in [step : Steps, batch : 0 .. Batches, p : 0 .. Pixels - 1,
                       loaded : 0 .. Pixels, k : Nat]
      BY <1>2, <1>3, <2>1, <3>1, <3>2
    <3>4. driver'.k < Limit'
      BY <3>1, <3>2 DEF Limit, Kinds
    <3> QED
      BY <2>1, <3>1, <3>3, <3>4 DEF DriverOK, Steps, Kinds
  <2>3. CASE ~(driver.k < OutWords - 1) /\ driver.p < Pixels - 1
    <3>1. driver' = [step |-> IF driver.loaded = LoadsBefore(driver.p + 1) THEN "run" ELSE "load",
                     batch |-> driver.batch, p |-> driver.p + 1, loaded |-> driver.loaded, k |-> 0]
      BY <1>1, <1>2, <1>10, <2>3 DEF GetOutput, AfterUnload
    <3>2. /\ driver.p + 1 \in 0 .. Pixels - 1 /\ driver.p + 1 # 0 /\ 0 \in Nat
          /\ 0 < InputWords /\ 0 < 1
      BY <1>1, <1>2, <2>3, SMT
    <3>3. driver' \in [step : Steps, batch : 0 .. Batches, p : 0 .. Pixels - 1,
                       loaded : 0 .. Pixels, k : Nat]
      BY <1>2, <1>3, <3>1, <3>2 DEF Steps
    <3>4. driver'.k < Limit'
      BY <3>1, <3>2 DEF Limit, Kinds
    <3>5. ASSUME driver.loaded # LoadsBefore(driver.p + 1)
          PROVE  driver.loaded < LoadsBefore(driver.p + 1) /\ driver.loaded = driver.p + 1 + 1
      BY <1>1, <1>2, <2>1, <2>3, <3>5, SMT DEF LoadsBefore
    <3> QED
      BY <2>1, <3>1, <3>2, <3>3, <3>4, <3>5 DEF DriverOK, Steps, Kinds
  <2>4. CASE ~(driver.k < OutWords - 1) /\ ~(driver.p < Pixels - 1)
    <3>1. driver' = [step |-> IF driver.batch < Batches - 1 THEN "batch" ELSE "done",
                     batch |-> driver.batch + 1, p |-> driver.p, loaded |-> driver.loaded, k |-> 0]
      BY <1>1, <1>2, <1>10, <2>4 DEF GetOutput, AfterUnload
    <3>2. /\ driver.batch + 1 \in 0 .. Batches /\ 0 \in Nat /\ 0 < 1
          /\ driver.batch < Batches - 1 => driver.batch + 1 < Batches
      BY <1>1, <1>2, <2>1, SMT
    <3>3. driver' \in [step : Steps, batch : 0 .. Batches, p : 0 .. Pixels - 1,
                       loaded : 0 .. Pixels, k : Nat]
      BY <1>2, <1>3, <3>1, <3>2 DEF Steps
    <3>4. driver'.k < Limit'
      BY <3>1, <3>2 DEF Limit, Kinds
    <3> QED
      BY <3>1, <3>2, <3>3, <3>4 DEF DriverOK, Steps, Kinds
  <2> QED
    BY <2>2, <2>3, <2>4
<1>11. CASE NoCommand
  BY <1>4, <1>11 DEF NoCommand
<1>12. CASE UNCHANGED vars
  BY <1>4, <1>12 DEF vars
<1> QED
  BY <1>5, <1>6, <1>7, <1>8, <1>9, <1>10, <1>11, <1>12 DEF Next, Command

-----------------------------------------------------------------------------
(* The control of the gateware                                             *)

\* The registers of the GateCalculator after a cycle.
LEMMA RunStep ==
  ASSUME IInv, ControlOK, FiltersOK, NEW command, NEW value, Clocked(command, value)
  PROVE  /\ restart' = (command = "set_output_batch_size")
         /\ seq'.start_run = (command = "start_run")
         /\ seq'.running = (active /\ ~all_output_finished)
         /\ all_output_finished <=> gate /\ seq.f_count = FilterWords - 1
         /\ gate /\ ~all_output_finished => seq'.f_count = seq.f_count + 1
         /\ ~gate => seq'.f_count = seq.f_count
         /\ seq'.f_count \in 0 .. FilterWords - 1
         /\ ~seq'.running => seq'.f_count = 0
<1>1. Sequence(command = "start_run") /\ DelayLines /\ restart' = (command = "set_output_batch_size")
  BY DEF Clocked, IInv
<1>2. /\ seq'.start_run = (command = "start_run") /\ seq'.running = still_running
      /\ seq'.f_count = Count(gate, seq.f_count, filters.count)
  BY <1>1, SequencerMoves
<1>3. still_running = (active /\ ~all_output_finished)
  BY DEF still_running, active
<1>4. gate => filters.count = FilterWords /\ active
  BY GateOpen
<1>5. all_output_finished <=> gate /\ seq.f_count = FilterWords - 1
  BY <1>4 DEF all_output_finished
<1>6. FilterWords \in Nat \ {0} /\ seq.f_count \in 0 .. FilterWords - 1
  BY Sizes DEF ControlOK
<1>7. /\ gate => seq'.f_count = IF seq.f_count = FilterWords - 1 THEN 0 ELSE seq.f_count + 1
      /\ ~gate => seq'.f_count = seq.f_count
  BY <1>2, <1>4 DEF Count
<1>8. seq'.f_count \in 0 .. FilterWords - 1
  BY <1>6, <1>7, SMT
<1>9. ASSUME ~seq'.running PROVE seq'.f_count = 0
  <2>1. CASE all_output_finished
    BY <1>5, <1>7, <2>1
  <2>2. CASE ~all_output_finished
    <3>1. ~active
      BY <1>2, <1>3, <1>9, <2>2
    <3>2. ~gate /\ ~seq.running
      BY <1>4, <3>1 DEF active
    <3> QED
      BY <1>7, <3>2 DEF ControlOK
  <2> QED
    BY <2>1, <2>2
<1> QED
  BY <1>1, <1>2, <1>3, <1>5, <1>7, <1>8, <1>9

\* The driver gets the last word of a pixel.
LastGet == GetOutput /\ ~(driver.k < OutWords - 1)

\* Then the run ended, and nothing more is let in.
LEMMA LastGetEndsRun ==
  ASSUME IInv, DriverOK, ControlOK, FiltersOK, PipeOK, LastGet
  PROVE  issued = FilterWords /\ ~active /\ ~gate /\ words_got = OutWords - 1
<1>1. driver.step = "unload" /\ oq.out # None
  BY DEF LastGet, GetOutput
<1>2. driver.k = OutWords - 1 /\ words_got = OutWords - 1
  <2>1. driver.k < OutWords /\ driver.k \in Nat /\ ~(driver.k < OutWords - 1)
    BY <1>1 DEF DriverOK, Limit, LastGet, Kinds
  <2>2. driver.k = OutWords - 1
    BY <2>1, Sizes, SMT
  <2> QED
    BY <1>1, <2>2 DEF words_got
<1>3. PICK pixel \in PixelNames, n \in 0 .. FilterWords, k \in 0 .. OutWords :
        pixel = pixel_now /\ n = issued /\ k = words_got /\ InPipe(pixel, n, k)
  BY DEF PipeOK
<1>4. InPipe(pixel, n, OutWords - 1)
  BY <1>2, <1>3
<1>5. issued = FilterWords
  BY <1>1, <1>3, <1>4, Drained
<1>6. ~active
  <2>1. active => FilterWords = seq.f_count
    BY <1>1, <1>5 DEF issued
  <2>2. FilterWords # seq.f_count
    BY Sizes, SMT DEF ControlOK
  <2> QED
    BY <2>1, <2>2
<1>7. ~gate
  BY <1>6, GateOpen
<1> QED
  BY <1>2, <1>5, <1>6, <1>7

\* While the driver waits for the words of a pixel, the operands are counted.
LEMMA IssuedWhileUnloading ==
  ASSUME IInv, ControlOK, FiltersOK, NEW command, NEW value, Clocked(command, value),
         command # "start_run", driver.step = "unload", driver'.step = "unload"
  PROVE  (gate => issued' = issued + 1) /\ (~gate => issued' = issued)
<1>1. /\ seq'.start_run = (command = "start_run")
      /\ seq'.running = (active /\ ~all_output_finished)
      /\ all_output_finished <=> gate /\ seq.f_count = FilterWords - 1
      /\ gate /\ ~all_output_finished => seq'.f_count = seq.f_count + 1
      /\ ~gate => seq'.f_count = seq.f_count
  BY RunStep
<1>2. issued' = IF seq'.running THEN seq'.f_count ELSE FilterWords
  BY <1>1 DEF issued, active
<1>3. issued = IF active THEN seq.f_count ELSE FilterWords
  BY DEF issued
<1>4. FilterWords - 1 + 1 = FilterWords
  BY Sizes, SMT
<1>5. CASE all_output_finished
  BY <1>1, <1>2, <1>3, <1>4, <1>5, GateOpen
<1>6. CASE gate /\ ~all_output_finished
  BY <1>1, <1>2, <1>3, <1>6, GateOpen
<1>7. CASE ~gate
  <2>1. ~all_output_finished /\ seq'.running = active
    BY <1>1, <1>7 DEF active
  <2> QED
    BY <1>1, <1>2, <1>3, <1>7, <2>1
<1> QED
  BY <1>1, <1>5, <1>6, <1>7

\* In every other step nothing is let in.
LEMMA IssuedElsewhere ==
  ASSUME ControlOK, FiltersOK, driver.step # "unload"
  PROVE  /\ issued = 0 /\ ~gate /\ ~active /\ words_got = 0
         /\ driver'.step # "unload" => issued' = 0 /\ words_got' = 0
<1>1. ~active
  BY DEF ControlOK
<1> QED
  BY <1>1, GateOpen DEF issued, words_got

\* The kinds of parameters are steps and commands of their own.
LEMMA StepsDiffer ==
  /\ \A step \in Kinds : step \notin {"batch", "filters", "load", "run", "unload", "done"}
  /\ \A step \in Kinds : step \notin {"store_filter_values", "set_output_batch_size",
                                       "start_run", "get_output", "store_input", "none"}
BY DEF Kinds

\* The operands that were let in and the words that were got are counted, and a new
\* count starts when the driver got the last word of a pixel.
LEMMA IssuedStep ==
  ASSUME Sized, IInv, DriverOK, ControlOK, FiltersOK, PipeOK, Next
  PROVE  IF LastGet THEN issued' = 0 /\ words_got' = 0
         ELSE /\ (gate => issued' = issued + 1) /\ (~gate => issued' = issued)
              /\ IF GetOutput THEN words_got' = words_got + 1 ELSE words_got' = words_got
              /\ driver.step # "batch" => pixel_now' = pixel_now
<1>1. CASE SetOutputBatchSize
  <2>1. driver.step = "batch" /\ driver'.step = "multiplier"
    BY <1>1, SMT DEF SetOutputBatchSize, DriverOK
  <2>2. ~GetOutput /\ ~LastGet
    BY <2>1 DEF GetOutput, LastGet
  <2> QED
    BY <2>1, <2>2, IssuedElsewhere
<1>2. CASE StoreParam
  <2>1. driver.step \in Kinds /\ driver'.step \in Kinds \cup {"filters"}
    BY <1>2, SMT DEF StoreParam, DriverOK, Kinds
  <2>2. ~GetOutput /\ ~LastGet /\ driver.step # "unload" /\ driver'.step # "unload"
    BY <2>1, StepsDiffer DEF GetOutput, LastGet
  <2>3. pixel_now' = pixel_now
    BY <1>2, SMT DEF StoreParam, DriverOK, pixel_now
  <2> QED
    BY <2>2, <2>3, IssuedElsewhere
<1>3. CASE StoreFilterValue
  <2>1. driver.step = "filters" /\ driver'.step \in {"filters", "load"}
    BY <1>3, SMT DEF StoreFilterValue, DriverOK
  <2>2. ~GetOutput /\ ~LastGet
    BY <2>1 DEF GetOutput, LastGet
  <2>3. pixel_now' = pixel_now
    BY <1>3, SMT DEF StoreFilterValue, DriverOK, pixel_now
  <2> QED
    BY <2>1, <2>2, <2>3, IssuedElsewhere
<1>4. CASE StoreInput
  <2>1. driver.step = "load" /\ driver'.step \in {"run", "load"}
    BY <1>4, SMT DEF StoreInput, DriverOK
  <2>2. ~GetOutput /\ ~LastGet
    BY <2>1 DEF GetOutput, LastGet
  <2>3. pixel_now' = pixel_now
    BY <1>4, SMT DEF StoreInput, DriverOK, pixel_now
  <2> QED
    BY <2>1, <2>2, <2>3, IssuedElsewhere
<1>5. CASE MaccRun
  <2>1. driver.step = "run" /\ driver'.step = "unload" /\ driver'.k = driver.k
    BY <1>5, SMT DEF MaccRun, DriverOK
  <2>2. ~GetOutput /\ ~LastGet
    BY <2>1 DEF GetOutput, LastGet
  <2>3. pixel_now' = pixel_now
    BY <1>5, SMT DEF MaccRun, DriverOK, pixel_now
  <2>4. issued = 0 /\ ~gate /\ words_got = 0 /\ ~active
    BY <2>1, IssuedElsewhere
  <2>5. driver.k = 0
    <3>1. driver.k < 1 /\ driver.k \in Nat
      BY <2>1 DEF DriverOK, Limit, Kinds
    <3> QED
      BY <3>1, SMT
  <2>6. Clocked("start_run", None)
    BY <1>5 DEF MaccRun
  <2>7. seq'.start_run /\ seq'.f_count = seq.f_count
    BY <2>4, <2>6, RunStep
  <2>8. issued' = 0 /\ words_got' = 0
    <3>1. seq.f_count = 0
      BY <2>4 DEF ControlOK, active
    <3> QED
      BY <2>1, <2>5, <2>7, <3>1 DEF issued, words_got, active
  <2> QED
    BY <2>1, <2>2, <2>3, <2>4, <2>8
<1>6. CASE GetOutput /\ ~LastGet
  <2>1. driver.step = "unload" /\ driver.k < OutWords - 1 /\ Clocked("get_output", None)
    BY <1>6 DEF GetOutput, LastGet
  <2>2. driver' = [driver EXCEPT !.k = @ + 1]
    BY <1>6, <2>1, UnloadsAll DEF GetOutput
  <2>3. driver'.step = "unload" /\ pixel_now' = pixel_now /\ driver'.k = driver.k + 1
    BY <2>1, <2>2, SMT DEF DriverOK, pixel_now
  <2>4. (gate => issued' = issued + 1) /\ (~gate => issued' = issued)
    BY <2>1, <2>3, IssuedWhileUnloading
  <2>5. words_got' = words_got + 1
    BY <2>1, <2>3 DEF words_got
  <2> QED
    BY <1>6, <2>3, <2>4, <2>5
<1>7. CASE LastGet
  <2>1. driver' = AfterUnload
    BY <1>7, UnloadsAll DEF LastGet, GetOutput
  <2>2. driver'.step \in {"run", "load", "batch", "done"}
    BY <2>1, SMT DEF AfterUnload, DriverOK
  <2> QED
    BY <1>7, <2>2 DEF issued, words_got
<1>8. CASE NoCommand
  <2>1. driver' = driver /\ Clocked("none", None)
    BY <1>8 DEF NoCommand
  <2>2. ~GetOutput
    <3>1. SUFFICES ASSUME GetOutput PROVE FALSE
      OBVIOUS
    <3>2. driver'.step = driver.step /\ driver'.k = driver.k /\ driver.k \in Nat /\ driver.step = "unload"
      BY <2>1, <3>1 DEF GetOutput, DriverOK
    <3>3. driver'.k = driver.k + 1 \/ driver'.step # "unload"
      <4>1. CASE driver.k < OutWords - 1
        BY <3>1, <4>1, UnloadsAll, SMT DEF GetOutput, DriverOK
      <4>2. CASE ~(driver.k < OutWords - 1)
        <5>1. driver' = AfterUnload
          BY <3>1, <4>2, UnloadsAll DEF GetOutput
        <5> QED
          BY <5>1, SMT DEF AfterUnload, DriverOK
      <4> QED
        BY <4>1, <4>2
    <3> QED
      BY <3>2, <3>3, SMT
  <2>3. pixel_now' = pixel_now /\ words_got' = words_got /\ driver'.step = driver.step
    BY <2>1 DEF pixel_now, words_got
  <2>4. (gate => issued' = issued + 1) /\ (~gate => issued' = issued)
    <3>1. CASE driver.step = "unload"
      BY <2>1, <2>3, <3>1, IssuedWhileUnloading
    <3>2. CASE driver.step # "unload"
      BY <2>3, <3>2, IssuedElsewhere
    <3> QED
      BY <3>1, <3>2
  <2> QED
    BY <2>2, <2>3, <2>4 DEF LastGet
<1> QED
  BY <1>1, <1>2, <1>3, <1>4, <1>5, <1>6, <1>7, <1>8 DEF Next, Command, LastGet

\* A run is started after the last one ended, and runs only while the driver waits
\* for its words.
LEMMA ControlStep ==
  ASSUME Sized, IInv, DriverOK, ControlOK, FiltersOK, PipeOK, Next
  PROVE  ControlOK'
<1>1. ASSUME NEW command, NEW value, Clocked(command, value),
             command = "set_output_batch_size" => driver'.step = "multiplier" /\ driver'.k = 0,
             command = "start_run" => driver'.step = "unload" /\ ~active,
             active => driver'.step = "unload"
      PROVE  ControlOK'
  <2>1. /\ restart' = (command = "set_output_batch_size")
        /\ seq'.start_run = (command = "start_run")
        /\ seq'.running = (active /\ ~all_output_finished)
        /\ seq'.f_count \in 0 .. FilterWords - 1
        /\ ~seq'.running => seq'.f_count = 0
    BY <1>1, RunStep
  <2>2. active' = (seq'.running \/ seq'.start_run)
    BY DEF active
  <2>3. FilterWords' = FilterWords
    BY DEF FilterWords
  <2> QED
    BY <1>1, <2>1, <2>2, <2>3 DEF ControlOK
<1>2. driver.step # "unload" => ~active
  BY IssuedElsewhere
<1>3. CASE SetOutputBatchSize
  <2>1. driver.step = "batch" /\ Clocked("set_output_batch_size", None) /\ driver'.step = "multiplier"
    BY <1>3, SMT DEF SetOutputBatchSize, DriverOK
  <2>2. driver'.k = 0
    <3>1. driver.k < 1 /\ driver.k \in Nat
      BY <2>1 DEF DriverOK, Limit, Kinds
    <3>2. driver.k = 0
      BY <3>1, SMT
    <3> QED
      BY <1>3, <3>2, SMT DEF SetOutputBatchSize, DriverOK
  <2> QED
    BY <1>1, <1>2, <2>1, <2>2
<1>4. CASE StoreParam
  <2>1. driver.step \in Kinds /\ Clocked(driver.step, <<driver.batch, driver.k>>)
    BY <1>4 DEF StoreParam
  <2> QED
    BY <1>1, <1>2, <2>1, StepsDiffer
<1>5. CASE StoreFilterValue
  <2>1. driver.step = "filters" /\ Clocked("store_filter_values", <<driver.batch, driver.k>>)
    BY <1>5 DEF StoreFilterValue
  <2> QED
    BY <1>1, <1>2, <2>1
<1>6. CASE StoreInput
  <2>1. driver.step = "load" /\ Clocked("store_input", <<driver.batch, driver.loaded>>)
    BY <1>6 DEF StoreInput
  <2> QED
    BY <1>1, <1>2, <2>1
<1>7. CASE MaccRun
  <2>1. driver.step = "run" /\ Clocked("start_run", None) /\ driver'.step = "unload"
    BY <1>7, SMT DEF MaccRun, DriverOK
  <2> QED
    BY <1>1, <1>2, <2>1
<1>8. CASE GetOutput
  <2>1. Clocked("get_output", None)
    BY <1>8 DEF GetOutput
  <2>2. active => driver'.step = "unload"
    <3>1. CASE LastGet
      BY <3>1, LastGetEndsRun
    <3>2. CASE ~LastGet
      <4>1. driver.step = "unload" /\ driver' = [driver EXCEPT !.k = @ + 1]
        BY <1>8, <3>2, UnloadsAll DEF GetOutput, LastGet
      <4> QED
        BY <4>1, SMT DEF DriverOK
    <3> QED
      BY <3>1, <3>2
  <2> QED
    BY <1>1, <2>1, <2>2
<1>9. CASE NoCommand
  <2>1. Clocked("none", None) /\ driver' = driver
    BY <1>9 DEF NoCommand
  <2> QED
    BY <1>1, <1>2, <2>1
<1> QED
  BY <1>3, <1>4, <1>5, <1>6, <1>7, <1>8, <1>9 DEF Next, Command

\* The pipeline holds the operands of the pixel in the next state.
LEMMA PipeOKStep ==
  ASSUME Sized, CInv, Next, ControlOK', DriverOK'
  PROVE  PipeOK'
<1>1. PICK pixel \in PixelNames, n \in 0 .. FilterWords, k \in 0 .. OutWords :
        pixel = pixel_now /\ n = issued /\ k = words_got /\ InPipe(pixel, n, k)
  BY DEF PipeOK, CInv
<1>2. /\ IInv /\ DriverOK /\ ControlOK /\ PixelsOK /\ ParamsOK
      /\ FiltersOK /\ ReadersOK /\ PipeOK
  BY DEF CInv
<1>3. OutWords \in Nat /\ FilterWords \in Nat /\ k \in Nat /\ n \in Nat
  BY Sizes, SMT
<1>4. IInv'
  BY <1>2, StepInvariant
<1>5. gate => Operands = Term(pixel, n)
  BY <1>1, <1>2, OperandsRight
<1>6. restart => n = 0
  BY <1>1, <1>2, StepsDiffer, IssuedElsewhere DEF ControlOK
<1>7. ASSUME n > 0
      PROVE  /\ pixel \in PixelIds
             /\ \A kind \in Kinds :
                  limit(kind) = Channels
                    /\ params[kind].data = <<pixel[1], params[kind].last_addr>>
  <2>1. driver.step = "unload"
    <3>1. driver.step # "unload" => n = 0
      BY <1>1, <1>2, IssuedElsewhere
    <3> QED
      BY <1>7, <3>1, SMT
  <2>2. Computing /\ ~restart /\ driver.batch < Batches
    BY <1>2, <2>1 DEF Computing, ControlOK, DriverOK
  <2>3. pixel \in PixelIds /\ pixel[1] = driver.batch
    <3>1. driver.batch \in 0 .. Batches - 1 /\ driver.p \in 0 .. Pixels - 1
      BY <1>2, <2>2, Sizes, SMT DEF DriverOK
    <3> QED
      BY <1>1, <3>1 DEF PixelIds, pixel_now
  <2>4. ASSUME NEW kind \in Kinds
        PROVE  limit(kind) = Channels /\ params[kind].data = <<pixel[1], params[kind].last_addr>>
    <3>1. params[kind].count = StoredParams(kind)
      BY <1>2, <2>1, <2>2 DEF ParamsOK
    <3>2. StoredParams(kind) = Channels
      BY <2>1 DEF StoredParams, Kinds
    <3>3. Channels % ParamDepth = Channels
      BY Sizes, SMT DEF Sized
    <3> QED
      BY <1>2, <2>2, <2>3, <3>1, <3>2, <3>3 DEF limit, ParamsOK
  <2> QED
    BY <2>3, <2>4
<1>8. PICK n2, k2 : Follows(n2, n, gate) /\ Follows(k2, k, GetOutput)
  BY DEF Follows
<1>9. gate \in BOOLEAN /\ GetOutput \in BOOLEAN
  BY DEF gate, GetOutput
<1>10. /\ n2 \in Nat /\ (gate => n2 = n + 1) /\ (~gate => n2 = n)
       /\ k2 \in Nat /\ (GetOutput => k2 = k + 1) /\ (~GetOutput => k2 = k)
  BY <1>3, <1>8, <1>9, FollowsValue
<1>11. InPipe(pixel, n2, k2)'
  <2>1. CASE GetOutput
    <3>1. Clocked("get_output", None) /\ oq.out # None
      BY <2>1 DEF GetOutput
    <3>2. Follows(k2, k, "get_output" = "get_output" /\ oq.out # None)
      BY <1>8, <2>1, <3>1 DEF Follows, Bit
    <3> QED
      BY <1>1, <1>2, <1>3, <1>5, <1>6, <1>7, <1>8, <3>1, <3>2, PipeStep
  <2>2. CASE ~GetOutput
    <3>1. PICK command, value : Clocked(command, value) /\ command # "get_output"
      <4>1. CASE SetOutputBatchSize
        BY <4>1 DEF SetOutputBatchSize
      <4>2. CASE StoreParam
        BY <4>2, StepsDiffer DEF StoreParam
      <4>3. CASE StoreFilterValue
        BY <4>3 DEF StoreFilterValue
      <4>4. CASE StoreInput
        BY <4>4 DEF StoreInput
      <4>5. CASE MaccRun
        BY <4>5 DEF MaccRun
      <4>6. CASE NoCommand
        BY <4>6 DEF NoCommand
      <4> QED
        BY <2>2, <4>1, <4>2, <4>3, <4>4, <4>5, <4>6 DEF Next, Command
    <3>2. Follows(k2, k, command = "get_output" /\ oq.out # None)
      BY <1>8, <2>2, <3>1 DEF Follows, Bit
    <3> QED
      BY <1>1, <1>2, <1>3, <1>5, <1>6, <1>7, <1>8, <3>1, <3>2, PipeStep
  <2> QED
    BY <2>1, <2>2
<1>12. /\ driver'.batch \in 0 .. Batches /\ driver'.p \in 0 .. Pixels - 1
       /\ issued' \in 0 .. FilterWords /\ words_got' \in 0 .. OutWords
  <2>1. issued' \in 0 .. FilterWords
    <3>1. /\ FilterWords' = FilterWords
          /\ (active' /\ driver'.step = "unload") => seq'.f_count \in 0 .. FilterWords
      <4>1. seq'.f_count \in 0 .. FilterWords - 1
        BY DEF ControlOK
      <4> QED
        BY <1>3, <4>1, SMT
    <3>2. 0 \in 0 .. FilterWords /\ FilterWords \in 0 .. FilterWords
      BY <1>3, SMT
    <3> QED
      BY <3>1, <3>2 DEF issued
  <2>2. words_got' \in 0 .. OutWords
    <3>1. 0 \in 0 .. OutWords
      BY <1>3, SMT
    <3>2. driver'.step = "unload" => driver'.k < OutWords /\ driver'.k \in Nat
      BY DEF DriverOK, Limit, Kinds
    <3>3. driver'.step = "unload" => driver'.k \in 0 .. OutWords
      BY <1>3, <3>2, SMT
    <3> QED
      BY <3>1, <3>3 DEF words_got
  <2> QED
    BY <2>1, <2>2 DEF DriverOK
<1>13. pixel_now' \in PixelNames
  BY <1>12 DEF pixel_now, PixelNames
<1>14. CASE LastGet
  <2>1. n = FilterWords /\ ~gate /\ k = OutWords - 1 /\ GetOutput
    BY <1>1, <1>2, <1>14, LastGetEndsRun DEF LastGet
  <2>2. n2 \in 0 .. FilterWords /\ k2 = OutWords
    BY <1>3, <1>10, <2>1, SMT
  <2>3. \A pixel2 : InPipe(pixel2, 0, 0)'
    BY <1>4, <1>10, <1>11, <2>2, EmptyPipeNext DEF IInv
  <2>4. issued' = 0 /\ words_got' = 0
    BY <1>2, <1>14, IssuedStep
  <2>5. PICK pixel2 \in PixelNames : pixel2 = pixel_now'
    BY <1>13
  <2>6. 0 \in 0 .. FilterWords /\ 0 \in 0 .. OutWords
    BY <1>3, SMT
  <2> QED
    BY <2>3, <2>4, <2>5, <2>6 DEF PipeOK
<1>15. CASE ~LastGet
  <2>1. /\ (gate => issued' = issued + 1) /\ (~gate => issued' = issued)
        /\ IF GetOutput THEN words_got' = words_got + 1 ELSE words_got' = words_got
        /\ driver.step # "batch" => pixel_now' = pixel_now
    BY <1>2, <1>15, IssuedStep
  <2>2. n2 = issued' /\ k2 = words_got'
    BY <1>1, <1>9, <1>10, <2>1
  <2>3. n2 \in 0 .. FilterWords /\ k2 \in 0 .. OutWords
    BY <1>12, <2>2
  <2>4. CASE driver.step # "batch"
    <3>1. pixel = pixel_now'
      BY <1>1, <2>1, <2>4
    <3> QED
      BY <1>11, <2>2, <2>3, <3>1 DEF PipeOK
  <2>5. CASE driver.step = "batch"
    <3>1. n = 0 /\ k = 0 /\ ~gate /\ ~GetOutput
      BY <1>1, <1>2, <2>5, IssuedElsewhere DEF GetOutput
    <3>2. n2 = 0 /\ k2 = 0
      BY <1>10, <3>1
    <3>3. \A pixel2 : InPipe(pixel2, 0, 0)'
      BY <1>4, <1>10, <1>11, <2>3, <3>2, EmptyPipeNext DEF IInv
    <3>4. PICK pixel2 \in PixelNames : pixel2 = pixel_now'
      BY <1>13
    <3> QED
      BY <2>2, <2>3, <3>2, <3>3, <3>4 DEF PipeOK
  <2> QED
    BY <2>4, <2>5
<1> QED
  BY <1>14, <1>15

-----------------------------------------------------------------------------
(* The pixels in the input store                                           *)

\* A run of no pixels.
LEMMA RunOfNone ==
  ASSUME NEW batch, NEW p, NEW count \in Nat
  PROVE  /\ PixelRun(batch, p, 0) = <<>>
         /\ PixelRun(batch, p, count) # <<>> => count > 0
<1>1. PixelRun(batch, p, 0) = <<>>
  BY SMT DEF PixelRun
<1>2. count = 0 \/ count > 0
  BY SMT
<1> QED
  BY <1>1, <1>2

\* A run of pixels is a sequence.
LEMMA RunIsSequence ==
  ASSUME NEW batch, NEW p \in Nat, NEW count \in Nat
  PROVE  \E S : PixelRun(batch, p, count) \in Seq(S) /\ Len(PixelRun(batch, p, count)) = count
<1> DEFINE S == {<<batch, p + j - 1>> : j \in 1 .. count}
<1>1. PixelRun(batch, p, count) \in [1 .. count -> S]
  BY DEF PixelRun
<1> HIDE DEF S
<1> QED
  BY <1>1, FunctionIsSequence

\* A run of pixels without its first.
LEMMA RunTail ==
  ASSUME NEW batch, NEW p \in Nat, NEW count \in Nat \ {0}
  PROVE  Tail(PixelRun(batch, p, count)) = PixelRun(batch, p + 1, count - 1)
<1> DEFINE s == PixelRun(batch, p, count)
           t == PixelRun(batch, p + 1, count - 1)
<1>1. count \in Nat /\ count - 1 \in Nat /\ p + 1 \in Nat
  BY SMT
<1>2. PICK S : s \in Seq(S) /\ Len(s) = count
  BY <1>1, RunIsSequence
<1>3. PICK T : t \in Seq(T) /\ Len(t) = count - 1
  BY <1>1, RunIsSequence
<1>4. \A j \in 1 .. count : s[j] = <<batch, p + j - 1>>
  BY DEF PixelRun
<1>5. \A j \in 1 .. count - 1 : t[j] = <<batch, p + 1 + j - 1>>
  BY DEF PixelRun
<1> HIDE DEF s, t
<1>6. s # <<>>
  BY <1>2, SMT
<1>7. /\ Tail(s) \in Seq(S) /\ Len(Tail(s)) = count - 1
      /\ \A j \in 1 .. count - 1 : Tail(s)[j] = s[j + 1]
  BY <1>2, <1>6, TailElements
<1>8. \A j \in 1 .. count - 1 : Tail(s)[j] = t[j]
  <2> TAKE j \in 1 .. count - 1
  <2>1. j + 1 \in 1 .. count /\ p + (j + 1) - 1 = p + 1 + j - 1
    BY SMT
  <2> QED
    BY <1>4, <1>5, <1>7, <2>1
<1> DEFINE u == Tail(s)
<1>9. u \in Seq(S) /\ Len(u) = Len(t) /\ \A j \in 1 .. Len(t) : u[j] = t[j]
  BY <1>3, <1>7, <1>8
<1> HIDE DEF u
<1>10. u = t
  BY <1>3, <1>9, SMT
<1> QED
  BY <1>10 DEF u, s, t

\* A run of pixels and the next.
LEMMA RunAppend ==
  ASSUME NEW batch, NEW p \in Nat, NEW count \in Nat
  PROVE  Append(PixelRun(batch, p, count), <<batch, p + count>>) = PixelRun(batch, p, count + 1)
<1> DEFINE s == PixelRun(batch, p, count)
           t == PixelRun(batch, p, count + 1)
           x == <<batch, p + count>>
<1>1. count + 1 \in Nat
  BY SMT
<1>2. PICK S : s \in Seq(S) /\ Len(s) = count
  BY RunIsSequence
<1>3. PICK T : t \in Seq(T) /\ Len(t) = count + 1
  BY <1>1, RunIsSequence
<1>4. \A j \in 1 .. count : s[j] = <<batch, p + j - 1>>
  BY DEF PixelRun
<1>5. \A j \in 1 .. count + 1 : t[j] = <<batch, p + j - 1>>
  BY DEF PixelRun
<1> DEFINE U == S \cup {x}
<1> HIDE DEF s, t
<1>6. s \in Seq(U) /\ x \in U
  <2> HIDE DEF x
  <2> QED
    BY <1>2, SMT
<1> HIDE DEF U
<1> DEFINE u == Append(s, x)
<1>7. u \in Seq(U) /\ Len(u) = count + 1 /\ u[count + 1] = x /\ \A j \in 1 .. count : u[j] = s[j]
  <2> HIDE DEF x
  <2> QED
    BY <1>2, <1>6, AppendElements
<1>8. \A j \in 1 .. count + 1 : u[j] = t[j]
  <2> TAKE j \in 1 .. count + 1
  <2>1. CASE j = count + 1
    <3>1. p + j - 1 = p + count
      BY <2>1, SMT
    <3> QED
      BY <1>5, <1>7, <2>1, <3>1
  <2>2. CASE j # count + 1
    <3>1. j \in 1 .. count
      BY <2>2, SMT
    <3> QED
      BY <1>4, <1>5, <1>7, <3>1
  <2> QED
    BY <2>1, <2>2
<1> HIDE DEF u, x
<1>9. u = t
  BY <1>3, <1>7, <1>8, SMT
<1> QED
  BY <1>9 DEF u, s, t, x

\* Which pixel is first in the store.
LEMMA FirstPixel ==
  /\ DriverOK /\ (driver.step = "unload" => active) => first = driver.p
  /\ DriverOK /\ driver.step = "unload" /\ ~active => first = driver.p + 1
<1>1. CASE driver.step = "unload" /\ ~active
  BY <1>1 DEF first, Bit
<1>2. CASE DriverOK /\ ~(driver.step = "unload" /\ ~active)
  <2>1. driver.p + 0 = driver.p
    BY <1>2, Sizes, SMT DEF DriverOK
  <2> QED
    BY <1>2, <2>1 DEF first, Bit
<1> QED
  BY <1>1, <1>2

\* The same of the next state.
LEMMA FirstPixelNext ==
  (/\ DriverOK /\ (driver.step = "unload" => active) => first = driver.p
   /\ DriverOK /\ driver.step = "unload" /\ ~active => first = driver.p + 1)'
BY FirstPixel, PTL

\* How many there are.
LEMMA WaitingType ==
  ASSUME DriverOK
  PROVE  waiting \in Nat /\ first \in Nat /\ driver.loaded \in Nat /\ driver.p \in Nat
<1>1. /\ driver.loaded \in 0 .. Pixels /\ driver.p \in 0 .. Pixels - 1 /\ Pixels \in Nat \ {0}
      /\ driver.step = "load" =>
           IF driver.p = 0 THEN driver.loaded \in 0 .. 1 ELSE driver.loaded = driver.p + 1
      /\ driver.step \in {"run", "unload"} => driver.loaded = LoadsBefore(driver.p)
  BY Sizes DEF DriverOK
<1>2. LoadsBefore(driver.p) >= driver.p + 1 /\ LoadsBefore(driver.p) \in Nat
  BY <1>1, SMT DEF LoadsBefore
<1>3. first = driver.p \/ (driver.step = "unload" /\ first = driver.p + 1)
  BY FirstPixel
<1>4. first \in Nat /\ driver.loaded \in Nat /\ driver.p \in Nat
  BY <1>1, <1>3, SMT
<1>5. ASSUME Computing PROVE driver.loaded - first \in Nat
  <2>1. driver.loaded >= first
    BY <1>1, <1>2, <1>3, <1>4, <1>5, SMT DEF Computing
  <2> QED
    BY <1>4, <2>1, SMT
<1> QED
  BY <1>4, <1>5 DEF waiting

StoredPixel == StoreInput /\ driver.k = InputWords - 1

\* How a step changes them.
PixelTaken ==
  driver'.batch = driver.batch /\ first' = first + 1 /\ waiting' = waiting - 1

PixelAdded ==
  /\ driver'.batch = driver.batch /\ first' = first /\ waiting' = waiting + 1
  /\ driver.loaded = first + waiting

PixelsStay ==
  waiting' = waiting /\ (waiting = 0 \/ (driver'.batch = driver.batch /\ first' = first))

\* The pixels in the store change with the driver's counters.
LEMMA WaitingStep ==
  ASSUME Sized, IInv, DriverOK, ControlOK, FiltersOK, PipeOK, Next, DriverOK', ControlOK'
  PROVE  IF StoredPixel THEN PixelAdded /\ ~all_output_finished
         ELSE IF all_output_finished THEN PixelTaken ELSE PixelsStay
<1>1. waiting \in Nat /\ first \in Nat /\ driver.loaded \in Nat /\ driver.p \in Nat
  BY WaitingType
<1>2. driver.step # "unload" => ~gate /\ ~all_output_finished /\ ~active
  BY IssuedElsewhere DEF all_output_finished
<1>3. CASE SetOutputBatchSize
  <2>1. driver.step = "batch" /\ driver'.step = "multiplier"
    BY <1>3, SMT DEF SetOutputBatchSize, DriverOK
  <2>2. waiting = 0 /\ waiting' = 0
    BY <2>1 DEF waiting, Computing
  <2> QED
    BY <1>2, <2>1, <2>2 DEF StoredPixel, StoreInput, PixelsStay
<1>4. CASE StoreParam
  <2>1. driver.step \in Kinds /\ driver'.step \in Kinds \cup {"filters"}
    BY <1>4, SMT DEF StoreParam, DriverOK, Kinds
  <2>2. waiting = 0 /\ waiting' = 0 /\ driver.step # "unload" /\ driver.step # "load"
    BY <2>1, StepsDiffer DEF waiting, Computing
  <2> QED
    BY <1>2, <2>1, <2>2 DEF StoredPixel, StoreInput, PixelsStay
<1>5. CASE StoreFilterValue
  <2>1. driver.step = "filters" /\ driver'.step \in {"filters", "load"} /\ driver'.p = 0 /\ driver'.loaded = 0
    BY <1>5, SMT DEF StoreFilterValue, DriverOK
  <2>2. first' = 0
    BY <2>1, FirstPixelNext
  <2>3. waiting = 0 /\ waiting' = 0
    BY <2>1, <2>2, SMT DEF waiting, Computing
  <2> QED
    BY <1>2, <2>1, <2>3 DEF StoredPixel, StoreInput, PixelsStay
<1>6. CASE StoreInput
  <2>1. driver.step = "load" /\ driver'.step \in {"run", "load"} /\ driver'.p = driver.p /\ driver'.batch = driver.batch
    BY <1>6, SMT DEF StoreInput, DriverOK
  <2>2. first = driver.p /\ first' = driver.p
    BY <2>1, FirstPixel, FirstPixelNext
  <2>3. waiting = driver.loaded - first /\ waiting' = driver'.loaded - first'
    BY <2>1 DEF waiting, Computing
  <2>4. CASE StoredPixel
    <3>1. driver'.loaded = driver.loaded + 1
      BY <1>6, <2>4, SMT DEF StoreInput, DriverOK, StoredPixel
    <3>2. waiting' = waiting + 1 /\ driver.loaded = first + waiting
      BY <1>1, <2>2, <2>3, <3>1, SMT
    <3> QED
      BY <1>2, <2>1, <2>2, <2>4, <3>2 DEF PixelAdded
  <2>5. CASE ~StoredPixel
    <3>1. driver'.loaded = driver.loaded
      BY <1>6, <2>5, SMT DEF StoreInput, DriverOK, StoredPixel
    <3> QED
      BY <1>2, <2>1, <2>2, <2>3, <2>5, <3>1 DEF PixelsStay
  <2> QED
    BY <2>4, <2>5
<1>7. CASE MaccRun
  <2>1. /\ driver.step = "run" /\ driver'.step = "unload" /\ driver'.p = driver.p
        /\ driver'.batch = driver.batch /\ driver'.loaded = driver.loaded
    BY <1>7, SMT DEF MaccRun, DriverOK
  <2>2. active'
    <3>1. Clocked("start_run", None)
      BY <1>7 DEF MaccRun
    <3> QED
      BY <3>1, RunStep DEF active
  <2>3. first = driver.p /\ first' = driver.p
    BY <2>1, <2>2, FirstPixel, FirstPixelNext
  <2>4. waiting' = waiting
    BY <2>1, <2>3 DEF waiting, Computing
  <2> QED
    BY <1>2, <2>1, <2>3, <2>4 DEF StoredPixel, StoreInput, PixelsStay
<1>8. CASE LastGet
  <2>1. driver.step = "unload" /\ ~active /\ ~all_output_finished
    BY <1>8, LastGetEndsRun DEF LastGet, GetOutput, all_output_finished
  <2>2. driver' = AfterUnload /\ first = driver.p + 1 /\ ~StoredPixel
    BY <1>8, <2>1, UnloadsAll, FirstPixel DEF LastGet, GetOutput, StoredPixel, StoreInput
  <2>3. waiting = driver.loaded - first
    BY <2>1 DEF waiting, Computing
  <2>4. CASE driver.p < Pixels - 1
    <3>1. /\ driver'.step \in {"run", "load"} /\ driver'.p = driver.p + 1
          /\ driver'.batch = driver.batch /\ driver'.loaded = driver.loaded
      BY <2>2, <2>4, SMT DEF AfterUnload, DriverOK
    <3>2. first' = driver.p + 1
      BY <3>1, FirstPixelNext
    <3>3. waiting' = waiting
      BY <2>2, <2>3, <3>1, <3>2 DEF waiting, Computing
    <3> QED
      BY <2>1, <2>2, <3>1, <3>2, <3>3 DEF PixelsStay
  <2>5. CASE ~(driver.p < Pixels - 1)
    <3>1. driver'.step \in {"batch", "done"}
      BY <2>2, <2>5, SMT DEF AfterUnload, DriverOK
    <3>2. waiting' = 0
      BY <3>1 DEF waiting, Computing
    <3>3. driver.p \in 0 .. Pixels - 1 /\ driver.loaded = LoadsBefore(driver.p) /\ Pixels \in Nat \ {0}
      BY <2>1, Sizes DEF DriverOK
    <3>4. waiting = 0
      BY <2>2, <2>3, <2>5, <3>3, SMT DEF LoadsBefore
    <3> QED
      BY <2>1, <2>2, <3>2, <3>4 DEF PixelsStay
  <2> QED
    BY <2>4, <2>5
<1>9. CASE (GetOutput /\ ~LastGet) \/ NoCommand
  <2>1. PICK command, value : Clocked(command, value) /\ command # "start_run"
    BY <1>9 DEF GetOutput, NoCommand
  <2>2. /\ driver'.step = driver.step /\ driver'.p = driver.p /\ driver'.batch = driver.batch
        /\ driver'.loaded = driver.loaded
    <3>1. CASE NoCommand
      BY <3>1 DEF NoCommand
    <3>2. CASE GetOutput /\ ~LastGet
      <4>1. driver' = [driver EXCEPT !.k = @ + 1]
        BY <3>2, UnloadsAll DEF GetOutput, LastGet
      <4> QED
        BY <4>1, SMT DEF DriverOK
    <3> QED
      BY <1>9, <3>1, <3>2
  <2>3. active' <=> active /\ ~all_output_finished
    BY <2>1, RunStep DEF active
  <2>4. ~StoredPixel
    <3>1. ASSUME StoredPixel PROVE FALSE
      <4>1. driver'.loaded = driver.loaded + 1
        BY <3>1, SMT DEF StoredPixel, StoreInput, DriverOK
      <4> QED
        BY <1>1, <2>2, <4>1, SMT
    <3> QED
      BY <3>1
  <2>5. CASE all_output_finished
    <3>1. driver.step = "unload" /\ active
      BY <2>5, GateOpen DEF all_output_finished
    <3>2. first = driver.p /\ first' = driver.p + 1
      BY <2>2, <2>3, <2>5, <3>1, FirstPixel, FirstPixelNext
    <3>3. waiting = driver.loaded - first /\ waiting' = driver.loaded - first'
      BY <2>2, <3>1 DEF waiting, Computing
    <3>4. waiting' = waiting - 1
      BY <1>1, <3>2, <3>3, SMT
    <3> QED
      BY <2>2, <2>4, <2>5, <3>2, <3>4 DEF PixelTaken
  <2>6. CASE ~all_output_finished
    <3>1. first' = first
      BY <2>2, <2>3, <2>6, FirstPixel, FirstPixelNext
    <3>2. waiting' = waiting
      BY <2>2, <3>1 DEF waiting, Computing
    <3> QED
      BY <2>2, <2>4, <2>6, <3>1, <3>2 DEF PixelsStay
  <2> QED
    BY <2>5, <2>6
<1> QED
  BY <1>3, <1>4, <1>5, <1>6, <1>7, <1>8, <1>9 DEF Next, Command

\* The word of the pixel that the store shows is the one that comes next.
LEMMA PositionStep ==
  ASSUME Sized, IInv, DriverOK, ControlOK, PixelsOK, FiltersOK, PipeOK, Next,
         NEW command, NEW value, Clocked(command, value)
  PROVE  ins'.pos = issued' % InputWords
<1>1. ins'.pos = IF all_output_finished THEN 0 ELSE Count(gate, ins.pos, InputWords)
  BY DEF Clocked, Input
<1>2. ins.pos = issued % InputWords
  BY DEF PixelsOK
<1>3. /\ InputWords \in Nat \ {0} /\ FilterWords \in Nat \ {0} /\ FilterWords % InputWords = 0
      /\ 0 % InputWords = 0 /\ FilterWords - 1 + 1 = FilterWords
  BY Sizes, SMT
<1>4. all_output_finished <=> gate /\ seq.f_count = FilterWords - 1
  BY RunStep
<1>5. CASE LastGet
  <2>1. issued = FilterWords /\ ~gate /\ issued' = 0
    BY <1>5, LastGetEndsRun, IssuedStep
  <2>2. ins'.pos = ins.pos
    BY <1>1, <1>4, <2>1 DEF Count
  <2> QED
    BY <1>2, <1>3, <2>1, <2>2
<1>6. CASE ~LastGet /\ ~gate
  <2>1. issued' = issued
    BY <1>6, IssuedStep
  <2>2. ins'.pos = ins.pos
    BY <1>1, <1>4, <1>6 DEF Count
  <2> QED
    BY <1>2, <2>1, <2>2
<1>7. CASE ~LastGet /\ gate
  <2>1. issued' = issued + 1 /\ issued = seq.f_count /\ issued \in Nat
    <3>1. issued \in 0 .. FilterWords - 1
      BY <1>7, GateOpen
    <3> QED
      BY <1>3, <1>7, <3>1, IssuedStep, GateOpen, SMT
  <2>2. CASE all_output_finished
    <3>1. ins'.pos = 0 /\ issued' = FilterWords
      BY <1>1, <1>3, <1>4, <2>1, <2>2
    <3> QED
      BY <1>3, <3>1
  <2>3. CASE ~all_output_finished
    <3>1. ins'.pos = IF issued % InputWords = InputWords - 1 THEN 0 ELSE (issued % InputWords) + 1
      BY <1>1, <1>2, <1>7, <2>3 DEF Count
    <3> QED
      BY <1>3, <2>1, <3>1, NextRemainder
  <2> QED
    BY <2>2, <2>3
<1> QED
  BY <1>5, <1>6, <1>7

\* The pixels are in the store in the order in which the driver needs them.
LEMMA PixelsStep ==
  ASSUME Sized, IInv, DriverOK, ControlOK, PixelsOK, FiltersOK, PipeOK, Next, DriverOK', ControlOK'
  PROVE  PixelsOK'
<1>1. waiting \in Nat /\ first \in Nat
  BY WaitingType
<1>2. InputWords \in Nat \ {0} /\ driver.k \in Nat
  BY Sizes DEF DriverOK
<1>3. ins.pixels = PixelRun(driver.batch, first, waiting)
  BY DEF PixelsOK
<1>4. ins.ready /\ all_output_finished => waiting > 0
  BY DEF PixelsOK
<1>5. all_output_finished => gate /\ ins.ready
  BY DEF all_output_finished, gate
<1>6. CASE StoreInput
  <2>1. /\ driver.step = "load" /\ driver.k < InputWords
        /\ Clocked("store_input", <<driver.batch, driver.loaded>>)
    BY <1>6 DEF StoreInput, DriverOK, Limit, Kinds
  <2>2. ~all_output_finished
    BY <1>5, <2>1, IssuedElsewhere
  <2>3. ins.partial = driver.k
    BY <2>1 DEF PixelsOK
  <2>4. /\ ins'.pixels = IF driver.k = InputWords - 1
                         THEN Append(ins.pixels, <<driver.batch, driver.loaded>>) ELSE ins.pixels
        /\ ins'.partial = (driver.k + 1) % InputWords
        /\ ins'.ready = (ins.pixels # <<>>)
    BY <2>1, <2>2, <2>3, SMT DEF Clocked, Input
  <2>5. CASE driver.k = InputWords - 1
    <3>1. PixelAdded
      BY <1>6, <2>5, WaitingStep DEF StoredPixel
    <3>2. ins'.pixels = PixelRun(driver.batch, first, waiting + 1)
      BY <1>1, <1>3, <2>4, <2>5, <3>1, RunAppend DEF PixelAdded
    <3>3. ins'.pixels = PixelRun(driver'.batch, first', waiting')
      BY <3>1, <3>2 DEF PixelAdded
    <3>4. waiting' > 0
      BY <1>1, <3>1, SMT DEF PixelAdded
    <3>5. ins'.partial = IF driver'.step = "load" THEN driver'.k ELSE 0
      <4>1. driver'.k = 0
        BY <1>6, <2>5, SMT DEF StoreInput, DriverOK
      <4>2. (driver.k + 1) % InputWords = 0
        BY <1>2, <2>5, SMT
      <4> QED
        BY <2>4, <4>1, <4>2
    <3> QED
      BY <2>1, <2>4, <3>3, <3>4, <3>5, PositionStep DEF PixelsOK
  <2>6. CASE driver.k # InputWords - 1
    <3>1. PixelsStay
      BY <1>6, <2>2, <2>6, WaitingStep DEF StoredPixel
    <3>2. ins'.pixels = PixelRun(driver'.batch, first', waiting')
      BY <1>3, <2>4, <2>6, <3>1, RunOfNone DEF PixelsStay
    <3>3. ins'.ready => waiting' > 0
      BY <1>1, <1>3, <2>4, <3>1, RunOfNone DEF PixelsStay
    <3>4. ins'.partial = IF driver'.step = "load" THEN driver'.k ELSE 0
      <4>1. driver'.k = driver.k + 1 /\ driver'.step = "load"
        BY <1>6, <2>6, SMT DEF StoreInput, DriverOK
      <4>2. (driver.k + 1) % InputWords = driver.k + 1
        BY <1>2, <2>1, <2>6, SMT
      <4> QED
        BY <2>4, <4>1, <4>2
    <3> QED
      BY <2>1, <2>4, <3>2, <3>3, <3>4, PositionStep DEF PixelsOK
  <2> QED
    BY <2>5, <2>6
<1>7. CASE ~StoreInput
  <2>1. PICK command, value :
          /\ Clocked(command, value) /\ command # "store_input"
          /\ driver'.step = "load" => IF driver.step = "load" THEN driver'.k = driver.k ELSE driver'.k = 0
    <3>1. CASE SetOutputBatchSize
      BY <3>1, SMT DEF SetOutputBatchSize, DriverOK
    <3>2. CASE StoreParam
      <4>1. driver.step \in Kinds /\ driver'.step \in Kinds \cup {"filters"}
        BY <3>2, SMT DEF StoreParam, DriverOK, Kinds
      <4> QED
        BY <3>2, <4>1, StepsDiffer DEF StoreParam
    <3>3. CASE StoreFilterValue
      <4>1. driver'.step = "load" => driver'.k = 0
        BY <3>3, SMT DEF StoreFilterValue, DriverOK
      <4> QED
        BY <3>3, <4>1 DEF StoreFilterValue
    <3>4. CASE MaccRun
      <4>1. driver'.step = "unload"
        BY <3>4, SMT DEF MaccRun, DriverOK
      <4> QED
        BY <3>4, <4>1 DEF MaccRun
    <3>5. CASE GetOutput
      <4>1. driver'.step = "load" => driver'.k = 0
        BY <3>5, SMT DEF GetOutput, AfterUnload, DriverOK
      <4> QED
        BY <3>5, <4>1 DEF GetOutput
    <3>6. CASE NoCommand
      <4>1. driver'.step = "load" => IF driver.step = "load" THEN driver'.k = driver.k ELSE driver'.k = 0
        BY <3>6 DEF NoCommand
      <4> QED
        BY <3>6, <4>1 DEF NoCommand
    <3> QED
      BY <1>7, <3>1, <3>2, <3>3, <3>4, <3>5, <3>6 DEF Next, Command
  <2>2. /\ ins'.pixels = IF all_output_finished THEN Tail(ins.pixels) ELSE ins.pixels
        /\ ins'.partial = ins.partial
        /\ ins'.ready = (ins.pixels # <<>> /\ ~all_output_finished)
    BY <2>1, SMT DEF Clocked, Input
  <2>3. ins'.partial = IF driver'.step = "load" THEN driver'.k ELSE 0
    <3>1. CASE driver.step = "load"
      <4>1. driver'.step = "load"
        <5>1. driver' = driver
          BY <1>7, <3>1, StepsDiffer DEF Next, Command, SetOutputBatchSize, StoreParam,
             StoreFilterValue, MaccRun, GetOutput, NoCommand
        <5> QED
          BY <3>1, <5>1
      <4> QED
        BY <2>1, <2>2, <3>1, <4>1 DEF PixelsOK
    <3>2. CASE driver.step # "load"
      BY <2>1, <2>2, <3>2 DEF PixelsOK
    <3> QED
      BY <3>1, <3>2
  <2>4. CASE all_output_finished
    <3>1. PixelTaken /\ waiting > 0
      BY <1>4, <1>5, <1>7, <2>4, WaitingStep DEF StoredPixel
    <3>2. waiting \in Nat \ {0}
      BY <1>1, <3>1, SMT
    <3>3. ins'.pixels = PixelRun(driver'.batch, first', waiting')
      BY <1>1, <1>3, <2>2, <2>4, <3>1, <3>2, RunTail DEF PixelTaken
    <3> QED
      BY <2>1, <2>2, <2>3, <2>4, <3>3, PositionStep DEF PixelsOK
  <2>5. CASE ~all_output_finished
    <3>1. PixelsStay
      BY <1>7, <2>5, WaitingStep DEF StoredPixel
    <3>2. ins'.pixels = PixelRun(driver'.batch, first', waiting')
      BY <1>3, <2>2, <2>5, <3>1, RunOfNone DEF PixelsStay
    <3>3. ins'.ready => waiting' > 0
      BY <1>1, <1>3, <2>2, <3>1, RunOfNone DEF PixelsStay
    <3> QED
      BY <2>1, <2>2, <2>3, <3>2, <3>3, PositionStep DEF PixelsOK
  <2> QED
    BY <2>4, <2>5
<1> QED
  BY <1>6, <1>7

-----------------------------------------------------------------------------
(* The parameters                                                          *)

\* The parameter that a memory shows is one of those that were stored.
LEMMA AddressesInRange ==
  ASSUME IInv, PipeOK
  PROVE  \A k \in Kinds : params[k].last_addr \in 0 .. Channels - 1
<1>1. PICK pixel \in PixelNames, n \in 0 .. FilterWords, k \in 0 .. OutWords : InPipe(pixel, n, k)
  BY DEF PipeOK
<1>2. PICK m \in Nat, r \in Nat, b \in Nat, w \in Nat :
        /\ Multiplying(pixel, n, m) /\ Accumulating(pixel, m, r) /\ ParamsAt(r)
        /\ PostProcessing(pixel, r, b) /\ Assembling(pixel, b, w)
  BY <1>1 DEF InPipe
<1>3. r \in 0 .. Channels
  BY <1>2, PipeBounds DEF IInv
<1>4. (IF r = Channels THEN 0 ELSE r) \in 0 .. Channels - 1
  BY <1>3, Sizes, SMT
<1> QED
  BY <1>2, <1>4 DEF ParamsAt

\* The stores of the parameters after a cycle.
LEMMA ParamStoresStep ==
  ASSUME NEW command, NEW value, ParamStores(command, value, acc_done), NEW k \in Kinds
  PROVE  /\ params'[k].count = NextCount(params[k].count, k = command)
         /\ params'[k].mem = IF k = command /\ ~restart
                             THEN [params[k].mem EXCEPT ![params[k].count % ParamDepth] = value]
                             ELSE params[k].mem
         /\ params'[k].last_addr = r_addr(k, acc_done)
         /\ params'[k].data = params[k].mem[r_addr(k, acc_done)]
BY SMT DEF ParamStores

\* The driver's way through a batch.
Loading == driver.step \in {"filters", "load", "run", "unload"}

\* A step that stores no parameter and is neither the first of a batch nor its last.
LEMMA BatchGoesOn ==
  ASSUME Sized, DriverOK, ControlOK, Next, ~StoreParam, driver'.step \notin {"batch", "done"}, ~restart'
  PROVE  /\ driver.step \notin {"batch", "done"} /\ driver'.batch = driver.batch
         /\ \/ driver' = driver
            \/ Loading /\ Loading' /\ driver.step \notin Kinds /\ driver'.step \notin Kinds
         /\ restart => driver' = driver
         /\ Computing' => Loading
<1>1. CASE SetOutputBatchSize
  BY <1>1 DEF SetOutputBatchSize, Clocked
<1>2. CASE StoreFilterValue
  <2>1. driver.step = "filters" /\ driver'.batch = driver.batch /\ driver'.step \in {"filters", "load"}
    BY <1>2, SMT DEF StoreFilterValue, DriverOK
  <2>2. ~restart
    BY <2>1 DEF ControlOK
  <2> QED
    BY <2>1, <2>2, StepsDiffer DEF Loading
<1>3. CASE StoreInput
  <2>1. driver.step = "load" /\ driver'.batch = driver.batch /\ driver'.step \in {"run", "load"}
    BY <1>3, SMT DEF StoreInput, DriverOK
  <2>2. ~restart
    BY <2>1 DEF ControlOK
  <2> QED
    BY <2>1, <2>2, StepsDiffer DEF Loading
<1>4. CASE MaccRun
  <2>1. driver.step = "run" /\ driver'.batch = driver.batch /\ driver'.step = "unload"
    BY <1>4, SMT DEF MaccRun, DriverOK
  <2>2. ~restart
    BY <2>1 DEF ControlOK
  <2> QED
    BY <2>1, <2>2, StepsDiffer DEF Loading
<1>5. CASE GetOutput
  <2>1. driver.step = "unload"
    BY <1>5 DEF GetOutput
  <2>2. driver'.batch = driver.batch /\ driver'.step \in {"unload", "run", "load"}
    <3>1. driver' = [driver EXCEPT !.k = @ + 1] \/ driver' = AfterUnload
      BY <1>5 DEF GetOutput
    <3>2. CASE driver' = [driver EXCEPT !.k = @ + 1]
      BY <2>1, <3>2, SMT DEF DriverOK
    <3>3. CASE driver' = AfterUnload
      BY <2>1, <3>3, SMT DEF DriverOK, AfterUnload
    <3> QED
      BY <3>1, <3>2, <3>3
  <2>3. ~restart
    BY <2>1 DEF ControlOK
  <2> QED
    BY <2>1, <2>2, <2>3, StepsDiffer DEF Loading
<1>6. CASE NoCommand
  BY <1>6 DEF NoCommand, Computing, Loading
<1> QED
  BY <1>1, <1>2, <1>3, <1>4, <1>5, <1>6 DEF Next, Command

\* What is stored while the driver loads and runs.
LEMMA AllParamsStored ==
  ASSUME Loading, NEW k
  PROVE  StoredParams(k) = Channels \/ driver.step = k
BY DEF Loading, StoredParams

\* Every parameter of the batch is where its channel will look for it.
LEMMA StoredParamsStep ==
  ASSUME Sized, IInv, DriverOK, ControlOK, ParamsOK, PipeOK, Next, DriverOK', ControlOK'
  PROVE  ParamsOK'
<1>1. Channels \in Nat \ {0} /\ ParamDepth \in Nat \ {0} /\ Channels < ParamDepth /\ Channels % ParamDepth = Channels
  BY Sizes, SMT DEF Sized
<1> SUFFICES ASSUME NEW k \in Kinds
             PROVE  /\ params'[k].count \in 0 .. Channels
                    /\ DOMAIN params'[k].mem = 0 .. ParamDepth - 1
                    /\ ~restart' /\ driver'.step \notin {"batch", "done"} =>
                         /\ params'[k].count = StoredParams(k)'
                         /\ \A a \in 0 .. params'[k].count - 1 :
                              params'[k].mem[a] = <<driver'.batch, a>>
                    /\ Computing' => params'[k].data = <<driver'.batch, params'[k].last_addr>>
  BY DEF ParamsOK
<1>2. /\ params[k].count \in 0 .. Channels
      /\ DOMAIN params[k].mem = 0 .. ParamDepth - 1
      /\ ~restart /\ driver.step \notin {"batch", "done"} =>
           /\ params[k].count = StoredParams(k)
           /\ \A a \in 0 .. params[k].count - 1 : params[k].mem[a] = <<driver.batch, a>>
  BY DEF ParamsOK
<1>3. CASE ~StoreParam
  <2>1. PICK command, value : Clocked(command, value) /\ k # command
    BY <1>3, StepsDiffer DEF Next, Command, SetOutputBatchSize, StoreFilterValue, StoreInput,
       MaccRun, GetOutput, NoCommand
  <2>2. /\ params'[k].count = IF restart THEN 0 ELSE params[k].count
        /\ params'[k].mem = params[k].mem
        /\ params'[k].last_addr = r_addr(k, acc_done)
        /\ params'[k].data = params[k].mem[r_addr(k, acc_done)]
    <3>1. ParamStores(command, value, acc_done)
      BY <2>1 DEF Clocked
    <3> QED
      BY <2>1, <3>1, ParamStoresStep DEF NextCount
  <2>3. params'[k].count \in 0 .. Channels /\ DOMAIN params'[k].mem = 0 .. ParamDepth - 1
    <3>1. 0 \in 0 .. Channels
      BY <1>1, SMT
    <3> QED
      BY <1>2, <2>2, <3>1
  <2>4. ASSUME ~restart', driver'.step \notin {"batch", "done"}
        PROVE  /\ params'[k].count = StoredParams(k)'
               /\ \A a \in 0 .. params'[k].count - 1 :
                    params'[k].mem[a] = <<driver'.batch, a>>
    <3>1. /\ driver.step \notin {"batch", "done"} /\ driver'.batch = driver.batch
          /\ \/ driver' = driver
             \/ Loading /\ Loading' /\ driver.step \notin Kinds /\ driver'.step \notin Kinds
          /\ restart => driver' = driver
      BY <1>3, <2>4, BatchGoesOn
    <3>2. CASE restart
      <4>1. driver'.step = "multiplier" /\ driver'.k = 0
        BY <3>1, <3>2 DEF ControlOK
      <4>2. StoredParams(k)' = 0
        BY <4>1 DEF StoredParams, Kinds
      <4>3. params'[k].count = 0 /\ 0 .. 0 - 1 = {}
        BY <2>2, <3>2, SMT
      <4> QED
        BY <4>2, <4>3
    <3>3. CASE ~restart
      <4>1. StoredParams(k)' = StoredParams(k)
        <5>1. CASE driver' = driver
          BY <5>1 DEF StoredParams
        <5>2. CASE Loading /\ Loading' /\ driver.step \notin Kinds /\ driver'.step \notin Kinds
          BY <5>2 DEF StoredParams, Loading, Kinds
        <5> QED
          BY <3>1, <5>1, <5>2
      <4> QED
        BY <1>2, <2>2, <3>1, <3>3, <4>1
    <3> QED
      BY <3>2, <3>3
  <2>5. ASSUME Computing' PROVE params'[k].data = <<driver'.batch, params'[k].last_addr>>
    <3>1. driver'.step \notin {"batch", "done"} /\ ~restart'
      BY <2>5 DEF Computing, ControlOK
    <3>2. Loading /\ driver'.batch = driver.batch
      BY <1>3, <2>5, <3>1, BatchGoesOn
    <3>3. ~restart /\ driver.step \notin {"batch", "done"} /\ driver.step # k
      BY <3>2 DEF ControlOK, Loading, Kinds
    <3>4. params[k].count = Channels /\ limit(k) = Channels
      BY <1>1, <1>2, <3>2, <3>3, AllParamsStored DEF limit
    <3>5. params[k].last_addr \in 0 .. Channels - 1
      BY AddressesInRange
    <3>6. r_addr(k, acc_done) \in 0 .. Channels - 1
      <4> DEFINE l == params[k].last_addr
      <4>1. r_addr(k, acc_done) = l \/ r_addr(k, acc_done) = IF l >= Channels - 1 THEN 0 ELSE l + 1
        BY <3>3, <3>4 DEF r_addr
      <4>2. l \in 0 .. Channels - 1
        BY <3>5
      <4> HIDE DEF l
      <4>3. (IF l >= Channels - 1 THEN 0 ELSE l + 1) \in 0 .. Channels - 1
        BY <1>1, <4>2, SMT
      <4> QED
        BY <4>1, <4>2, <4>3
    <3> QED
      BY <1>2, <2>2, <3>2, <3>3, <3>4, <3>6
  <2> QED
    BY <2>3, <2>4, <2>5
<1>4. CASE StoreParam
  <2>1. /\ driver.step \in Kinds /\ ~restart /\ Clocked(driver.step, <<driver.batch, driver.k>>)
        /\ driver.k \in Nat /\ driver.k < Channels /\ driver'.batch = driver.batch
        /\ driver'.step \in Kinds \cup {"filters"}
    BY <1>4, SMT DEF StoreParam, DriverOK, Limit, Kinds
  <2>2. driver.step \notin {"batch", "done"} /\ ~Computing' /\ ParamStores(driver.step, <<driver.batch, driver.k>>, acc_done)
    BY <2>1, StepsDiffer DEF Computing, Clocked
  <2>3. CASE k = driver.step
    <3>1. params[k].count = driver.k
      BY <1>2, <2>1, <2>2, <2>3 DEF StoredParams
    <3>2. driver.k % ParamDepth = driver.k /\ driver.k \in 0 .. ParamDepth - 1
      BY <1>1, <2>1, SMT
    <3>3. /\ params'[k].count = driver.k + 1
          /\ params'[k].mem = [params[k].mem EXCEPT ![driver.k] = <<driver.batch, driver.k>>]
      BY <2>1, <2>2, <2>3, <3>1, <3>2, ParamStoresStep DEF NextCount
    <3>4. DOMAIN params'[k].mem = 0 .. ParamDepth - 1
      BY <1>2, <3>3
    <3>5. ASSUME NEW a \in 0 .. driver.k PROVE params'[k].mem[a] = <<driver.batch, a>>
      <4>1. CASE a = driver.k
        BY <1>2, <3>2, <3>3, <4>1
      <4>2. CASE a # driver.k
        <5>1. a \in 0 .. driver.k - 1 /\ a \in 0 .. ParamDepth - 1
          BY <1>1, <2>1, <4>2, SMT
        <5>2. params'[k].mem[a] = params[k].mem[a]
          BY <1>2, <3>3, <4>2, <5>1
        <5> QED
          BY <1>2, <2>1, <2>2, <3>1, <5>1, <5>2
      <4> QED
        BY <4>1, <4>2
    <3>6. params'[k].count \in 0 .. Channels /\ params'[k].count - 1 = driver.k
      BY <1>1, <2>1, <3>3, SMT
    <3>7. StoredParams(k)' = driver.k + 1
      <4>1. CASE driver.k < Channels - 1
        <5>1. driver'.step = k /\ driver'.k = driver.k + 1
          BY <1>4, <2>3, <4>1, SMT DEF StoreParam, DriverOK
        <5> QED
          BY <5>1 DEF StoredParams
      <4>2. CASE ~(driver.k < Channels - 1)
        <5>1. /\ k = "multiplier" => driver'.step = "shift"
              /\ k = "shift" => driver'.step = "bias"
              /\ k = "bias" => driver'.step = "filters"
          BY <1>4, <2>1, <2>3, <4>2, SMT DEF StoreParam, DriverOK
        <5>2. driver.k + 1 = Channels
          BY <1>1, <2>1, <4>2, SMT
        <5>3. StoredParams(k)' = Channels
          BY <5>1 DEF StoredParams, Kinds
        <5> QED
          BY <5>2, <5>3
      <4> QED
        BY <4>1, <4>2
    <3> QED
      BY <2>1, <2>2, <3>3, <3>4, <3>5, <3>6, <3>7
  <2>4. CASE k # driver.step
    <3>1. params'[k].count = params[k].count /\ params'[k].mem = params[k].mem
      BY <2>1, <2>2, <2>4, ParamStoresStep DEF NextCount
    <3>2. StoredParams(k)' = StoredParams(k)
      <4>1. CASE driver.k < Channels - 1
        <5>1. driver'.step = driver.step
          BY <1>4, <4>1, SMT DEF StoreParam, DriverOK
        <5> QED
          BY <2>4, <5>1 DEF StoredParams
      <4>2. CASE ~(driver.k < Channels - 1)
        <5>1. /\ driver.step = "multiplier" => driver'.step = "shift"
              /\ driver.step = "shift" => driver'.step = "bias"
              /\ driver.step = "bias" => driver'.step = "filters"
              /\ driver'.k = 0
          BY <1>4, <2>1, <4>2, SMT DEF StoreParam, DriverOK
        <5> QED
          BY <2>1, <2>4, <5>1 DEF StoredParams, Kinds
      <4> QED
        BY <4>1, <4>2
    <3> QED
      BY <1>2, <2>1, <2>2, <3>1, <3>2
  <2> QED
    BY <2>3, <2>4
<1> QED
  BY <1>3, <1>4

-----------------------------------------------------------------------------
(* The filter words                                                        *)

\* The steps in which nothing is stored for a batch.
LEMMA NothingStored ==
  ASSUME DriverOK, Next, ~SetOutputBatchSize, ~StoreParam, ~StoreFilterValue
  PROVE  driver' = driver \/ (Computing /\ driver'.step \in {"load", "run", "unload", "batch", "done"})
<1>1. CASE StoreInput
  <2>1. driver.step = "load" /\ driver'.step \in {"run", "load"}
    BY <1>1, SMT DEF StoreInput, DriverOK
  <2> QED
    BY <2>1 DEF Computing
<1>2. CASE MaccRun
  <2>1. driver.step = "run" /\ driver'.step = "unload"
    BY <1>2, SMT DEF MaccRun, DriverOK
  <2> QED
    BY <2>1 DEF Computing
<1>3. CASE GetOutput
  <2>1. driver.step = "unload"
    BY <1>3 DEF GetOutput
  <2>2. driver'.step \in {"unload", "run", "load", "batch", "done"}
    <3>1. driver' = [driver EXCEPT !.k = @ + 1] \/ driver' = AfterUnload
      BY <1>3 DEF GetOutput
    <3>2. CASE driver' = [driver EXCEPT !.k = @ + 1]
      BY <2>1, <3>2, SMT DEF DriverOK
    <3>3. CASE driver' = AfterUnload
      BY <2>1, <3>3, SMT DEF DriverOK, AfterUnload
    <3> QED
      BY <3>1, <3>2, <3>3
  <2> QED
    BY <2>1, <2>2 DEF Computing
<1>4. CASE NoCommand
  BY <1>4 DEF NoCommand
<1> QED
  BY <1>1, <1>2, <1>3, <1>4 DEF Next, Command

\* The number of filter words that the stage of the driver asks for.
StoredFilters ==
  IF driver.step = "filters" THEN driver.k ELSE IF Computing THEN FilterWords ELSE 0

\* A word is written to one place of one memory.
LEMMA StoredAt ==
  ASSUME NEW mem, NEW mem2, NEW Places, NEW b \in BankIds, NEW q \in Places, NEW x,
         DOMAIN mem = BankIds, \A n \in BankIds : DOMAIN mem[n] = Places,
         mem2 = [mem EXCEPT ![b][q] = x]
  PROVE  /\ DOMAIN mem2 = BankIds
         /\ \A n \in BankIds : DOMAIN mem2[n] = Places
         /\ mem2[b][q] = x
         /\ \A n \in BankIds, a \in Places : ~(n = b /\ a = q) => mem2[n][a] = mem[n][a]
<1>1. mem2 = [mem EXCEPT ![b] = [mem[b] EXCEPT ![q] = x]]
  OBVIOUS
<1>2. DOMAIN mem2 = BankIds /\ mem2[b] = [mem[b] EXCEPT ![q] = x]
  BY <1>1
<1>3. \A n \in BankIds : n # b => mem2[n] = mem[n]
  BY <1>1
<1>4. DOMAIN mem2[b] = Places /\ mem2[b][q] = x /\ \A a \in Places : a # q => mem2[b][a] = mem[b][a]
  BY <1>2
<1> HIDE DEF BankIds
<1> QED
  BY <1>2, <1>3, <1>4

\* Every filter word of the batch is where its bank will look for it.
LEMMA StoredFiltersStep ==
  ASSUME Sized, IInv, DriverOK, ControlOK, FiltersOK, PipeOK, Next, DriverOK', ControlOK'
  PROVE  FiltersOK'
<1>1. FilterWords \in Nat \ {0} /\ FilterDepth \in Nat \ {0} /\ FilterWords <= 4 * FilterDepth
  <2>1. Rows \in Nat /\ FilterWords \in Nat \ {0} /\ FilterDepth \in Nat \ {0} /\ FilterWords = 4 * Rows /\ Rows <= FilterDepth
    BY Sizes
  <2> QED
    BY <2>1, SMT
<1>2. /\ filters.count \in 0 .. FilterWords
      /\ DOMAIN filters.mem = BankIds
      /\ \A n \in BankIds : DOMAIN filters.mem[n] = 0 .. FilterDepth - 1
      /\ ~restart /\ driver.step \notin {"batch", "done"} =>
           /\ filters.count = StoredFilters
           /\ \A n \in BankIds, a \in 0 .. FilterDepth - 1 :
                4 * a + n < filters.count => filters.mem[n][a] = FilterWord(n, a)
  BY DEF FiltersOK, StoredFilters
<1> SUFFICES /\ filters'.count \in 0 .. FilterWords
             /\ DOMAIN filters'.mem = BankIds
             /\ \A n \in BankIds : DOMAIN filters'.mem[n] = 0 .. FilterDepth - 1
             /\ ~restart' /\ driver'.step \notin {"batch", "done"} =>
                  /\ filters'.count = StoredFilters'
                  /\ \A n \in BankIds, a \in 0 .. FilterDepth - 1 :
                       4 * a + n < filters'.count => filters'.mem[n][a] = FilterWord(n, a)'
  BY DEF FiltersOK, StoredFilters
<1>3. CASE ~StoreFilterValue
  <2>1. PICK command, value : Clocked(command, value) /\ command # "store_filter_values"
    BY <1>3, StepsDiffer DEF Next, Command, SetOutputBatchSize, StoreParam, StoreInput,
       MaccRun, GetOutput, NoCommand
  <2>2. filters'.count = (IF restart THEN 0 ELSE filters.count) /\ filters'.mem = filters.mem
    <3>1. FilterStore(command = "store_filter_values", value)
      BY <2>1 DEF Clocked
    <3> QED
      BY <2>1, <3>1 DEF FilterStore, NextCount
  <2>3. filters'.count \in 0 .. FilterWords
    <3>1. 0 \in 0 .. FilterWords
      BY <1>1, SMT
    <3> QED
      BY <1>2, <2>2, <3>1
  <2>4. ASSUME ~restart', driver'.step \notin {"batch", "done"}
        PROVE  /\ driver.step \notin {"batch", "done"} /\ driver'.batch = driver.batch
               /\ (IF restart THEN 0 ELSE StoredFilters) = StoredFilters'
    <3>1. CASE StoreParam
      <4>1. /\ driver.step \in Kinds /\ ~restart /\ driver'.batch = driver.batch
            /\ driver'.step \in Kinds \/ (driver'.step = "filters" /\ driver'.k = 0)
        BY <3>1, SMT DEF StoreParam, DriverOK, Kinds
      <4>2. StoredFilters = 0 /\ StoredFilters' = 0
        BY <4>1, StepsDiffer DEF StoredFilters, Computing
      <4> QED
        BY <4>1, <4>2, StepsDiffer
    <3>2. CASE ~StoreParam
      <4>1. /\ driver.step \notin {"batch", "done"} /\ driver'.batch = driver.batch
            /\ restart => driver' = driver
        BY <2>4, <3>2, BatchGoesOn
      <4>2. ~SetOutputBatchSize
        BY <2>4 DEF SetOutputBatchSize, Clocked
      <4>3. StoredFilters' = StoredFilters
        <5>1. CASE driver' = driver
          BY <5>1 DEF StoredFilters, Computing
        <5>2. CASE Computing /\ driver'.step \in {"load", "run", "unload", "batch", "done"}
          <6>1. Computing' /\ driver'.step # "filters" /\ driver.step # "filters"
            BY <2>4, <5>2 DEF Computing
          <6> QED
            BY <5>2, <6>1 DEF StoredFilters
        <5> QED
          BY <1>3, <3>2, <4>2, <5>1, <5>2, NothingStored
      <4>4. restart => StoredFilters' = 0
        <5>1. restart => driver'.step = "multiplier"
          BY <4>1 DEF ControlOK
        <5> QED
          BY <5>1 DEF StoredFilters, Computing
      <4> QED
        BY <4>1, <4>3, <4>4
    <3> QED
      BY <3>1, <3>2
  <2>5. ASSUME ~restart', driver'.step \notin {"batch", "done"}, NEW n \in BankIds,
               NEW a \in 0 .. FilterDepth - 1, 4 * a + n < filters'.count
        PROVE  filters'.mem[n][a] = FilterWord(n, a)'
    <3>1. ~restart
      <4>1. ~(4 * a + n < 0)
        BY SMT DEF BankIds
      <4> QED
        BY <2>2, <2>5, <4>1
    <3>2. filters.mem[n][a] = FilterWord(n, a)
      BY <1>2, <2>2, <2>4, <2>5, <3>1
    <3> QED
      BY <2>2, <2>4, <2>5, <3>2 DEF FilterWord
  <2>6. ASSUME ~restart', driver'.step \notin {"batch", "done"}
        PROVE  filters'.count = StoredFilters'
    BY <1>2, <2>2, <2>4, <2>6
  <2> QED
    BY <1>2, <2>2, <2>3, <2>5, <2>6
<1>4. CASE StoreFilterValue
  <2>1. /\ driver.step = "filters" /\ driver.k \in Nat /\ driver.k < FilterWords
        /\ Clocked("store_filter_values", <<driver.batch, driver.k>>)
        /\ driver'.batch = driver.batch
    BY <1>4, SMT DEF StoreFilterValue, DriverOK, Limit, Kinds
  <2>2. ~restart /\ filters.count = driver.k
    <3>1. ~restart
      BY <2>1 DEF ControlOK
    <3> QED
      BY <1>2, <2>1, <3>1 DEF StoredFilters
  <2> DEFINE b == driver.k % 4
             q == driver.k \div 4
             x == <<driver.batch, driver.k>>
  <2>3. b \in BankIds /\ q \in Nat /\ 4 * q + b = driver.k
    BY <2>1, TakenFromTurn
  <2>4. q \in 0 .. FilterDepth - 1 /\ q % FilterDepth = q
    <3> HIDE DEF b, q
    <3>1. q < FilterDepth
      BY <1>1, <2>1, <2>3, SMT DEF BankIds
    <3> QED
      BY <1>1, <2>3, <3>1, SMT
  <2>5. /\ filters'.count = driver.k + 1
        /\ filters'.mem = [filters.mem EXCEPT ![b][q] = x]
    <3>1. FilterStore("store_filter_values" = "store_filter_values", x)
      BY <2>1 DEF Clocked
    <3> QED
      BY <2>2, <2>4, <3>1 DEF FilterStore, NextCount
  <2> HIDE DEF b, q, x
  <2>6. /\ DOMAIN filters'.mem = BankIds
        /\ \A n \in BankIds : DOMAIN filters'.mem[n] = 0 .. FilterDepth - 1
        /\ filters'.mem[b][q] = x
        /\ \A n \in BankIds, a \in 0 .. FilterDepth - 1 :
             ~(n = b /\ a = q) => filters'.mem[n][a] = filters.mem[n][a]
    <3> DEFINE Places == 0 .. FilterDepth - 1
               mem == filters.mem
               mem2 == filters'.mem
    <3>1. /\ DOMAIN mem = BankIds /\ \A n \in BankIds : DOMAIN mem[n] = Places
          /\ b \in BankIds /\ q \in Places /\ mem2 = [mem EXCEPT ![b][q] = x]
      BY <1>2, <2>3, <2>4, <2>5
    <3>2. /\ DOMAIN mem2 = BankIds
          /\ \A n \in BankIds : DOMAIN mem2[n] = Places
          /\ mem2[b][q] = x
          /\ \A n \in BankIds, a \in Places : ~(n = b /\ a = q) => mem2[n][a] = mem[n][a]
      <4> HIDE DEF Places, mem, mem2
      <4> QED
        BY <3>1, StoredAt
    <3> QED
      BY <3>2
  <2>7. filters'.count \in 0 .. FilterWords
    BY <1>1, <2>1, <2>5, SMT
  <2>8. filters'.count = StoredFilters'
    <3>1. CASE driver.k < FilterWords - 1
      <4>1. driver'.step = "filters" /\ driver'.k = driver.k + 1
        BY <1>4, <2>1, <3>1, SMT DEF StoreFilterValue, DriverOK
      <4> QED
        BY <2>5, <4>1 DEF StoredFilters
    <3>2. CASE ~(driver.k < FilterWords - 1)
      <4>1. driver'.step = "load"
        BY <1>4, <2>1, <3>2, SMT DEF StoreFilterValue, DriverOK
      <4>2. driver.k + 1 = FilterWords
        BY <1>1, <2>1, <3>2, SMT
      <4> QED
        BY <2>5, <4>1, <4>2 DEF StoredFilters, Computing
    <3> QED
      BY <3>1, <3>2
  <2>9. ASSUME NEW n \in BankIds, NEW a \in 0 .. FilterDepth - 1, 4 * a + n < filters'.count
        PROVE  filters'.mem[n][a] = FilterWord(n, a)'
    <3>1. FilterWord(n, a)' = <<driver.batch, 4 * a + n>>
      BY <2>1 DEF FilterWord
    <3>2. CASE n = b /\ a = q
      BY <2>3, <2>6, <3>1, <3>2 DEF x
    <3>3. CASE ~(n = b /\ a = q)
      <4>1. 4 * a + n < filters.count
        BY <2>1, <2>2, <2>3, <2>5, <2>9, <3>3, SMT DEF BankIds
      <4>2. filters.mem[n][a] = FilterWord(n, a)
        BY <1>2, <2>1, <2>2, <4>1
      <4> QED
        BY <2>6, <3>1, <3>3, <4>2 DEF FilterWord
    <3> QED
      BY <3>2, <3>3
  <2> QED
    BY <2>6, <2>7, <2>8, <2>9
<1> QED
  BY <1>3, <1>4

-----------------------------------------------------------------------------
(* The fetcher of the filter words                                         *)

\* The registers of the fetcher after a cycle.
LEMMA FetchStep ==
  ASSUME NEW start, Fetch(start, gate)
  PROVE  /\ fvf'.was_updated = updated(start)
         /\ fvf'.bank = IF restart THEN 0 ELSE IF gate THEN (fvf.bank + 1) % 4 ELSE fvf.bank
         /\ \A n \in BankIds :
              /\ fvf'.smr[n].was_restart = fvf.was_updated
              /\ fvf'.smr[n].was_next = (gate /\ ~restart /\ fvf.bank = n)
              /\ fvf'.smr[n].last_mem_addr = mem_addr(n)
              /\ fvf'.smr[n].last_data = smr_data(n)
              /\ fvf'.smr[n].port = filters.mem[n][mem_addr(n)]
<1>1. fvf' = [was_updated |-> updated(start),
              bank |-> IF restart THEN 0 ELSE IF gate THEN (fvf.bank + 1) % 4 ELSE fvf.bank,
              smr  |-> [n \in BankIds |->
                          [was_restart   |-> fvf.was_updated,
                           was_next      |-> gate /\ ~restart /\ fvf.bank = n,
                           last_mem_addr |-> mem_addr(n),
                           last_data     |-> smr_data(n),
                           port          |-> filters.mem[n][mem_addr(n)]]]]
  BY DEF Fetch
<1> HIDE DEF BankIds
<1> QED
  BY <1>1

\* A reader goes round the words of its bank, whether they fill the memory or not.
LEMMA AddressGoesRound ==
  ASSUME filters.count = FilterWords, NEW n \in BankIds, NEW j \in 0 .. Rows - 1,
         fvf.smr[n].last_mem_addr = j
  PROVE  incremented_addr(n) = (j + 1) % Rows
<1>1. /\ Rows \in Nat \ {0} /\ FilterWords = 4 * Rows /\ Rows <= FilterDepth
      /\ FilterDepth \in Nat \ {0}
  BY Sizes
<1>2. incremented_addr(n) = IF j = smr_limit - 1 THEN 0 ELSE (j + 1) % FilterDepth
  BY DEF incremented_addr
<1>3. smr_limit = ((4 * Rows) % (4 * FilterDepth)) \div 4
  BY <1>1 DEF smr_limit
<1>4. CASE Rows = FilterDepth
  <2>1. (4 * Rows) % (4 * FilterDepth) = 0
    <3>1. 4 * FilterDepth \in Nat \ {0} /\ 0 \in 0 .. 4 * FilterDepth - 1 /\ 1 \in Nat
      BY <1>1, SMT
    <3>2. ((4 * FilterDepth) * 1 + 0) % (4 * FilterDepth) = 0
      BY <3>1, Remainder
    <3>3. (4 * FilterDepth) * 1 + 0 = 4 * Rows
      BY <1>1, <1>4, SMT
    <3> QED
      BY <3>2, <3>3
  <2>2. smr_limit = 0 /\ j # 0 - 1
    BY <1>3, <2>1, SMT
  <2> QED
    BY <1>2, <1>4, <2>2
<1>5. CASE Rows < FilterDepth
  <2>1. smr_limit = Rows
    <3> DEFINE D == 4 * FilterDepth
               R == 4 * Rows
    <3>1. R \in Nat /\ D \in Nat \ {0} /\ R < D /\ R \div 4 = Rows
      BY <1>1, <1>5, SMT
    <3>2. R % D = R
      <4> HIDE DEF R, D
      <4> QED
        BY <3>1, SMT
    <3> QED
      BY <1>3, <3>1, <3>2
  <2>2. (j + 1) % FilterDepth = j + 1
    BY <1>1, <1>5, SMT
  <2>3. (j + 1) % Rows = IF j = Rows - 1 THEN 0 ELSE j + 1
    <3>1. j \in Nat /\ j % Rows = j
      BY <1>1, SMT
    <3> QED
      BY <1>1, <3>1, NextRemainder
  <2> QED
    BY <1>2, <2>1, <2>2, <2>3
<1>6. Rows = FilterDepth \/ Rows < FilterDepth
  BY <1>1, SMT
<1> QED
  BY <1>4, <1>5, <1>6

\* The bank is the one of the operand that comes next.
LEMMA BankStep ==
  ASSUME Sized, IInv, DriverOK, ControlOK, FiltersOK, ReadersOK, PipeOK, Next,
         NEW start, Fetch(start, gate)
  PROVE  fvf'.bank = issued' % 4
<1>1. fvf'.bank = IF restart THEN 0 ELSE IF gate THEN (fvf.bank + 1) % 4 ELSE fvf.bank
  BY FetchStep
<1>2. fvf.bank = issued % 4 /\ issued \in Nat
  <2>1. issued \in 0 .. FilterWords /\ FilterWords \in Nat
    BY IssuedType, Sizes
  <2>2. issued \in Nat
    BY <2>1, SMT
  <2> QED
    BY <2>2 DEF ReadersOK
<1>3. CASE LastGet
  <2>1. issued = FilterWords /\ ~gate /\ issued' = 0 /\ driver.step = "unload"
    BY <1>3, LastGetEndsRun, IssuedStep DEF LastGet, GetOutput
  <2>2. ~restart
    BY <2>1 DEF ControlOK
  <2>3. FilterWords % 4 = 0 /\ 0 % 4 = 0
    <3>1. Rows \in Nat /\ FilterWords = 4 * Rows
      BY Sizes
    <3> QED
      BY <3>1, SMT
  <2> QED
    BY <1>1, <1>2, <2>1, <2>2, <2>3
<1>4. CASE ~LastGet /\ gate
  <2>1. issued' = issued + 1 /\ ~restart
    BY <1>4, IssuedStep, GateOpen
  <2>2. ((issued % 4) + 1) % 4 = (issued + 1) % 4
    BY <1>2, SMT
  <2> QED
    BY <1>1, <1>2, <1>4, <2>1, <2>2
<1>5. CASE ~LastGet /\ ~gate
  <2>1. issued' = issued
    BY <1>5, IssuedStep
  <2>2. restart => issued = 0
    <3>1. restart => driver.step # "unload"
      BY DEF ControlOK
    <3> QED
      BY <3>1, IssuedElsewhere
  <2>3. 0 % 4 = 0
    BY SMT
  <2> QED
    BY <1>1, <1>2, <1>5, <2>1, <2>2, <2>3
<1> QED
  BY <1>3, <1>4, <1>5

\* While it computes, the driver stored all filter words, and is at the same batch.
LEMMA StillComputing ==
  ASSUME Sized, IInv, DriverOK, ControlOK, FiltersOK, Next, ControlOK', Computing', ~StoreFilterValue
  PROVE  /\ Computing /\ ~restart /\ driver'.batch = driver.batch
         /\ filters.count = FilterWords
         /\ \A n \in BankIds, a \in 0 .. Rows - 1 : filters.mem[n][a] = FilterWord(n, a)
<1>1. driver'.step \notin {"batch", "done"} /\ ~restart'
  BY DEF Computing, ControlOK
<1>2. ~StoreParam
  <2>1. ASSUME StoreParam PROVE FALSE
    <3>1. driver'.step \in Kinds \cup {"filters"}
      BY <2>1, SMT DEF StoreParam, DriverOK, Kinds
    <3> QED
      BY <3>1, StepsDiffer DEF Computing
  <2> QED
    BY <2>1
<1>3. ~SetOutputBatchSize
  BY <1>1 DEF SetOutputBatchSize, Clocked
<1>4. driver'.batch = driver.batch
  BY <1>1, <1>2, BatchGoesOn
<1>5. Computing
  <2>1. driver' = driver \/ Computing
    BY <1>2, <1>3, NothingStored
  <2> QED
    BY <2>1 DEF Computing
<1>6. ~restart /\ driver.step \notin {"batch", "done", "filters"}
  BY <1>5 DEF Computing, ControlOK
<1>7. filters.count = FilterWords
  BY <1>5, <1>6 DEF FiltersOK
<1>8. ASSUME NEW n \in BankIds, NEW a \in 0 .. Rows - 1
      PROVE  filters.mem[n][a] = FilterWord(n, a)
  <2>1. Rows \in Nat \ {0} /\ FilterWords = 4 * Rows /\ Rows <= FilterDepth /\ FilterDepth \in Nat \ {0}
    BY Sizes
  <2>2. a \in 0 .. FilterDepth - 1 /\ 4 * a + n < FilterWords
    BY <2>1, SMT DEF BankIds
  <2> QED
    BY <1>6, <1>7, <2>2 DEF FiltersOK
<1> QED
  BY <1>4, <1>5, <1>6, <1>7, <1>8

\* The words that a bank gave go on with the operands.
LEMMA TakenStep ==
  ASSUME Sized, IInv, DriverOK, ControlOK, FiltersOK, ReadersOK, PipeOK, Next, NEW n \in BankIds
  PROVE  LET j == TakenFrom(n, issued) % Rows
         IN  /\ j \in 0 .. Rows - 1
             /\ TakenFrom(n, issued') % Rows = IF gate /\ fvf.bank = n THEN (j + 1) % Rows ELSE j
<1>1. Rows \in Nat \ {0} /\ FilterWords = 4 * Rows /\ FilterWords \in Nat
  BY Sizes
<1>2. issued \in Nat /\ fvf.bank = issued % 4
  <2>1. issued \in 0 .. FilterWords
    BY IssuedType
  <2>2. issued \in Nat
    BY <1>1, <2>1, SMT
  <2> QED
    BY <2>2 DEF ReadersOK
<1> DEFINE t == TakenFrom(n, issued)
           j == t % Rows
<1>3. t \in Nat /\ TakenFrom(n, 0) = 0 /\ TakenFrom(n, 4 * Rows) = Rows
  BY <1>1, <1>2, TakenFromNext
<1>4. j \in 0 .. Rows - 1
  <2> HIDE DEF t
  <2> QED
    BY <1>1, <1>3, SMT
<1>5. CASE LastGet
  <2>1. issued = FilterWords /\ ~gate /\ issued' = 0
    BY <1>5, LastGetEndsRun, IssuedStep
  <2>2. t = Rows /\ TakenFrom(n, issued') = 0
    BY <1>1, <1>3, <2>1
  <2>3. Rows % Rows = 0 /\ 0 % Rows = 0
    <3>1. 0 \in 0 .. Rows - 1 /\ 1 \in Nat /\ Rows * 1 + 0 = Rows
      BY <1>1, SMT
    <3>2. (Rows * 1 + 0) % Rows = 0
      BY <1>1, <3>1, Remainder
    <3>3. 0 % Rows = 0
      BY <1>1, SMT
    <3> QED
      BY <3>1, <3>2, <3>3
  <2> QED
    BY <1>4, <2>1, <2>2, <2>3
<1>6. CASE ~LastGet /\ ~gate
  <2>1. issued' = issued
    BY <1>6, IssuedStep
  <2> QED
    BY <1>4, <1>6, <2>1
<1>7. CASE ~LastGet /\ gate
  <2>1. issued' = issued + 1
    BY <1>7, IssuedStep
  <2>2. TakenFrom(n, issued') = IF fvf.bank = n THEN t + 1 ELSE t
    BY <1>2, <2>1, TakenFromNext
  <2>3. CASE fvf.bank = n
    <3>1. (t + 1) % Rows = (j + 1) % Rows
      <4> HIDE DEF t
      <4>1. (t + 1) % Rows = IF t % Rows = Rows - 1 THEN 0 ELSE (t % Rows) + 1
        BY <1>1, <1>3, NextRemainder
      <4>2. j \in Nat /\ j % Rows = j
        <5>1. j \in 0 .. Rows - 1
          BY <1>4
        <5> HIDE DEF j
        <5> QED
          BY <1>1, <5>1, SMT
      <4>3. (j + 1) % Rows = IF j % Rows = Rows - 1 THEN 0 ELSE (j % Rows) + 1
        BY <1>1, <4>2, NextRemainder
      <4> QED
        BY <4>1, <4>2, <4>3
    <3> QED
      BY <1>4, <1>7, <2>2, <2>3, <3>1
  <2>4. CASE fvf.bank # n
    BY <1>4, <1>7, <2>2, <2>4
  <2> QED
    BY <2>3, <2>4
<1> QED
  BY <1>5, <1>6, <1>7

\* Every reader keeps showing the word of its bank that comes next.
LEMMA ReadersStep ==
  ASSUME Sized, IInv, DriverOK, ControlOK, FiltersOK, ReadersOK, PipeOK, Next, DriverOK', ControlOK'
  PROVE  ReadersOK'
<1>1. Rows \in Nat \ {0} /\ FilterDepth \in Nat \ {0} /\ Rows' = Rows
  BY Sizes DEF Rows, FilterWords
<1>2. PICK command, value :
        /\ Clocked(command, value)
        /\ (command = "store_filter_values" <=> StoreFilterValue)
  <2>1. CASE StoreFilterValue
    BY <2>1 DEF StoreFilterValue
  <2>2. CASE ~StoreFilterValue
    <3>1. \E command, value : Clocked(command, value) /\ command # "store_filter_values"
      BY <2>2, StepsDiffer DEF Next, Command, SetOutputBatchSize, StoreParam, StoreInput,
         MaccRun, GetOutput, NoCommand
    <3> QED
      BY <2>2, <3>1
  <2> QED
    BY <2>1, <2>2
<1>3. PICK start : Fetch(start, gate) /\ (start <=> StoreFilterValue)
  BY <1>2 DEF Clocked
<1>4. /\ fvf'.was_updated = updated(start)
      /\ \A n \in BankIds :
           /\ fvf'.smr[n].was_restart = fvf.was_updated
           /\ fvf'.smr[n].was_next = (gate /\ ~restart /\ fvf.bank = n)
           /\ fvf'.smr[n].last_mem_addr = mem_addr(n)
           /\ fvf'.smr[n].last_data = smr_data(n)
           /\ fvf'.smr[n].port = filters.mem[n][mem_addr(n)]
  BY <1>3, FetchStep
<1>5. ASSUME NEW n \in BankIds PROVE fvf'.smr[n].last_mem_addr \in 0 .. FilterDepth - 1
  <2> DEFINE last == fvf.smr[n].last_mem_addr
  <2>1. last \in 0 .. FilterDepth - 1
    BY DEF ReadersOK
  <2>2. mem_addr(n) \in {0, last, (last + 1) % FilterDepth}
    BY DEF mem_addr, incremented_addr
  <2>3. {0, last, (last + 1) % FilterDepth} \subseteq 0 .. FilterDepth - 1
    <3> HIDE DEF last
    <3>1. (last + 1) % FilterDepth \in 0 .. FilterDepth - 1
      BY <1>1, <2>1, SMT
    <3>2. 0 \in 0 .. FilterDepth - 1
      BY <1>1, SMT
    <3> QED
      BY <2>1, <3>1, <3>2
  <2> QED
    BY <1>4, <2>2, <2>3
<1>6. ASSUME Computing', fvf'.was_updated
      PROVE  driver'.step = "load" /\ driver'.loaded = 0 /\ driver'.k = 0
  <2>1. StoreFilterValue
    BY <1>3, <1>4, <1>6, StillComputing DEF updated
  <2>2. driver.step = "filters" /\ driver.loaded = 0
    BY <2>1 DEF StoreFilterValue, DriverOK
  <2>3. driver'.step \in {"filters", "load"} /\ driver'.loaded = 0 /\ (driver'.step = "load" => driver'.k = 0)
    BY <2>1, <2>2, SMT DEF StoreFilterValue, DriverOK
  <2> QED
    BY <1>6, <2>3 DEF Computing
<1>7. ASSUME Computing', ~fvf'.was_updated, NEW n \in BankIds
      PROVE  ReaderAt(n, TakenFrom(n, issued) % Rows)'
  <2>1. ~StoreFilterValue
    BY <1>3, <1>4, <1>7 DEF updated
  <2>2. /\ Computing /\ ~restart /\ driver'.batch = driver.batch
        /\ filters.count = FilterWords
        /\ \A a \in 0 .. Rows - 1 : filters.mem[n][a] = FilterWord(n, a)
    BY <1>7, <2>1, StillComputing
  <2>3. \A a : FilterWord(n, a)' = FilterWord(n, a)
    BY <2>2 DEF FilterWord
  <2> DEFINE j == TakenFrom(n, issued) % Rows
             j2 == TakenFrom(n, issued') % Rows
  <2>4. j \in 0 .. Rows - 1 /\ j2 = IF gate /\ fvf.bank = n THEN (j + 1) % Rows ELSE j
    BY TakenStep
  <2> DEFINE s == fvf'.smr[n]
             a == mem_addr(n)
  <2>10. /\ s.was_restart = fvf.was_updated /\ s.was_next = (gate /\ ~restart /\ fvf.bank = n)
         /\ s.last_mem_addr = a /\ s.last_data = smr_data(n)
         /\ s.port = filters.mem[n][a]
    BY <1>4
  <2>5. SUFFICES /\ a \in 0 .. Rows - 1
                 /\ IF fvf.was_updated \/ (gate /\ fvf.bank = n) THEN a = j2
                    ELSE a = (j2 + 1) % Rows /\ smr_data(n) = FilterWord(n, j2)
    <3>1. ASSUME a \in 0 .. Rows - 1,
                 IF fvf.was_updated \/ (gate /\ fvf.bank = n) THEN a = j2
                 ELSE a = (j2 + 1) % Rows /\ smr_data(n) = FilterWord(n, j2)
          PROVE  /\ s.port = FilterWord(n, s.last_mem_addr)
                 /\ IF s.was_restart \/ s.was_next THEN s.last_mem_addr = j2
                    ELSE s.last_mem_addr = (j2 + 1) % Rows /\ s.last_data = FilterWord(n, j2)
      <4> HIDE DEF s, a, j2, j
      <4> QED
        BY <2>2, <2>10, <3>1
    <3> QED
      BY <1>1, <2>3, <3>1 DEF ReaderAt, TakenFrom, prefetching
  <2>6. CASE fvf.was_updated
    <3>1. driver.step = "load"
      BY <2>2, <2>6 DEF ReadersOK
    <3>2. issued = 0 /\ ~gate
      BY <3>1, IssuedElsewhere
    <3>3. j = 0
      <4>1. TakenFrom(n, 0) = 0 /\ 0 % Rows = 0
        <5>1. 0 \in Nat
          BY SMT
        <5>2. 0 % Rows = 0
          BY <1>1, SMT
        <5> QED
          BY <5>1, <5>2, TakenFromNext
      <4> QED
        BY <3>2, <4>1
    <3>4. mem_addr(n) = 0
      BY <2>6 DEF mem_addr
    <3>5. 0 \in 0 .. Rows - 1
      BY <1>1, SMT
    <3> QED
      BY <2>4, <2>6, <3>2, <3>3, <3>4, <3>5
  <2>7. CASE ~fvf.was_updated
    <3>1. ReaderAt(n, j)
      BY <2>2, <2>7 DEF ReadersOK
    <3>2. smr_data(n) = FilterWord(n, j)
      BY <3>1 DEF ReaderAt, smr_data
    <3>3. mem_addr(n) = (j + 1) % Rows
      <4>1. CASE prefetching(n)
        <5>1. fvf.smr[n].last_mem_addr = j
          BY <3>1, <4>1 DEF ReaderAt
        <5> QED
          BY <2>2, <2>4, <2>7, <4>1, <5>1, AddressGoesRound DEF mem_addr
      <4>2. CASE ~prefetching(n)
        BY <2>7, <3>1, <4>2 DEF ReaderAt, mem_addr
      <4> QED
        BY <4>1, <4>2
    <3>4. (j + 1) % Rows \in 0 .. Rows - 1
      <4> HIDE DEF j
      <4> QED
        BY <1>1, <2>4, SMT
    <3> HIDE DEF j, j2
    <3> QED
      BY <2>4, <2>7, <3>2, <3>3, <3>4
  <2> QED
    BY <2>6, <2>7
<1>8. fvf'.bank = issued' % 4
  BY <1>3, BankStep
<1> QED
  BY <1>5, <1>6, <1>7, <1>8 DEF ReadersOK

-----------------------------------------------------------------------------
(* The invariant                                                           *)

\* The empty pipeline of the reset.
LEMMA InitPipe == Init => \A pixel : InPipe(pixel, 0, 0)
<1> SUFFICES ASSUME Init, NEW pixel PROVE InPipe(pixel, 0, 0)
  OBVIOUS
<1>1. /\ seq.madd_delay = [i \in 1 .. 2 |-> FALSE] /\ seq.pp_delay = [i \in 1 .. 4 |-> FALSE]
      /\ seq.i_count = 0 /\ seq.four_count = 0
  BY DEF Init, Delay
<1>2. /\ ~seq.madd_delay[1] /\ ~seq.madd_delay[2] /\ ~seq.pp_delay[1] /\ ~seq.pp_delay[2]
      /\ ~seq.pp_delay[3] /\ ~seq.pp_delay[4]
  BY <1>1, SMT
<1>3. /\ Bit(seq.madd_delay[1]) = 0 /\ Bit(seq.madd_delay[2]) = 0 /\ Bit(seq.pp_delay[1]) = 0
      /\ Bit(seq.pp_delay[2]) = 0 /\ Bit(seq.pp_delay[3]) = 0 /\ Bit(seq.pp_delay[4]) = 0
  BY <1>2 DEF Bit
<1>4. /\ InputWords \in Nat \ {0} /\ Channels \in Nat \ {0}
      /\ InputWords * 0 = 0 /\ 0 \in 0 .. InputWords - 1 /\ 0 # Channels
  <2>1. InputWords \in Nat \ {0} /\ Channels \in Nat \ {0}
    BY Sizes
  <2> QED
    BY <2>1, SMT
<1>5. Multiplying(pixel, 0, 0)
  BY <1>2, <1>3, SMT DEF Multiplying
<1>6. Accumulating(pixel, 0, 0)
  <2>1. path.acc = <<>> /\ 1 .. 0 = {}
    BY SMT DEF Init
  <2>2. path.acc = [j \in 1 .. 0 |-> Term(pixel, InputWords * 0 + j - 1)]
    BY <2>1, SMT
  <2>3. 0 = 0 + 0
    BY SMT
  <2> QED
    BY <1>1, <1>4, <2>2, <2>3 DEF Accumulating
<1>7. ParamsAt(0)
  BY <1>4 DEF ParamsAt, Init, InitStores
<1>8. PostProcessing(pixel, 0, 0)
  BY <1>2, <1>3, SMT DEF PostProcessing
<1>9. Assembling(pixel, 0, 0)
  <2>1. path.btw = <<>>
    BY DEF Init
  <2>2. BytesOK
    BY <2>1, SMT DEF BytesOK
  <2>3. Len(path.btw) \in 0 .. 4 /\ 1 .. 0 = {} /\ 0 = 4 * 0 + 0
    BY <2>1, SMT
  <2> QED
    BY <1>1, <2>2, <2>3 DEF Assembling
<1>10. Queued(pixel, 0, 0)
  <2>1. oq.fifo = <<>> /\ oq.out = None
    BY DEF Init
  <2>2. Len(oq.fifo) = 0 /\ 1 .. 0 = {} /\ 0 = 0 + (0 + 0)
    BY <2>1, SMT
  <2> QED
    BY <2>1, <2>2 DEF Queued, Holds
<1>11. 0 \in Nat
  BY SMT
<1> QED
  BY <1>5, <1>6, <1>7, <1>8, <1>9, <1>10, <1>11 DEF InPipe

\* The invariant holds at reset.
LEMMA InitComputes == Init => CInv
<1> SUFFICES ASSUME Init PROVE CInv
  OBVIOUS
<1>1. /\ driver = [step |-> "batch", batch |-> 0, p |-> 0, loaded |-> 0, k |-> 0]
      /\ ~Computing /\ ~active /\ issued = 0 /\ words_got = 0 /\ waiting = 0
  <2>1. driver = [step |-> "batch", batch |-> 0, p |-> 0, loaded |-> 0, k |-> 0]
    BY DEF Init
  <2>2. ~active
    BY DEF Init, active
  <2> QED
    BY <2>1, <2>2 DEF Computing, issued, words_got, waiting
<1>2. /\ InputWords \in Nat \ {0} /\ Channels \in Nat \ {0} /\ FilterWords \in Nat \ {0}
      /\ OutWords \in Nat \ {0} /\ Pixels \in Nat \ {0} /\ Batches \in Nat \ {0}
      /\ FilterDepth \in Nat \ {0}
  BY Sizes
<1>3. /\ 0 \in 0 .. Batches /\ 0 \in 0 .. Pixels - 1 /\ 0 \in 0 .. Pixels /\ 0 \in Nat
      /\ 0 < 1 /\ 0 < Batches /\ 0 \in 0 .. FilterWords - 1 /\ 0 \in 0 .. FilterWords
      /\ 0 \in 0 .. OutWords /\ 0 \in 0 .. Channels /\ 0 \in 0 .. FilterDepth - 1
      /\ 0 % InputWords = 0 /\ 0 % 4 = 0
  BY <1>2, SMT
<1>4. IInv
  BY InitInvariant
<1>5. RecordsOK
  BY DEF RecordsOK, Init
<1>6. DriverOK
  <2>1. driver \in [step : {"batch", "filters", "load", "run", "unload", "done"} \cup Kinds,
                    batch : 0 .. Batches, p : 0 .. Pixels - 1, loaded : 0 .. Pixels, k : Nat]
    BY <1>1, <1>3
  <2>2. Limit = 1
    BY <1>1 DEF Limit, Kinds
  <2> QED
    BY <1>1, <1>3, <2>1, <2>2 DEF DriverOK, Kinds
<1>7. ControlOK
  BY <1>1, <1>3 DEF ControlOK, Init, InitStores
<1>8. PixelsOK
  <2>1. PixelRun(driver.batch, first, 0) = <<>>
    BY <1>3, RunOfNone
  <2> QED
    BY <1>1, <1>3, <2>1 DEF PixelsOK, Init
<1>9. ParamsOK
  BY <1>1, <1>3 DEF ParamsOK, Init, InitStores
<1>10. FiltersOK
  BY <1>1, <1>3 DEF FiltersOK, Init, InitStores
<1>11. ReadersOK
  BY <1>1, <1>3 DEF ReadersOK, Init, InitStores
<1>12. PipeOK
  <2>1. pixel_now \in PixelNames
    BY <1>1, <1>3 DEF pixel_now, PixelNames
  <2> QED
    BY <1>1, <1>3, <2>1, InitPipe DEF PipeOK
<1> QED
  BY <1>4, <1>5, <1>6, <1>7, <1>8, <1>9, <1>10, <1>11, <1>12 DEF CInv

\* The registers keep their fields.
LEMMA RecordsStep ==
  ASSUME Next
  PROVE  RecordsOK'
<1>1. PICK command, value : Clocked(command, value)
  BY EveryStepIsACycle
<1>2. ins' = [pixels |-> ins'.pixels, partial |-> ins'.partial, pos |-> ins'.pos, ready |-> ins'.ready]
  BY <1>1 DEF Clocked, Input
<1>3. seq' = [start_run |-> seq'.start_run, running |-> seq'.running, f_count |-> seq'.f_count,
              i_count |-> seq'.i_count, four_count |-> seq'.four_count,
              madd_delay |-> seq'.madd_delay, pp_delay |-> seq'.pp_delay]
  BY <1>1 DEF Clocked, Sequence
<1> QED
  BY <1>2, <1>3 DEF RecordsOK

\* Every step keeps the invariant.
LEMMA ComputesStep ==
  ASSUME Sized, CInv, [Next]_vars
  PROVE  CInv'
<1>1. /\ IInv /\ RecordsOK /\ DriverOK /\ ControlOK /\ PixelsOK /\ ParamsOK
      /\ FiltersOK /\ ReadersOK /\ PipeOK
  BY DEF CInv
<1>2. CASE Next
  <2>1. IInv'
    BY <1>1, <1>2, StepInvariant
  <2>2. DriverOK'
    BY <1>1, <1>2, DriverStep
  <2>3. ControlOK'
    BY <1>1, <1>2, ControlStep
  <2>4. PixelsOK'
    BY <1>1, <1>2, <2>2, <2>3, PixelsStep
  <2>5. ParamsOK'
    BY <1>1, <1>2, <2>2, <2>3, StoredParamsStep
  <2>6. FiltersOK'
    BY <1>1, <1>2, <2>2, <2>3, StoredFiltersStep
  <2>7. ReadersOK'
    BY <1>1, <1>2, <2>2, <2>3, ReadersStep
  <2>8. PipeOK'
    BY <1>2, <2>2, <2>3, PipeOKStep
  <2>9. RecordsOK'
    BY <1>2, RecordsStep
  <2> QED
    BY <2>1, <2>2, <2>3, <2>4, <2>5, <2>6, <2>7, <2>8, <2>9 DEF CInv
<1>3. CASE UNCHANGED vars
  <2>1. /\ driver' = driver /\ ins' = ins /\ seq' = seq /\ path' = path /\ oq' = oq
        /\ restart' = restart /\ params' = params /\ filters' = filters /\ fvf' = fvf
    BY <1>3 DEF vars, store_vars
  <2>2. /\ active' = active /\ issued' = issued /\ words_got' = words_got /\ pixel_now' = pixel_now
        /\ first' = first /\ waiting' = waiting /\ Computing' = Computing
    BY <2>1 DEF active, issued, words_got, pixel_now, first, waiting, Computing, FilterWords
  <2>3. IInv' /\ DriverOK'
    BY <1>1, <1>3, StepInvariant, DriverStep
  <2>4. RecordsOK' /\ ControlOK'
    BY <1>1, <2>1, <2>2 DEF RecordsOK, ControlOK, FilterWords
  <2>5. PixelsOK'
    BY <1>1, <2>1, <2>2 DEF PixelsOK, PixelRun
  <2>6. ParamsOK'
    BY <1>1, <2>1, <2>2 DEF ParamsOK, StoredParams
  <2>7. FiltersOK'
    BY <1>1, <2>1, <2>2 DEF FiltersOK, FilterWord, FilterWords
  <2>8. ReadersOK'
    BY <1>1, <2>1, <2>2 DEF ReadersOK, ReaderAt, FilterWord, FilterWords, prefetching, TakenFrom, Rows
  <2>9. PipeOK'
    <3>1. \A pixel, n, k : InPipe(pixel, n, k)' <=> InPipe(pixel, n, k)
      BY <2>1 DEF InPipe, Multiplying, Accumulating, ParamsAt, PostProcessing, Assembling,
         Queued, Holds, BytesOK, Term, Result, OutWord
    <3> QED
      BY <1>1, <2>2, <3>1 DEF PipeOK, FilterWords, OutWords
  <2> QED
    BY <2>3, <2>4, <2>5, <2>6, <2>7, <2>8, <2>9 DEF CInv
<1> QED
  BY <1>2, <1>3

-----------------------------------------------------------------------------
(* What follows from the invariant                                         *)

\* At most two pixels are in the input store, and one of them is free while the
\* driver loads.
LEMMA WaitingBounds ==
  ASSUME DriverOK
  PROVE  /\ waiting \in 0 .. 2
         /\ driver.step = "load" => waiting < 2
         /\ waiting > 0 => driver.batch \in 0 .. Batches - 1 /\ first + waiting <= Pixels
<1>1. waiting \in Nat /\ first \in Nat /\ driver.loaded \in Nat /\ driver.p \in Nat
  BY WaitingType
<1>2. Pixels \in Nat \ {0} /\ Batches \in Nat \ {0} /\ driver.loaded <= Pixels /\ driver.batch \in 0 .. Batches
  <2>1. Pixels \in Nat \ {0} /\ Batches \in Nat \ {0} /\ driver.loaded \in 0 .. Pixels
        /\ driver.batch \in 0 .. Batches
    BY Sizes DEF DriverOK
  <2> QED
    BY <2>1, SMT
<1>3. CASE ~Computing
  BY <1>3, SMT DEF waiting, Computing
<1>4. CASE Computing
  <2>1. waiting = driver.loaded - first
    BY <1>4 DEF waiting
  <2>2. first >= driver.p /\ (driver.step = "load" => first = driver.p)
    <3>1. first = driver.p \/ (first = driver.p + 1 /\ driver.step = "unload")
      BY FirstPixel
    <3> QED
      BY <1>1, <3>1, SMT
  <2>3. /\ driver.step = "load" => driver.loaded < LoadsBefore(driver.p)
        /\ driver.step # "load" => driver.loaded = LoadsBefore(driver.p)
        /\ driver.batch < Batches
    BY <1>4 DEF DriverOK, Computing
  <2>4. LoadsBefore(driver.p) <= driver.p + 2 /\ LoadsBefore(driver.p) \in Nat
    BY <1>1, <1>2, SMT DEF LoadsBefore
  <2>5. waiting \in 0 .. 2
    BY <1>1, <2>1, <2>2, <2>3, <2>4, SMT
  <2>6. driver.step = "load" => waiting < 2
    BY <1>1, <2>1, <2>2, <2>3, <2>4, SMT
  <2>7. driver.batch \in 0 .. Batches - 1 /\ first + waiting <= Pixels
    BY <1>1, <1>2, <2>1, <2>3, SMT
  <2> QED
    BY <2>5, <2>6, <2>7
<1> QED
  BY <1>3, <1>4

\* They are pixels of the layer.
LEMMA PixelsHeld ==
  ASSUME DriverOK, PixelsOK
  PROVE  /\ Len(ins.pixels) = waiting
         /\ ins.pixels \in UNION {[1 .. n -> PixelIds] : n \in 0 .. 2}
<1>1. waiting \in Nat /\ first \in Nat
  BY WaitingType
<1>2. ins.pixels = PixelRun(driver.batch, first, waiting)
  BY DEF PixelsOK
<1>3. Len(ins.pixels) = waiting
  BY <1>1, <1>2, RunIsSequence
<1>4. \A j \in 1 .. waiting : <<driver.batch, first + j - 1>> \in PixelIds
  <2> TAKE j \in 1 .. waiting
  <2>1. waiting > 0
    BY <1>1, SMT
  <2>2. driver.batch \in 0 .. Batches - 1 /\ first + waiting <= Pixels
    BY <2>1, WaitingBounds
  <2>3. first + j - 1 \in 0 .. Pixels - 1
    BY <1>1, <2>2, Sizes, SMT
  <2> QED
    BY <2>2, <2>3 DEF PixelIds
<1>5. ins.pixels \in [1 .. waiting -> PixelIds]
  BY <1>2, <1>4 DEF PixelRun
<1>6. waiting \in 0 .. 2
  BY WaitingBounds
<1> QED
  BY <1>3, <1>5, <1>6

\* The invariant holds the runs apart.
LEMMA RunsAreApart == ControlOK => RunsApart
BY DEF ControlOK, RunsApart

\* With fewer than two pixels in the store a buffer is free.
LEMMA BuffersAreFree == DriverOK /\ PixelsOK => LoadsNeverStall
BY PixelsHeld, WaitingBounds DEF LoadsNeverStall

\* With no operand let in, nothing is in the pipeline.
LEMMA BatchesAreApart == CInv => BatchesApart
<1> SUFFICES ASSUME CInv, driver.step = "batch" PROVE BatchesApart
  BY DEF BatchesApart
<1>1. IInv /\ DriverOK /\ ControlOK /\ PixelsOK /\ FiltersOK /\ PipeOK
  BY DEF CInv
<1>2. issued = 0 /\ ~active /\ ~Computing
  BY <1>1, IssuedElsewhere DEF Computing
<1>3. ins.pixels = <<>>
  <2>1. waiting = 0 /\ 0 \in Nat
    BY <1>2, SMT DEF waiting
  <2> QED
    BY <1>1, <2>1, RunOfNone DEF PixelsOK
<1>4. PICK pixel \in PixelNames, n \in 0 .. FilterWords, k \in 0 .. OutWords :
        n = issued /\ InPipe(pixel, n, k)
  BY <1>1 DEF PipeOK
<1>5. k \in Nat
  BY Sizes, SMT
<1>6. Empty
  BY <1>1, <1>2, <1>4, <1>5, EmptyPipe DEF IInv
<1> QED
  BY <1>2, <1>3, <1>6 DEF BatchesApart, Empty, active

\* What CFU_GET_OUTPUT returns.
LEMMA OutputIsRight ==
  ASSUME Sized, CInv, [Next]_vars, GetOutput
  PROVE  got' = OutWord(<<driver.batch, driver.p>>, driver.k)
<1>1. driver.step = "unload" /\ oq.out # None /\ Clocked("get_output", None)
  BY DEF GetOutput
<1>2. got' = oq.out
  BY <1>1 DEF Clocked
<1>3. PICK pixel \in PixelNames, n \in 0 .. FilterWords, k \in 0 .. OutWords :
        pixel = pixel_now /\ k = words_got /\ InPipe(pixel, n, k)
  BY DEF CInv, PipeOK
<1>4. PICK w : Queued(pixel, w, k)
  BY <1>3 DEF InPipe
<1>5. oq.out = OutWord(pixel, k)
  BY <1>1, <1>4 DEF Queued, Holds
<1> QED
  BY <1>1, <1>2, <1>3, <1>5 DEF pixel_now, words_got

\* The types of the registers follow from the invariant.
LEMMA TypesAreRight == CInv => TypeOK
<1> SUFFICES ASSUME CInv PROVE TypeOK
  OBVIOUS
<1>1. /\ IInv /\ RecordsOK /\ DriverOK /\ ControlOK /\ PixelsOK /\ ParamsOK
      /\ FiltersOK /\ ReadersOK /\ PipeOK
  BY DEF CInv
<1>2. /\ InputWords \in Nat \ {0} /\ FilterWords \in Nat \ {0}
      /\ QueueDepth \in Nat \ {0} /\ Margin \in Nat \ {0}
  BY Sizes, ConstantsAssumption
<1>3. PICK pixel \in PixelNames, n \in 0 .. FilterWords, k \in 0 .. OutWords : InPipe(pixel, n, k)
  BY <1>1 DEF PipeOK
<1>4. PICK m \in Nat, r \in Nat, b \in Nat, w \in Nat :
        Accumulating(pixel, m, r) /\ Assembling(pixel, b, w)
  BY <1>3 DEF InPipe
<1>5. seq.i_count \in 0 .. InputWords - 1 /\ Len(path.acc) < InputWords
  <2> DEFINE acc == path.acc
             c == seq.i_count
             S == {Term(pixel, InputWords * r + j - 1) : j \in 1 .. c}
  <2>1. c \in 0 .. InputWords - 1 /\ acc = [j \in 1 .. c |-> Term(pixel, InputWords * r + j - 1)]
    BY <1>4 DEF Accumulating
  <2>2. acc \in [1 .. c -> S]
    BY <2>1
  <2>3. c \in Nat /\ c < InputWords
    <3> HIDE DEF c
    <3> QED
      BY <1>2, <2>1, SMT
  <2> HIDE DEF acc, S, c
  <2>4. Len(acc) = c
    BY <2>2, <2>3, FunctionIsSequence
  <2> QED
    BY <2>1, <2>3, <2>4 DEF acc, c
<1>6. Len(path.btw) <= 4
  <2> DEFINE l == Len(path.btw)
             c == seq.four_count
  <2>1. l \in c .. 4 /\ c \in 0 .. 3
    BY <1>1, <1>4 DEF Assembling, IInv, DelayLines
  <2> HIDE DEF l, c
  <2>2. l <= 4
    BY <2>1, SMT
  <2> QED
    BY <2>2 DEF l
<1>7. w_level <= QueueDepth
  <2>1. w_level \in Nat
    BY <1>1, LevelType DEF IInv
  <2>2. InFlight \in 0 .. 6 /\ seq.four_count \in 0 .. 3
    BY <1>1, SMT DEF IInv, DelayLines, InFlight, Bit
  <2>3. 4 * w_level + seq.four_count + InFlight <= 4 * (QueueDepth - Margin) + 6
    BY <1>1 DEF IInv, Load
  <2> QED
    BY <1>2, <2>1, <2>2, <2>3, SMT
<1>8. ins \in [pixels : UNION {[1 .. l -> PixelIds] : l \in 0 .. 2},
               partial : 0 .. InputWords - 1, pos : 0 .. InputWords - 1, ready : BOOLEAN]
  <2>1. ins.pixels \in UNION {[1 .. l -> PixelIds] : l \in 0 .. 2}
    BY <1>1, PixelsHeld
  <2>2. ins.partial \in 0 .. InputWords - 1
    <3>1. driver.step = "load" => driver.k \in Nat /\ driver.k < InputWords
      BY <1>1 DEF DriverOK, Limit, Kinds
    <3>2. driver.step = "load" => driver.k \in 0 .. InputWords - 1
      BY <1>2, <3>1, SMT
    <3>3. 0 \in 0 .. InputWords - 1
      BY <1>2, SMT
    <3> QED
      BY <1>1, <3>2, <3>3 DEF PixelsOK
  <2>3. ins.pos \in 0 .. InputWords - 1
    <3>1. issued \in Nat
      <4>1. issued \in 0 .. FilterWords
        BY <1>1, IssuedType
      <4> QED
        BY <1>2, <4>1, SMT
    <3> QED
      BY <1>1, <1>2, <3>1, Division DEF PixelsOK
  <2>4. ins.ready \in BOOLEAN
    BY <1>1 DEF PixelsOK
  <2> HIDE DEF PixelIds
  <2>5. ins = [pixels |-> ins.pixels, partial |-> ins.partial, pos |-> ins.pos, ready |-> ins.ready]
    BY <1>1 DEF RecordsOK
  <2> QED
    BY <2>1, <2>2, <2>3, <2>4, <2>5
<1>9. seq \in [start_run : BOOLEAN, running : BOOLEAN, f_count : 0 .. FilterWords - 1,
               i_count : 0 .. InputWords - 1, four_count : 0 .. 3,
               madd_delay : [1 .. 2 -> BOOLEAN], pp_delay : [1 .. 4 -> BOOLEAN]]
  <2>1. seq = [start_run |-> seq.start_run, running |-> seq.running, f_count |-> seq.f_count,
               i_count |-> seq.i_count, four_count |-> seq.four_count,
               madd_delay |-> seq.madd_delay, pp_delay |-> seq.pp_delay]
    BY <1>1 DEF RecordsOK
  <2>2. /\ seq.start_run \in BOOLEAN /\ seq.running \in BOOLEAN /\ seq.f_count \in 0 .. FilterWords - 1
        /\ seq.four_count \in 0 .. 3
        /\ seq.madd_delay \in [1 .. 2 -> BOOLEAN] /\ seq.pp_delay \in [1 .. 4 -> BOOLEAN]
    BY <1>1 DEF ControlOK, IInv, DelayLines
  <2> QED
    BY <1>5, <2>1, <2>2
<1>10. driver \in [step : {"batch", "filters", "load", "run", "unload", "done"} \cup Kinds,
                   batch : 0 .. Batches, p : 0 .. Pixels - 1, loaded : 0 .. Pixels, k : Nat]
  BY <1>1 DEF DriverOK
<1>11. \A kind \in Kinds : params[kind].count \in 0 .. Channels /\ params[kind].last_addr \in 0 .. Channels - 1
  BY <1>1, AddressesInRange DEF ParamsOK
<1>12. fvf.bank \in BankIds
  <2>1. issued \in 0 .. FilterWords
    BY <1>1, IssuedType
  <2>2. issued \in Nat
    BY <1>2, <2>1, SMT
  <2> QED
    BY <1>1, <2>2, TakenFromTurn DEF ReadersOK
<1> QED
  BY <1>1, <1>5, <1>6, <1>7, <1>8, <1>9, <1>10, <1>11, <1>12 DEF TypeOK, FiltersOK, ReadersOK

-----------------------------------------------------------------------------
(* The theorems                                                            *)

\* At every moment the operands, results and words under way are those of the pixel
\* the driver waits for, and what is stored is what the rest of them will meet: the
\* inductive invariant, for every layer of whole pairs of words whose parameters do
\* not fill their memory.
THEOREM ComputesAlways == Sized => (Spec => []CInv)
<1> SUFFICES ASSUME Sized PROVE Spec => []CInv
  OBVIOUS
<1>1. Init => CInv
  BY InitComputes
<1>2. CInv /\ [Next]_vars => CInv'
  BY ComputesStep
<1> QED
  BY <1>1, <1>2, PTL DEF Spec

\* Every register and counter of the driver and the gateware keeps its type: counters
\* that wrap at a stored limit (UpCounter, CircularIncrementer, StoreSetter) stay below it.
THEOREM RegistersKeepTheirTypes == Sized => (Spec => []TypeOK)
<1> SUFFICES ASSUME Sized PROVE Spec => []TypeOK
  OBVIOUS
<1>1. Spec => []CInv
  BY ComputesAlways
<1>2. CInv => TypeOK
  BY TypesAreRight
<1> QED
  BY <1>1, <1>2, PTL

\* CFU_MACC_RUN is never issued while the GateCalculator runs, so no start is lost to
\* the end of the run before.
THEOREM RunsNeverMeet == Sized => (Spec => []RunsApart)
<1> SUFFICES ASSUME Sized PROVE Spec => []RunsApart
  OBVIOUS
<1>1. Spec => []CInv
  BY ComputesAlways
<1>2. CInv => RunsApart
  BY RunsAreApart DEF CInv
<1> QED
  BY <1>1, <1>2, PTL

\* LoadInputValues always finds a free buffer (mnv2_conv.cc loads one pixel ahead of
\* the run), for every number of pixels.
THEOREM LoadsFindABuffer == Sized => (Spec => []LoadsNeverStall)
<1> SUFFICES ASSUME Sized PROVE Spec => []LoadsNeverStall
  OBVIOUS
<1>1. Spec => []CInv
  BY ComputesAlways
<1>2. CInv => LoadsNeverStall
  BY BuffersAreFree DEF CInv
<1> QED
  BY <1>1, <1>2, PTL

\* When CFU_SET_OUTPUT_BATCH_SIZE restarts the stores no operand is in the pipeline
\* and the output queue is empty.
THEOREM BatchesNeverMeet == Sized => (Spec => []BatchesApart)
<1> SUFFICES ASSUME Sized PROVE Spec => []BatchesApart
  OBVIOUS
<1>1. Spec => []CInv
  BY ComputesAlways
<1>2. CInv => BatchesApart
  BY BatchesAreApart
<1> QED
  BY <1>1, <1>2, PTL

\* Every CFU_GET_OUTPUT returns the word the driver stores it for, computed from the
\* right inputs, filter words and parameters: for every depth, number of channels,
\* pixels and batches, queue and margin.
THEOREM EveryOutputIsRight == Sized => (Spec => OutputsRight)
<1> SUFFICES ASSUME Sized PROVE Spec => OutputsRight
  OBVIOUS
<1>1. Spec => []CInv
  BY ComputesAlways
<1>2. CInv /\ [Next]_vars =>
        [GetOutput => got' = OutWord(<<driver.batch, driver.p>>, driver.k)]_vars
  BY OutputIsRight
<1> QED
  BY <1>1, <1>2, PTL DEF Spec, OutputsRight
=============================================================================
