-------------------------- MODULE ArithmeticProofs --------------------------
(***************************************************************************)
(* Theorems whose content is integer arithmetic.                           *)
(*                                                                         *)
(* The batches of the mnv2 driver: for layers of every size and memories   *)
(* of every size, no batch overfills a store, and the driver's pointers    *)
(* agree at the start of each batch.                                       *)
(*                                                                         *)
(* The three quantizers of the gateware: they compute what the C code      *)
(* computes, for every value of their operands but those the theorems      *)
(* name; where they do not agree is stated too.                            *)
(***************************************************************************)
EXTENDS Mnv2Batches, Quantize, TLAPS

-----------------------------------------------------------------------------
(* The arithmetic of the batches.                                          *)

LEMMA Distribute ==
  ASSUME NEW a \in Nat, NEW b \in Nat, NEW m \in Nat, a <= b
  PROVE  m * a <= m * b /\ a * m <= b * m
  BY SMT

LEMMA FloorBound ==
  ASSUME NEW n \in Nat, NEW m \in Nat, m > 0
  PROVE  n \div m \in Nat /\ m * (n \div m) <= n
  BY SMT

\* What is a multiple is not changed by rounding up to it.
LEMMA RoundUpMultiple ==
  /\ \A k \in Nat : RoundUp(4 * k, 4) = 4 * k
  /\ \A k \in Nat : RoundUp(8 * k, 8) = 8 * k
  BY SMT DEF RoundUp

\* The batches before the last one end before the last channel.
LEMMA BatchesBelow ==
  ASSUME NEW c \in Nat, c > 0, NEW d \in Nat, NEW b \in Nat, b < (c - 1 + d) \div c
  PROVE  b * c < d
<1> DEFINE q == (c - 1 + d) \div c
<1>1. q \in Nat /\ c * q <= c - 1 + d
  BY FloorBound, SMT
<1>2. c * (b + 1) <= c * q
  BY <1>1, Distribute, SMT
<1>3. c * (b + 1) = b * c + c
  BY SMT
<1>4. b * c \in Nat
  BY SMT
<1> QED
  BY <1>1, <1>2, <1>3, <1>4, SMT

-----------------------------------------------------------------------------
(* The layer's batches.                                                    *)

\* The driver's own check of a layer (ConvPerChannel), and its loop counter.
LayerOK == input_depth \in Nat /\ output_depth \in Nat /\ Accelerated /\ batch \in Nat

LEMMA LayerMultiples ==
  ASSUME LayerOK
  PROVE  /\ input_depth_words \in Nat /\ input_depth = 4 * input_depth_words
         /\ \E k \in Nat : input_depth_words = 2 * k
         /\ \E k \in Nat : output_depth = 4 * k
<1>1. input_depth = 4 * (2 * (input_depth \div 8)) /\ output_depth = 4 * (2 * (output_depth \div 8))
  BY SMT DEF LayerOK, Accelerated
<1>2. input_depth \div 8 \in Nat /\ output_depth \div 8 \in Nat
  BY SMT DEF LayerOK
<1>3. input_depth \div 4 = 2 * (input_depth \div 8)
  BY <1>1, <1>2, SMT
<1> QED
  BY <1>1, <1>2, <1>3, SMT DEF input_depth_words

\* A batch has channels in fours, as many as the parameter memories and the
\* filter store have room for.
LEMMA BatchFits ==
  ASSUME LayerOK
  PROVE  /\ channels_per_batch \in Nat /\ \E k \in Nat : channels_per_batch = 4 * k
         /\ channels_per_batch <= MaxParams
         /\ channels_per_batch <= output_depth
         /\ channels_per_batch * input_depth <= MaxFilter
<1> DEFINE f == MaxFilter \div input_depth
           n == Lower(output_depth, Lower(MaxParams, f))
<1>1. f \in Nat /\ input_depth * f <= MaxFilter
  BY FloorBound, ConstantsAssumption, SMT DEF LayerOK, Accelerated
<1>2. n \in Nat /\ n <= output_depth /\ n <= MaxParams /\ n <= f
  BY <1>1, ConstantsAssumption, SMT DEF Lower, LayerOK
<1>3. n \div 4 \in Nat /\ 4 * (n \div 4) <= n
  BY <1>2, SMT
<1>4. channels_per_batch = 4 * (n \div 4)
  BY DEF channels_per_batch, RoundDown
<1>5. channels_per_batch \in Nat /\ channels_per_batch <= f
  BY <1>1, <1>2, <1>3, <1>4, SMT
<1>6. channels_per_batch * input_depth <= f * input_depth
  BY <1>1, <1>5, Distribute, SMT DEF LayerOK
<1>7. f * input_depth = input_depth * f /\ channels_per_batch * input_depth \in Nat
  BY <1>1, <1>5, SMT DEF LayerOK
<1>8. channels_per_batch * input_depth <= MaxFilter
  BY <1>1, <1>6, <1>7, ConstantsAssumption, SMT DEF LayerOK
<1> QED
  BY <1>2, <1>3, <1>4, <1>5, <1>8, ConstantsAssumption, SMT DEF LayerOK

\* A batch of the loop: where it begins, how many channels it has, and what the
\* rounding of its loads amounts to, which is nothing.
LEMMA BatchInLoop ==
  ASSUME LayerOK, channels_per_batch > 0, batch < num_batches
  PROVE  /\ batch_base \in Nat /\ batch_base < output_depth
         /\ batch_size \in Nat /\ batch_size <= channels_per_batch
         /\ batch_base + batch_size = Lower(output_depth, (batch + 1) * channels_per_batch)
         /\ RoundUp(batch_size, 4) = batch_size
         /\ RoundUp(batch_size * input_depth_words, 8) = batch_size * input_depth_words
<1> DEFINE c == channels_per_batch
<1>1. c \in Nat /\ \E k \in Nat : c = 4 * k
  BY BatchFits
<1> HIDE DEF c
<1>2. batch_base = batch * c /\ batch_base \in Nat
  BY <1>1, SMT DEF batch_base, LayerOK, c
<1>3. batch_base < output_depth
  BY <1>1, <1>2, BatchesBelow DEF LayerOK, num_batches, c
<1>4. batch_size = Lower(output_depth, batch_base + c) - batch_base
  BY DEF batch_size, c
<1>5. batch_size \in Nat /\ batch_size <= c
        /\ batch_base + batch_size = Lower(output_depth, batch_base + c)
  BY <1>1, <1>2, <1>3, <1>4, SMT DEF Lower, LayerOK
<1>6. batch_base + c = (batch + 1) * c
  BY <1>1, <1>2, SMT DEF LayerOK
<1>7. \E k \in Nat : batch_size = 4 * k
  <2>1. PICK d \in Nat : output_depth = 4 * d
    BY LayerMultiples
  <2>2. PICK e \in Nat : c = 4 * e
    BY <1>1
  <2>3. batch * e \in Nat /\ batch_base = 4 * (batch * e)
    BY <1>2, <2>2, SMT DEF LayerOK
  <2>4. batch_size = 4 * (d - batch * e) \/ batch_size = 4 * e
    BY <1>4, <2>1, <2>2, <2>3, SMT DEF Lower
  <2>5. d - batch * e \in Nat
    BY <1>3, <2>1, <2>3, SMT
  <2> QED
    BY <2>4, <2>5
<1>8. PICK k \in Nat : batch_size = 4 * k
  BY <1>7
<1>9. PICK w \in Nat : input_depth_words = 2 * w
  BY LayerMultiples
<1>10. k * w \in Nat /\ batch_size * input_depth_words = 8 * (k * w)
  BY <1>8, <1>9, SMT
<1> QED
  BY <1>2, <1>3, <1>5, <1>6, <1>8, <1>10, RoundUpMultiple DEF c

-----------------------------------------------------------------------------
(* The invariant: outputs follow the batches, and the pointers the outputs. *)

IInv ==
  /\ LayerOK /\ outputs \in Nat
  /\ channels_per_batch > 0 => outputs = Lower(output_depth, batch * channels_per_batch)
  /\ PointersAgree

LEMMA InitIInv == Init => IInv
<1> SUFFICES ASSUME Init PROVE IInv
  OBVIOUS
<1>1. LayerOK
  BY ConstantsAssumption DEF Init, LayerOK
<1>2. channels_per_batch \in Nat /\ input_depth_words \in Nat
  BY <1>1, BatchFits, LayerMultiples
<1>3. batch * channels_per_batch = 0 /\ outputs * input_depth_words = 0
  BY <1>2, SMT DEF Init
<1>4. Lower(output_depth, 0) = 0
  BY <1>1, SMT DEF Lower, LayerOK
<1> QED
  BY <1>1, <1>3, <1>4, SMT DEF IInv, PointersAgree, Init

LEMMA BatchIInv == IInv /\ Batch => IInv'
<1> SUFFICES ASSUME IInv, Batch PROVE IInv'
  OBVIOUS
<1>1. LayerOK /\ channels_per_batch > 0 /\ batch < num_batches
  BY DEF IInv, Batch
<1>2. input_depth' = input_depth /\ output_depth' = output_depth /\ batch' = batch + 1
  BY DEF Batch, layer
<1>3. LayerOK'
  BY <1>1, <1>2, SMT DEF LayerOK, Accelerated
<1>4. channels_per_batch' = channels_per_batch /\ input_depth_words' = input_depth_words
  BY <1>2 DEF channels_per_batch, input_depth_words
<1>5. outputs' = batch_base + batch_size
  BY DEF Batch
<1>6. outputs = batch_base
  <2>1. outputs = Lower(output_depth, batch_base)
    BY <1>1 DEF IInv, batch_base
  <2>2. batch_base \in Nat /\ batch_base < output_depth
    BY <1>1, BatchInLoop
  <2> QED
    BY <1>1, <2>1, <2>2, SMT DEF Lower, LayerOK
<1>7. outputs' \in Nat /\ outputs' = Lower(output_depth', batch' * channels_per_batch')
  <2>1. batch_base \in Nat /\ batch_size \in Nat
          /\ batch_base + batch_size = Lower(output_depth, (batch + 1) * channels_per_batch)
    BY <1>1, BatchInLoop
  <2> QED
    BY <1>2, <1>4, <1>5, <2>1, SMT
<1>8. PointersAgree'
  <2>1. params' = params + batch_size /\ filter' = filter + batch_size * input_depth_words
    BY <1>1, BatchInLoop DEF Batch
  <2>2. params = batch_base /\ filter = batch_base * input_depth_words
    BY <1>6 DEF IInv, PointersAgree
  <2>3. batch_base \in Nat /\ batch_size \in Nat /\ input_depth_words \in Nat
    BY <1>1, BatchInLoop, LayerMultiples
  <2>4. (batch_base + batch_size) * input_depth_words
          = batch_base * input_depth_words + batch_size * input_depth_words
    BY <2>3, SMT
  <2> QED
    BY <1>4, <1>5, <2>1, <2>2, <2>4 DEF PointersAgree
<1> QED
  BY <1>3, <1>7, <1>8 DEF IInv

LEMMA NextIInv == IInv /\ [Next]_vars => IInv'
<1>1. IInv /\ UNCHANGED vars => IInv'
  BY DEF vars, layer, IInv, LayerOK, Accelerated, PointersAgree, channels_per_batch, input_depth_words
<1> QED
  BY <1>1, BatchIInv DEF Next

LEMMA IInvHolds == Spec => []IInv
  BY InitIInv, NextIInv, PTL DEF Spec

\* The pointers to the parameters and to the filter, which move by rounded amounts,
\* point to the batch's first channel (Mnv2ConvPerChannel1x1's loop).
THEOREM PointersStayTogether == Spec => []PointersAgree
<1>1. IInv => PointersAgree
  BY DEF IInv
<1> QED
  BY <1>1, IInvHolds, PTL

\* Whatever the sizes of layer and memories, the rounded loads of a batch fit the
\* stores that check nothing (StoreSetter, LoadFilterValues).
THEOREM StoresAreNotOverfilled == Spec => []StoresSuffice
<1>1. IInv => StoresSuffice
  <2> SUFFICES ASSUME IInv, channels_per_batch > 0, batch < num_batches
               PROVE  /\ RoundUp(batch_size, 4) <= MaxParams
                      /\ 4 * RoundUp(batch_size * input_depth_words, 8) <= MaxFilter
    BY DEF StoresSuffice
  <2> DEFINE c == channels_per_batch
  <2>1. LayerOK
    BY DEF IInv
  <2>2. c \in Nat /\ c <= MaxParams /\ c * input_depth <= MaxFilter
    BY <2>1, BatchFits
  <2>3. batch_size \in Nat /\ batch_size <= c /\ RoundUp(batch_size, 4) = batch_size
          /\ RoundUp(batch_size * input_depth_words, 8) = batch_size * input_depth_words
    BY <2>1, BatchInLoop
  <2>4. input_depth_words \in Nat /\ input_depth = 4 * input_depth_words /\ input_depth \in Nat
    BY <2>1, LayerMultiples DEF LayerOK
  <2>5. batch_size * input_depth <= c * input_depth
    BY <2>2, <2>3, <2>4, Distribute
  <2>6. 4 * (batch_size * input_depth_words) = batch_size * input_depth
    BY <2>3, <2>4, SMT
  <2> HIDE DEF c
  <2>7. c * input_depth \in Nat /\ batch_size * input_depth \in Nat
    BY <2>2, <2>3, <2>4, SMT
  <2> QED
    BY <2>2, <2>3, <2>5, <2>6, <2>7, ConstantsAssumption, SMT
<1> QED
  BY <1>1, IInvHolds, PTL

\* The quotient is the largest that fits.
LEMMA FloorIsLargest ==
  ASSUME NEW n \in Nat, NEW m \in Nat, m > 0, NEW k \in Nat
  PROVE  n \div m >= k <=> k * m <= n
<1> DEFINE q == n \div m
           r == n % m
<1>1. q \in Nat /\ r \in 0 .. m - 1 /\ n = m * q + r
  BY SMT
<1> HIDE DEF q, r
<1>2. CASE q >= k
  <2>1. m * k <= m * q
    BY <1>1, <1>2, Distribute
  <2>2. m * q \in Nat /\ m * k = k * m /\ k * m \in Nat
    BY <1>1, SMT
  <2> QED
    BY <1>1, <1>2, <2>1, <2>2, SMT DEF q
<1>3. CASE ~(q >= k)
  <2>1. m * (q + 1) <= m * k
    BY <1>1, <1>3, Distribute, SMT
  <2>2. m * (q + 1) = m * q + m /\ m * q \in Nat /\ m * k = k * m /\ k * m \in Nat
    BY <1>1, SMT
  <2> QED
    BY <1>1, <1>3, <2>1, <2>2, SMT DEF q
<1> QED
  BY <1>2, <1>3

\* Which layers of those that ConvPerChannel hands over have a batch of any channels,
\* so that num_batches does not divide by zero: not those over a quarter of the
\* filter store deep, 2048 with the code's numbers, although it lets depths up to
\* MAX_CONV_INPUT_VALUES pass (CalculateChannelsPerBatch, conv.cc:78-82).
THEOREM DeepLayersHaveNoBatch ==
  ASSUME LayerOK, MaxParams >= 4
  PROVE  LimitsBatched <=> 4 * input_depth <= MaxFilter
<1> DEFINE q == MaxFilter \div input_depth
           m == Lower(output_depth, Lower(MaxParams, q))
<1>1. input_depth \in Nat /\ input_depth > 0 /\ MaxFilter \in Nat /\ MaxParams \in Nat
  BY ConstantsAssumption, SMT DEF LayerOK, Accelerated
<1>2. output_depth \in Nat /\ output_depth >= 4
  BY SMT DEF LayerOK, Accelerated
<1>3. q \in Nat /\ (q >= 4 <=> 4 * input_depth <= MaxFilter)
  BY <1>1, FloorBound, FloorIsLargest
<1> HIDE DEF q
<1>4. m \in Nat /\ (m >= 4 <=> q >= 4)
  BY <1>1, <1>2, <1>3, SMT DEF Lower
<1>5. channels_per_batch = 4 * (m \div 4)
  BY DEF channels_per_batch, RoundDown, q
<1> HIDE DEF m
<1>6. 4 * (m \div 4) > 0 <=> m >= 4
  BY <1>4, SMT
<1> QED
  BY <1>3, <1>4, <1>5, <1>6 DEF LimitsBatched

-----------------------------------------------------------------------------
(* Products and their bounds.                                              *)

LEMMA ProductOfNaturals ==
  ASSUME NEW a \in Int, NEW b \in Int, NEW m \in Int, NEW n \in Int,
         0 <= a, a <= m, 0 <= b, b <= n
  PROVE  0 <= a * b /\ a * b <= m * n
<1>1. a * b <= m * b
  BY SMT
<1>2. m * b <= m * n
  BY SMT
<1>3. 0 <= a * b
  BY SMT
<1> QED
  BY <1>1, <1>2, <1>3, SMT

LEMMA ProductSigns ==
  ASSUME NEW a \in Int, NEW b \in Int
  PROVE  (-a) * b = -(a * b) /\ a * (-b) = -(a * b) /\ (-a) * (-b) = a * b
  BY SMT

LEMMA ProductBounds ==
  ASSUME NEW a \in Int, NEW b \in Int, NEW m \in Int, NEW n \in Int,
         -m <= a, a <= m, -n <= b, b <= n
  PROVE  -(m * n) <= a * b /\ a * b <= m * n
<1>1. CASE a >= 0 /\ b >= 0
  BY <1>1, ProductOfNaturals, SMT
<1>2. CASE a < 0 /\ b >= 0
  <2>1. 0 <= (-a) * b /\ (-a) * b <= m * n
    BY <1>2, ProductOfNaturals, SMT
  <2> QED
    BY <2>1, ProductSigns, SMT
<1>3. CASE a >= 0 /\ b < 0
  <2>1. 0 <= a * (-b) /\ a * (-b) <= m * n
    BY <1>3, ProductOfNaturals, SMT
  <2> QED
    BY <2>1, ProductSigns, SMT
<1>4. CASE a < 0 /\ b < 0
  <2>1. 0 <= (-a) * (-b) /\ (-a) * (-b) <= m * n
    BY <1>4, ProductOfNaturals, SMT
  <2> QED
    BY <2>1, ProductSigns, SMT
<1> QED
  BY <1>1, <1>2, <1>3, <1>4, SMT

\* A register of 32 bits holds a value of 32 bits as it is.
LEMMA Fits32 ==
  ASSUME NEW x \in Int32
  PROVE  Signed32(x) = x
  BY SMT DEF Int32, Signed32

LEMMA Signed32Type ==
  ASSUME NEW x \in Int
  PROVE  Signed32(x) \in Int32
  BY SMT DEF Int32, Signed32

-----------------------------------------------------------------------------
(* The high word of the doubled product.                                   *)

RoundedHigh(p) == (p + 1073741824) \div 2147483648

\* C's rounding, away from zero but for negative halves, is rounding half up.
LEMMA RoundsHalfUp ==
  ASSUME NEW p \in Int
  PROVE  Quotient(p + (IF p >= 0 THEN 1073741824 ELSE 1 - 1073741824), 2147483648)
           = RoundedHigh(p)
  BY SMT DEF Quotient, RoundedHigh

\* One product alone does not fit: that of the least value with itself.
LEMMA HighWordFits ==
  ASSUME NEW a \in Int32, NEW b \in Int32, a # INT32_MIN \/ b # INT32_MIN
  PROVE  a * b \in Int /\ RoundedHigh(a * b) \in Int32
<1>1. a \in Int /\ b \in Int /\ a * b \in Int
  BY SMT DEF Int32
<1>2. \/ -(2147483648 * 2147483647) <= a * b /\ a * b <= 2147483648 * 2147483647
      \/ b = INT32_MIN
  BY <1>1, ProductBounds, SMT DEF Int32, INT32_MIN
<1>3. \/ -(2147483647 * 2147483648) <= a * b /\ a * b <= 2147483647 * 2147483648
      \/ a = INT32_MIN
  BY <1>1, ProductBounds, SMT DEF Int32, INT32_MIN
<1>4. -(2147483648 * 2147483647) <= a * b /\ a * b <= 2147483648 * 2147483647
  BY <1>1, <1>2, <1>3, SMT
<1> QED
  BY <1>1, <1>4, SMT DEF RoundedHigh, Int32

LEMMA HighMulRounds ==
  ASSUME NEW a \in Int32, NEW b \in Int32, a # INT32_MIN \/ b # INT32_MIN
  PROVE  HighMul(a, b) = RoundedHigh(a * b)
<1>1. a * b \in Int
  BY HighWordFits, SMT
<1> QED
  BY <1>1, RoundsHalfUp, SMT DEF HighMul

LEMMA HighMulType ==
  ASSUME NEW a \in Int32, NEW b \in Int32
  PROVE  HighMul(a, b) \in Int32
<1>1. CASE a = INT32_MIN /\ b = INT32_MIN
  BY <1>1, SMT DEF HighMul, INT32_MAX, Int32
<1>2. CASE a # INT32_MIN \/ b # INT32_MIN
  BY <1>2, HighWordFits, HighMulRounds, SMT
<1> QED
  BY <1>1, <1>2, SMT

\* cfu_quantizer.v corrects the floor of a negative product in the one way that
\* makes it C's quotient, for all operands (its comment "Match C semantics exactly").
THEOREM GenHighMul ==
  ASSUME NEW a \in Int32, NEW b \in Int32
  PROVE  gen_scaled_pre(a, b) = HighMul(a, b)
<1>1. CASE a = INT32_MIN /\ b = INT32_MIN
  BY <1>1, SMT DEF gen_scaled_pre, HighMul
<1>2. CASE a # INT32_MIN \/ b # INT32_MIN
  <2> DEFINE p == a * b
             r == p + (IF p >= 0 THEN 1073741824 ELSE 1 - 1073741824)
             trunc == IF r < 0 /\ r % 2147483648 # 0 THEN r \div 2147483648 + 1
                      ELSE r \div 2147483648
  <2>1. p \in Int /\ RoundedHigh(p) \in Int32
    BY <1>2, HighWordFits, SMT
  <2>2. trunc = RoundedHigh(p)
    <3> HIDE DEF p
    <3> QED
      BY <2>1, SMT DEF RoundedHigh
  <2>3. gen_scaled_pre(a, b) = Signed32(trunc)
    BY <1>2, SMT DEF gen_scaled_pre
  <2> QED
    BY <1>2, <2>1, <2>2, <2>3, Fits32, HighMulRounds, SMT
<1> QED
  BY <1>1, <1>2, SMT

\* The one nudge that mnv2_first's SRDHM has for both signs is right, although its
\* author did not see why ("for some reason negative nudge is not used").
THEOREM Mnv2HighMul ==
  ASSUME NEW a \in Int32, NEW b \in Int32, a # INT32_MIN \/ b # INT32_MIN
  PROVE  mnv2_srdhm(a, b) = HighMul(a, b)
<1>1. mnv2_srdhm(a, b) = Signed32(RoundedHigh(a * b))
  BY SMT DEF mnv2_srdhm, RoundedHigh, Int32
<1> QED
  BY <1>1, HighWordFits, Fits32, HighMulRounds, SMT

\* Where it is not: its comparison with an unsigned INT32_MIN never holds for signed
\* registers, and the product that should saturate changes its sign.
THEOREM Mnv2Unsaturated ==
  /\ HighMul(INT32_MIN, INT32_MIN) = INT32_MAX
  /\ mnv2_srdhm(INT32_MIN, INT32_MIN) = INT32_MIN
<1>1. HighMul(INT32_MIN, INT32_MIN) = INT32_MAX
  BY SMT DEF HighMul
<1>2. mnv2_srdhm(INT32_MIN, INT32_MIN) = INT32_MIN
  <2> DEFINE m == 2147483648
             Half(y) == (y + 1073741824) \div 2147483648
  <2>1. m \in Int
    BY SMT
  <2>2. INT32_MIN = -m
    BY SMT DEF INT32_MIN
  <2>3. mnv2_srdhm(INT32_MIN, INT32_MIN) = Signed32(Half(INT32_MIN * INT32_MIN))
    BY SMT DEF mnv2_srdhm, INT32_MIN
  <2>4. Signed32(m) = INT32_MIN
    BY SMT DEF Signed32, INT32_MIN
  <2>5. \A x \in Int : Half(m * x) = x
    BY SMT
  <2> HIDE DEF m, Half
  <2>6. INT32_MIN * INT32_MIN = m * m
    BY <2>1, <2>2, ProductSigns, SMT
  <2> QED
    BY <2>1, <2>3, <2>4, <2>5, <2>6, Zenon
<1> QED
  BY <1>1, <1>2, SMT

\* hps_accel multiplies absolute values and nudges negative products by one less
\* before it gives them their sign: right for a multiplier that is not negative.
THEOREM HpsHighMul ==
  ASSUME NEW a \in Int32, a # INT32_MIN, NEW b \in Int32, b >= 0
  PROVE  hps_srdhm(a, b) = HighMul(a, b)
<1> DEFINE m == IF a >= 0 THEN a ELSE -a
           p == a * b
           n == m * b + (IF a >= 0 THEN 1073741824 ELSE 1073741824 - 1)
           h == n \div 2147483648
<1>0. a \in Int /\ b \in Int
  BY SMT DEF Int32
<1>1. a \in Int /\ b \in Int /\ p \in Int /\ RoundedHigh(p) \in Int32
  BY <1>0, HighWordFits, Zenon
<1>2. m \in Int32 /\ m \in Int /\ Signed32(m) = m
  BY Fits32, SMT DEF Int32, INT32_MIN
<1>3. m * b = IF a >= 0 THEN p ELSE -p
  BY <1>1, ProductSigns, SMT
<1>4. RoundedHigh(p) = IF a >= 0 THEN h ELSE -h
  <2>1. m * b \in Int
    BY <1>1, <1>2, SMT
  <2> HIDE DEF p, m
  <2> QED
    BY <1>1, <1>3, <2>1, SMT DEF RoundedHigh
<1>5. 0 <= m * b /\ m * b <= 2147483647 * 2147483647
  <2>1. 0 <= m /\ m <= 2147483647
    BY <1>1, SMT DEF Int32, INT32_MIN
  <2> HIDE DEF m
  <2> QED
    BY <1>1, <1>2, <2>1, ProductOfNaturals, SMT DEF Int32
<1>6. h \in Int32
  <2>1. m * b \in Int
    BY <1>1, <1>2, SMT
  <2> HIDE DEF m
  <2> QED
    BY <1>5, <2>1, SMT DEF Int32
<1>7. hps_srdhm(a, b) = Signed32(IF a >= 0 THEN Signed32(h) ELSE -Signed32(h))
  BY <1>2, SMT DEF hps_srdhm
<1>8. (IF a >= 0 THEN Signed32(h) ELSE -Signed32(h)) = RoundedHigh(p)
  <2> HIDE DEF h, p
  <2> QED
    BY <1>4, <1>6, Fits32, SMT
<1>9. HighMul(a, b) = RoundedHigh(p)
  BY HighMulRounds, Zenon
<1> HIDE DEF h, p
<1>10. hps_srdhm(a, b) = Signed32(RoundedHigh(p))
  BY <1>7, <1>8, Zenon
<1> QED
  BY <1>1, <1>9, <1>10, Fits32, Zenon

-----------------------------------------------------------------------------
(* The rounding division and the whole pipelines.                          *)

\* A quotient by two or more leaves room for the unit that rounding adds.
LEMMA DivisionFits ==
  ASSUME NEW x \in Int32, NEW pot \in PowersOfTwo, pot > 1
  PROVE  /\ x \div pot \in Int32
         /\ x \div pot + 1 \in Int32
  BY SMTT(30) DEF PowersOfTwo, Int32

LEMMA DivideByPOTType ==
  ASSUME NEW x \in Int32, NEW pot \in PowersOfTwo, pot > 1
  PROVE  DivideByPOT(x, pot) \in Int32
<1>1. x \div pot \in Int32 /\ x \div pot + 1 \in Int32
  BY DivisionFits, SMT
<1>2. x \div pot + 0 = x \div pot
  BY <1>1, SMT DEF Int32
<1> QED
  BY <1>1, <1>2, SMT DEF DivideByPOT

LEMMA GenDivides ==
  ASSUME NEW x \in Int32, NEW pot \in PowersOfTwo
  PROVE  gen_scaled(x, pot) = IF pot > 1 THEN DivideByPOT(x, pot) ELSE x
<1>1. CASE pot = 1
  BY <1>1, SMT DEF gen_scaled
<1>2. CASE pot # 1
  <2>1. pot > 1
    BY <1>2, SMT DEF PowersOfTwo
  <2>2. gen_scaled(x, pot) = Signed32(DivideByPOT(x, pot))
    BY <1>2, SMT DEF gen_scaled, DivideByPOT
  <2> QED
    BY <2>1, <2>2, DivideByPOTType, Fits32, SMT
<1> QED
  BY <1>1, <1>2, SMT

\* mnv2_first divides by one too; the remainder is then never above the threshold.
LEMMA Mnv2Divides ==
  ASSUME NEW x \in Int32, NEW pot \in PowersOfTwo
  PROVE  Signed32(mnv2_rounding_divide_by_pot(x, pot))
           = IF pot > 1 THEN DivideByPOT(x, pot) ELSE x
<1>1. CASE pot = 1
  <2>1. mnv2_rounding_divide_by_pot(x, 1) = x
    BY SMT DEF mnv2_rounding_divide_by_pot, Int32
  <2> QED
    BY <1>1, <2>1, Fits32, SMT
<1>2. CASE pot # 1
  <2>1. pot > 1
    BY <1>2, SMT DEF PowersOfTwo
  <2>2. mnv2_rounding_divide_by_pot(x, pot) = DivideByPOT(x, pot)
    BY SMT DEF mnv2_rounding_divide_by_pot, DivideByPOT
  <2> QED
    BY <2>1, <2>2, DivideByPOTType, Fits32, SMT
<1> QED
  BY <1>1, <1>2, SMT

\* gen_*: sum to output value as in C, whatever the layer's parameters.
THEOREM GenQuantizes ==
  ASSUME NEW sum \in Int, NEW mul \in Int32, NEW left \in PowersOfTwo,
         NEW right \in PowersOfTwo, NEW offset \in Int32, NEW min \in Int32,
         NEW max \in Int32, min <= max
  PROVE  gen_data_out(sum, mul, left, right, offset, min, max)
           = quantize(sum, mul, left, right, offset, min, max)
<1> DEFINE shifted == Signed32(sum * left)
           scaled == HighMul(shifted, mul)
           acc == IF right > 1 THEN DivideByPOT(scaled, right) ELSE scaled
           out == Signed32(acc + offset)
<1>1. shifted \in Int32
  <2>1. sum * left \in Int
    BY SMT DEF PowersOfTwo
  <2> QED
    BY <2>1, Signed32Type, SMT
<1>2. scaled \in Int32 /\ gen_scaled_pre(shifted, mul) = scaled
  BY <1>1, HighMulType, GenHighMul, SMT
<1>3. gen_scaled(scaled, right) = acc /\ acc \in Int32
  BY <1>2, GenDivides, DivideByPOTType, SMT
<1>4. out \in Int32
  <2>1. acc + offset \in Int
    BY <1>3, SMT DEF Int32
  <2> QED
    BY <2>1, Signed32Type, SMT
<1>5. gen_data_out(sum, mul, left, right, offset, min, max)
        = IF out < min THEN min ELSE IF out > max THEN max ELSE out
  BY <1>2, <1>3, SMT DEF gen_data_out
<1>6. quantize(sum, mul, left, right, offset, min, max) = AtMost(AtLeast(out, min), max)
  BY SMT DEF quantize
<1> HIDE DEF out
<1> QED
  BY <1>4, <1>5, <1>6, SMT DEF AtLeast, AtMost, Int32

\* mnv2_first: the same, but for the product of INT32_MIN with itself.
THEOREM Mnv2Quantizes ==
  ASSUME NEW sum \in Int, NEW mul \in Int32, NEW left \in PowersOfTwo,
         NEW right \in PowersOfTwo, NEW offset \in Int32, NEW min \in Int32,
         NEW max \in Int32, min <= max, mul # INT32_MIN
  PROVE  mnv2_result(sum, mul, left, right, offset, min, max)
           = quantize(sum, mul, left, right, offset, min, max)
<1> DEFINE shifted == Signed32(sum * left)
           scaled == HighMul(shifted, mul)
           acc == IF right > 1 THEN DivideByPOT(scaled, right) ELSE scaled
           out == Signed32(acc + offset)
<1>1. shifted \in Int32
  <2>1. sum * left \in Int
    BY SMT DEF PowersOfTwo
  <2> QED
    BY <2>1, Signed32Type, SMT
<1>2. scaled \in Int32 /\ mnv2_srdhm(shifted, mul) = scaled
  BY <1>1, HighMulType, Mnv2HighMul, SMT
<1>3. Signed32(mnv2_rounding_divide_by_pot(scaled, right)) = acc /\ acc \in Int32
  BY <1>2, Mnv2Divides, DivideByPOTType, SMT
<1>4. out \in Int32
  <2>1. acc + offset \in Int
    BY <1>3, SMT DEF Int32
  <2> QED
    BY <2>1, Signed32Type, SMT
<1>5. mnv2_result(sum, mul, left, right, offset, min, max)
        = IF out < min THEN min ELSE IF out > max THEN max ELSE out
  BY <1>2, <1>3, SMT DEF mnv2_result
<1>6. quantize(sum, mul, left, right, offset, min, max) = AtMost(AtLeast(out, min), max)
  BY SMT DEF quantize
<1> HIDE DEF out
<1> QED
  BY <1>4, <1>5, <1>6, SMT DEF AtLeast, AtMost, Int32

\* hps_accel reaches a threshold that is one higher than the one C exceeds.
LEMMA HpsDivides ==
  ASSUME NEW x \in Int32, NEW pot \in hps_shifts
  PROVE  hps_rdbpot(x, pot) = DivideByPOT(x, pot)
<1>1. pot \in PowersOfTwo /\ pot > 1
  BY SMT DEF hps_shifts, PowersOfTwo
<1>2. pot \div 2 = (pot - 1) \div 2 + 1
  BY SMT DEF hps_shifts
<1>3. (x % pot >= pot \div 2 + (IF x < 0 THEN 1 ELSE 0))
        <=> (x % pot > (pot - 1) \div 2 + (IF x < 0 THEN 1 ELSE 0))
  <2>1. x % pot \in Int /\ (pot - 1) \div 2 \in Int
    BY <1>1, SMT DEF Int32, hps_shifts
  <2> QED
    BY <1>2, <2>1, SMT
<1>4. hps_rdbpot(x, pot) = Signed32(DivideByPOT(x, pot))
  BY <1>3, SMT DEF hps_rdbpot, DivideByPOT
<1> QED
  BY <1>1, <1>4, DivideByPOTType, Fits32, SMT

\* The sums and multipliers SRDHM was tested for leave 16 bits after the division.
LEMMA HpsFits16 ==
  ASSUME NEW sum \in Int, -131072 <= sum, sum <= 131072,
         NEW mul \in Int, 0 <= mul, mul <= 1879048192, NEW pot \in hps_shifts
  PROVE  /\ DivideByPOT(HighMul(sum, mul), pot) \in Int
         /\ -28673 <= DivideByPOT(HighMul(sum, mul), pot)
         /\ DivideByPOT(HighMul(sum, mul), pot) <= 28673
<1> DEFINE p == sum * mul
           h == RoundedHigh(p)
<1>1. sum \in Int32 /\ mul \in Int32 /\ mul # INT32_MIN
  BY SMT DEF Int32, INT32_MIN
<1>2. HighMul(sum, mul) = h
  BY <1>1, HighMulRounds, SMT
<1>3. p \in Int /\ -(131072 * 1879048192) <= p /\ p <= 131072 * 1879048192
  BY ProductBounds, SMT
<1>4. h \in Int /\ -114688 <= h /\ h <= 114688
  <2> HIDE DEF p
  <2> QED
    BY <1>3, SMT DEF RoundedHigh
<1>5. h \div pot \in Int /\ -28672 <= h \div pot /\ h \div pot <= 28672
  <2> HIDE DEF h
  <2> QED
    BY <1>4, SMTT(30) DEF hps_shifts
<1> HIDE DEF h
<1>6. DivideByPOT(h, pot) = h \div pot \/ DivideByPOT(h, pot) = h \div pot + 1
  BY <1>5, SMT DEF DivideByPOT
<1> QED
  BY <1>2, <1>5, <1>6, SMT

\* hps_accel: as in C for the sums, multipliers and shifts its stages are made for
\* ("Only tested for 'a' in the range +/- (64 * 16 * 128) ... 'b' in the range
\* 0x4000_0000 to 0x7000_0000", and Cases of the shift for 2 to 12).
THEOREM HpsQuantizes ==
  ASSUME NEW sum \in Int, -131072 <= sum, sum <= 131072,
         NEW mul \in Int, 1073741824 <= mul, mul <= 1879048192,
         NEW right \in hps_shifts, NEW offset \in Int, -256 <= offset, offset <= 255,
         NEW min \in Int, -128 <= min, NEW max \in Int, max <= 127, min <= max
  PROVE  hps_output(sum, mul, right, offset, min, max)
           = quantize(sum, mul, 1, right, offset, min, max)
<1> DEFINE scaled == HighMul(sum, mul)
           acc == DivideByPOT(scaled, right)
<1>1. sum \in Int32 /\ sum # INT32_MIN /\ mul \in Int32 /\ mul >= 0 /\ sum * 1 = sum
        /\ right > 1
  BY SMT DEF Int32, INT32_MIN, hps_shifts
<1>2. hps_srdhm(sum, mul) = scaled /\ scaled \in Int32
  BY <1>1, HpsHighMul, HighMulType, SMT
<1>3. hps_rdbpot(scaled, right) = acc
  BY <1>2, HpsDivides, SMT
<1>4. acc \in Int /\ -28673 <= acc /\ acc <= 28673
  BY HpsFits16, SMT
<1>5. hps_output(sum, mul, right, offset, min, max) = hps_saturate(acc, offset, min, max)
  BY <1>2, <1>3, SMT DEF hps_output
<1>6. quantize(sum, mul, 1, right, offset, min, max)
        = AtMost(AtLeast(Signed32(acc + offset), min), max)
  BY <1>1, Fits32, SMT DEF quantize
<1> HIDE DEF acc
<1>7. Signed16(acc) = acc
  BY <1>4, SMT DEF Signed16
<1>8. acc + offset \in Int32
  BY <1>4, SMT DEF Int32
<1> QED
  BY <1>4, <1>5, <1>6, <1>7, <1>8, Fits32, SMT DEF hps_saturate, AtLeast, AtMost

\* Beyond them it does not: the last stage is documented with "input:
\* Endpoint(signed(32))" and built with signed(16), so that a large positive
\* result comes out as the least value instead of the greatest.
THEOREM HpsWraps ==
  ASSUME NEW x \in Int, 33024 <= x, x <= 65000,
         NEW offset \in Int, -256 <= offset, offset <= 255,
         NEW min \in Int, -128 <= min, NEW max \in Int, max <= 127, min < max
  PROVE  /\ hps_saturate(x, offset, min, max) = min
         /\ AtMost(AtLeast(Signed32(x + offset), min), max) = max
<1>1. Signed16(x) = x - 65536
  BY SMT DEF Signed16
<1>2. Signed32(x + offset) = x + offset
  <2>1. x + offset \in Int32
    BY SMT DEF Int32
  <2> QED
    BY <2>1, Fits32, SMT
<1> QED
  BY <1>1, <1>2, SMT DEF hps_saturate, AtLeast, AtMost
=============================================================================
