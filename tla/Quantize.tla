------------------------------ MODULE Quantize ------------------------------
(***************************************************************************)
(* How an accumulated sum becomes an output value, four times over: as C   *)
(* code (TFLite's MultiplyByQuantizedMultiplier as accel_imgc's quantize   *)
(* spells it out), and as the gateware of the gen_* accelerators, of       *)
(* mnv2_first and of hps_accel gen2.  All of them compute with words of 32 *)
(* and 64 bits, and each rounds in a way of its own.                       *)
(*                                                                         *)
(* An integer is what the bits mean with their sign; a shift is given by   *)
(* the power of two it multiplies or divides by, so that x >> n is         *)
(* x \div 2^n and x & (2^n - 1) is x % 2^n.  A shift to the left or a sum  *)
(* of C's that exceeds 32 bits wraps around, as in the builds of it.       *)
(***************************************************************************)
EXTENDS Integers

Int32 == {x \in Int : -2147483648 <= x /\ x <= 2147483647}

INT32_MIN == -2147483648
INT32_MAX == 2147483647

\* Assignment to a signed register of 32 or of 16 bits.
Signed32(x) == ((x + 2147483648) % 4294967296) - 2147483648
Signed16(x) == ((x + 32768) % 65536) - 32768

PowersOfTwo ==
  {1, 2, 4, 8, 16, 32, 64, 128, 256, 512, 1024, 2048, 4096, 8192, 16384, 32768, 65536,
   131072, 262144, 524288, 1048576, 2097152, 4194304, 8388608, 16777216, 33554432,
   67108864, 134217728, 268435456, 536870912, 1073741824, 2147483648}

-----------------------------------------------------------------------------
(* The C code.                                                             *)

\* Division in C.
Quotient(x, d) == IF x >= 0 THEN x \div d ELSE -((-x) \div d)

HighMul(a, b) ==
  LET ab    == a * b
      nudge == IF ab >= 0 THEN 1073741824 ELSE 1 - 1073741824
  IN  IF a = INT32_MIN /\ b = INT32_MIN THEN INT32_MAX
      ELSE Quotient(ab + nudge, 2147483648)

DivideByPOT(x, pot) ==
  LET mask      == pot - 1
      threshold == mask \div 2 + (IF x < 0 THEN 1 ELSE 0)
  IN  x \div pot + (IF x % pot > threshold THEN 1 ELSE 0)

AtLeast(x, min) == IF x < min THEN min ELSE x
AtMost(x, max) == IF x > max THEN max ELSE x

quantize(sum, mul, left, right, offset, min, max) ==
  LET scaled == HighMul(Signed32(sum * left), mul)
      acc    == IF right > 1 THEN DivideByPOT(scaled, right) ELSE scaled
  IN  AtMost(AtLeast(Signed32(acc + offset), min), max)

-----------------------------------------------------------------------------
(* cfu_quantizer.v: the product is rounded down, which is one too low for  *)
(* a negative product with a fraction.                                     *)

gen_scaled_pre(shifted, mul) ==
  LET reg_ab_64  == shifted * mul
      ab_rounded == reg_ab_64 + (IF reg_ab_64 >= 0 THEN 1073741824 ELSE 1 - 1073741824)
      floored    == ab_rounded \div 2147483648
      has_fractional_bits == ab_rounded % 2147483648 # 0
  IN  IF shifted = INT32_MIN /\ mul = INT32_MIN THEN INT32_MAX
      ELSE Signed32(IF ab_rounded < 0 /\ has_fractional_bits THEN floored + 1 ELSE floored)

gen_scaled(scaled_pre, pot) ==
  LET mask      == pot - 1
      threshold == mask \div 2 + (IF scaled_pre < 0 THEN 1 ELSE 0)
  IN  IF pot = 1 THEN scaled_pre
      ELSE Signed32(scaled_pre \div pot + (IF scaled_pre % pot > threshold THEN 1 ELSE 0))

gen_data_out(sum, mul, left, right, offset, min, max) ==
  LET scaled == gen_scaled(gen_scaled_pre(Signed32(sum * left), mul), right)
      with_offset == Signed32(scaled + offset)
  IN  IF with_offset < min THEN min ELSE IF with_offset > max THEN max ELSE with_offset

-----------------------------------------------------------------------------
(* mnv2_first's post_process.py: one nudge for both signs.  The signed     *)
(* operands are compared with an unsigned INT32_MIN, which they never are. *)

mnv2_srdhm(a, b) ==
  LET overflow == a = 2147483648 /\ b = 2147483648
  IN  IF overflow THEN INT32_MAX ELSE Signed32((a * b + 1073741824) \div 2147483648)

mnv2_rounding_divide_by_pot(x, pot) ==
  LET mask      == pot - 1
      threshold == mask \div 2 + (IF x < 0 THEN 1 ELSE 0)
  IN  x \div pot + (IF x % pot > threshold THEN 1 ELSE 0)

mnv2_result(sum, mul, left, right, offset, min, max) ==
  LET right_shifted ==
        Signed32(mnv2_rounding_divide_by_pot(mnv2_srdhm(Signed32(sum * left), mul), right))
      with_offset == Signed32(right_shifted + offset)
  IN  IF with_offset < min THEN min ELSE IF with_offset > max THEN max ELSE with_offset

-----------------------------------------------------------------------------
(* hps_accel's gen2 post_process.py: the product of the absolute value,    *)
(* a threshold that is reached instead of exceeded, for eleven shifts      *)
(* only, and a last stage with an input of 16 bits.                        *)

\* Its product register of 63 bits holds every product but INT32_MIN's with itself.
hps_srdhm(a, b) ==
  LET reg_a     == Signed32(IF a >= 0 THEN a ELSE -a)
      nudged    == reg_a * b + (IF a >= 0 THEN 1073741824 ELSE 1073741824 - 1)
      high_bits == Signed32(nudged \div 2147483648)
  IN  Signed32(IF a >= 0 THEN high_bits ELSE -high_bits)

hps_shifts == {4, 8, 16, 32, 64, 128, 256, 512, 1024, 2048, 4096}

hps_rdbpot(dividend, pot) ==
  LET quotient  == IF pot \in hps_shifts THEN dividend \div pot ELSE 0
      remainder == IF pot \in hps_shifts THEN dividend % pot ELSE 0
      threshold == (IF pot \in hps_shifts THEN pot \div 2 ELSE 0) + (IF dividend < 0 THEN 1 ELSE 0)
  IN  Signed32(quotient + (IF remainder >= threshold THEN 1 ELSE 0))

hps_saturate(x, offset, min, max) ==
  LET with_offset == Signed16(x) + offset
  IN  IF with_offset > max THEN max ELSE IF with_offset < min THEN min ELSE with_offset

hps_output(sum, mul, right, offset, min, max) ==
  hps_saturate(hps_rdbpot(hps_srdhm(sum, mul), right), offset, min, max)
=============================================================================
